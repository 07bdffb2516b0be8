-------------------------- MODULE SolicitedCallback --------------------------
(***************************************************************************)
(* A request from a BAP's adapter to a BPP's and the callbacks that answer *)
(* it, all under one message id: bapTxnCaller signs and stores the         *)
(* request, bppTxnReceiver validates and stores it, bppTxnCaller binds the *)
(* callback to the stored request's signature (the 4-line signing string)  *)
(* and bapTxnReceiver checks that binding against what its own side        *)
(* stored.  A signature is named after the message it was made for; two    *)
(* attempts at the same request have different ones (created, expires).    *)
(* The adapters have a Redis each or, as in the shipped compose files, one *)
(* for all: the keys do not name the adapter.                              *)
(***************************************************************************)
CONSTANTS Attempts,           \* calls of the BAP's application
          Callbacks,          \* calls of the BPPs' applications
          Bap, Providers,     \* the adapters
          NoSig               \* no request-signature

ASSUME CallbackAssumption ==
  /\ Bap \notin Providers
  /\ NoSig \notin Attempts \cup Callbacks
  /\ Attempts \cap Callbacks = {}

VARIABLES cfg,    \* step lists, protocol version and caches of this behaviour
          entry,  \* entry[n]: n's Redis under payload:onix:msg:{messageId}
          req,    \* req[a]: how far attempt a got, and its addressee
          cb      \* cb[k]: how far callback k got

callbackVars == <<cfg, entry, req, cb>>

Config == [bapStores : BOOLEAN,   \* storePayload is a step of bapTxnReceiver
           bppStores : BOOLEAN,   \* storePayload is a step of bppTxnCaller
           v2 : BOOLEAN,          \* context.version is at least 2.0.0
           shared : BOOLEAN,      \* all adapters use one Redis
           misses : BOOLEAN]      \* entries expire and lookups fail

Entry == [action : {"none", "request", "callback"},
          sig : Attempts \cup Callbacks \cup {NoSig}]
NoEntry == [action |-> "none", sig |-> NoSig]

Request == [pc : {"idle", "signed", "stored", "sent", "kept", "delivered", "nacked"},
            to : Providers \cup {Bap}]
Callback == [pc : {"idle", "called", "signed", "sent", "valid", "rejected", "delivered"},
             from : Providers \cup {Bap},
             snake : BOOLEAN,     \* its context says message_id, not messageId
             reqSig : Attempts \cup {NoSig}]

CallbackInit ==
  /\ cfg \in Config
  /\ entry = [n \in Providers \cup {Bap} |-> NoEntry]
  /\ req = [a \in Attempts |-> [pc |-> "idle", to |-> Bap]]
  /\ cb = [k \in Callbacks |->
             [pc |-> "idle", from |-> Bap, snake |-> FALSE, reqSig |-> NoSig]]

-----------------------------------------------------------------------------
(* PayloadStore under one message id *)

Redis(n) == IF cfg.shared THEN Bap ELSE n

\* persist overwrites whatever the key holds.  parseBecknCtx takes the message id
\* from message_id and from messageId.
Store(n, action, sig) ==
  entry' = [entry EXCEPT ![Redis(n)] = [action |-> action, sig |-> sig]]

\* GetByMessageID(MessageID, bareAction) for callback k.  extractMessageID only
\* knows messageId, without which the key is that of the empty id; an entry of
\* another action, a miss and a cache error are all "no entry".
GetRequestSignature(n, k) ==
  (IF entry[Redis(n)].action = "request" /\ ~cb[k].snake
   THEN {entry[Redis(n)].sig} ELSE {NoSig})
    \cup (IF cfg.misses THEN {NoSig} ELSE {})

-----------------------------------------------------------------------------
(* The request: bapTxnCaller, then bppTxnReceiver *)

SignRequest(a, p) ==
  /\ req[a].pc = "idle"
  /\ req' = [req EXCEPT ![a] = [pc |-> "signed", to |-> p]]
  /\ UNCHANGED <<cfg, entry, cb>>

StoreRequest(a) ==
  /\ req[a].pc = "signed"
  /\ Store(Bap, "request", a)
  /\ req' = [req EXCEPT ![a].pc = "stored"]
  /\ UNCHANGED <<cfg, cb>>

\* Fault: the request is forwarded while it is being stored.
SendRequestEarly(a) ==
  /\ req[a].pc \in {"signed", "stored"}
  /\ req' = [req EXCEPT ![a].pc = "sent"]
  /\ UNCHANGED <<cfg, entry, cb>>

\* Every step has succeeded: route and proxy.
SendRequest(a) ==
  /\ req[a].pc = "stored"
  /\ req' = [req EXCEPT ![a].pc = "sent"]
  /\ UNCHANGED <<cfg, entry, cb>>

\* validateSign (no request-signature: 3 lines), ..., storePayload.
KeepRequest(a) ==
  /\ req[a].pc = "sent"
  /\ Store(req[a].to, "request", a)
  /\ req' = [req EXCEPT ![a].pc = "kept"]
  /\ UNCHANGED <<cfg, cb>>

\* Fault: the application is given the request while it is being stored.
DeliverRequestEarly(a) ==
  /\ req[a].pc \in {"sent", "kept"}
  /\ req' = [req EXCEPT ![a].pc = "delivered"]
  /\ UNCHANGED <<cfg, entry, cb>>

DeliverRequest(a) ==
  /\ req[a].pc = "kept"
  /\ req' = [req EXCEPT ![a].pc = "delivered"]
  /\ UNCHANGED <<cfg, entry, cb>>

\* A step fails, or the proxy: the sender gets a NACK or a 502.
NackRequest(a) ==
  /\ req[a].pc \in {"signed", "sent", "kept"}
  /\ req' = [req EXCEPT ![a].pc = "nacked"]
  /\ UNCHANGED <<cfg, entry, cb>>

-----------------------------------------------------------------------------
(* The callback: bppTxnCaller, then bapTxnReceiver *)

\* A BPP's application answers a request it was given, or repeats an answer.
Answer(k, p) ==
  /\ cb[k].pc = "idle"
  /\ \E a \in Attempts : req[a].pc = "delivered" /\ req[a].to = p
  /\ \E s \in BOOLEAN :
       cb' = [cb EXCEPT ![k] = [pc |-> "called", from |-> p, snake |-> s, reqSig |-> NoSig]]
  /\ UNCHANGED <<cfg, entry, req>>

\* signStep: SignAck when the originating request is found, else Sign.
SignCallback(k) ==
  /\ cb[k].pc = "called"
  /\ \E s \in GetRequestSignature(cb[k].from, k) :
       cb' = [cb EXCEPT ![k] = [@ EXCEPT !.pc = "signed", !.reqSig = s]]
  /\ UNCHANGED <<cfg, entry, req>>

\* The remaining steps of bppTxnCaller, and proxy.
SendCallback(k) ==
  /\ cb[k].pc = "signed"
  /\ IF cfg.bppStores THEN Store(cb[k].from, "callback", k) ELSE UNCHANGED entry
  /\ cb' = [cb EXCEPT ![k].pc = "sent"]
  /\ UNCHANGED <<cfg, req>>

\* What validateSign verifies the signature against: the stored signature if
\* the header declares one and the message is v2.
Verifies(k, s) == cb[k].reqSig = IF cfg.v2 THEN s ELSE NoSig

\* lookupCallbackRequestSig, then ValidateAck or Validate; 401 if no entry.
ValidateCallback(k) ==
  /\ cb[k].pc = "sent"
  /\ \E s \in GetRequestSignature(Bap, k) :
       cb' = [cb EXCEPT ![k].pc =
                IF cb[k].reqSig = NoSig \/ Verifies(k, s) THEN "valid" ELSE "rejected"]
  /\ UNCHANGED <<cfg, entry, req>>

\* Fault: a callback is stored in the background, if at all.
DeliverCallbackUnstored(k) ==
  /\ cb[k].pc = "valid"
  /\ cb' = [cb EXCEPT ![k].pc = "delivered"]
  /\ UNCHANGED <<cfg, entry, req>>

\* The remaining steps of bapTxnReceiver, and proxy.
DeliverCallback(k) ==
  /\ cb[k].pc = "valid"
  /\ IF cfg.bapStores THEN Store(Bap, "callback", k) ELSE UNCHANGED entry
  /\ cb' = [cb EXCEPT ![k].pc = "delivered"]
  /\ UNCHANGED <<cfg, req>>

-----------------------------------------------------------------------------
RequestStep(a) ==
  \/ \E p \in Providers : SignRequest(a, p)
  \/ StoreRequest(a) \/ SendRequest(a) \/ KeepRequest(a)
  \/ DeliverRequest(a) \/ NackRequest(a)

CallbackStep(k) ==
  \/ \E p \in Providers : Answer(k, p)
  \/ SignCallback(k) \/ SendCallback(k) \/ ValidateCallback(k) \/ DeliverCallback(k)

CallbackNext == \/ \E a \in Attempts : RequestStep(a)
                \/ \E k \in Callbacks : CallbackStep(k)

CallbackSpec == CallbackInit /\ [][CallbackNext]_callbackVars

-----------------------------------------------------------------------------
\* The BAP's application has repeated the request that callback k answers.
Superseded(k) == \E a \in Attempts : a # cb[k].reqSig /\ req[a].pc # "idle"

\* When no callback is stored where the BAP keeps its requests, the only answer
\* it refuses is one to an attempt that was since repeated: the request is stored
\* before it is forwarded, so no answer can overtake its record.
OnlySupersededRejected ==
  cfg.v2 /\ ~cfg.bapStores /\ ~(cfg.shared /\ cfg.bppStores) /\ ~cfg.misses =>
    \A k \in Callbacks : cb[k].pc = "rejected" => Superseded(k)

\* When no callback is stored where a provider keeps its requests, every answer
\* with a messageId is bound, and to a request that this provider received if it
\* has a Redis of its own: it stores the request before its application can
\* answer.  An answer with a message_id never is, although it is stored.
AnswersBound ==
  ~cfg.bppStores /\ ~(cfg.shared /\ cfg.bapStores) /\ ~cfg.misses =>
    \A k \in Callbacks : cb[k].pc \notin {"idle", "called"} =>
      /\ cb[k].reqSig = NoSig <=> cb[k].snake
      /\ ~cfg.shared /\ ~cb[k].snake =>
           /\ req[cb[k].reqSig].to = cb[k].from
           /\ req[cb[k].reqSig].pc \in {"kept", "delivered", "nacked"}

\* Callback k is stored under the key of the BAP's request.
Overwrites(k) ==
  \/ cfg.bapStores /\ cb[k].pc = "delivered"
  \/ cfg.shared /\ cfg.bppStores /\ cb[k].pc \in {"sent", "valid", "rejected", "delivered"}

\* A bound callback is accepted only until one that answers the same request, be
\* it itself, is stored over that request: of several answers those after the
\* first stored one are refused, and with one Redis and storePayload in
\* bppTxnCaller every one is, unless the request is stored once more meanwhile.
AnsweredOnce ==
  [][\A k \in Callbacks :
       cb[k].pc = "sent" /\ cb'[k].pc = "valid" /\ cb[k].reqSig # NoSig =>
         \A j \in Callbacks : Overwrites(j) /\ cb[j].reqSig = cb[k].reqSig =>
           cfg.shared /\ Superseded(k)]_callbackVars

=============================================================================
