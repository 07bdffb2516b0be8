--------------------------- MODULE HandlerProofs ---------------------------
(***************************************************************************)
(* Proofs about the request handler: StdHandler for every list of steps a  *)
(* module may be configured with, of any length and order, and             *)
(* SolicitedCallback for every number of attempts, callbacks and           *)
(* providers.                                                              *)
(***************************************************************************)
EXTENDS StdHandler, SolicitedCallback, TLAPS


Auths == Nat \cup {NoAuth}
Bodies == {"text", "nack", "noCallback", "ack", "upstream", "badGateway"}
Sigs == {"none", "nack", "noCallback", "ack", "upstream", "peer"}

TypeOK ==
  /\ module \in Module
  /\ pc \in {"reading", "steps", "publishing", "responding", "proxying", "forwarded",
             "answered", "done"}
  /\ i \in 1 .. Len(module.steps) + 1
  /\ body \in Nat /\ reqBody \in Nat
  /\ auth \in Auths /\ stored \in Auths
  /\ route \in {"none", "url", "publisher", "other"}
  /\ internal \in BOOLEAN
  /\ sig \in Sigs
  /\ out \in [kind : {"none", "published", "forwarded"}, body : Nat, auth : Auths,
              internal : BOOLEAN]
  /\ resp \in Seq([body : Bodies, sig : Sigs])

\* Some sign step has run.
Signed == \E s \in 1 .. i - 1 : module.steps[s] = "sign"

\* Where the body transformers come before the sign steps, the Authorization header
\* signs the body as it is, and only that signature was stored.
AuthCurrent ==
  SignsLast => IF Signed THEN auth = body /\ stored \in {auth, NoAuth}
               ELSE auth = NoAuth /\ stored = NoAuth

\* Nothing is answered, and no response signed, before the end.
OneAnswer == pc \notin {"answered", "done"} => resp = <<>> /\ sig = "none"

\* A target is only chosen when all the steps are through.
RouteTaken ==
  /\ pc \in {"publishing", "responding", "proxying", "forwarded"}
       => i = Len(module.steps) + 1 /\ reqBody = body
  /\ pc = "publishing" => route = "publisher"
  /\ pc \in {"proxying", "forwarded"} => route = "url"
  /\ pc = "responding" => \/ route = "none" /\ out.kind = "none"
                          \/ route = "publisher" /\ out.kind = "published"
  /\ pc = "forwarded" => out.kind = "forwarded"

\* What left is what the steps left.
OutCurrent ==
  out.kind # "none" =>
    /\ pc \notin {"reading", "steps", "publishing", "proxying"}
    /\ i = Len(module.steps) + 1
    /\ out.body = body
    /\ out.kind = "forwarded" => out.auth = auth

HandlerInv ==
  /\ TypeOK /\ AuthCurrent /\ OneAnswer /\ RouteTaken /\ OutCurrent
  /\ SignatureCoversBody /\ AckMeansHandedOver

-----------------------------------------------------------------------------
LEMMA StepsKnown ==
  ASSUME module \in Module
  PROVE  /\ Len(module.steps) \in Nat /\ DOMAIN module.steps = 1 .. Len(module.steps)
         /\ \A s \in 1 .. Len(module.steps) : module.steps[s] \in StepKinds
  BY HandlerAssumption DEF Module

LEMMA InvInit == Init => HandlerInv
<1> SUFFICES ASSUME Init PROVE HandlerInv
  OBVIOUS
<1>1. TypeOK
  BY StepsKnown DEF Init, TypeOK, NoOut, Auths, Sigs
<1>2. ~Signed
  BY DEF Signed, Init
<1> QED BY <1>1, <1>2 DEF Init, HandlerInv, AuthCurrent, OneAnswer, RouteTaken, OutCurrent,
                          NoOut, SignatureCoversBody, AckMeansHandedOver

\* The one response: it is the first, so the properties of all responses are its own.
LEMMA FirstResponse ==
  ASSUME HandlerInv, pc \notin {"answered", "done"},
         NEW b \in Bodies, NEW s \in Sigs, Write(b, s)
  PROVE  /\ resp' \in Seq([body : Bodies, sig : Sigs])
         /\ DOMAIN resp' = {1} /\ resp'[1] = [body |-> b, sig |-> s]
  BY DEF HandlerInv, OneAnswer, Write

\* A NACK, or an ACK without a callback, is unsigned or signed over its own body.
LEMMA NackStep ==
  ASSUME HandlerInv, pc \notin {"answered", "done"},
         NEW b \in {"nack", "noCallback"}, Nack(b)
  PROVE  /\ sig' \in Sigs /\ resp' \in Seq([body : Bodies, sig : Sigs])
         /\ DOMAIN resp' = {1} /\ resp'[1].body = b
         /\ pc' = "answered" /\ SignatureCoversBody'
<1>1. sig' \in {"none", b}
  BY DEF Nack, SignNack, HandlerInv, OneAnswer
<1> QED BY <1>1, FirstResponse DEF Nack, SignatureCoversBody, Sigs, Bodies

-----------------------------------------------------------------------------
(* The steps of the pipeline *)

\* A step that transforms comes before every sign step, a sign step signs the body
\* as it is, and storePayload keeps the signature as it is.
LEMMA AuthStep ==
  ASSUME HandlerInv, StepRuns
  PROVE  AuthCurrent'
<1> USE DEF HandlerInv, StepRuns, TypeOK
<1> DEFINE kind == module.steps[i]
<1>0. /\ i \in DOMAIN module.steps /\ i' = i + 1 /\ module' = module
      /\ Len(module.steps) \in Nat /\ DOMAIN module.steps = 1 .. Len(module.steps)
  BY StepsKnown
<1>1. Signed' <=> Signed \/ kind = "sign"
  BY <1>0 DEF Signed
<1> SUFFICES ASSUME SignsLast PROVE AuthCurrent'
  BY <1>0 DEF AuthCurrent, SignsLast
<1>2. CASE kind = "sign"
  BY <1>1, <1>2 DEF AuthCurrent, Run
<1>3. CASE kind = "transform"
  <2>0. \A s \in DOMAIN module.steps : module.steps[s] = "sign" => i < s
    BY <1>0, <1>3 DEF SignsLast
  <2>1. ~Signed
    BY <1>0, <2>0 DEF Signed
  <2> QED BY <1>1, <1>3, <2>1 DEF AuthCurrent, Run
<1>4. CASE kind \notin {"sign", "transform"}
  BY <1>1, <1>4 DEF AuthCurrent, Run
<1> QED BY <1>2, <1>3, <1>4

LEMMA StepRunsInv ==
  ASSUME HandlerInv, StepRuns
  PROVE  HandlerInv'
<1> USE DEF HandlerInv, StepRuns
<1>1. TypeOK'
  BY StepsKnown DEF TypeOK, Run, Auths
<1>2. OneAnswer' /\ RouteTaken' /\ OutCurrent'
  BY DEF OneAnswer, RouteTaken, OutCurrent
<1>3. SignatureCoversBody' /\ AckMeansHandedOver'
  BY DEF OneAnswer, SignatureCoversBody, AckMeansHandedOver
<1> QED BY <1>1, <1>2, <1>3, AuthStep

\* Steps that leave the pipeline's own state alone.
LEMMA AuthKept ==
  ASSUME HandlerInv, UNCHANGED <<module, i, body, auth, stored>>
  PROVE  AuthCurrent'
  BY DEF HandlerInv, AuthCurrent, SignsLast, Signed

LEMMA RouteInv ==
  ASSUME HandlerInv, Route
  PROVE  HandlerInv'
<1> USE DEF HandlerInv, Route
<1>1. i = Len(module.steps) + 1
  BY StepsKnown DEF TypeOK
<1>2. CASE Target = "unroutable"
  <2>1. TypeOK'
    BY <1>2, NackStep DEF TypeOK
  <2>2. OneAnswer' /\ RouteTaken' /\ OutCurrent'
    BY <1>2, NackStep DEF OneAnswer, RouteTaken, OutCurrent
  <2>3. SignatureCoversBody' /\ AckMeansHandedOver'
    BY <1>2, NackStep DEF AckMeansHandedOver
  <2> QED BY <2>1, <2>2, <2>3, AuthKept
<1>3. CASE Target # "unroutable"
  <2>1. /\ pc' \in {"responding", "proxying", "publishing"}
        /\ pc' = "responding" => route = "none"
        /\ pc' = "proxying" => route = "url"
        /\ pc' = "publishing" => route = "publisher"
    BY <1>3 DEF Target
  <2>2. TypeOK'
    BY <1>3, <2>1 DEF TypeOK
  <2>3. OneAnswer' /\ RouteTaken' /\ OutCurrent'
    BY <1>1, <1>3, <2>1 DEF OneAnswer, RouteTaken, OutCurrent
  <2>4. SignatureCoversBody' /\ AckMeansHandedOver'
    BY <1>3 DEF OneAnswer, SignatureCoversBody, AckMeansHandedOver
  <2> QED BY <2>2, <2>3, <2>4, AuthKept
<1> QED BY <1>2, <1>3

-----------------------------------------------------------------------------
(* Hand-over *)

LEMMA HandOverInv ==
  ASSUME HandlerInv, ReadBody \/ Publish \/ Forward
  PROVE  HandlerInv'
<1> USE DEF HandlerInv, message
<1>1. /\ UNCHANGED <<module, i, body, reqBody, auth, route, stored, internal, sig, resp>>
      /\ pc \notin {"answered", "done"}
  BY DEF ReadBody, Publish, Forward
<1>2. CASE ReadBody
  BY <1>2 DEF ReadBody, TypeOK, OneAnswer, RouteTaken, OutCurrent, AuthCurrent,
     SignsLast, Signed, SignatureCoversBody, AckMeansHandedOver
<1>3. SignatureCoversBody' /\ AckMeansHandedOver'
  BY <1>1 DEF OneAnswer, SignatureCoversBody, AckMeansHandedOver
<1>4. CASE Publish
  <2>1. /\ out' = [kind |-> "published", body |-> body, auth |-> NoAuth, internal |-> FALSE]
        /\ pc = "publishing" /\ pc' = "responding"
    BY <1>4 DEF Publish, NoOut
  <2>2. TypeOK'
    BY <1>1, <2>1 DEF TypeOK, Auths
  <2>3. OneAnswer' /\ RouteTaken' /\ OutCurrent'
    BY <1>1, <2>1 DEF OneAnswer, RouteTaken, OutCurrent
  <2> QED BY <1>1, <1>3, <2>2, <2>3, AuthKept
<1>5. CASE Forward
  <2>1. /\ out' = [kind |-> "forwarded", body |-> reqBody, auth |-> auth,
                   internal |-> internal]
        /\ pc = "proxying" /\ pc' = "forwarded"
    BY <1>5 DEF Forward
  <2>2. TypeOK'
    BY <1>1, <2>1 DEF TypeOK
  <2>3. OneAnswer' /\ RouteTaken' /\ OutCurrent'
    BY <1>1, <2>1 DEF OneAnswer, RouteTaken, OutCurrent
  <2> QED BY <1>1, <1>3, <2>2, <2>3, AuthKept
<1> QED BY <1>2, <1>4, <1>5

\* The steps that end with a NACK.
LEMMA NacksInv ==
  ASSUME HandlerInv, StepFails \/ PublishFails \/ RespondFails
  PROVE  HandlerInv'
<1> USE DEF HandlerInv, StepFails, PublishFails, RespondFails, message
<1>0. PICK b \in {"nack", "noCallback"} :
        /\ Nack(b) /\ pc \notin {"answered", "done"} /\ UNCHANGED message
        /\ b = "noCallback" => module.v2 /\ pc = "steps" /\ out' = out
  BY DEF NackBodies
<1>1. \/ out' = out
      \/ pc = "publishing" /\ out' = [NoOut EXCEPT !.kind = "published", !.body = body]
  OBVIOUS
<1>2. TypeOK'
  BY <1>0, <1>1, NackStep DEF TypeOK, NoOut, Auths
<1>3. OneAnswer' /\ RouteTaken'
  BY <1>0, NackStep DEF OneAnswer, RouteTaken
<1>4. OutCurrent'
  BY <1>0, <1>1, NackStep DEF OutCurrent, RouteTaken, NoOut
<1>5. SignatureCoversBody' /\ AckMeansHandedOver'
  BY <1>0, NackStep DEF AckMeansHandedOver, OutCurrent
<1> QED BY <1>0, <1>2, <1>3, <1>4, <1>5, AuthKept

\* The other answers: the properties of the response are those of its kind.
LEMMA AnswersInv ==
  ASSUME HandlerInv, ReadBodyFails \/ Respond \/ UpstreamAnswers \/ ProxyFails
  PROVE  HandlerInv'
<1> USE DEF HandlerInv, ReadBodyFails, Respond, UpstreamAnswers, ProxyFails, message
<1>0. /\ pc \notin {"answered", "done"} /\ pc' = "answered" /\ UNCHANGED <<message, out>>
      /\ sig' \in {"none", "ack"}
  BY DEF OneAnswer
<1>1. PICK b \in Bodies, s \in Sigs :
        /\ Write(b, s)
        /\ s \in {"none", b} \/ (s = "peer" /\ b = "upstream")
        /\ b # "noCallback" /\ (b = "ack" => pc = "responding")
        /\ b = "upstream" => pc = "forwarded"
        /\ b \in {"ack", "upstream"} /\ module.signAck /\ module.v2 => s = b
  <2>1. CASE ReadBodyFails \/ ProxyFails
    BY <2>1 DEF OneAnswer, Bodies, Sigs
  <2>2. CASE Respond
    BY <2>2 DEF OneAnswer, Bodies, Sigs, SignsResponses
  <2>3. CASE UpstreamAnswers
    BY <2>3 DEF Bodies, Sigs, SignsResponses
  <2> QED BY <2>1, <2>2, <2>3
<1>2. /\ resp' \in Seq([body : Bodies, sig : Sigs])
      /\ DOMAIN resp' = {1} /\ resp'[1] = [body |-> b, sig |-> s]
  BY <1>0, <1>1, FirstResponse
<1>3. TypeOK'
  BY <1>0, <1>2 DEF TypeOK, Sigs
<1>4. OneAnswer' /\ RouteTaken' /\ OutCurrent'
  BY <1>0 DEF OneAnswer, RouteTaken, OutCurrent
<1>5. SignatureCoversBody'
  BY <1>1, <1>2 DEF SignatureCoversBody
<1>6. AckMeansHandedOver'
  BY <1>0, <1>1, <1>2 DEF AckMeansHandedOver, RouteTaken
<1> QED BY <1>0, <1>3, <1>4, <1>5, <1>6, AuthKept

-----------------------------------------------------------------------------
(* Theorems *)

\* The invariant of a request's way through ServeHTTP.
THEOREM HandlerInvariant == Spec => []HandlerInv
<1>1. HandlerInv /\ [Next]_vars => HandlerInv'
  <2> SUFFICES ASSUME HandlerInv, [Next]_vars PROVE HandlerInv'
    OBVIOUS
  <2>1. CASE Return
    BY <2>1, AuthKept DEF Return, HandlerInv, TypeOK, OneAnswer, RouteTaken, OutCurrent,
       SignatureCoversBody, AckMeansHandedOver
  <2>2. CASE UNCHANGED vars
    BY <2>2, AuthKept DEF vars, HandlerInv, TypeOK, OneAnswer, RouteTaken, OutCurrent,
       SignatureCoversBody, AckMeansHandedOver
  <2> QED BY <2>1, <2>2, StepRunsInv, RouteInv, HandOverInv, NacksInv, AnswersInv DEF Next
<1> QED BY InvInit, <1>1, PTL DEF Spec

\* A message leaves only when every step succeeded, as the steps left it, under the
\* signature made over it, which is the one that was stored.
THEOREM LeftAsProcessed == Spec => []LeavesAsProcessed
<1>1. HandlerInv => LeavesAsProcessed
  <2> SUFFICES ASSUME HandlerInv, out.kind # "none"
               PROVE  LeavesAsProcessed
    BY DEF LeavesAsProcessed
  <2>1. i = Len(module.steps) + 1 /\ out.body = body
        /\ (out.kind = "forwarded" => out.auth = auth)
    BY DEF HandlerInv, OutCurrent
  <2>2. SignsLast => Signed
    BY <2>1, StepsKnown DEF SignsLast, Signed, HandlerInv, TypeOK
  <2> QED BY <2>1, <2>2 DEF HandlerInv, AuthCurrent, LeavesAsProcessed
<1> QED BY HandlerInvariant, <1>1, PTL

\* Every Signature header covers the body it is sent with.
THEOREM ResponsesSigned == Spec => []SignatureCoversBody
<1>1. HandlerInv => SignatureCoversBody
  BY DEF HandlerInv
<1> QED BY HandlerInvariant, <1>1, PTL

\* A plain ACK is given only for a message that was handed over, with the signature
\* the module is configured to give, and the ACK of a step that announces no callback
\* only to a v2 sender whose message went nowhere.
THEOREM AcksEarned == Spec => []AckMeansHandedOver
<1>1. HandlerInv => AckMeansHandedOver
  BY DEF HandlerInv
<1> QED BY HandlerInvariant, <1>1, PTL

-----------------------------------------------------------------------------
(* SolicitedCallback *)


Adapters == Providers \cup {Bap}

CallbackTypeOK ==
  /\ cfg \in Config
  /\ entry \in [Adapters -> Entry]
  /\ req \in [Attempts -> Request]
  /\ cb \in [Callbacks -> Callback]

\* Requests go to providers and callbacks come from them.
Addressed ==
  /\ \A a \in Attempts : req[a].pc # "idle" => req[a].to \in Providers
  /\ \A k \in Callbacks : cb[k].pc # "idle" => cb[k].from \in Providers

\* Attempt a was received by its addressee.
Received(a) == req[a].pc \in {"kept", "delivered", "nacked"}

\* What an adapter has stored as a request is one: in a provider's own Redis a request
\* it was sent, in the BAP's one it signed.
EntriesGenuine ==
  /\ \A p \in Providers : entry[p].action = "request" =>
       /\ entry[p].sig \in Attempts
       /\ req[entry[p].sig].to = p /\ Received(entry[p].sig)
  /\ entry[Bap].action = "request" =>
       entry[Bap].sig \in Attempts /\ req[entry[Bap].sig].pc # "idle"

\* A request-signature is that of a request, and of one the callback's provider was
\* sent if it has a Redis of its own.
CallbacksGenuine ==
  \A k \in Callbacks : cb[k].reqSig # NoSig =>
    /\ cb[k].pc \notin {"idle", "called"} /\ ~cb[k].snake
    /\ cb[k].reqSig \in Attempts /\ req[cb[k].reqSig].pc # "idle"
    /\ ~cfg.shared => req[cb[k].reqSig].to = cb[k].from /\ Received(cb[k].reqSig)

\* An application that answers was given a request.
DeliveredFirst ==
  \A k \in Callbacks : cb[k].pc # "idle" => \E a \in Attempts : req[a].pc = "delivered"

\* A request that a callback was stored over is not on record again.
StaysOverwritten ==
  \A j \in Callbacks : Overwrites(j) /\ cb[j].reqSig # NoSig =>
    \/ cfg.shared /\ Superseded(j)
    \/ entry[Bap].action # "request"
    \/ entry[Bap].sig # cb[j].reqSig

\* Until the BAP stored a request, none has left it and no callback is bound.
StoredFirst ==
  entry[Bap].action = "none" =>
    /\ \A a \in Attempts : req[a].pc \in {"idle", "signed", "nacked"}
    /\ \A p \in Providers : entry[p].action # "request"
    /\ \A k \in Callbacks : cb[k].reqSig = NoSig

\* Where no callback is stored in the BAP's Redis, its entry stays a request.
RequestStays ==
  ~cfg.bapStores /\ ~(cfg.shared /\ cfg.bppStores) => entry[Bap].action # "callback"

\* Where no callback is stored in a provider's Redis, a provider whose application
\* knows of a request has one stored.
KeptFirst ==
  ~cfg.bppStores /\ ~(cfg.shared /\ cfg.bapStores) =>
    /\ \A a \in Attempts : req[a].pc \in {"kept", "delivered"} =>
         entry[Redis(req[a].to)].action = "request"
    /\ \A k \in Callbacks : cb[k].pc # "idle" => entry[Redis(cb[k].from)].action = "request"

CallbackInv ==
  /\ CallbackTypeOK /\ Addressed /\ EntriesGenuine /\ CallbacksGenuine
  /\ DeliveredFirst /\ StaysOverwritten /\ StoredFirst /\ RequestStays /\ KeptFirst
  /\ OnlySupersededRejected /\ AnswersBound

-----------------------------------------------------------------------------
LEMMA CallbackInvInit == CallbackInit => CallbackInv
  BY CallbackAssumption
  DEF CallbackInit, CallbackInv, CallbackTypeOK, Adapters, Entry, NoEntry, Request, Callback, Addressed,
      EntriesGenuine, CallbacksGenuine, DeliveredFirst, StaysOverwritten, StoredFirst, RequestStays,
      KeptFirst, OnlySupersededRejected, AnswersBound, Superseded

\* A request that was stored over, and not repeated, was delivered.
LEMMA OverwrittenDelivered ==
  ASSUME CallbackInv, NEW j \in Callbacks, Overwrites(j), cb[j].reqSig # NoSig,
         cfg.shared => ~Superseded(j)
  PROVE  cb[j].reqSig \in Attempts /\ Received(cb[j].reqSig)
<1>1. cb[j].pc # "idle" /\ cb[j].reqSig \in Attempts
  BY DEF Overwrites, CallbackInv, CallbacksGenuine
<1>2. CASE ~cfg.shared
  BY <1>1, <1>2 DEF CallbackInv, CallbacksGenuine
<1>3. CASE cfg.shared
  <2>1. PICK a \in Attempts : req[a].pc = "delivered"
    BY <1>1 DEF CallbackInv, DeliveredFirst
  <2> QED BY <1>1, <1>3, <2>1 DEF Superseded, Received
<1> QED BY <1>2, <1>3

\* The steps that only move an attempt on, away from the states before it is stored.
LEMMA AttemptMoves ==
  ASSUME CallbackInv, NEW a \in Attempts,
         SendRequest(a) \/ DeliverRequest(a) \/ NackRequest(a)
  PROVE  CallbackInv'
<1> USE CallbackAssumption DEF CallbackInv, SendRequest, DeliverRequest, NackRequest
<1>1. /\ req' = [req EXCEPT ![a].pc = req'[a].pc] /\ UNCHANGED <<cfg, entry, cb>>
      /\ req[a].pc # "idle" /\ req'[a].pc \in {"sent", "delivered", "nacked"}
      /\ req[a].pc # "delivered"
      /\ req'[a].to = req[a].to
      /\ \A b \in Attempts : b # a => req'[b] = req[b]
  BY DEF CallbackTypeOK, Request
<1>2. CallbackTypeOK' /\ Addressed'
  BY <1>1 DEF CallbackTypeOK, Adapters, Addressed, Request
<1>3. Received(a) => Received(a)'
  BY <1>1 DEF Received, CallbackTypeOK, Request
<1>4. EntriesGenuine' /\ CallbacksGenuine'
  BY <1>1, <1>3 DEF EntriesGenuine, CallbacksGenuine, Received
<1>5. StoredFirst' /\ RequestStays'
  BY <1>1 DEF StoredFirst, RequestStays, CallbackTypeOK, Request
<1>6. KeptFirst'
  BY <1>1 DEF KeptFirst, Redis, CallbackTypeOK, Request
<1>7. DeliveredFirst'
  BY <1>1 DEF DeliveredFirst
<1>8. \A j \in Callbacks : Superseded(j) => Superseded(j)'
  BY <1>1 DEF Superseded
<1>9. StaysOverwritten'
  BY <1>1, <1>8 DEF StaysOverwritten, Overwrites
<1>10. OnlySupersededRejected'
  BY <1>1, <1>8 DEF OnlySupersededRejected
<1>11. AnswersBound'
  <2> SUFFICES ASSUME ~cfg.bppStores, ~(cfg.shared /\ cfg.bapStores), ~cfg.misses,
                      NEW k \in Callbacks, cb[k].pc \notin {"idle", "called"}
               PROVE  /\ cb[k].reqSig = NoSig <=> cb[k].snake
                      /\ ~cfg.shared /\ ~cb[k].snake =>
                           req'[cb[k].reqSig].to = cb[k].from /\ Received(cb[k].reqSig)'
    BY <1>1 DEF AnswersBound, Received
  <2>1. cb[k].reqSig = NoSig <=> cb[k].snake
    BY DEF AnswersBound
  <2> QED BY <1>1, <1>3, <2>1 DEF CallbacksGenuine, Received
<1> QED BY <1>2, <1>4, <1>5, <1>6, <1>7, <1>9, <1>10, <1>11

LEMMA AttemptSigned ==
  ASSUME CallbackInv, NEW a \in Attempts, NEW p \in Providers, SignRequest(a, p)
  PROVE  CallbackInv'
<1> USE CallbackAssumption DEF CallbackInv, SignRequest
<1>1. /\ ~Received(a) /\ req'[a] = [pc |-> "signed", to |-> p] /\ UNCHANGED <<cfg, entry, cb>>
      /\ \A b \in Attempts : b # a => req'[b] = req[b]
      /\ req[a].pc = "idle"
  BY DEF Received, CallbackTypeOK
<1>2. CallbackTypeOK' /\ Addressed'
  BY DEF CallbackTypeOK, Adapters, Addressed, Request
<1>3. EntriesGenuine' /\ CallbacksGenuine'
  BY <1>1 DEF EntriesGenuine, CallbacksGenuine, Received
<1>4. StoredFirst' /\ RequestStays' /\ KeptFirst'
  BY <1>1 DEF StoredFirst, RequestStays, KeptFirst, Redis
<1>5. DeliveredFirst'
  BY <1>1 DEF DeliveredFirst
<1>6. \A j \in Callbacks : Superseded(j) => Superseded(j)'
  BY <1>1 DEF Superseded
<1>7. StaysOverwritten' /\ OnlySupersededRejected'
  BY <1>1, <1>6 DEF StaysOverwritten, Overwrites, OnlySupersededRejected
<1>8. AnswersBound'
  BY <1>1 DEF AnswersBound, CallbacksGenuine
<1> QED BY <1>2, <1>3, <1>4, <1>5, <1>7, <1>8

LEMMA AttemptStored ==
  ASSUME CallbackInv, NEW a \in Attempts, StoreRequest(a)
  PROVE  CallbackInv'
<1> USE CallbackAssumption DEF CallbackInv, StoreRequest, Store
<1>1. /\ ~Received(a) /\ req'[a].to = req[a].to /\ req'[a].pc = "stored" /\ req[a].pc = "signed"
      /\ UNCHANGED <<cfg, cb>> /\ \A b \in Attempts : b # a => req'[b] = req[b]
  BY DEF Received, CallbackTypeOK, Request
<1>2. entry'[Bap] = [action |-> "request", sig |-> a]
      /\ \A p \in Providers : entry'[p] = entry[p]
  BY DEF CallbackTypeOK, Adapters, Redis
<1>3. CallbackTypeOK' /\ Addressed'
  BY DEF CallbackTypeOK, Adapters, Addressed, Request, Entry, Redis
<1>4. EntriesGenuine' /\ CallbacksGenuine'
  BY <1>1, <1>2 DEF EntriesGenuine, CallbacksGenuine, Received, CallbackTypeOK
<1>5. StoredFirst' /\ RequestStays'
  BY <1>2 DEF StoredFirst, RequestStays
<1>6. KeptFirst'
  BY <1>1, <1>2 DEF KeptFirst, Addressed, Redis
<1>7. DeliveredFirst'
  BY <1>1 DEF DeliveredFirst
<1>8. \A j \in Callbacks : Superseded(j) => Superseded(j)'
  BY <1>1 DEF Superseded
<1>9. StaysOverwritten'
  <2> SUFFICES ASSUME NEW j \in Callbacks, Overwrites(j), cb[j].reqSig # NoSig,
                      ~(cfg.shared /\ Superseded(j)')
               PROVE  cb[j].reqSig # a
    BY <1>1, <1>2 DEF StaysOverwritten, Overwrites
  <2> QED BY <1>1, <1>8, OverwrittenDelivered
<1>10. OnlySupersededRejected' /\ AnswersBound'
  BY <1>1, <1>8 DEF OnlySupersededRejected, AnswersBound, CallbacksGenuine
<1> QED BY <1>3, <1>4, <1>5, <1>6, <1>7, <1>9, <1>10

LEMMA AttemptKept ==
  ASSUME CallbackInv, NEW a \in Attempts, KeepRequest(a)
  PROVE  CallbackInv'
<1> USE CallbackAssumption DEF CallbackInv, KeepRequest, Store
<1>1. /\ req[a].to \in Providers /\ req'[a].to = req[a].to /\ req'[a].pc = "kept"
      /\ req[a].pc = "sent" /\ \A b \in Attempts : b # a => req'[b] = req[b]
      /\ UNCHANGED <<cfg, cb>> /\ ~Received(a)
  BY DEF CallbackTypeOK, Request, Addressed, Received
<1>2. /\ entry'[Redis(req[a].to)] = [action |-> "request", sig |-> a]
      /\ \A n \in Adapters : n # Redis(req[a].to) => entry'[n] = entry[n]
      /\ Redis(req[a].to) = IF cfg.shared THEN Bap ELSE req[a].to
  BY <1>1 DEF CallbackTypeOK, Adapters, Redis
<1>3. CallbackTypeOK' /\ Addressed'
  BY <1>1 DEF CallbackTypeOK, Adapters, Addressed, Request, Entry, Redis
<1>4. EntriesGenuine' /\ CallbacksGenuine'
  BY <1>1, <1>2 DEF EntriesGenuine, CallbacksGenuine, Received, Adapters
<1>5. StoredFirst' /\ RequestStays'
  BY <1>1, <1>2 DEF StoredFirst, RequestStays, Adapters
<1>6. KeptFirst'
  BY <1>1, <1>2 DEF KeptFirst, Addressed, Adapters, Redis
<1>7. DeliveredFirst'
  BY <1>1 DEF DeliveredFirst
<1>8. \A j \in Callbacks : Superseded(j) => Superseded(j)'
  BY <1>1 DEF Superseded
<1>9. StaysOverwritten'
  <2> SUFFICES ASSUME NEW j \in Callbacks, Overwrites(j), cb[j].reqSig # NoSig,
                      ~(cfg.shared /\ Superseded(j)')
               PROVE  entry'[Bap].action # "request" \/ entry'[Bap].sig # cb[j].reqSig
    BY <1>1 DEF StaysOverwritten, Overwrites
  <2>1. cb[j].reqSig # a
    BY <1>1, <1>8, OverwrittenDelivered
  <2> QED BY <1>1, <1>2, <1>8, <2>1 DEF StaysOverwritten, Adapters
<1>10. OnlySupersededRejected'
  BY <1>1, <1>8 DEF OnlySupersededRejected
<1>11. AnswersBound'
  BY <1>1 DEF AnswersBound, CallbacksGenuine, Received
<1> QED BY <1>3, <1>4, <1>5, <1>6, <1>7, <1>9, <1>10, <1>11

-----------------------------------------------------------------------------
(* Callbacks *)

LEMMA CallbackAnswered ==
  ASSUME CallbackInv, NEW k \in Callbacks, NEW p \in Providers, Answer(k, p)
  PROVE  CallbackInv'
<1> USE CallbackAssumption DEF CallbackInv, Answer
<1>1. PICK s \in BOOLEAN :
        cb' = [cb EXCEPT ![k] = [pc |-> "called", from |-> p, snake |-> s, reqSig |-> NoSig]]
  OBVIOUS
<1>2. /\ cb'[k] = [pc |-> "called", from |-> p, snake |-> s, reqSig |-> NoSig]
      /\ cb[k].pc = "idle" /\ UNCHANGED <<cfg, entry, req>>
      /\ \A j \in Callbacks : j # k => cb'[j] = cb[j]
  BY <1>1 DEF CallbackTypeOK
<1>3. PICK a \in Attempts : req[a].pc = "delivered" /\ req[a].to = p
  OBVIOUS
<1>4. CallbackTypeOK' /\ Addressed'
  BY <1>1, <1>2 DEF CallbackTypeOK, Adapters, Addressed, Callback
<1>5. EntriesGenuine' /\ CallbacksGenuine' /\ DeliveredFirst'
  BY <1>2, <1>3 DEF EntriesGenuine, CallbacksGenuine, DeliveredFirst, Received
<1>6. StoredFirst' /\ RequestStays' /\ KeptFirst'
  BY <1>2, <1>3 DEF StoredFirst, RequestStays, KeptFirst, Redis
<1>7. StaysOverwritten' /\ OnlySupersededRejected'
  BY <1>2 DEF StaysOverwritten, Overwrites, OnlySupersededRejected, Superseded
<1>8. AnswersBound'
  BY <1>2 DEF AnswersBound
<1> QED BY <1>4, <1>5, <1>6, <1>7, <1>8

LEMMA CallbackSigned ==
  ASSUME CallbackInv, NEW k \in Callbacks, SignCallback(k)
  PROVE  CallbackInv'
<1> USE CallbackAssumption DEF CallbackInv, SignCallback
<1>1. PICK s \in GetRequestSignature(cb[k].from, k) :
        cb' = [cb EXCEPT ![k] = [@ EXCEPT !.pc = "signed", !.reqSig = s]]
  OBVIOUS
<1> DEFINE r == Redis(cb[k].from)
<1>2. cb[k].from \in Providers /\ r = IF cfg.shared THEN Bap ELSE cb[k].from
  BY DEF Addressed, Redis
<1>3. s # NoSig => entry[r].action = "request" /\ entry[r].sig = s /\ ~cb[k].snake
  BY DEF GetRequestSignature
<1>4. s # NoSig => /\ s \in Attempts /\ req[s].pc # "idle" /\ entry[Bap].action # "none"
                   /\ ~cfg.shared => req[s].to = cb[k].from /\ Received(s)
  BY <1>2, <1>3 DEF EntriesGenuine, StoredFirst, Received
<1>5. ~cfg.bppStores /\ ~(cfg.shared /\ cfg.bapStores) /\ ~cfg.misses =>
        (s = NoSig <=> cb[k].snake)
  <2> SUFFICES ASSUME ~cfg.bppStores, ~(cfg.shared /\ cfg.bapStores), ~cfg.misses
               PROVE  s = NoSig <=> cb[k].snake
    OBVIOUS
  <2>1. entry[r].action = "request"
    BY DEF KeptFirst
  <2>2. entry[r].sig \in Attempts
    BY <1>2, <2>1 DEF EntriesGenuine
  <2> QED BY <2>1, <2>2 DEF GetRequestSignature
<1>6. /\ cb'[k].from = cb[k].from /\ cb'[k].reqSig = s /\ cb'[k].pc = "signed"
      /\ cb'[k].snake = cb[k].snake /\ cb[k].pc = "called" /\ UNCHANGED <<cfg, entry, req>>
      /\ \A j \in Callbacks : j # k => cb'[j] = cb[j]
  BY <1>1 DEF CallbackTypeOK, Callback
<1>7. CallbackTypeOK' /\ Addressed'
  BY <1>1, <1>2, <1>4, <1>6 DEF CallbackTypeOK, Adapters, Addressed, Callback
<1>8. EntriesGenuine' /\ CallbacksGenuine' /\ DeliveredFirst'
  BY <1>3, <1>4, <1>6 DEF EntriesGenuine, CallbacksGenuine, DeliveredFirst, Received
<1>9. StoredFirst' /\ RequestStays' /\ KeptFirst'
  BY <1>4, <1>6 DEF StoredFirst, RequestStays, KeptFirst, Redis
<1>10. StaysOverwritten' /\ OnlySupersededRejected'
  BY <1>6 DEF StaysOverwritten, Overwrites, OnlySupersededRejected, Superseded
<1>11. AnswersBound'
  BY <1>4, <1>5, <1>6 DEF AnswersBound, Received
<1> QED BY <1>7, <1>8, <1>9, <1>10, <1>11

\* SendCallback and DeliverCallback: a callback moves on and may be stored.
LEMMA CallbackMoves ==
  ASSUME CallbackInv, NEW k \in Callbacks, SendCallback(k) \/ DeliverCallback(k)
  PROVE  CallbackInv'
<1> USE CallbackAssumption DEF CallbackInv, SendCallback, DeliverCallback, Store
<1>1. /\ cb[k].pc \in {"signed", "valid"} /\ cb'[k].pc \in {"sent", "delivered"}
      /\ cb'[k].from = cb[k].from /\ cb'[k].reqSig = cb[k].reqSig
      /\ cb'[k].snake = cb[k].snake
      /\ \A j \in Callbacks : j # k => cb'[j] = cb[j]
      /\ UNCHANGED <<cfg, req>> /\ cb[k].from \in Providers
  BY DEF CallbackTypeOK, Callback, Addressed
<1>2. CallbackTypeOK'
  BY DEF CallbackTypeOK, Adapters, Callback, Entry, Redis
<1>3. \A n \in Adapters :
        \/ entry'[n] = entry[n]
        \/ /\ entry'[n] = [action |-> "callback", sig |-> k]
           /\ IF n = Bap THEN cfg.bapStores \/ (cfg.shared /\ cfg.bppStores)
              ELSE ~cfg.shared /\ cfg.bppStores
  <2>1. CASE SendCallback(k)
    BY <1>1, <2>1 DEF CallbackTypeOK, Adapters, Redis
  <2>2. CASE DeliverCallback(k)
    <3>1. Redis(Bap) = Bap
      BY DEF Redis
    <3>2. \/ entry' = entry
          \/ cfg.bapStores /\ entry' = [entry EXCEPT ![Bap] = [action |-> "callback", sig |-> k]]
      BY <2>2, <3>1
    <3>3. entry \in [Adapters -> Entry] /\ Bap \in Adapters
      BY DEF CallbackTypeOK, Adapters
    <3> HIDE DEF CallbackInv, SendCallback, DeliverCallback, Store
    <3> QED BY <3>2, <3>3 DEF Adapters
  <2> QED BY <2>1, <2>2
<1>4. Addressed' /\ CallbacksGenuine' /\ DeliveredFirst'
  BY <1>1 DEF Addressed, CallbacksGenuine, DeliveredFirst, Received
<1>5. EntriesGenuine'
  BY <1>1, <1>3 DEF EntriesGenuine, Received, Adapters
<1>6. StoredFirst' /\ RequestStays' /\ KeptFirst'
  <2>1. StoredFirst'
    BY <1>1, <1>3 DEF StoredFirst, Adapters
  <2>2. RequestStays'
    BY <1>1, <1>3 DEF RequestStays, Adapters
  <2>3. KeptFirst'
    BY <1>1, <1>3 DEF KeptFirst, Adapters, Addressed, Redis
  <2> QED BY <2>1, <2>2, <2>3
<1>7. StaysOverwritten'
  <2>1. \A j \in Callbacks : Superseded(j)' <=> Superseded(j)
    BY <1>1 DEF Superseded
  <2>2. entry'[Bap] = entry[Bap] \/ entry'[Bap].action = "callback"
    BY <1>3 DEF Adapters
  <2>3. ASSUME entry'[Bap] = entry[Bap], entry[Bap].action # "callback"
        PROVE  \A j \in Callbacks : Overwrites(j)' => Overwrites(j)
    <3>1. ~(SendCallback(k) /\ cfg.shared /\ cfg.bppStores)
      BY <2>3 DEF CallbackTypeOK, Adapters, Redis
    <3>2. ~(DeliverCallback(k) /\ cfg.bapStores)
      BY <2>3 DEF CallbackTypeOK, Adapters, Redis
    <3>3. CASE SendCallback(k)
      BY <1>1, <3>1, <3>3 DEF Overwrites, CallbackTypeOK
    <3>4. CASE DeliverCallback(k)
      BY <1>1, <3>2, <3>4 DEF Overwrites, CallbackTypeOK
    <3> QED BY <3>3, <3>4
  <2> QED BY <1>1, <2>1, <2>2, <2>3 DEF StaysOverwritten
<1>8. OnlySupersededRejected' /\ AnswersBound'
  BY <1>1 DEF OnlySupersededRejected, AnswersBound, Superseded
<1> QED BY <1>2, <1>4, <1>5, <1>6, <1>7, <1>8

LEMMA SnakesUnbound ==
  ASSUME CallbackInv, NEW k \in Callbacks, cb[k].reqSig # NoSig
  PROVE  ~cb[k].snake
  BY DEF CallbackInv, CallbacksGenuine

\* A callback that is refused is checked against another attempt's signature.
LEMMA CallbackValidated ==
  ASSUME CallbackInv, NEW k \in Callbacks, ValidateCallback(k)
  PROVE  CallbackInv'
<1> USE CallbackAssumption DEF CallbackInv, ValidateCallback
<1>1. PICK s \in GetRequestSignature(Bap, k) :
        cb' = [cb EXCEPT ![k].pc =
                 IF cb[k].reqSig = NoSig \/ Verifies(k, s) THEN "valid" ELSE "rejected"]
  OBVIOUS
<1>2. /\ cb[k].pc = "sent" /\ cb'[k].pc \in {"valid", "rejected"}
      /\ cb'[k].from = cb[k].from /\ cb'[k].reqSig = cb[k].reqSig
      /\ cb'[k].snake = cb[k].snake
      /\ \A j \in Callbacks : j # k => cb'[j] = cb[j]
      /\ UNCHANGED <<cfg, entry, req>>
  BY <1>1 DEF CallbackTypeOK, Callback
<1>3. CallbackTypeOK' /\ Addressed'
  BY <1>1, <1>2 DEF CallbackTypeOK, Adapters, Addressed, Callback
<1>4. EntriesGenuine' /\ CallbacksGenuine' /\ StoredFirst' /\ RequestStays' /\ KeptFirst'
  BY <1>2 DEF EntriesGenuine, CallbacksGenuine, Received, StoredFirst, RequestStays, KeptFirst,
              Redis
<1>5. DeliveredFirst' /\ StaysOverwritten' /\ AnswersBound'
  BY <1>2 DEF DeliveredFirst, StaysOverwritten, Overwrites, Superseded, AnswersBound
<1>6. ASSUME cfg.v2, ~cfg.bapStores, ~(cfg.shared /\ cfg.bppStores), ~cfg.misses,
             cb'[k].pc = "rejected"
      PROVE  Superseded(k)'
  <2>1. cb[k].reqSig # NoSig /\ cb[k].reqSig # s
    BY <1>1, <1>2, <1>6 DEF Verifies, CallbackTypeOK, Callback
  <2>2. entry[Bap].action = "request"
    BY <1>6, <2>1 DEF StoredFirst, RequestStays, CallbackTypeOK, Adapters, Entry
  <2>3. s \in {NoSig, entry[Bap].sig} /\ (s = NoSig => cb[k].snake)
    BY <1>6, <2>2 DEF GetRequestSignature, Redis, EntriesGenuine
  <2>4. entry[Bap].sig # cb[k].reqSig
    BY <2>1, <2>3, SnakesUnbound
  <2>5. entry[Bap].sig \in Attempts /\ req[entry[Bap].sig].pc # "idle"
    BY <2>2 DEF EntriesGenuine
  <2> QED BY <1>2, <2>4, <2>5 DEF Superseded
<1>7. OnlySupersededRejected'
  BY <1>2, <1>6 DEF OnlySupersededRejected, Superseded
<1> QED BY <1>3, <1>4, <1>5, <1>7

-----------------------------------------------------------------------------
(* Theorems *)

\* The invariant of one message id across all the adapters that know it.
THEOREM CallbackInvariant == CallbackSpec => []CallbackInv
<1>1. CallbackInv /\ [CallbackNext]_callbackVars => CallbackInv'
  <2> SUFFICES ASSUME CallbackInv, [CallbackNext]_callbackVars PROVE CallbackInv'
    OBVIOUS
  <2>1. ASSUME NEW a \in Attempts, RequestStep(a) PROVE CallbackInv'
    BY <2>1, AttemptMoves, AttemptSigned, AttemptStored, AttemptKept DEF RequestStep
  <2>2. ASSUME NEW k \in Callbacks, CallbackStep(k) PROVE CallbackInv'
    BY <2>2, CallbackAnswered, CallbackSigned, CallbackMoves, CallbackValidated
    DEF CallbackStep
  <2>3. CASE UNCHANGED callbackVars
    BY <2>3 DEF callbackVars, CallbackInv, CallbackTypeOK, Addressed, EntriesGenuine, CallbacksGenuine,
       DeliveredFirst, StaysOverwritten, Overwrites, Received, StoredFirst, RequestStays, KeptFirst,
       Redis, OnlySupersededRejected, AnswersBound, Superseded
  <2> QED BY <2>1, <2>2, <2>3 DEF CallbackNext
<1> QED BY CallbackInvInit, <1>1, PTL DEF CallbackSpec

\* Where no callback is stored in the BAP's Redis, bapTxnReceiver refuses only answers
\* to attempts that were repeated since.
THEOREM RejectionsJustified == CallbackSpec => []OnlySupersededRejected
<1>1. CallbackInv => OnlySupersededRejected
  BY DEF CallbackInv
<1> QED BY CallbackInvariant, <1>1, PTL

\* Where no callback is stored in a provider's Redis, every answer with a messageId is
\* bound, in a Redis of its own to a request the provider received.
THEOREM EveryAnswerBound == CallbackSpec => []AnswersBound
<1>1. CallbackInv => AnswersBound
  BY DEF CallbackInv
<1> QED BY CallbackInvariant, <1>1, PTL

\* Once a callback is stored over the request it answers, no callback is accepted as
\* bound to that request, unless the adapters share a Redis and it was repeated.
THEOREM StoredAnswersLast == CallbackSpec => AnsweredOnce
<1> DEFINE Once ==
      \A k \in Callbacks :
        cb[k].pc = "sent" /\ cb'[k].pc = "valid" /\ cb[k].reqSig # NoSig =>
          \A j \in Callbacks : Overwrites(j) /\ cb[j].reqSig = cb[k].reqSig =>
            cfg.shared /\ Superseded(k)
<1>1. CallbackInv /\ [CallbackNext]_callbackVars => [Once]_callbackVars
  <2> SUFFICES ASSUME CallbackInv, CallbackNext,
                      NEW k \in Callbacks, cb[k].pc = "sent", cb'[k].pc = "valid",
                      cb[k].reqSig # NoSig,
                      NEW j \in Callbacks, Overwrites(j), cb[j].reqSig = cb[k].reqSig
               PROVE  cfg.shared /\ Superseded(k)
    BY DEF callbackVars
  <2>1. ValidateCallback(k)
    <3>1. ASSUME NEW a \in Attempts, RequestStep(a) PROVE FALSE
      BY <3>1 DEF RequestStep, SignRequest, StoreRequest, SendRequest, KeepRequest,
         DeliverRequest, NackRequest
    <3>2. PICK l \in Callbacks : CallbackStep(l)
      BY <3>1 DEF CallbackNext
    <3>3. CASE l # k
      BY <3>2, <3>3 DEF CallbackInv, CallbackTypeOK, CallbackStep, Answer, SignCallback,
         SendCallback, ValidateCallback, DeliverCallback
    <3>4. CASE l = k
      BY <3>2, <3>4 DEF CallbackInv, CallbackTypeOK, CallbackStep, Answer, SignCallback,
         SendCallback, DeliverCallback
    <3> QED BY <3>3, <3>4
  <2>2. PICK s \in GetRequestSignature(Bap, k) : Verifies(k, s)
    BY <2>1 DEF ValidateCallback, CallbackInv, CallbackTypeOK, Callback
  <2>3. entry[Bap].action = "request" /\ entry[Bap].sig = cb[k].reqSig
    BY <2>2 DEF Verifies, GetRequestSignature, Redis
  <2>4. cfg.shared /\ Superseded(j)
    BY <2>3 DEF CallbackInv, StaysOverwritten
  <2> QED BY <2>4 DEF Superseded
<1> QED BY CallbackInvariant, <1>1, PTL DEF CallbackSpec, AnsweredOnce
=============================================================================
