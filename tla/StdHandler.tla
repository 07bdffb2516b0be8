----------------------------- MODULE StdHandler -----------------------------
(***************************************************************************)
(* stdHandler.ServeHTTP: one request through a module's steps, then to a   *)
(* URL, to a publisher or nowhere, and the response to it with its         *)
(* Signature header.  A body is the number of changes the steps made to    *)
(* it; a step is known by what it does to the StepContext.  Each step, the *)
(* hand-over and the answer are one step each.  A client that is gone when *)
(* the response is written is left out.                                    *)
(***************************************************************************)
EXTENDS Naturals, Sequences

CONSTANTS Pipelines,   \* step lists of modules, response steps left out
          NoAuth       \* no signature

StepKinds == {"check",      \* validateSign, validateSchema, checkPolicy, custom
              "transform",  \* transformPayload, mediateSchema
              "addRoute", "sign", "storePayload"}

ASSUME HandlerAssumption ==
  /\ Pipelines \subseteq Seq(StepKinds)
  /\ NoAuth \notin Nat

VARIABLES module,    \* the module's configuration and the message's version
          pc,        \* where ServeHTTP is
          i,         \* the step to run next
          body,      \* stepCtx.Body
          reqBody,   \* r.Body, which ReverseProxy sends
          auth,      \* the body the request's Authorization header signs
          route,     \* stepCtx.Route
          stored,    \* the Authorization that storePayload kept
          internal,  \* X-Module-Name and X-Role are set on the request
          sig,       \* Signature in the ResponseWriter's header: what it covers
          out,       \* what left for the target
          resp       \* the responses written

vars == <<module, pc, i, body, reqBody, auth, route, stored, internal, sig, out, resp>>
message == <<module, i, body, reqBody, auth, route, stored, internal>>

Module == [steps : Pipelines,
           signAck : BOOLEAN,     \* the signAck response step is configured
           v2 : BOOLEAN,          \* context.version is at least 2.0.0
           subID : BOOLEAN,       \* a subscriber id is known
           publisher : BOOLEAN]   \* a publisher plugin is configured

NoOut == [kind |-> "none", body |-> 0, auth |-> NoAuth, internal |-> FALSE]

Init ==
  /\ module \in Module
  /\ pc = "reading" /\ i = 1
  /\ body = 0 /\ reqBody = 0 /\ auth = NoAuth /\ stored = NoAuth
  /\ route = "none" /\ internal = TRUE
  /\ sig = "none" /\ out = NoOut /\ resp = <<>>

-----------------------------------------------------------------------------
(* Responses *)

SignsResponses == module.signAck /\ module.v2 /\ module.subID

Write(kind, s) == resp' = Append(resp, [body |-> kind, sig |-> s])

\* nackBecknError: a step's AckNoCallbackErr with StatusACK answers a v2 request
\* with an ACK that carries the error ("noCallback", HTTP 202); every other error
\* is a NACK, and so is this one before v2.
NackBodies == {"nack"} \cup (IF module.v2 THEN {"noCallback"} ELSE {})

\* Fault: the ACK body is signed.
SignNackAckBody(b) == sig' \in IF SignsResponses THEN {sig, "ack"} ELSE {sig}

\* Best effort: the header stays as it is when signing fails.
SignNack(b) == sig' \in IF SignsResponses THEN {sig, b} ELSE {sig}

\* signNackResponse, then sendNack.
Nack(b) ==
  /\ SignNack(b)
  /\ Write(b, sig')
  /\ pc' = "answered"

-----------------------------------------------------------------------------
(* The body and the steps *)

ReadBody ==
  /\ pc = "reading"
  /\ pc' = "steps"
  /\ UNCHANGED <<message, sig, out, resp>>

ReadBodyFails ==
  /\ pc = "reading"
  /\ Write("text", sig)
  /\ pc' = "answered"
  /\ UNCHANGED <<message, sig, out>>

\* What a step that succeeds does; InstrumentedStep copies Body and Route back.
Run(kind) ==
  /\ body' \in IF kind = "transform" THEN {body, body + 1} ELSE {body}
  /\ kind = "sign" => module.subID
  /\ auth' = IF kind = "sign" THEN body ELSE auth
  /\ route' \in IF kind = "addRoute" THEN {"url", "publisher", "other"} ELSE {route}
  /\ stored' = IF kind = "storePayload" THEN auth ELSE stored

StepRuns ==
  /\ pc = "steps"
  /\ i <= Len(module.steps)
  /\ Run(module.steps[i])
  /\ i' = i + 1
  /\ UNCHANGED <<module, pc, reqBody, internal, sig, out, resp>>

StepFails ==
  /\ pc = "steps"
  /\ i <= Len(module.steps)
  /\ \E b \in NackBodies : Nack(b)
  /\ UNCHANGED <<message, out>>

-----------------------------------------------------------------------------
(* route *)

Target == CASE route = "none" -> "responding"
            [] route = "url" -> "proxying"
            [] route = "publisher" /\ module.publisher -> "publishing"
            [] OTHER -> "unroutable"

\* Fault: r.Body is left as it was read.
RouteUnsynced ==
  /\ pc = "steps"
  /\ i > Len(module.steps)
  /\ IF Target = "unroutable" THEN Nack("nack")
     ELSE pc' = Target /\ UNCHANGED <<sig, resp>>
  /\ UNCHANGED <<message, out>>

\* syncRequestBody, then the switch on the target type.
Route ==
  /\ pc = "steps"
  /\ i > Len(module.steps)
  /\ reqBody' = body
  /\ IF Target = "unroutable" THEN Nack("nack")
     ELSE pc' = Target /\ UNCHANGED <<sig, resp>>
  /\ UNCHANGED <<module, i, body, auth, route, stored, internal, out>>

Publish ==
  /\ pc = "publishing"
  /\ out' = [NoOut EXCEPT !.kind = "published", !.body = body]
  /\ pc' = "responding"
  /\ UNCHANGED <<message, sig, resp>>

\* Fault: the error is logged only.
PublishIgnoresError ==
  /\ pc = "publishing"
  /\ pc' = "responding"
  /\ UNCHANGED <<message, sig, out, resp>>

\* The broker may have taken the message all the same.
PublishFails ==
  /\ pc = "publishing"
  /\ out' \in {out, [NoOut EXCEPT !.kind = "published", !.body = body]}
  /\ Nack("nack")
  /\ UNCHANGED message

\* The response steps without a response: signAck over the ACK; sendAck.
Respond ==
  /\ pc = "responding"
  /\ module.signAck /\ module.v2 => module.subID
  /\ sig' = IF SignsResponses THEN "ack" ELSE sig
  /\ Write("ack", sig')
  /\ pc' = "answered"
  /\ UNCHANGED <<message, out>>

RespondFails ==
  /\ pc = "responding"
  /\ module.signAck /\ module.v2
  /\ Nack("nack")
  /\ UNCHANGED <<message, out>>

-----------------------------------------------------------------------------
(* proxy *)

Forward ==
  /\ pc = "proxying"
  /\ out' = [kind |-> "forwarded", body |-> reqBody, auth |-> auth, internal |-> internal]
  /\ pc' = "forwarded"
  /\ UNCHANGED <<message, sig, resp>>

\* modifyResponse: the response steps over the upstream's response.
\* validateAckSign only logs.
UpstreamAnswers ==
  /\ pc = "forwarded"
  /\ module.signAck /\ module.v2 => module.subID
  /\ \E s \in IF SignsResponses THEN {"upstream"} ELSE {"none", "peer"} :
       Write("upstream", s)
  /\ pc' = "answered"
  /\ UNCHANGED <<message, sig, out>>

\* No connection, no answer, or modifyResponse fails: ReverseProxy's 502.
ProxyFails ==
  /\ pc \in {"proxying", "forwarded"}
  /\ Write("badGateway", sig)
  /\ pc' = "answered"
  /\ UNCHANGED <<message, sig, out>>

\* The deferred calls.
Return ==
  /\ pc = "answered"
  /\ internal' = FALSE
  /\ pc' = "done"
  /\ UNCHANGED <<module, i, body, reqBody, auth, route, stored, sig, out, resp>>

Next ==
  \/ ReadBody \/ ReadBodyFails \/ StepRuns \/ StepFails \/ Route
  \/ Publish \/ PublishFails \/ Respond \/ RespondFails
  \/ Forward \/ UpstreamAnswers \/ ProxyFails \/ Return

Spec == Init /\ [][Next]_vars

-----------------------------------------------------------------------------
\* A Signature header covers the body it is sent with; only a peer's own
\* signature is passed on, with the peer's response.
SignatureCoversBody ==
  \A k \in DOMAIN resp :
    \/ resp[k].sig \in {"none", resp[k].body}
    \/ resp[k].sig = "peer" /\ resp[k].body = "upstream"

\* There is a sign step, and the body transformers come before it.
SignsLast ==
  LET At(kind) == {s \in DOMAIN module.steps : module.steps[s] = kind}
  IN At("sign") # {} /\ \A s \in At("sign"), t \in At("transform") : t < s

\* A message leaves the adapter only after every step succeeded, as the steps
\* left it: the forwarded body is the one that was signed, and the signature
\* kept to recognise its callback is the one that was sent.
LeavesAsProcessed ==
  out.kind # "none" =>
    /\ i = Len(module.steps) + 1
    /\ out.body = body
    /\ out.kind = "forwarded" /\ SignsLast =>
         /\ out.auth = out.body
         /\ stored # NoAuth => stored = out.auth

\* A plain ACK is never given for a message that was not handed to its target, and
\* never without the signature the module is configured to give.  The ACK that
\* announces that no callback will follow, with its reason, is the opposite: only
\* a v2 sender gets it, and then nothing left for the target.
AckMeansHandedOver ==
  \A k \in DOMAIN resp :
    /\ resp[k].body \in {"ack", "upstream"} =>
         /\ route # "none" => out.kind = IF route = "url" THEN "forwarded" ELSE "published"
         /\ module.signAck /\ module.v2 => resp[k].sig = resp[k].body
    /\ resp[k].body = "noCallback" => module.v2 /\ out.kind = "none"
=============================================================================
