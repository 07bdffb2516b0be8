---------------------------- MODULE MessageSteps ----------------------------
(***************************************************************************)
(* A message on its way through the steps of a module: what                *)
(* reqpreprocessor puts into the request's context, the list of steps the  *)
(* module is configured with, and the step the message is at.  The steps   *)
(* themselves are in the modules that extend this one.                     *)
(*                                                                         *)
(* The body is its schema objects: a function from the path of an object   *)
(* that declares @context and @type, the keys below $, to that object.     *)
(***************************************************************************)
EXTENDS Naturals, Sequences, SequencesExt, FiniteSets

CONSTANTS Jobs,     \* requests served at the same time
          Configs,  \* configurations of the module and its plugins
          None,     \* nothing
          MaxTime   \* bound: the time at which the clock stops

ASSUME StepsAssumption ==
  \A c \in Configs :
    /\ c.steps \in Seq(STRING) /\ c.steps # <<>>
    /\ \A m \in c.traffic : DOMAIN m.objects \subseteq Seq(STRING)

VARIABLES env,  \* the configuration, and the requests its peers send
          now,  \* the clock
          job   \* job[j]: the request in slot j

NoJob == [state |-> "none", msg |-> None, step |-> 0, remote |-> FALSE,
          body |-> <<>>, left |-> {}, fetch |-> None, got |-> <<>>,
          failed |-> FALSE, route |-> None, heard |-> None]

(* The object is $.message or lies in it.                                  *)
InMessage(p) == IsPrefix(<<"message">>, p)

(* The step list, for as long as the message has not left it.              *)
At(j, step) ==
  /\ job[j].state = "run"
  /\ env.steps[job[j].step] = step

(* The request has not done anything in its current step.                  *)
Entering(r) == r.left = {} /\ r.fetch = None /\ r.got = <<>> /\ ~r.failed

(* The request once it waits for a download.                               *)
Fetching(r, p) == [r EXCEPT !.fetch = [path |-> p, at |-> now, attempt |-> 1]]

(* The request after its current step returned nil.                        *)
Advanced(r) ==
  [r EXCEPT !.state = IF r.step = Len(env.steps) THEN "forward" ELSE "run",
            !.step = IF r.step = Len(env.steps) THEN r.step ELSE r.step + 1,
            !.left = {}, !.fetch = None, !.got = <<>>, !.failed = FALSE, !.heard = None]

(* The request after its current step returned an error.                   *)
Refused(r) == [r EXCEPT !.state = "refused", !.left = {}, !.fetch = None,
                        !.got = <<>>, !.failed = FALSE]

(* reqpreprocessor: a bodyless request passes with no context values, any  *)
(* other needs a body whose context can be read.                           *)
Received(m) ==
  [NoJob EXCEPT !.msg = m, !.body = m.objects, !.step = 1,
                !.state = IF m.bytes = "none" \/ (m.bytes = "json" /\ m.context)
                          THEN "run" ELSE "refused",
                !.remote = m.bytes = "json" /\ m.context /\ m.remote]

Receive(j) ==
  /\ job[j].state = "none"
  /\ \E m \in env.traffic : job' = [job EXCEPT ![j] = Received(m)]

(* The response is written and the request forgotten.                      *)
Answered(j) ==
  /\ job[j].state \in {"forward", "refused"}
  /\ job' = [job EXCEPT ![j] = NoJob]
=============================================================================
