----------------------------- MODULE MCMessages -----------------------------
(***************************************************************************)
(* The messages of one module and those of one message id, for TLC.  The   *)
(* two specifications share no variable: a behaviour is a behaviour of one *)
(* of them, in any of its configurations, while the other stays where it   *)
(* starts.                                                                 *)
(***************************************************************************)
EXTENDS StdHandler, SolicitedCallback

\* The step lists of the shipped modules, and one that transforms.
MCPipelines ==
  {<<"check", "check", "addRoute", "storePayload">>,             \* receivers
   <<"check", "addRoute", "sign", "check", "storePayload">>,     \* callers
   <<"check", "transform", "transform", "addRoute", "sign", "storePayload">>,
   <<"check">>}                                                  \* no route

MCInit ==
  /\ Init /\ CallbackInit
  /\ module = (CHOOSE m \in Module : TRUE) \/ cfg = (CHOOSE c \in Config : TRUE)

MCNext == \/ CallbackInit /\ Next /\ UNCHANGED callbackVars
          \/ Init /\ CallbackNext /\ UNCHANGED vars

MCSpec == MCInit /\ [][MCNext]_<<vars, callbackVars>>
=============================================================================
