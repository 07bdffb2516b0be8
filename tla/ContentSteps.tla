---------------------------- MODULE ContentSteps ----------------------------
(***************************************************************************)
(* The steps of a module that look at what a message says: validateSchema, *)
(* checkPolicy, mediateSchema and addRoute, in the order the configuration *)
(* lists them, over several requests at a time that share the action       *)
(* index, the two caches and the routing table.                            *)
(***************************************************************************)
EXTENDS SchemaValidator, SchemaMediator, Router, PolicyVerdict

vars == <<env, now, job, validator, mediator, table>>

Uses(step) == step \in ToSet(env.steps)

(* A module with rules that do not load is not started.                    *)
Init ==
  /\ env \in {c \in Configs : RulesLoad(c.rules)}
  /\ now = 0
  /\ job = [j \in Jobs |-> NoJob]
  /\ ValidatorInit /\ MediatorInit /\ RouterInit

(* Requests come once the plugins are up.                                  *)
Up == Uses("validateSchema") => index # None

(* Only the caches look at the clock.                                      *)
Tick ==
  /\ env.extended \/ Uses("mediateSchema")
  /\ now < MaxTime /\ \A j \in Jobs : ~Overdue(j)
  /\ now' = now + 1
  /\ UNCHANGED <<env, job, validator, mediator, table>>

Next ==
  \/ Tick
  \/ /\ Uses("validateSchema") /\ ValidatorNext
     /\ UNCHANGED <<env, now, mediator, table>>
  \/ MediatorNext /\ UNCHANGED <<env, now, validator, table>>
  \/ /\ \E j \in Jobs : CheckPolicy(j) \/ (Up /\ Receive(j)) \/ Answered(j)
     /\ UNCHANGED <<env, now, validator, mediator, table>>
  \/ (\E j \in Jobs : AddRoute(j)) /\ UNCHANGED <<env, now, validator, mediator>>

Spec == Init /\ [][Next]_vars

-----------------------------------------------------------------------------
(* Properties *)

(* Neither cache outgrows its limit, however its keys expire, are evicted  *)
(* and are stored again by requests at the same time; a schema that judges *)
(* an object was read at most a TTL and a download ago, an artifact comes  *)
(* from at most a positive TTL ago, and a missing artifact is asked for    *)
(* again once the negative TTL is over.                                    *)
CachesBounded ==
  /\ Len(schemas) <= MaxCacheSize
  /\ \A c, d \in ToSet(schemas) : c.key = d.key => c = d
  /\ Len(keys) <= MaxCacheEntries /\ DOMAIN entries \subseteq ToSet(keys)
  /\ \A j \in Jobs :
       job[j].heard # None =>
         job[j].heard.age <= IF job[j].heard.from = "schemas" THEN SchemaTTL + DownloadTimeout
                             ELSE IF job[j].heard.from = Missing THEN NegativeTTL
                             ELSE PositiveTTL

(* What mediateSchema makes of a message that is forwarded.  Nothing is    *)
(* written outside $.message.  When all that has to be translated lies in  *)
(* $.message, the message is the one that came, where failures are passed  *)
(* through or there is no counterparty, or every object left in it is at   *)
(* a version the target asks for, never some and not others; and what did  *)
(* not have to be translated is as it came, unless it lies in an object    *)
(* that did.  What an artifact drops from its own object is not checked by *)
(* the code, and an object outside $.message keeps the version the target  *)
(* does not support.                                                       *)
MediatedIsSupported ==
  \A j \in Jobs :
    job[j].state = "forward" /\ Uses("mediateSchema") =>
      LET m == job[j].msg.objects
          b == job[j].body
      IN /\ \A q \in DOMAIN m : ~InMessage(q) => q \in DOMAIN b /\ b[q] = m[q]
         /\ (\A q \in Needs(m) : InMessage(q)) =>
              /\ \/ b = m /\ (env.onFailure = "passThrough" \/ ~job[j].remote)
                 \/ \A q \in Needs(b) : b[q].version = Target(b[q])
              /\ \A q \in DOMAIN m \ Needs(m) :
                   \/ q \in DOMAIN b /\ b[q] = m[q]
                   \/ \E p \in Needs(m) : Below(p, q)
=============================================================================
