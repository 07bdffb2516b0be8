---------------------------- MODULE CatalogSync ----------------------------
(***************************************************************************)
(* What the catalog crawler promises about one catalog's cursor, with no   *)
(* queue, claim, lease or retry in sight: a publisher raises the version   *)
(* its index declares, and the crawler moves the recorded version forward, *)
(* never backward and never past what was declared.                        *)
(***************************************************************************)
EXTENDS Naturals

CONSTANTS Catalogs,    \* the catalog ids
          MaxVersion   \* bound: highest entry version a publisher declares

VARIABLES published,   \* published[c]: entry version the index declares (0 = none)
          applied      \* applied[c]: entry version recorded as synced (0 = never)

vars == <<published, applied>>

Init == /\ published = [c \in Catalogs |-> 0]
        /\ applied = [c \in Catalogs |-> 0]

\* The publisher changes the catalog's index entry.
Publish(c) == /\ published[c] < MaxVersion
              /\ published' = [published EXCEPT ![c] = @ + 1]
              /\ UNCHANGED applied

\* The crawler settles a sync of a version declared so far.
Apply(c) == \E v \in applied[c] .. published[c] :
              /\ applied' = [applied EXCEPT ![c] = v]
              /\ UNCHANGED published

Next == \E c \in Catalogs : Publish(c) \/ Apply(c)

Spec == Init /\ [][Next]_vars
=============================================================================
