--------------------------- MODULE PolicyVerdict ---------------------------
(***************************************************************************)
(* The checkPolicy step once a policy is selected: what CheckPolicy makes  *)
(* of the value a Rego query returns.  A violation is its code, None when  *)
(* it has none; the wording and the order are left out.                    *)
(*                                                                         *)
(* A result is the sequence of the query's values, <<>> when it is         *)
(* undefined.  A value is "yes" and "no" for the booleans, an item of      *)
(* kind text or empty for a string, a list of items, the map with keys     *)
(* valid and violations, each possibly absent or of the wrong type, or     *)
(* other.                                                                  *)
(***************************************************************************)
EXTENDS MessageSteps

(* parseViolationItem *)
ParseViolationItem(item) ==
  IF item.kind = "text" THEN {None}
  ELSE IF item.kind = "object" /\ (item.message \/ item.code # None) THEN {item.code}
  ELSE {}

ParseItems(items) == UNION {ParseViolationItem(items[i]) : i \in DOMAIN items}

(* Fault: a set none of whose items can be parsed denies nothing.          *)
ExtractListLenient(items) == ParseItems(items)

(* A non-empty set denies, even when none of its items can be parsed.      *)
ExtractList(items) ==
  IF items # <<>> /\ ParseItems(items) = {} THEN {None} ELSE ParseItems(items)

(* extractStructuredViolations *)
ExtractStructuredViolations(v) ==
  IF v.valid = "absent" /\ v.violations = "absent" THEN {}
  ELSE IF v.valid \notin {"yes", "no"} \/ v.violations # "list" THEN {None}
  ELSE IF v.valid = "no" /\ ParseItems(v.items) = {} THEN {None}
  ELSE ParseItems(v.items)

ExtractValue(v) ==
  IF v.kind = "yes" THEN {}
  ELSE IF v.kind \in {"text", "empty"} THEN ParseViolationItem(v)
  ELSE IF v.kind = "list" THEN ExtractList(v.items)
  ELSE IF v.kind = "map" THEN ExtractStructuredViolations(v)
  ELSE {None}   \* FALSE, or a value of no known form

(* Evaluate: every evaluator is built to fail on an undefined result.      *)
Violations(result) ==
  IF result = <<>> THEN {None}
  ELSE UNION {ExtractValue(result[i]) : i \in DOMAIN result}

(* There may be no policy for the message, or a disabled one.  A body that  *)
(* is not JSON and an evaluation that fails are refusals.                  *)
CheckPolicy(j) ==
  /\ At(j, "checkPolicy")
  /\ LET r == job[j] IN
     \/ job' = [job EXCEPT ![j] =
          IF env.policy # "enabled" THEN Advanced(r)
          ELSE IF r.msg.bytes = "none" \/ Violations(r.msg.verdict) # {} THEN Refused(r)
          ELSE Advanced(r)]
     \/ env.policy = "enabled" /\ job' = [job EXCEPT ![j] = Refused(r)]

-----------------------------------------------------------------------------
(* Properties *)

(* A violation somebody can read: a string that is not empty, or an object *)
(* with a code or a message.                                               *)
Legible(item) ==
  \/ item.kind = "text"
  \/ item.kind = "object" /\ (item.message \/ item.code # None)

(* What counts as a denial: false, a violation named, a set that is not    *)
(* empty whatever is in it, valid set to false, a structured answer with   *)
(* a key missing or of the wrong type, or a value of no known form.  Two   *)
(* answers are not denials to the code: the empty string, and valid set to *)
(* true beside violations none of which can be read.                       *)
Denies(v) ==
  \/ v.kind \in {"no", "other", "text"}
  \/ v.kind = "list" /\ v.items # <<>>
  \/ v.kind = "map" /\ \/ v.valid = "no" \/ "wrong" \in {v.valid, v.violations}
                       \/ (v.valid = "absent") # (v.violations = "absent")
                       \/ v.violations = "list" /\ \E i \in DOMAIN v.items : Legible(v.items[i])

(* No message leaves that an enabled policy denies, in whatever form the   *)
(* policy says so, and whatever the other steps made of the message.       *)
DenialsStand ==
  \A j \in Jobs :
    job[j].state = "forward" /\ "checkPolicy" \in ToSet(env.steps) /\ env.policy = "enabled"
    => job[j].msg.verdict # <<>> /\ \A v \in ToSet(job[j].msg.verdict) : ~Denies(v)
=============================================================================
