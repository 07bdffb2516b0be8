------------------------- MODULE ContentStepsProofs -------------------------
(***************************************************************************)
(* Proofs about ContentSteps, for every number of requests, every          *)
(* configuration and every size and lifetime of the two caches.            *)
(*                                                                         *)
(* One invariant carries all of them.  JobOK says of a request what it     *)
(* owes to the steps it has passed: a request that passed checkPolicy is   *)
(* not denied, one that passed mediateSchema is supported, one that has a  *)
(* route owns it.  A step then answers only for itself, in whatever order  *)
(* the configuration lists them.  A request takes a step alone, so that    *)
(* every action comes down to: the request it moves is still in order, and *)
(* so is the cache it touches.                                             *)
(***************************************************************************)
EXTENDS ContentSteps, SequenceTheorems, WellFoundedInduction, TLAPS

-----------------------------------------------------------------------------
(* Requests, field by field *)

(* A job has the fields of NoJob.                                          *)
IsJob(r) ==
  /\ DOMAIN r = {"state", "msg", "step", "remote", "body", "left", "fetch", "got",
                 "failed", "route", "heard"}
  /\ r = [x \in DOMAIN r |-> r[x]]

(* What the steps leave alone while they are at work.                      *)
SameMessage(r, s) ==
  /\ s.state = r.state /\ s.msg = r.msg /\ s.step = r.step /\ s.remote = r.remote
  /\ s.body = r.body /\ s.route = r.route

(* A free slot is a request with nothing in it.                            *)
LEMMA NoJobFields ==
  IsJob(NoJob) /\ NoJob.state = "none" /\ NoJob.route = None /\ NoJob.heard = None
BY DEF IsJob, NoJob

(* What Receive makes of a message: a request at the first step.           *)
LEMMA ReceivedFields ==
  ASSUME NEW m
  PROVE  /\ IsJob(Received(m))
         /\ Received(m).state \in {"run", "refused"}
         /\ Received(m).msg = m /\ Received(m).body = m.objects /\ Received(m).step = 1
         /\ Received(m).route = None /\ Received(m).heard = None
         /\ Received(m).left = {} /\ Received(m).fetch = None
         /\ Received(m).got = <<>> /\ Received(m).failed = FALSE
BY DEF IsJob, NoJob, Received

(* A step that returns nil keeps the message, its body and its route.      *)
LEMMA AdvancedFields ==
  ASSUME NEW r, IsJob(r)
  PROVE  /\ IsJob(Advanced(r))
         /\ Advanced(r).state = IF r.step = Len(env.steps) THEN "forward" ELSE "run"
         /\ Advanced(r).step = IF r.step = Len(env.steps) THEN r.step ELSE r.step + 1
         /\ Advanced(r).msg = r.msg /\ Advanced(r).remote = r.remote
         /\ Advanced(r).body = r.body /\ Advanced(r).route = r.route
         /\ Advanced(r).left = {} /\ Advanced(r).fetch = None /\ Advanced(r).got = <<>>
         /\ Advanced(r).failed = FALSE /\ Advanced(r).heard = None
BY DEF IsJob, Advanced

(* A refusal keeps the message and its route.                              *)
LEMMA RefusedFields ==
  ASSUME NEW r, IsJob(r)
  PROVE  /\ IsJob(Refused(r))
         /\ Refused(r).state = "refused" /\ Refused(r).msg = r.msg
         /\ Refused(r).route = r.route /\ Refused(r).heard = r.heard
BY DEF IsJob, Refused

(* Waiting for a download changes nothing but the download.                *)
LEMMA FetchingFields ==
  ASSUME NEW r, IsJob(r), NEW p
  PROVE  /\ IsJob(Fetching(r, p)) /\ SameMessage(r, Fetching(r, p))
         /\ Fetching(r, p).left = r.left /\ Fetching(r, p).got = r.got
         /\ Fetching(r, p).failed = r.failed /\ Fetching(r, p).heard = r.heard
         /\ Fetching(r, p).fetch = [path |-> p, at |-> now, attempt |-> 1]
BY DEF IsJob, Fetching, SameMessage

(* A retry is still the same download, begun when it was begun.            *)
LEMMA RetriedFields ==
  ASSUME NEW r, IsJob(r)
  PROVE  /\ IsJob(Retried(r)) /\ SameMessage(r, Retried(r))
         /\ Retried(r).left = r.left /\ Retried(r).got = r.got
         /\ Retried(r).failed = r.failed /\ Retried(r).heard = r.heard
         /\ Retried(r).fetch.path = r.fetch.path /\ Retried(r).fetch.at = r.fetch.at
BY DEF IsJob, Retried, SameMessage

(* An answered need is off the list, answered or marked as failed.         *)
LEMMA GotFields ==
  ASSUME NEW r, IsJob(r), NEW p, NEW effect, NEW age
  PROVE  /\ IsJob(Got(r, p, effect, age)) /\ SameMessage(r, Got(r, p, effect, age))
         /\ Got(r, p, effect, age).left = r.left \ {p}
         /\ Got(r, p, effect, age).fetch = None
         /\ effect \in Effects => DOMAIN Got(r, p, effect, age).got = DOMAIN r.got \cup {p}
         /\ effect \notin Effects => Got(r, p, effect, age).failed
         /\ r.failed => Got(r, p, effect, age).failed
         /\ Got(r, p, effect, age).heard = [from |-> effect, age |-> age]
<1> DEFINE g == IF effect \in Effects
                THEN [q \in DOMAIN r.got \cup {p} |-> IF q = p THEN effect ELSE r.got[q]]
                ELSE r.got
           f == r.failed \/ effect \notin Effects
<1>1. /\ IsJob(Got(r, p, effect, age)) /\ SameMessage(r, Got(r, p, effect, age))
      /\ Got(r, p, effect, age).left = r.left \ {p}
      /\ Got(r, p, effect, age).fetch = None
      /\ Got(r, p, effect, age).heard = [from |-> effect, age |-> age]
  BY DEF Got, IsJob, SameMessage
<1>4. Got(r, p, effect, age).got = g /\ Got(r, p, effect, age).failed = f
  BY DEF Got, IsJob
<1>2. effect \in Effects => DOMAIN g = DOMAIN r.got \cup {p}
  OBVIOUS
<1>3. (effect \notin Effects => f) /\ (r.failed => f)
  OBVIOUS
<1> HIDE DEF g, f
<1> QED BY <1>1, <1>2, <1>3, <1>4

-----------------------------------------------------------------------------
(* Sequences that are caches *)

IsSeq(s) == s \in Seq(ToSet(s))

(* Sequences of whatever elements are sequences of their own elements.     *)
LEMMA SeqIs ==
  ASSUME NEW S, NEW s \in Seq(S)
  PROVE  /\ IsSeq(s) /\ DOMAIN s = 1 .. Len(s) /\ Len(s) \in Nat
         /\ \A i \in 1 .. Len(s) : s[i] \in S
<1>1. DOMAIN s = 1 .. Len(s) /\ Len(s) \in Nat /\ \A i \in 1 .. Len(s) : s[i] \in S
  BY LenProperties, ElementOfSeq
<1>2. s = [i \in 1 .. Len(s) |-> s[i]] /\ \A i \in 1 .. Len(s) : s[i] \in ToSet(s)
  BY <1>1 DEF ToSet
<1>3. [i \in 1 .. Len(s) |-> s[i]] \in Seq(ToSet(s))
  BY <1>1, <1>2, IsASeq
<1> QED BY <1>1, <1>2, <1>3 DEF IsSeq

(* t is what is left of s, in order.                                       *)
Thinned(t, s) ==
  /\ IsSeq(t) /\ Len(t) <= Len(s)
  /\ \A a \in DOMAIN t : \E i \in DOMAIN s : t[a] = s[i]
  /\ \A a, b \in DOMAIN t :
       a < b => \E i, k \in DOMAIN s : i < k /\ t[a] = s[i] /\ t[b] = s[k]

(* RemoveAt keeps the order, and everything but the element at i.          *)
LEMMA RemovalThins ==
  ASSUME NEW s, IsSeq(s), NEW i \in DOMAIN s
  PROVE  /\ Thinned(RemoveAt(s, i), s)
         /\ Len(RemoveAt(s, i)) = Len(s) - 1
         /\ \A a \in DOMAIN RemoveAt(s, i) : \E k \in DOMAIN s \ {i} : RemoveAt(s, i)[a] = s[k]
<1> DEFINE S == ToSet(s)
           n == Len(s)
           t1 == SubSeq(s, 1, i - 1)
           t2 == SubSeq(s, i + 1, n)
           t == RemoveAt(s, i)
<1>1. s \in Seq(S) /\ DOMAIN s = 1 .. n /\ n \in Nat /\ \A k \in 1 .. n : s[k] \in S
  BY SeqIs DEF IsSeq
<1>2. i \in Int /\ 1 <= i /\ i <= n
  BY <1>1
<1>3. t1 \in Seq(S) /\ Len(t1) = i - 1 /\ \A a \in 1 .. i - 1 : t1[a] = s[a]
  <2>1. \A k \in 1 .. i - 1 : s[k] \in S
    BY <1>1, <1>2
  <2>2. /\ t1 \in Seq(S) /\ Len(t1) = IF 1 <= i - 1 THEN (i - 1) - 1 + 1 ELSE 0
        /\ \A a \in 1 .. (i - 1) - 1 + 1 : t1[a] = s[1 + a - 1]
    <3> HIDE DEF S
    <3> QED BY <1>2, <2>1, SubSeqProperties
  <2> QED BY <1>2, <2>2
<1>4. t2 \in Seq(S) /\ Len(t2) = n - i /\ \A a \in 1 .. n - i : t2[a] = s[i + a]
  <2>1. \A k \in i + 1 .. n : s[k] \in S
    BY <1>1, <1>2
  <2>2. /\ t2 \in Seq(S) /\ Len(t2) = IF i + 1 <= n THEN n - (i + 1) + 1 ELSE 0
        /\ \A a \in 1 .. n - (i + 1) + 1 : t2[a] = s[(i + 1) + a - 1]
    <3> HIDE DEF S, n
    <3> QED BY <1>1, <1>2, <2>1, SubSeqProperties
  <2> QED BY <1>1, <1>2, <2>2
<1>5. /\ t \in Seq(S) /\ Len(t) = n - 1
      /\ \A a \in 1 .. n - 1 : t[a] = IF a <= i - 1 THEN s[a] ELSE s[a + 1]
  <2>1. t = t1 \o t2
    BY DEF RemoveAt
  <2>2. /\ t \in Seq(S) /\ Len(t) = (i - 1) + (n - i)
        /\ \A a \in 1 .. (i - 1) + (n - i) : t[a] = IF a <= i - 1 THEN t1[a] ELSE t2[a - (i - 1)]
    <3> HIDE DEF S, n, t1, t2, t
    <3> QED BY <2>1, <1>3, <1>4, ConcatProperties
  <2>3. Len(t) = n - 1
    BY <1>1, <1>2, <2>2
  <2>4. ASSUME NEW a \in 1 .. n - 1 PROVE t[a] = IF a <= i - 1 THEN s[a] ELSE s[a + 1]
    <3>1. t[a] = IF a <= i - 1 THEN t1[a] ELSE t2[a - (i - 1)]
      BY <1>1, <1>2, <2>2
    <3>2. CASE a <= i - 1
      BY <1>2, <1>3, <3>1, <3>2
    <3>3. CASE ~(a <= i - 1)
      <4>1. a - (i - 1) \in 1 .. n - i /\ i + (a - (i - 1)) = a + 1
        BY <1>1, <1>2, <3>3
      <4>2. t2[a - (i - 1)] = s[i + (a - (i - 1))]
        BY <1>4, <4>1
      <4> QED BY <3>1, <3>3, <4>1, <4>2
    <3> QED BY <3>2, <3>3
  <2> QED BY <2>2, <2>3, <2>4
<1>6. DOMAIN t = 1 .. n - 1 /\ IsSeq(t)
  <2> HIDE DEF t, S, n
  <2> QED BY <1>5, SeqIs
<1> HIDE DEF t, n, S, t1, t2
<1>7. ASSUME NEW a \in DOMAIN t
      PROVE  \E k \in DOMAIN s \ {i} : t[a] = s[k]
  <2>1. CASE a <= i - 1
    <3>1. a \in DOMAIN s \ {i}
      BY <1>1, <1>2, <1>6, <1>7, <2>1
    <3> QED BY <3>1, <1>5, <1>6, <2>1
  <2>2. CASE ~(a <= i - 1)
    <3>1. a + 1 \in DOMAIN s \ {i}
      BY <1>1, <1>2, <1>6, <1>7, <2>2
    <3> QED BY <3>1, <1>5, <1>6, <2>2
  <2> QED BY <2>1, <2>2
<1>8. ASSUME NEW a \in DOMAIN t, NEW b \in DOMAIN t, a < b
      PROVE  \E j, k \in DOMAIN s : j < k /\ t[a] = s[j] /\ t[b] = s[k]
  <2> DEFINE u == IF a <= i - 1 THEN a ELSE a + 1
             v == IF b <= i - 1 THEN b ELSE b + 1
  <2>1. u \in DOMAIN s /\ v \in DOMAIN s /\ u < v
    BY <1>1, <1>2, <1>6, <1>8
  <2>2. t[a] = s[u] /\ t[b] = s[v]
    BY <1>5, <1>6
  <2> HIDE DEF u, v
  <2> QED BY <2>1, <2>2
<1>9. Len(t) = n - 1 /\ Len(t) <= n
  BY <1>1, <1>5
<1>10. Thinned(t, s)
  BY <1>6, <1>7, <1>8, <1>9 DEF Thinned, n
<1> QED BY <1>7, <1>9, <1>10 DEF t, n

(* Tail keeps the order, and everything but the first element.             *)
LEMMA TailThins ==
  ASSUME NEW s, IsSeq(s), Len(s) > 0
  PROVE  /\ Thinned(Tail(s), s)
         /\ Len(Tail(s)) = Len(s) - 1
         /\ ToSet(s) \ {Head(s)} \subseteq ToSet(Tail(s))
<1> DEFINE S == ToSet(s)
           n == Len(s)
<1>1. s \in Seq(S) /\ DOMAIN s = 1 .. n /\ n \in Nat
  BY SeqIs DEF IsSeq
<1>2. s # <<>>
  BY <1>1
<1>3. /\ Tail(s) \in Seq(S) /\ Len(Tail(s)) = n - 1
      /\ \A k \in 1 .. Len(Tail(s)) : Tail(s)[k] = s[k + 1]
  <2> HIDE DEF S
  <2> QED BY <1>1, <1>2, HeadTailProperties
<1>4. DOMAIN Tail(s) = 1 .. n - 1 /\ IsSeq(Tail(s))
  <2> HIDE DEF S
  <2> QED BY <1>3, SeqIs
<1> HIDE DEF S, n
<1>5. ASSUME NEW a \in DOMAIN Tail(s)
      PROVE  a + 1 \in DOMAIN s /\ Tail(s)[a] = s[a + 1]
  BY <1>1, <1>3, <1>4, <1>5
<1>6. Thinned(Tail(s), s)
  <2>1. ASSUME NEW a \in DOMAIN Tail(s), NEW b \in DOMAIN Tail(s), a < b
        PROVE  \E i, k \in DOMAIN s : i < k /\ Tail(s)[a] = s[i] /\ Tail(s)[b] = s[k]
    <3>1. a + 1 < b + 1
      BY <1>4, <2>1
    <3> QED BY <3>1, <1>5, <2>1
  <2>2. Len(Tail(s)) <= Len(s)
    BY <1>1, <1>3 DEF n
  <2> QED BY <1>4, <1>5, <2>1, <2>2 DEF Thinned
<1>7. ASSUME NEW x \in ToSet(s) \ {Head(s)} PROVE x \in ToSet(Tail(s))
  <2>1. PICK k \in DOMAIN s : x = s[k]
    BY DEF ToSet
  <2>2. Head(s) = s[1]
    BY <1>1
  <2>3. k # 1
    BY <2>1, <2>2
  <2>4. k - 1 \in DOMAIN Tail(s) /\ (k - 1) + 1 = k
    BY <1>1, <1>4, <2>1, <2>3
  <2>5. Tail(s)[k - 1] = s[k]
    BY <2>4, <1>5
  <2> QED BY <2>1, <2>4, <2>5 DEF ToSet
<1> QED BY <1>3, <1>6, <1>7 DEF n

(* Append keeps what was there, and where.                                 *)
LEMMA AppendAdds ==
  ASSUME NEW s, IsSeq(s), NEW c
  PROVE  /\ IsSeq(Append(s, c)) /\ Len(Append(s, c)) = Len(s) + 1
         /\ DOMAIN Append(s, c) = 1 .. Len(s) + 1 /\ DOMAIN s = 1 .. Len(s) /\ Len(s) \in Nat
         /\ \A i \in DOMAIN s : Append(s, c)[i] = s[i]
         /\ Append(s, c)[Len(s) + 1] = c
         /\ ToSet(Append(s, c)) = ToSet(s) \cup {c}
<1> DEFINE S == ToSet(s) \cup {c}
<1>1. s \in Seq(S) /\ c \in S
  <2>1. s \in Seq(ToSet(s))
    BY DEF IsSeq
  <2> QED BY <2>1, SeqMonotonic
<1>2. DOMAIN s = 1 .. Len(s) /\ Len(s) \in Nat
  <2> HIDE DEF S
  <2> QED BY <1>1, SeqIs
<1>3. /\ Append(s, c) \in Seq(S) /\ Len(Append(s, c)) = Len(s) + 1
      /\ \A i \in 1 .. Len(s) : Append(s, c)[i] = s[i]
      /\ Append(s, c)[Len(s) + 1] = c
  <2> HIDE DEF S
  <2> QED BY <1>1, AppendProperties
<1>4. IsSeq(Append(s, c)) /\ DOMAIN Append(s, c) = 1 .. Len(Append(s, c))
  <2> HIDE DEF S
  <2> QED BY <1>3, SeqIs
<1>5. ToSet(Append(s, c)) = ToSet(s) \cup {c}
  <2>1. ASSUME NEW i \in 1 .. Len(s) + 1 PROVE i \in 1 .. Len(s) \/ i = Len(s) + 1
    BY <1>2, <2>1
  <2>2. Len(s) + 1 \in 1 .. Len(s) + 1 /\ 1 .. Len(s) \subseteq 1 .. Len(s) + 1
    BY <1>2
  <2> QED BY <1>2, <1>3, <1>4, <2>1, <2>2 DEF ToSet
<1> QED BY <1>2, <1>3, <1>4, <1>5

-----------------------------------------------------------------------------
(* The two caches *)

(* A schema in the cache was read before it was stored, and stored within  *)
(* a download's timeout of being read.                                     *)
SchemaOK(c) ==
  /\ c.read \in Nat /\ c.read <= now
  /\ c.expiresAt \in Nat /\ c.expiresAt <= c.read + SchemaTTL + DownloadTimeout

HeldOnce(s) == \A i, k \in DOMAIN s : s[i].key = s[k].key => i = k

SchemasOK(s) ==
  /\ IsSeq(s) /\ HeldOnce(s)
  /\ \A i \in DOMAIN s : SchemaOK(s[i])

ArtifactsOK ==
  /\ IsSeq(keys) /\ Len(keys) <= MaxCacheEntries
  /\ DOMAIN entries \subseteq ToSet(keys)
  /\ \A u \in DOMAIN entries : /\ entries[u].effect \in Effects \cup {Missing}
                               /\ entries[u].fetchedAt \in Nat /\ entries[u].fetchedAt <= now

(* A schema cache stays in order when schemas are taken out of it.         *)
LEMMA ThinnedSchemas ==
  ASSUME NEW s, SchemasOK(s), NEW t, Thinned(t, s)
  PROVE  SchemasOK(t)
<1>1. IsSeq(t) /\ DOMAIN t = 1 .. Len(t) /\ DOMAIN s = 1 .. Len(s) /\ IsSeq(s)
  BY SeqIs DEF Thinned, IsSeq, SchemasOK
<1>2. \A i \in DOMAIN t : SchemaOK(t[i])
  BY DEF SchemasOK, Thinned
<1>3. ASSUME NEW a \in DOMAIN t, NEW b \in DOMAIN t, a < b PROVE t[a].key # t[b].key
  <2>1. PICK i, k \in DOMAIN s : i < k /\ t[a] = s[i] /\ t[b] = s[k]
    BY <1>3 DEF Thinned
  <2>2. i # k
    BY <1>1, <2>1
  <2> QED BY <2>1, <2>2 DEF SchemasOK, HeldOnce
<1>4. ASSUME NEW a \in DOMAIN t, NEW b \in DOMAIN t, t[a].key = t[b].key PROVE a = b
  <2>1. ~(a < b) /\ ~(b < a)
    BY <1>3, <1>4
  <2> QED BY <1>1, <2>1
<1> QED BY <1>1, <1>2, <1>4 DEF SchemasOK, HeldOnce

(* A schema that is not held yet may be put at the end.                    *)
LEMMA AddedSchema ==
  ASSUME NEW s, SchemasOK(s), NEW c, SchemaOK(c), \A i \in DOMAIN s : s[i].key # c.key
  PROVE  SchemasOK(Append(s, c))
<1> DEFINE t == Append(s, c)
<1>1. IsSeq(s)
  BY DEF SchemasOK
<1>2. /\ IsSeq(t) /\ DOMAIN t = 1 .. Len(s) + 1 /\ DOMAIN s = 1 .. Len(s) /\ Len(s) \in Nat
      /\ \A i \in DOMAIN s : t[i] = s[i]
      /\ t[Len(s) + 1] = c
  BY <1>1, AppendAdds
<1> HIDE DEF t
<1>3. \A i \in DOMAIN t : i \in DOMAIN s \/ i = Len(s) + 1
  BY <1>2
<1>4. \A i \in DOMAIN t : SchemaOK(t[i])
  BY <1>2, <1>3 DEF SchemasOK
<1>5. HeldOnce(t)
  <2> SUFFICES ASSUME NEW i \in DOMAIN t, NEW k \in DOMAIN t, t[i].key = t[k].key PROVE i = k
    BY DEF HeldOnce
  <2>1. CASE i \in DOMAIN s /\ k \in DOMAIN s
    BY <1>2, <2>1 DEF SchemasOK, HeldOnce
  <2>2. CASE ~(i \in DOMAIN s /\ k \in DOMAIN s)
    BY <1>2, <1>3, <2>2
  <2> QED BY <2>1, <2>2
<1> QED BY <1>2, <1>4, <1>5 DEF SchemasOK, t

(* A hit moves a schema to the end of the cache: nothing is held twice.    *)
LEMMA GetSchemaKeeps ==
  ASSUME SchemasOK(schemas), Len(schemas) <= MaxCacheSize, NEW i \in DOMAIN schemas, GetSchema(i)
  PROVE  SchemasOK(schemas') /\ Len(schemas') <= MaxCacheSize
<1> DEFINE t == RemoveAt(schemas, i)
<1>1. IsSeq(schemas)
  BY DEF SchemasOK
<1>2. /\ Thinned(t, schemas) /\ Len(t) = Len(schemas) - 1
      /\ \A a \in DOMAIN t : \E k \in DOMAIN schemas \ {i} : t[a] = schemas[k]
  BY <1>1, RemovalThins
<1>3. SchemasOK(t)
  BY <1>2, ThinnedSchemas
<1>4. \A a \in DOMAIN t : t[a].key # schemas[i].key
  BY <1>2 DEF SchemasOK, HeldOnce
<1>5. SchemaOK(schemas[i])
  BY DEF SchemasOK
<1>6. schemas' = Append(t, schemas[i])
  BY DEF GetSchema
<1> HIDE DEF t
<1>7. SchemasOK(schemas')
  BY <1>3, <1>4, <1>5, <1>6, AddedSchema
<1>8. Len(schemas') = Len(t) + 1 /\ Len(t) \in Nat
  BY <1>3, <1>6, AppendAdds DEF SchemasOK
<1>9. Len(schemas) \in Nat
  BY <1>1, SeqIs DEF IsSeq
<1> QED BY <1>2, <1>7, <1>8, <1>9

(* set makes room first: a full cache is no larger after it.               *)
LEMMA SetSchemaKeeps ==
  ASSUME SchemasOK(schemas), Len(schemas) <= MaxCacheSize, now \in Nat,
         NEW key, NEW read \in Nat, read <= now, now <= read + DownloadTimeout,
         SetSchema(key, read)
  PROVE  SchemasOK(schemas') /\ Len(schemas') <= MaxCacheSize
<1> DEFINE kept == IF Len(schemas) >= MaxCacheSize THEN Tail(schemas) ELSE schemas
           holds == {i \in DOMAIN kept : kept[i].key = key}
           t == IF holds = {} THEN kept ELSE RemoveAt(kept, CHOOSE i \in holds : TRUE)
           c == [key |-> key, read |-> read, expiresAt |-> now + SchemaTTL]
<1>1. IsSeq(schemas) /\ Len(schemas) \in Nat /\ MaxCacheSize \in Nat /\ MaxCacheSize > 0
  BY SeqIs, ValidatorAssumption DEF IsSeq, SchemasOK
<1>2. SchemasOK(kept) /\ Len(kept) \in Nat /\ Len(kept) < MaxCacheSize
  <2>1. CASE Len(schemas) >= MaxCacheSize
    <3>1. Thinned(Tail(schemas), schemas) /\ Len(Tail(schemas)) = Len(schemas) - 1
      BY <1>1, <2>1, TailThins
    <3>2. SchemasOK(Tail(schemas))
      BY <3>1, ThinnedSchemas
    <3> QED BY <1>1, <2>1, <3>1, <3>2
  <2>2. CASE ~(Len(schemas) >= MaxCacheSize)
    BY <1>1, <2>2
  <2> QED BY <2>1, <2>2
<1>3. SchemasOK(t) /\ Len(t) \in Nat /\ Len(t) < MaxCacheSize /\ \A a \in DOMAIN t : t[a].key # key
  <2>1. CASE holds = {}
    <3>1. t = kept /\ \A a \in DOMAIN kept : kept[a].key # key
      BY <2>1
    <3> HIDE DEF t, kept
    <3> QED BY <1>2, <3>1
  <2>2. CASE holds # {}
    <3>1. PICK i \in holds : t = RemoveAt(kept, i)
      BY <2>2
    <3>2. i \in DOMAIN kept /\ kept[i].key = key /\ IsSeq(kept)
      BY <1>2, <3>1 DEF SchemasOK
    <3> HIDE DEF t, kept, holds
    <3>3. /\ Thinned(t, kept) /\ Len(t) = Len(kept) - 1
          /\ \A a \in DOMAIN t : \E k \in DOMAIN kept \ {i} : t[a] = kept[k]
      BY <3>1, <3>2, RemovalThins
    <3>4. SchemasOK(t)
      BY <1>2, <3>3, ThinnedSchemas
    <3>5. \A a \in DOMAIN t : t[a].key # key
      BY <1>2, <3>2, <3>3 DEF SchemasOK, HeldOnce
    <3>6. Len(t) \in Nat
      BY <3>4, SeqIs DEF SchemasOK, IsSeq
    <3> QED BY <1>1, <1>2, <3>3, <3>4, <3>5, <3>6
  <2> QED BY <2>1, <2>2
<1>4. SchemaOK(c)
  <2>1. now + SchemaTTL \in Nat /\ now + SchemaTTL <= read + SchemaTTL + DownloadTimeout
    BY ValidatorAssumption
  <2> QED BY <2>1 DEF SchemaOK
<1>5. schemas' = Append(t, c)
  BY DEF SetSchema
<1>6. c.key = key
  OBVIOUS
<1> HIDE DEF t, c, kept, holds
<1>7. SchemasOK(schemas')
  BY <1>3, <1>4, <1>5, <1>6, AddedSchema
<1>8. Len(schemas') = Len(t) + 1
  BY <1>3, <1>5, AppendAdds DEF SchemasOK
<1> QED BY <1>1, <1>3, <1>7, <1>8

(* cleanupExpired only takes schemas out.                                  *)
LEMMA CleanupKeeps ==
  ASSUME SchemasOK(schemas), Len(schemas) <= MaxCacheSize, CleanupExpired
  PROVE  SchemasOK(schemas') /\ Len(schemas') <= MaxCacheSize
<1> DEFINE S == ToSet(schemas)
<1>1. PICK t \in SeqOf(S, Len(schemas)) :
        /\ ToSet(t) \subseteq S
        /\ \A a, b \in DOMAIN t :
             a < b => \E i, k \in DOMAIN schemas : i < k /\ t[a] = schemas[i] /\ t[b] = schemas[k]
        /\ schemas' = t
  BY DEF CleanupExpired
<1>2. Len(schemas) \in Nat /\ MaxCacheSize \in Nat
  BY SeqIs, ValidatorAssumption DEF IsSeq, SchemasOK
<1>3. PICK m \in 0 .. Len(schemas) : t \in [1 .. m -> S]
  BY <1>1 DEF SeqOf
<1>4. t \in Seq(S) /\ Len(t) = m
  <2>1. m \in Nat /\ t = [i \in 1 .. m |-> t[i]] /\ \A i \in 1 .. m : t[i] \in S
    BY <1>2, <1>3
  <2>2. [i \in 1 .. m |-> t[i]] \in Seq(S)
    <3> HIDE DEF S
    <3> QED BY <2>1, IsASeq
  <2>3. t \in Seq(S)
    BY <2>1, <2>2
  <2>4. DOMAIN t = 1 .. Len(t) /\ Len(t) \in Nat /\ DOMAIN t = 1 .. m
    <3> HIDE DEF S
    <3> QED BY <1>3, <2>3, LenProperties
  <2> QED BY <2>1, <2>3, <2>4
<1>5. Thinned(t, schemas)
  <2>1. IsSeq(t) /\ Len(t) <= Len(schemas)
    <3> HIDE DEF S
    <3> QED BY <1>2, <1>3, <1>4, SeqIs
  <2>2. \A a \in DOMAIN t : \E i \in DOMAIN schemas : t[a] = schemas[i]
    BY <1>3 DEF ToSet
  <2> QED BY <1>1, <2>1, <2>2 DEF Thinned
<1>6. SchemasOK(t)
  BY <1>5, ThinnedSchemas
<1> QED BY <1>1, <1>2, <1>3, <1>4, <1>6

(* get deletes at most an expired artifact.                                *)
LEMMA GetArtifactKeeps ==
  ASSUME ArtifactsOK, NEW url, GetArtifact(url), now' = now
  PROVE  ArtifactsOK'
<1>1. /\ DOMAIN entries' \subseteq DOMAIN entries /\ keys' = keys
      /\ \A u \in DOMAIN entries' : entries'[u] = entries[u]
  BY DEF GetArtifact, Without
<1> QED BY <1>1 DEF ArtifactsOK, IsSeq

(* set gives up the oldest key when there is no room; a key whose artifact *)
(* expired may be listed twice, and counts twice.                          *)
LEMMA SetArtifactKeeps ==
  ASSUME ArtifactsOK, now \in Nat, NEW url, NEW effect \in Effects \cup {Missing},
         SetArtifact(url, effect), now' = now
  PROVE  ArtifactsOK'
<1> DEFINE full == Len(keys) >= MaxCacheEntries
           new == url \notin DOMAIN entries
           kept == IF new /\ full THEN Without(entries, Head(keys)) ELSE entries
           ks == IF full THEN Tail(keys) ELSE keys
           e == [effect |-> effect, fetchedAt |-> now]
<1>1. /\ keys' = IF ~new THEN keys ELSE Append(ks, url)
      /\ entries' = [u \in DOMAIN kept \cup {url} |-> IF u = url THEN e ELSE kept[u]]
  BY DEF SetArtifact
<1>2. IsSeq(keys) /\ Len(keys) \in Nat /\ MaxCacheEntries \in Nat /\ MaxCacheEntries > 0
      /\ Len(keys) <= MaxCacheEntries
  BY SeqIs, MediatorAssumption DEF IsSeq, ArtifactsOK
<1>3. /\ DOMAIN kept \subseteq DOMAIN entries
      /\ \A u \in DOMAIN kept : kept[u] = entries[u]
  BY DEF Without
<1>4. e.effect \in Effects \cup {Missing} /\ e.fetchedAt = now
  OBVIOUS
<1>5. \A u \in DOMAIN entries' : /\ entries'[u].effect \in Effects \cup {Missing}
                                 /\ entries'[u].fetchedAt \in Nat /\ entries'[u].fetchedAt <= now
  <2> HIDE DEF kept, e
  <2> QED BY <1>1, <1>3, <1>4 DEF ArtifactsOK
<1>6. CASE ~new
  <2>1. keys' = keys /\ DOMAIN entries' = DOMAIN entries
    BY <1>1, <1>6
  <2> QED BY <1>2, <1>5, <2>1 DEF ArtifactsOK, IsSeq
<1>7. CASE new
  <2>1. IsSeq(ks) /\ Len(ks) \in Nat /\ Len(ks) < MaxCacheEntries /\ DOMAIN kept \subseteq ToSet(ks)
    <3>1. CASE full
      <4>1. /\ Thinned(Tail(keys), keys) /\ Len(Tail(keys)) = Len(keys) - 1
            /\ ToSet(keys) \ {Head(keys)} \subseteq ToSet(Tail(keys))
        BY <1>2, <3>1, TailThins
      <4>2. IsSeq(Tail(keys)) /\ DOMAIN kept = DOMAIN entries \ {Head(keys)}
        BY <1>7, <3>1, <4>1 DEF Thinned, Without
      <4> QED BY <1>2, <3>1, <4>1, <4>2 DEF ArtifactsOK
    <3>2. CASE ~full
      BY <1>2, <3>2 DEF ArtifactsOK
    <3> QED BY <3>1, <3>2
  <2>2. keys' = Append(ks, url) /\ DOMAIN entries' = DOMAIN kept \cup {url}
    BY <1>1, <1>7
  <2> HIDE DEF ks, kept
  <2>3. IsSeq(keys') /\ Len(keys') = Len(ks) + 1 /\ ToSet(keys') = ToSet(ks) \cup {url}
    BY <2>1, <2>2, AppendAdds
  <2>4. Len(keys') <= MaxCacheEntries /\ DOMAIN entries' \subseteq ToSet(keys')
    BY <1>2, <2>1, <2>2, <2>3
  <2>5. IsSeq(keys)'
    BY <2>3 DEF IsSeq, ToSet
  <2> QED BY <1>5, <2>4, <2>5 DEF ArtifactsOK, ToSet
<1> QED BY <1>6, <1>7

-----------------------------------------------------------------------------
(* What holds of a request *)

Live(r) == r.state \in {"run", "forward"}

(* The step is one of the list.                                            *)
Placed(r) ==
  /\ r.state \in {"none", "run", "forward", "refused"}
  /\ Live(r) => r.step \in 1 .. Len(env.steps)

(* The request is through with the step.                                   *)
Passed(r, step) ==
  \E k \in 1 .. Len(env.steps) : env.steps[k] = step /\ (k < r.step \/ r.state = "forward")

(* A download belongs to an object that is still to be looked at, and a    *)
(* schema's has not taken longer than it may.                              *)
FetchOK(r) ==
  r.state = "run" /\ r.fetch # None =>
    /\ r.fetch.path \in r.left /\ r.fetch.at \in Nat /\ r.fetch.at <= now
    /\ env.steps[r.step] = "validateSchema" => now <= r.fetch.at + DownloadTimeout

(* Until an artifact is missed, every need is answered or still to be.     *)
NeedsOK(r) ==
  r.state = "run" /\ env.steps[r.step] = "mediateSchema" =>
    Entering(r) \/ r.failed \/ DOMAIN r.got \cup r.left = Needs(r.body)

(* All that has to be translated lies in $.message.                        *)
Confined(m) == \A q \in Needs(m) : InMessage(q)

Settled(b) == \A q \in Needs(b) : b[q].version = Target(b[q])

(* The provers do not know that "message" is a string.                     *)
Keys == STRING \cup {"message"}

(* Nothing is added to the message, and nothing changes outside $.message. *)
Within(m, b) ==
  /\ DOMAIN m \subseteq Seq(Keys) /\ DOMAIN b \subseteq DOMAIN m
  /\ \A q \in DOMAIN m : ~InMessage(q) => q \in DOMAIN b /\ b[q] = m[q]

(* What had not to be translated is there, or was in what had to.          *)
Spared(m, b) ==
  \A q \in DOMAIN m \ Needs(m) :
    (q \in DOMAIN b /\ b[q] = m[q]) \/ \E p \in Needs(m) : Below(p, q)

Supported(r) ==
  \/ r.body = r.msg.objects /\ (env.onFailure = "passThrough" \/ ~r.remote)
  \/ Settled(r.body)

(* So far as the mediator has changed it, the body is in order.            *)
BodyOK(m, b) ==
  /\ Within(m, b)
  /\ Confined(m) => Spared(m, b) /\ (b = m \/ Settled(b))

MediationOK(r) ==
  Live(r) => /\ BodyOK(r.msg.objects, r.body)
             /\ Confined(r.msg.objects) /\ Passed(r, "mediateSchema") => Supported(r)

Undenied(m) == m.verdict # <<>> /\ \A v \in ToSet(m.verdict) : ~Denies(v)

PolicyOK(r) ==
  Live(r) /\ Passed(r, "checkPolicy") /\ env.policy = "enabled" => Undenied(r.msg)

(* The route is one that a rule gives the message.                         *)
Owns(m, to) ==
  \E i \in DOMAIN env.rules :
    LET rule == env.rules[i]
        uri == IF rule.targetType \in {"bpp", "receiver"} THEN m.bppUri ELSE m.bapUri
        base == IF rule.targetType \in Dynamic /\ uri # None THEN uri ELSE rule.url
    IN /\ Names(rule, m)
       /\ IF rule.targetType = "publisher"
          THEN to.publisher = rule.publisher /\ to.url = None
          ELSE /\ to.targetType = "url" /\ to.url.host = base.host
               /\ to.url.query = IF m.query # None THEN m.query ELSE base.query
               /\ m.endpoint \in ToSet(to.url.path) \/ rule.excludeAction

RouteOK(r) == r.route # None => Owns(r.msg, r.route)

FreshEnough(h) ==
  h.age <= IF h.from = "schemas" THEN SchemaTTL + DownloadTimeout
           ELSE IF h.from = Missing THEN NegativeTTL ELSE PositiveTTL

HeardOK(r) == r.heard # None => FreshEnough(r.heard)

JobOK(r) ==
  /\ IsJob(r) /\ Placed(r) /\ FetchOK(r) /\ NeedsOK(r)
  /\ MediationOK(r) /\ PolicyOK(r) /\ RouteOK(r) /\ HeardOK(r)

EnvOK ==
  /\ env \in Configs /\ RulesLoad(env.rules) /\ table = Table(env.rules)
  /\ now \in Nat

(* A module has at least one step.                                         *)
LEMMA StepsNonempty ==
  ASSUME EnvOK
  PROVE  Len(env.steps) \in Nat /\ Len(env.steps) >= 1
<1>1. env.steps \in Seq(STRING) /\ env.steps # <<>>
  BY StepsAssumption DEF EnvOK
<1>2. Len(env.steps) \in Nat /\ Len(env.steps) # 0
  BY <1>1, EmptySeq, LenProperties
<1> QED BY <1>2

-----------------------------------------------------------------------------
(* The three ways a step leaves a request: at work, refused, through. *)

(* A request that stays at its step with the message it had.               *)
LEMMA StaysOK ==
  ASSUME NEW r, JobOK(r), NEW s, IsJob(s), SameMessage(r, s),
         FetchOK(s), NeedsOK(s), HeardOK(s)
  PROVE  JobOK(s)
<1>1. Placed(s) /\ RouteOK(s)
  BY DEF JobOK, Placed, Live, RouteOK, SameMessage
<1>2. MediationOK(s)
  BY DEF JobOK, MediationOK, Live, Passed, Supported, SameMessage
<1>3. PolicyOK(s)
  BY DEF JobOK, PolicyOK, Live, Passed, SameMessage
<1> QED BY <1>1, <1>2, <1>3 DEF JobOK

(* A refused request.                                                      *)
LEMMA RefusedOK ==
  ASSUME NEW r, JobOK(r), NEW s, IsJob(s), s.state = "refused", s.msg = r.msg,
         s.route = r.route, HeardOK(s)
  PROVE  JobOK(s)
<1>1. ~Live(s) /\ s.state # "run"
  BY DEF Live
<1>2. Placed(s) /\ FetchOK(s) /\ NeedsOK(s)
  BY <1>1 DEF Placed, FetchOK, NeedsOK
<1>3. MediationOK(s) /\ PolicyOK(s)
  BY <1>1 DEF MediationOK, PolicyOK
<1>4. RouteOK(s)
  BY DEF JobOK, RouteOK
<1> QED BY <1>2, <1>3, <1>4 DEF JobOK

(* The request after a step that returned nil.                             *)
Through(r, s) ==
  /\ IsJob(s)
  /\ s.state = IF r.step = Len(env.steps) THEN "forward" ELSE "run"
  /\ s.step = IF r.step = Len(env.steps) THEN r.step ELSE r.step + 1
  /\ s.msg = r.msg /\ s.remote = r.remote
  /\ s.left = {} /\ s.fetch = None /\ s.got = <<>> /\ s.failed = FALSE

(* What is passed after a step is what was passed before it, and the step. *)
LEMMA ThroughPassed ==
  ASSUME EnvOK, NEW r, Placed(r), r.state = "run", NEW s, Through(r, s)
  PROVE  /\ Placed(s) /\ FetchOK(s) /\ NeedsOK(s) /\ Live(s) /\ Live(r)
         /\ \A step : Passed(s, step) => Passed(r, step) \/ env.steps[r.step] = step
<1>1. Len(env.steps) \in Nat /\ r.step \in 1 .. Len(env.steps)
  BY StepsNonempty DEF Placed, Live
<1>2. s.step \in 1 .. Len(env.steps)
  <2>1. CASE r.step = Len(env.steps)
    BY <1>1, <2>1 DEF Through
  <2>2. CASE r.step # Len(env.steps)
    <3>1. s.step = r.step + 1
      BY <2>2 DEF Through
    <3> QED BY <1>1, <2>2, <3>1
  <2> QED BY <2>1, <2>2
<1>3. Live(s) /\ Live(r) /\ Placed(s)
  BY <1>2 DEF Placed, Live, Through
<1>4. FetchOK(s) /\ NeedsOK(s)
  BY DEF FetchOK, NeedsOK, Entering, Through
<1>5. ASSUME NEW step, Passed(s, step) PROVE Passed(r, step) \/ env.steps[r.step] = step
  <2>1. PICK k \in 1 .. Len(env.steps) :
          env.steps[k] = step /\ (k < s.step \/ s.state = "forward")
    BY <1>5 DEF Passed
  <2>2. k < r.step \/ k = r.step
    <3>1. CASE r.step = Len(env.steps)
      BY <1>1, <2>1, <3>1
    <3>2. CASE r.step # Len(env.steps)
      <4>1. s.step = r.step + 1 /\ s.state = "run"
        BY <3>2 DEF Through
      <4> QED BY <1>1, <2>1, <4>1
    <3> QED BY <3>1, <3>2
  <2> QED BY <2>1, <2>2 DEF Passed
<1> QED BY <1>3, <1>4, <1>5

(* A request that is through with a step: the step answers for what is     *)
(* asked of requests that passed it.                                       *)
LEMMA ThroughOK ==
  ASSUME EnvOK, NEW r, JobOK(r), r.state = "run", NEW s, Through(r, s),
         HeardOK(s), RouteOK(s),
         BodyOK(s.msg.objects, s.body),
         Confined(s.msg.objects) => s.body = r.body \/ Settled(s.body),
         env.steps[r.step] = "mediateSchema" /\ Confined(s.msg.objects) => Supported(s),
         env.steps[r.step] = "checkPolicy" /\ env.policy = "enabled" => Undenied(r.msg)
  PROVE  JobOK(s)
<1>1. /\ Placed(s) /\ FetchOK(s) /\ NeedsOK(s) /\ Live(s) /\ Live(r)
      /\ \A step : Passed(s, step) => Passed(r, step) \/ env.steps[r.step] = step
  BY ThroughPassed DEF JobOK
<1>2. s.msg = r.msg /\ s.remote = r.remote /\ IsJob(s)
  BY DEF Through
<1>3. PolicyOK(s)
  BY <1>1, <1>2 DEF PolicyOK, JobOK
<1>4. ASSUME Confined(s.msg.objects) PROVE Passed(s, "mediateSchema") => Supported(s)
  <2>1. CASE s.body = r.body
    BY <1>4, <1>1, <1>2, <2>1 DEF JobOK, MediationOK, Supported
  <2>2. CASE Settled(s.body)
    BY <2>2 DEF Supported
  <2> QED BY <1>4, <2>1, <2>2
<1> QED BY <1>1, <1>2, <1>3, <1>4 DEF JobOK, MediationOK

(* A step that is neither of the two that judge the message.               *)
LEMMA AdvancesOK ==
  ASSUME EnvOK, NEW r, JobOK(r), r.state = "run", NEW s, Through(r, s),
         s.body = r.body, HeardOK(s), RouteOK(s),
         env.steps[r.step] = "mediateSchema" /\ Confined(s.msg.objects) => Supported(s),
         env.steps[r.step] = "checkPolicy" /\ env.policy = "enabled" => Undenied(r.msg)
  PROVE  JobOK(s)
<1>1. Live(r) /\ s.msg = r.msg
  BY DEF Live, Through
<1>2. BodyOK(s.msg.objects, s.body)
  BY <1>1 DEF JobOK, MediationOK
<1> QED BY <1>2, ThroughOK

(* Advanced is a request that is through with its step.                    *)
LEMMA AdvancedThrough ==
  ASSUME NEW r, JobOK(r)
  PROVE  /\ Through(r, Advanced(r)) /\ Advanced(r).body = r.body
         /\ HeardOK(Advanced(r)) /\ RouteOK(Advanced(r))
<1>1. IsJob(r)
  BY DEF JobOK
<1> QED BY <1>1, AdvancedFields DEF Through, HeardOK, RouteOK, JobOK

(* Refused is a refused request.                                           *)
LEMMA RefusalOK ==
  ASSUME NEW r, JobOK(r)
  PROVE  JobOK(Refused(r))
<1>1. IsJob(r)
  BY DEF JobOK
<1>2. HeardOK(Refused(r))
  BY <1>1, RefusedFields DEF HeardOK, JobOK
<1> QED BY <1>1, <1>2, RefusedFields, RefusedOK

-----------------------------------------------------------------------------
(* Routes *)

(* Every non-empty set of numbers has a least element.                     *)
LEMMA LeastExists ==
  ASSUME NEW S \in SUBSET Nat, S # {}
  PROVE  \E n \in S : \A m \in S : n <= m
<1> DEFINE Less == {ss \in Nat \X Nat : ss[1] < ss[2]}
<1>1. IsWellFoundedOn(Less, Nat)
  BY NatLessThanWellFounded DEF OpToRel
<1>2. PICK n \in S : \A m \in S : ~(<<m, n>> \in Less)
  <2> HIDE DEF Less
  <2> QED BY <1>1, WFMin
<1>3. \A m \in S : ~(m < n)
  BY <1>2
<1> QED BY <1>3

(* A non-empty set of numbers with a bound has a greatest element.         *)
LEMMA GreatestExists ==
  ASSUME NEW n \in Nat, NEW S \in SUBSET (0 .. n), S # {}
  PROVE  \E x \in S : \A y \in S : x >= y
<1> DEFINE T == {n - x : x \in S}
<1>1. T \in SUBSET Nat /\ T # {}
  <2>1. ASSUME NEW x \in S PROVE n - x \in Nat
    <3>1. x \in Int /\ 0 <= x /\ x <= n
      OBVIOUS
    <3> QED BY <3>1
  <2> QED BY <2>1
<1>2. PICK t \in T : \A u \in T : t <= u
  BY <1>1, LeastExists
<1>3. PICK x \in S : t = n - x
  BY <1>2
<1>4. \A y \in S : n - x <= n - y
  BY <1>2, <1>3
<1> QED BY <1>3, <1>4

(* A route in the table is that of a rule with its key.                    *)
LEMMA TableRoutes ==
  ASSUME NEW c \in Configs, NEW key \in DOMAIN Table(c.rules)
  PROVE  \E i \in DOMAIN c.rules :
           key \in RuleKeys(c.rules[i]) /\ Table(c.rules)[key] = RuleRoute(c.rules[i], key[3])
<1> DEFINE rs == c.rules
           S == {i \in DOMAIN rs : key \in RuleKeys(rs[i])}
           Latest(i) == /\ key \in RuleKeys(rs[i])
                        /\ \A k \in DOMAIN rs : key \in RuleKeys(rs[k]) => k <= i
           last == CHOOSE i \in DOMAIN rs : Latest(i)
<1>1. Len(rs) \in Nat /\ DOMAIN rs = 1 .. Len(rs)
  BY RouterAssumption
<1>2. key \in UNION {RuleKeys(rs[i]) : i \in DOMAIN rs}
  BY DEF Table
<1>3. Table(rs)[key] = RuleRoute(rs[last], key[3])
  BY <1>2 DEF Table
<1>4. PICK i \in DOMAIN rs : key \in RuleKeys(rs[i])
  BY <1>2
<1>5. PICK n \in Nat : DOMAIN rs \subseteq 0 .. n
  BY <1>1
<1>6. S \in SUBSET (0 .. n) /\ S # {}
  BY <1>4, <1>5
<1>7. PICK x \in S : \A y \in S : x >= y
  <2> HIDE DEF S
  <2> QED BY <1>6, GreatestExists
<1>8. x \in DOMAIN rs /\ Latest(x)
  <2>1. ASSUME NEW k \in DOMAIN rs, key \in RuleKeys(rs[k]) PROVE k <= x
    <3>1. x >= k /\ x \in Int /\ k \in Int
      BY <1>5, <1>6, <1>7, <2>1
    <3> QED BY <3>1
  <2> QED BY <1>7, <2>1
<1>9. last \in DOMAIN rs /\ Latest(last)
  <2> HIDE DEF Latest
  <2> QED BY <1>8
<1> QED BY <1>3, <1>9

(* A URL that is given a query keeps its host and its path, and one that   *)
(* is given none keeps its query too.                                      *)
LEMMA QueryOfURL ==
  ASSUME NEW u, NEW p, NEW q
  PROVE  /\ WithQuery(URL(u, p), q).host = u.host /\ WithQuery(URL(u, p), q).path = p
         /\ WithQuery(URL(u, p), q).query = IF q # None THEN q ELSE u.query
BY DEF WithQuery, URL

(* What a rule gives a message it names.                                   *)
LEMMA RuleGives ==
  ASSUME EnvOK, NEW m, NEW i \in DOMAIN env.rules, Names(env.rules[i], m), NEW to,
         LET rule == env.rules[i]
             route == RuleRoute(rule, m.endpoint)
         IN \/ rule.targetType \notin Dynamic /\ to = Static(route, m.query)
            \/ rule.targetType \in {"bpp", "receiver"} /\ to \in HandleProtocolMapping(route, m.bppUri, m)
            \/ rule.targetType \in {"bap", "sender"} /\ to \in HandleProtocolMapping(route, m.bapUri, m)
  PROVE  Owns(m, to)
<1> DEFINE rule == env.rules[i]
           e == m.endpoint
           route == RuleRoute(rule, e)
           uri == IF rule.targetType \in {"bpp", "receiver"} THEN m.bppUri ELSE m.bapUri
           base == IF rule.targetType \in Dynamic /\ uri # None THEN uri ELSE rule.url
           path == IF rule.targetType = "url" /\ rule.excludeAction THEN <<>> ELSE <<e>>
<1>1. ValidRule(rule)
  BY DEF EnvOK, RulesLoad
<1>2. Names(rule, m) /\ (e \in ToSet(path) \/ rule.excludeAction)
  BY DEF ToSet
<1>3. route = [targetType |-> rule.targetType,
               publisher |-> IF rule.targetType = "publisher" THEN rule.publisher ELSE None,
               url |-> IF rule.targetType = "publisher" \/ rule.url = None THEN None
                       ELSE URL(rule.url, path)]
  BY DEF RuleRoute
<1> SUFFICES IF rule.targetType = "publisher"
             THEN to.publisher = rule.publisher /\ to.url = None
             ELSE /\ to.targetType = "url" /\ to.url.host = base.host
                  /\ to.url.query = IF m.query # None THEN m.query ELSE base.query
                  /\ e \in ToSet(to.url.path) \/ rule.excludeAction
  BY <1>2 DEF Owns
<1> HIDE DEF rule, route, path
<1>4. CASE rule.targetType = "publisher"
  <2>1. to = Static(route, m.query)
    BY <1>4 DEF Dynamic, rule, route
  <2>2. to = route
    BY <1>3, <1>4, <2>1 DEF Static
  <2> QED BY <1>3, <1>4, <2>2
<1>5. CASE rule.targetType = "url"
  <2>1. to = Static(route, m.query) /\ rule.targetType \notin Dynamic
    BY <1>5 DEF Dynamic, rule, route
  <2>2. rule.url # None
    BY <1>1, <1>5 DEF ValidRule
  <2>3. route.url = URL(rule.url, path) /\ route.targetType = "url"
    BY <1>3, <1>5, <2>2
  <2>4. to.targetType = "url" /\ to.url = WithQuery(URL(rule.url, path), m.query)
    BY <1>3, <2>1, <2>3 DEF Static
  <2> QED BY <1>2, <1>5, <2>1, <2>4, QueryOfURL
<1>6. CASE rule.targetType \in Dynamic
  <2>1. to \in HandleProtocolMapping(route, uri, m)
    BY <1>6 DEF Dynamic, rule, route
  <2>2. rule.targetType # "publisher" /\ rule.targetType # "url"
    BY <1>6 DEF Dynamic
  <2> HIDE DEF uri
  <2>3. CASE uri = None
    <3>1. route.url # None /\ to.targetType = "url" /\ to.url = WithQuery(route.url, m.query)
      BY <2>1, <2>3 DEF HandleProtocolMapping
    <3>2. route.url = URL(rule.url, path)
      BY <1>3, <3>1
    <3> QED BY <1>2, <2>2, <2>3, <3>1, <3>2, QueryOfURL
  <2>4. CASE uri # None
    <3>1. to.targetType = "url" /\ to.url = WithQuery(URL(uri, <<e>>), m.query)
      BY <2>1, <2>4 DEF HandleProtocolMapping
    <3>2. e \in ToSet(<<e>>)
      BY DEF ToSet
    <3> QED BY <1>6, <2>2, <2>4, <3>1, <3>2, QueryOfURL
  <2> QED BY <2>3, <2>4
<1> QED BY <1>1, <1>4, <1>5, <1>6 DEF ValidRule, TargetTypes, Dynamic

(* Every route that Route may give a message is one that a rule gives it.  *)
LEMMA RoutesOwned ==
  ASSUME EnvOK, NEW m, NEW to \in Routes(m)
  PROVE  Owns(m, to)
<1>1. env \in Configs /\ table = Table(env.rules)
  BY DEF EnvOK
<1>2. ASSUME NEW key \in DOMAIN table
      PROVE  \E i \in DOMAIN env.rules :
               /\ table[key] = RuleRoute(env.rules[i], key[3])
               /\ key[1] = RuleDomain(env.rules[i]) /\ key[2] = env.rules[i].version
               /\ key[3] \in env.rules[i].endpoints
  <2>1. PICK i \in DOMAIN env.rules :
          key \in RuleKeys(env.rules[i]) /\ table[key] = RuleRoute(env.rules[i], key[3])
    BY <1>1, <1>2, TableRoutes
  <2>2. PICK e \in env.rules[i].endpoints : key = <<RuleDomain(env.rules[i]), env.rules[i].version, e>>
    BY <2>1 DEF RuleKeys
  <2>3. key[1] = RuleDomain(env.rules[i]) /\ key[2] = env.rules[i].version /\ key[3] = e
    BY <2>2
  <2> QED BY <2>1, <2>2, <2>3
<1>3. CASE m.bytes = "none"
  <2>1. PICK key \in BodylessKeys(m) :
          table[key].targetType \notin Dynamic /\ to = Static(table[key], m.query)
    BY <1>3 DEF Routes, RouteBodyless
  <2>2. key \in DOMAIN table /\ key[1] = "*" /\ key[3] = m.endpoint
    BY <2>1 DEF BodylessKeys
  <2>3. PICK i \in DOMAIN env.rules :
               /\ table[key] = RuleRoute(env.rules[i], key[3])
               /\ key[1] = RuleDomain(env.rules[i])
               /\ key[3] \in env.rules[i].endpoints
    BY <1>2, <2>2
  <2>4. Names(env.rules[i], m)
    BY <1>3, <2>2, <2>3 DEF Names
  <2>5. env.rules[i].targetType \notin Dynamic
    BY <2>1, <2>3 DEF RuleRoute
  <2>6. to = Static(RuleRoute(env.rules[i], m.endpoint), m.query)
    BY <2>1, <2>2, <2>3
  <2> QED BY <2>4, <2>5, <2>6, RuleGives
<1>4. CASE m.bytes # "none"
  <2> DEFINE key == <<IF IsV2Version(m.version) THEN "*" ELSE m.domain, m.version, m.endpoint>>
  <2>1. to \in RouteWithBody(m)
    BY <1>4 DEF Routes
  <2>2. key \in DOMAIN table
    BY <2>1 DEF RouteWithBody
  <2>3. key[1] = (IF IsV2Version(m.version) THEN "*" ELSE m.domain)
        /\ key[2] = m.version /\ key[3] = m.endpoint
    OBVIOUS
  <2>4. IF table[key].targetType \in {"bpp", "receiver"}
        THEN to \in HandleProtocolMapping(table[key], m.bppUri, m)
        ELSE IF table[key].targetType \in {"bap", "sender"}
        THEN to \in HandleProtocolMapping(table[key], m.bapUri, m)
        ELSE to = Static(table[key], m.query)
    BY <2>1, <2>2 DEF RouteWithBody
  <2> HIDE DEF key
  <2>5. PICK i \in DOMAIN env.rules :
               /\ table[key] = RuleRoute(env.rules[i], key[3])
               /\ key[1] = RuleDomain(env.rules[i]) /\ key[2] = env.rules[i].version
               /\ key[3] \in env.rules[i].endpoints
    BY <1>2, <2>2
  <2>6. Names(env.rules[i], m)
    BY <1>4, <2>3, <2>5 DEF Names, RuleDomain
  <2>7. table[key].targetType = env.rules[i].targetType
    BY <2>5 DEF RuleRoute
  <2> QED BY <2>3, <2>4, <2>5, <2>6, <2>7, RuleGives DEF Dynamic
<1> QED BY <1>3, <1>4

-----------------------------------------------------------------------------
(* Policies, mediation, and the steps that take one action *)

(* Whatever form a denial takes, it is a violation.                        *)
LEMMA DenialsAreViolations ==
  ASSUME NEW m, Violations(m.verdict) = {}
  PROVE  Undenied(m)
<1>1. m.verdict # <<>>
  BY DEF Violations
<1>2. ASSUME NEW i \in DOMAIN m.verdict PROVE ExtractValue(m.verdict[i]) = {}
  BY <1>1, <1>2 DEF Violations
<1>3. ASSUME NEW v, ExtractValue(v) = {} PROVE ~Denies(v)
  <2>1. v.kind \notin {"no", "other", "text"}
    BY <1>3 DEF ExtractValue, ParseViolationItem
  <2>2. v.kind = "list" => v.items = <<>>
    BY <1>3 DEF ExtractValue, ExtractList
  <2>3. ASSUME v.kind = "map"
        PROVE  /\ v.valid \notin {"no", "wrong"} /\ v.violations # "wrong"
               /\ v.valid = "absent" <=> v.violations = "absent"
               /\ v.violations = "list" => \A i \in DOMAIN v.items : ~Legible(v.items[i])
    <3>1. ExtractStructuredViolations(v) = {}
      BY <1>3, <2>3 DEF ExtractValue
    <3>2. /\ v.valid \notin {"no", "wrong"} /\ v.violations # "wrong"
          /\ v.valid = "absent" <=> v.violations = "absent"
      BY <3>1 DEF ExtractStructuredViolations
    <3>3. v.violations = "list" => ParseItems(v.items) = {}
      BY <3>1 DEF ExtractStructuredViolations
    <3>4. ASSUME NEW i \in DOMAIN v.items, Legible(v.items[i]) PROVE ParseItems(v.items) # {}
      <4>1. ParseViolationItem(v.items[i]) # {}
        BY <3>4 DEF Legible, ParseViolationItem
      <4> QED BY <4>1 DEF ParseItems
    <3> QED BY <3>2, <3>3, <3>4
  <2> QED BY <2>1, <2>2, <2>3 DEF Denies
<1> QED BY <1>1, <1>2, <1>3 DEF Undenied, ToSet

(* A prefix of a prefix is a prefix.                                       *)
LEMMA PrefixTransitive ==
  ASSUME NEW a \in Seq(Keys), NEW b \in Seq(Keys), NEW c \in Seq(Keys),
         IsPrefix(a, b), IsPrefix(b, c)
  PROVE  IsPrefix(a, c) /\ (a # b => a # c)
<1>1. Len(a) \in Nat /\ Len(b) \in Nat /\ Len(c) \in Nat /\ Len(a) <= Len(b) /\ Len(b) <= Len(c)
  BY LenProperties DEF IsPrefix
<1>2. ASSUME NEW s \in Seq(Keys), NEW t \in Seq(Keys), Len(s) \in Nat, Len(t) \in Nat, IsPrefix(s, t),
             NEW i \in 1 .. Len(s)
      PROVE  s[i] = t[i]
  <2>1. SubSeq(s, 1, Len(s))[i] = s[i] /\ SubSeq(t, 1, Len(s))[i] = t[i]
    BY <1>2 DEF IsPrefix
  <2> QED BY <1>2, <2>1 DEF IsPrefix
<1>3. \A i \in 1 .. Len(a) : a[i] = c[i]
  <2> SUFFICES ASSUME NEW i \in 1 .. Len(a) PROVE a[i] = c[i]
    OBVIOUS
  <2>1. i \in 1 .. Len(b)
    BY <1>1
  <2> QED BY <1>1, <1>2, <2>1
<1>4. SubSeq(a, 1, Len(a)) = SubSeq(c, 1, Len(a))
  <2>1. /\ SubSeq(a, 1, Len(a)) = [i \in 1 .. Len(a) |-> a[i]]
        /\ SubSeq(c, 1, Len(a)) = [i \in 1 .. Len(a) |-> c[i]]
    BY <1>1
  <2> QED BY <1>3, <2>1
<1>5. ASSUME a = c PROVE a = b
  <2>1. Len(a) = Len(b)
    BY <1>1, <1>5
  <2>2. \A i \in 1 .. Len(a) : a[i] = b[i]
    BY <1>1, <1>2
  <2> QED BY <2>1, <2>2, SeqEqual
<1> QED BY <1>1, <1>4, <1>5 DEF IsPrefix

(* The message is in the message, and so is all that lies below it.        *)
LEMMA MessagePaths ==
  /\ <<"message">> \in Seq(Keys) /\ InMessage(<<"message">>) /\ OnMessage(<<"message">>)
  /\ \A p : InMessage(p) /\ OnMessage(p) => p = <<"message">>
  /\ \A p : ~OnMessage(p) => InMessage(p)
  /\ \A p, q \in Seq(Keys) : InMessage(p) /\ Below(p, q) => InMessage(q)
  /\ \A p, q, t \in Seq(Keys) : Below(p, q) /\ Below(q, t) => Below(p, t)
<1>1. <<"message">> \in Seq(Keys) /\ Len(<<"message">>) = 1
  <2>1. "message" \in Keys
    BY DEF Keys
  <2>2. ASSUME NEW S, NEW x \in S PROVE <<x>> \in Seq(S) /\ Len(<<x>>) = 1
    OBVIOUS
  <2> QED BY <2>1, <2>2
<1>2. IsPrefix(<<"message">>, <<"message">>)
  BY <1>1 DEF IsPrefix
<1> QED BY <1>1, <1>2, PrefixTransitive DEF InMessage, OnMessage, Below, IsStrictPrefix

(* Translation keeps what it has to keep, and settles a message whose      *)
(* needs all lie in $.message.                                             *)
LEMMA MediatedOK ==
  ASSUME NEW m, NEW body, NEW got, DOMAIN got = Needs(body), BodyOK(m, body)
  PROVE  /\ BodyOK(m, Mediated(body, got))
         /\ Confined(m) => Settled(Mediated(body, got))
<1> DEFINE b == Mediated(body, got)
           msg == <<"message">>
<1>1. /\ DOMAIN b = {x \in DOMAIN body : Restored(got) \/ \A p \in DOMAIN got : ~Removes(p, got[p], x)}
      /\ \A q \in DOMAIN b :
           b[q] = IF q = msg /\ \E p \in DOMAIN got : OnMessage(p)
                  THEN Relabelled(body[q], body[LastOnMessage(got)])
                  ELSE IF q \in DOMAIN got /\ ~OnMessage(q) /\ ~Restored(got)
                  THEN Relabelled(body[q], body[q])
                  ELSE body[q]
  BY DEF Mediated
<1>2. /\ DOMAIN m \subseteq Seq(Keys) /\ DOMAIN body \subseteq DOMAIN m /\ DOMAIN got \subseteq DOMAIN body
      /\ \A q \in DOMAIN m : ~InMessage(q) => q \in DOMAIN body /\ body[q] = m[q]
  BY DEF BodyOK, Within, Needs
<1>3. ASSUME NEW p \in DOMAIN got, NEW q \in DOMAIN m, Removes(p, got[p], q)
      PROVE  InMessage(q) /\ ~OnMessage(p) /\ (Below(p, q) \/ p = q)
  BY <1>2, <1>3, MessagePaths DEF Removes
<1> HIDE DEF b
<1>4. Within(m, b)
  <2>1. ASSUME NEW q \in DOMAIN m, ~InMessage(q) PROVE q \in DOMAIN b /\ b[q] = m[q]
    <3>1. q \in DOMAIN b
      BY <1>1, <1>2, <1>3, <2>1
    <3>2. q # msg /\ OnMessage(q)
      BY <2>1, MessagePaths
    <3> QED BY <1>1, <1>2, <2>1, <3>1, <3>2
  <2> QED BY <1>1, <1>2, <2>1 DEF Within
<1>5. ASSUME Confined(m) PROVE Spared(m, b) /\ Settled(b)
  <2>1. \A q \in Needs(body) : InMessage(q)
    <3> SUFFICES ASSUME NEW q \in Needs(body), ~InMessage(q) PROVE FALSE
      OBVIOUS
    <3>1. q \in DOMAIN m /\ body[q] = m[q]
      BY <1>2
    <3>2. q \in Needs(m)
      BY <3>1 DEF Needs
    <3> QED BY <1>5, <3>2 DEF Confined
  <2>2. \A p \in DOMAIN got : OnMessage(p) => p = msg
    BY <2>1, MessagePaths
  <2>3. Rank[msg] \in Nat
    BY MediatorAssumption
  <2>4. ~Restored(got)
    BY <2>2, <2>3 DEF Restored
  <2>5. msg \in DOMAIN got => LastOnMessage(got) = msg
    <3>1. msg \in DOMAIN got => OnMessage(msg) /\ \A q \in DOMAIN got : OnMessage(q) => Rank[q] <= Rank[msg]
      BY <2>2, <2>3, MessagePaths
    <3> QED BY <2>2, <3>1 DEF LastOnMessage
  <2>6. ASSUME NEW q \in DOMAIN b
        PROVE  b[q] = IF q \in DOMAIN got THEN Relabelled(body[q], body[q]) ELSE body[q]
    <3>1. CASE q = msg
      <4>1. (\E p \in DOMAIN got : OnMessage(p)) <=> msg \in DOMAIN got
        BY <2>2, MessagePaths
      <4> QED BY <1>1, <2>4, <2>5, <3>1, <4>1
    <3>2. CASE q # msg
      BY <1>1, <2>2, <2>4, <3>2
    <3> QED BY <3>1, <3>2
  <2>7. Settled(b)
    <3> SUFFICES ASSUME NEW q \in Needs(b) PROVE b[q].version = Target(b[q])
      BY DEF Settled
    <3>1. q \in DOMAIN b /\ q \in DOMAIN body
      BY <1>1 DEF Needs
    <3>2. CASE q \in DOMAIN got
      <4>1. ASSUME NEW o PROVE Relabelled(o, o).version = Target(Relabelled(o, o))
        BY DEF Relabelled, Target
      <4> QED BY <2>6, <3>1, <3>2, <4>1
    <3>3. CASE q \notin DOMAIN got
      <4>1. b[q] = body[q]
        BY <2>6, <3>1, <3>3
      <4>2. q \in Needs(body)
        BY <3>1, <4>1 DEF Needs
      <4> QED BY <3>3, <4>2
    <3> QED BY <3>2, <3>3
  <2>8. Spared(m, b)
    <3> SUFFICES ASSUME NEW q \in DOMAIN m \ Needs(m), ~\E p \in Needs(m) : Below(p, q)
                 PROVE  q \in DOMAIN b /\ b[q] = m[q]
      BY DEF Spared
    <3>1. q \in DOMAIN body /\ body[q] = m[q]
      BY <1>5 DEF BodyOK, Spared
    <3>2. q \notin DOMAIN got
      BY <3>1 DEF Needs
    <3>3. ASSUME NEW p \in DOMAIN got, Below(p, q) PROVE FALSE
      <4>1. p \in DOMAIN m \ Needs(m) /\ p \in DOMAIN body
        BY <1>2, <3>3
      <4>2. body[p] # m[p]
        BY <4>1, <3>3 DEF Needs
      <4>3. PICK u \in Needs(m) : Below(u, p)
        BY <1>5, <4>1, <4>2 DEF BodyOK, Spared
      <4>4. u \in DOMAIN m
        BY DEF Needs
      <4>5. Below(u, q)
        BY <1>2, <3>3, <4>1, <4>3, <4>4, MessagePaths
      <4> QED BY <4>3, <4>5
    <3>4. q \in DOMAIN b
      BY <1>1, <1>3, <3>1, <3>2, <3>3
    <3> QED BY <2>6, <3>1, <3>2, <3>4
  <2> QED BY <2>7, <2>8
<1> QED BY <1>4, <1>5 DEF BodyOK, b

(* What holds of a request at a step.                                      *)
LEMMA AtStep ==
  ASSUME NEW j, NEW step, At(j, step), JobOK(job[j])
  PROVE  /\ job[j].state = "run" /\ env.steps[job[j].step] = step /\ IsJob(job[j])
         /\ BodyOK(job[j].msg.objects, job[j].body)
BY DEF At, JobOK, MediationOK, Live

(* checkPolicy passes a message on only when the policy does not deny it.  *)
LEMMA CheckPolicyOK ==
  ASSUME EnvOK, NEW j, JobOK(job[j]), CheckPolicy(j)
  PROVE  \E s : JobOK(s) /\ job' = [job EXCEPT ![j] = s]
<1> DEFINE r == job[j]
<1>1. r.state = "run" /\ env.steps[r.step] = "checkPolicy"
  BY AtStep DEF CheckPolicy
<1>2. JobOK(Refused(r))
  BY RefusalOK
<1>3. ASSUME env.policy = "enabled" => Violations(r.msg.verdict) = {}
      PROVE  JobOK(Advanced(r))
  <2>1. env.policy = "enabled" => Undenied(r.msg)
    BY <1>3, DenialsAreViolations
  <2> HIDE DEF r
  <2> QED BY <1>1, <2>1, AdvancedThrough, AdvancesOK DEF r
<1>4. \/ job' = [job EXCEPT ![j] = Refused(r)]
      \/ job' = [job EXCEPT ![j] = Advanced(r)]
         /\ (env.policy = "enabled" => Violations(r.msg.verdict) = {})
  BY DEF CheckPolicy
<1> HIDE DEF r
<1> QED BY <1>2, <1>3, <1>4

(* A message that was just received has passed nothing.                    *)
LEMMA ReceiveOK ==
  ASSUME EnvOK, NEW j, Receive(j)
  PROVE  \E s : JobOK(s) /\ job' = [job EXCEPT ![j] = s]
<1>1. PICK m \in env.traffic : job' = [job EXCEPT ![j] = Received(m)]
  BY DEF Receive
<1> DEFINE s == Received(m)
<1>2. /\ IsJob(s) /\ s.state \in {"run", "refused"}
      /\ s.msg = m /\ s.body = m.objects /\ s.step = 1 /\ s.route = None /\ s.heard = None
      /\ s.left = {} /\ s.fetch = None /\ s.got = <<>> /\ s.failed = FALSE
  BY ReceivedFields
<1>3. BodyOK(m.objects, m.objects)
  <2>1. DOMAIN m.objects \subseteq Seq(STRING)
    BY <1>1, StepsAssumption DEF EnvOK
  <2>2. Seq(STRING) \subseteq Seq(Keys)
    BY SeqMonotonic DEF Keys
  <2> QED BY <2>1, <2>2 DEF BodyOK, Within, Spared
<1>4. 1 \in 1 .. Len(env.steps)
  BY StepsNonempty
<1> HIDE DEF s
<1>5. ASSUME NEW step, Live(s) PROVE ~Passed(s, step)
  <2>1. s.state # "forward"
    BY <1>2
  <2>2. \A k \in 1 .. Len(env.steps) : ~(k < 1)
    BY StepsNonempty
  <2> QED BY <1>2, <2>1, <2>2 DEF Passed
<1>6. Placed(s) /\ FetchOK(s) /\ NeedsOK(s) /\ RouteOK(s) /\ HeardOK(s)
  BY <1>2, <1>4 DEF Placed, FetchOK, NeedsOK, Entering, RouteOK, HeardOK, Live
<1>7. MediationOK(s) /\ PolicyOK(s)
  BY <1>2, <1>3, <1>5 DEF MediationOK, PolicyOK
<1> QED BY <1>1, <1>2, <1>6, <1>7 DEF JobOK, s

(* The slot is free again.                                                 *)
LEMMA AnsweredOK ==
  ASSUME NEW j, Answered(j)
  PROVE  \E s : JobOK(s) /\ job' = [job EXCEPT ![j] = s]
<1>1. JobOK(NoJob)
  BY NoJobFields DEF JobOK, Placed, FetchOK, NeedsOK, RouteOK, HeardOK, Live, MediationOK, PolicyOK
<1> QED BY <1>1 DEF Answered

(* addRoute gives the message a route of its own.                          *)
LEMMA AddRouteOK ==
  ASSUME EnvOK, NEW j, JobOK(job[j]), AddRoute(j)
  PROVE  \E s : JobOK(s) /\ job' = [job EXCEPT ![j] = s]
<1> DEFINE r == job[j]
<1>1. r.state = "run" /\ env.steps[r.step] = "addRoute" /\ IsJob(r)
  BY AtStep DEF AddRoute
<1>2. CASE job' = [job EXCEPT ![j] = Refused(r)]
  BY <1>2, RefusalOK
<1>3. CASE \E route \in Routes(r.msg) : job' = [job EXCEPT ![j] = Routed(r, route)]
  <2>1. PICK route \in Routes(r.msg) : job' = [job EXCEPT ![j] = Routed(r, route)]
    BY <1>3
  <2>2. Owns(r.msg, route)
    BY RoutesOwned
  <2> DEFINE q == [r EXCEPT !.route = route]
  <2> HIDE DEF r
  <2>3. IsJob(q) /\ q.state = r.state /\ q.step = r.step /\ q.msg = r.msg /\ q.remote = r.remote
        /\ q.body = r.body /\ q.route = route
    BY <1>1 DEF IsJob
  <2>4. Routed(r, route) = Advanced(q)
    BY DEF Routed
  <2> HIDE DEF q
  <2> DEFINE s == Advanced(q)
  <2>5. Through(r, s) /\ s.body = r.body /\ s.heard = None /\ s.route = route
    BY <2>3, AdvancedFields DEF Through
  <2> HIDE DEF s
  <2>6. s.msg = r.msg
    BY <2>5 DEF Through
  <2>7. HeardOK(s) /\ RouteOK(s)
    BY <2>2, <2>5, <2>6 DEF HeardOK, RouteOK
  <2>8. JobOK(s)
    BY <1>1, <2>5, <2>7, AdvancesOK DEF r
  <2> QED BY <2>1, <2>4, <2>8 DEF s
<1> QED BY <1>2, <1>3 DEF AddRoute

-----------------------------------------------------------------------------
(* The steps that take several actions *)

(* The objects a step is to look at.                                       *)
LEMMA LeftOK ==
  ASSUME EnvOK, NEW r, JobOK(r), r.state = "run", Entering(r), NEW S,
         env.steps[r.step] = "mediateSchema" => S = Needs(r.body)
  PROVE  JobOK([r EXCEPT !.left = S])
<1> DEFINE s == [r EXCEPT !.left = S]
<1>1. IsJob(s) /\ SameMessage(r, s) /\ s.left = S /\ s.fetch = r.fetch /\ s.got = r.got
      /\ s.failed = r.failed /\ s.heard = r.heard
  BY DEF JobOK, IsJob, SameMessage
<1>2. r.fetch = None /\ r.got = <<>>
  BY DEF Entering
<1> HIDE DEF s
<1>3. FetchOK(s) /\ HeardOK(s)
  BY <1>1, <1>2 DEF FetchOK, HeardOK, JobOK
<1>4. DOMAIN s.got = {}
  BY <1>1, <1>2
<1>5. NeedsOK(s)
  BY <1>1, <1>4 DEF NeedsOK, SameMessage
<1>6. JobOK(s)
  BY <1>1, <1>3, <1>5, StaysOK
<1> QED BY <1>6 DEF s

(* The request waits for the download of an object it is to look at.       *)
LEMMA FetchingOK ==
  ASSUME EnvOK, NEW r, JobOK(r), r.state = "run", NEW p \in r.left
  PROVE  JobOK(Fetching(r, p))
<1> DEFINE s == Fetching(r, p)
<1>1. /\ IsJob(s) /\ SameMessage(r, s) /\ s.left = r.left /\ s.got = r.got
      /\ s.failed = r.failed /\ s.heard = r.heard
      /\ s.fetch = [path |-> p, at |-> now, attempt |-> 1]
  BY FetchingFields DEF JobOK
<1> HIDE DEF s
<1>2. s.fetch.path = p /\ s.fetch.at = now
  BY <1>1
<1>3. now \in Nat /\ DownloadTimeout \in Nat
  BY ValidatorAssumption DEF EnvOK
<1>4. FetchOK(s)
  BY <1>1, <1>2, <1>3 DEF FetchOK
<1>5. HeardOK(s)
  BY <1>1 DEF HeardOK, JobOK
<1>6. ~Entering(r)
  BY DEF Entering
<1>7. NeedsOK(s)
  BY <1>1, <1>6 DEF NeedsOK, SameMessage, JobOK
<1>8. JobOK(s)
  BY <1>1, <1>4, <1>5, <1>7, StaysOK
<1> QED BY <1>8 DEF s

(* An object is judged by a schema that is fresh enough.                   *)
LEMMA JudgedOK ==
  ASSUME EnvOK, NEW r, JobOK(r), r.state = "run", env.steps[r.step] = "validateSchema",
         NEW p, NEW h, h # None => FreshEnough(h)
  PROVE  JobOK(Judged(r, p, h))
<1>1. IsJob(r)
  BY DEF JobOK
<1>2. CASE r.body[p].fits # "ok"
  <2> DEFINE q == Refused(r)
             s == [q EXCEPT !.heard = h]
  <2>1. IsJob(q) /\ q.state = "refused" /\ q.msg = r.msg /\ q.route = r.route
    BY <1>1, RefusedFields
  <2>2. Judged(r, p, h) = s
    BY <1>2 DEF Judged
  <2> HIDE DEF q
  <2>3. IsJob(s) /\ s.state = "refused" /\ s.msg = r.msg /\ s.route = r.route /\ s.heard = h
    BY <2>1 DEF IsJob
  <2> HIDE DEF s
  <2>4. HeardOK(s)
    BY <2>3 DEF HeardOK
  <2> QED BY <2>2, <2>3, <2>4, RefusedOK
<1>3. CASE r.body[p].fits = "ok" /\ r.left = {p}
  <2> DEFINE q == Advanced(r)
             s == [q EXCEPT !.heard = h]
  <2>1. Through(r, q) /\ q.body = r.body /\ RouteOK(q)
    BY AdvancedThrough
  <2>2. Judged(r, p, h) = s
    BY <1>3 DEF Judged
  <2> HIDE DEF q
  <2>3. Through(r, s) /\ s.body = r.body /\ s.heard = h /\ s.route = q.route /\ s.msg = q.msg
    BY <2>1 DEF Through, IsJob
  <2> HIDE DEF s
  <2>4. HeardOK(s) /\ RouteOK(s)
    BY <2>1, <2>3 DEF HeardOK, RouteOK
  <2> QED BY <2>2, <2>3, <2>4, AdvancesOK
<1>4. CASE r.body[p].fits = "ok" /\ r.left # {p}
  <2> DEFINE s == [r EXCEPT !.left = @ \ {p}, !.fetch = None, !.heard = h]
  <2>1. Judged(r, p, h) = s
    BY <1>4 DEF Judged
  <2>2. IsJob(s) /\ SameMessage(r, s) /\ s.fetch = None /\ s.heard = h
    BY <1>1 DEF IsJob, SameMessage
  <2> HIDE DEF s
  <2>3. FetchOK(s) /\ HeardOK(s)
    BY <2>2 DEF FetchOK, HeardOK
  <2>4. NeedsOK(s)
    BY <2>2 DEF NeedsOK, SameMessage
  <2> QED BY <2>1, <2>2, <2>3, <2>4, StaysOK
<1> QED BY <1>2, <1>3, <1>4

(* A need is answered by an artifact that is fresh enough, or fails.       *)
LEMMA GotOK ==
  ASSUME EnvOK, NEW r, JobOK(r), r.state = "run", env.steps[r.step] = "mediateSchema",
         NEW p \in r.left, NEW effect, NEW age, FreshEnough([from |-> effect, age |-> age])
  PROVE  JobOK(Got(r, p, effect, age))
<1> DEFINE s == Got(r, p, effect, age)
<1>1. /\ IsJob(s) /\ SameMessage(r, s) /\ s.left = r.left \ {p} /\ s.fetch = None
      /\ effect \in Effects => DOMAIN s.got = DOMAIN r.got \cup {p}
      /\ effect \notin Effects => s.failed
      /\ r.failed => s.failed
      /\ s.heard = [from |-> effect, age |-> age]
  BY GotFields DEF JobOK
<1> HIDE DEF s
<1>2. FetchOK(s) /\ HeardOK(s)
  BY <1>1 DEF FetchOK, HeardOK
<1>3. ~Entering(r)
  BY DEF Entering
<1>4. r.failed \/ DOMAIN r.got \cup r.left = Needs(r.body)
  BY <1>3 DEF JobOK, NeedsOK
<1>5. NeedsOK(s)
  <2>1. CASE r.failed \/ effect \notin Effects
    BY <1>1, <2>1 DEF NeedsOK
  <2>2. CASE ~r.failed /\ effect \in Effects
    <3>1. DOMAIN s.got \cup s.left = Needs(r.body)
      BY <1>1, <1>4, <2>2
    <3> QED BY <1>1, <3>1 DEF NeedsOK, SameMessage
  <2> QED BY <2>1, <2>2
<1>6. JobOK(s)
  BY <1>1, <1>2, <1>5, StaysOK
<1> QED BY <1>6 DEF s

(* The download is tried once more.                                        *)
LEMMA RetriedOK ==
  ASSUME EnvOK, NEW r, JobOK(r), r.state = "run", r.fetch # None
  PROVE  JobOK(Retried(r))
<1> DEFINE s == Retried(r)
<1>1. /\ IsJob(s) /\ SameMessage(r, s) /\ s.left = r.left /\ s.got = r.got
      /\ s.failed = r.failed /\ s.heard = r.heard
      /\ s.fetch.path = r.fetch.path /\ s.fetch.at = r.fetch.at
  BY RetriedFields DEF JobOK
<1> HIDE DEF s
<1>2. FetchOK(s) /\ HeardOK(s)
  BY <1>1 DEF FetchOK, HeardOK, JobOK, SameMessage
<1>3. ~Entering(r)
  BY DEF Entering
<1>4. NeedsOK(s)
  BY <1>1, <1>3 DEF NeedsOK, JobOK, SameMessage
<1>5. JobOK(s)
  BY <1>1, <1>2, <1>4, StaysOK
<1> QED BY <1>5 DEF s

(* mediateSchema lets a message through as it was, or settled.             *)
LEMMA PassesOK ==
  ASSUME EnvOK, NEW r, JobOK(r), r.state = "run", env.steps[r.step] = "mediateSchema",
         env.onFailure = "passThrough" \/ ~r.remote \/ Settled(r.body)
  PROVE  JobOK(Advanced(r))
<1> DEFINE s == Advanced(r)
<1>1. Through(r, s) /\ s.body = r.body /\ HeardOK(s) /\ RouteOK(s)
  BY AdvancedThrough
<1> HIDE DEF s
<1>2. s.msg = r.msg /\ s.remote = r.remote
  BY <1>1 DEF Through
<1>3. BodyOK(r.msg.objects, r.body)
  BY DEF JobOK, MediationOK, Live
<1>4. Confined(s.msg.objects) => Supported(s)
  BY <1>1, <1>2, <1>3 DEF Supported, BodyOK
<1>5. JobOK(s)
  BY <1>1, <1>4, AdvancesOK
<1> QED BY <1>5 DEF s

(* onFailure: the message as it was, or a refusal.                         *)
LEMMA FailureOK ==
  ASSUME EnvOK, NEW r, JobOK(r), r.state = "run", env.steps[r.step] = "mediateSchema"
  PROVE  JobOK(ApplyOnFailure(r))
BY PassesOK, RefusalOK DEF ApplyOnFailure

-----------------------------------------------------------------------------
(* validateSchema, up to the base schema.                                  *)
LEMMA ValidateBaseOK ==
  ASSUME EnvOK, NEW j, JobOK(job[j]), ValidateBase(j)
  PROVE  \E s : JobOK(s) /\ job' = [job EXCEPT ![j] = s]
<1> DEFINE r == job[j]
<1>1. r.state = "run" /\ env.steps[r.step] = "validateSchema" /\ Entering(r)
  BY AtStep DEF ValidateBase
<1>2. \/ job' = [job EXCEPT ![j] = Refused(r)]
      \/ job' = [job EXCEPT ![j] = Advanced(r)]
      \/ job' = [job EXCEPT ![j] = [r EXCEPT !.left = ReferencedObjects(r)]]
  BY DEF ValidateBase
<1> HIDE DEF r
<1>3. JobOK(Refused(r)) /\ JobOK(Advanced(r))
  BY <1>1, RefusalOK, AdvancedThrough, AdvancesOK DEF r
<1>4. JobOK([r EXCEPT !.left = ReferencedObjects(r)])
  BY <1>1, LeftOK DEF r
<1> QED BY <1>2, <1>3, <1>4

(* validateSchema, an object: the schema from memory or from the cache is  *)
(* fresh, and the cache stays in order.                                    *)
LEMMA ValidateObjectOK ==
  ASSUME EnvOK, SchemasOK(schemas), Len(schemas) <= MaxCacheSize,
         NEW j, JobOK(job[j]), ValidateObject(j)
  PROVE  /\ \E s : JobOK(s) /\ job' = [job EXCEPT ![j] = s]
         /\ SchemasOK(schemas') /\ Len(schemas') <= MaxCacheSize
<1> DEFINE r == job[j]
<1>1. r.state = "run" /\ env.steps[r.step] = "validateSchema"
  BY AtStep DEF ValidateObject
<1>2. now \in Nat /\ DownloadTimeout \in Nat /\ SchemaTTL \in Nat
  BY ValidatorAssumption DEF EnvOK
<1>3. PICK p \in r.left :
        \/ /\ SetSchema(r.body[p].type, now)
           /\ job' = [job EXCEPT ![j] = Judged(r, p, None)]
        \/ job' = [job EXCEPT ![j] = Refused(r)] /\ UNCHANGED schemas
        \/ \E key : \E i \in CachedSchema(key) :
             /\ GetSchema(i)
             /\ job' = [job EXCEPT ![j] =
                  Judged(r, p, [from |-> "schemas", age |-> now - schemas[i].read])]
        \/ job' = [job EXCEPT ![j] = Fetching(r, p)] /\ UNCHANGED schemas
  BY DEF ValidateObject, CachedByType
<1> HIDE DEF r
<1>4. CASE /\ SetSchema(r.body[p].type, now)
           /\ job' = [job EXCEPT ![j] = Judged(r, p, None)]
  <2>1. SchemasOK(schemas') /\ Len(schemas') <= MaxCacheSize
    BY <1>2, <1>4, SetSchemaKeeps
  <2>2. JobOK(Judged(r, p, None))
    BY <1>1, JudgedOK DEF r
  <2> QED BY <1>4, <2>1, <2>2
<1>5. CASE job' = [job EXCEPT ![j] = Refused(r)] /\ UNCHANGED schemas
  BY <1>5, RefusalOK DEF r
<1>6. CASE \E key : \E i \in CachedSchema(key) :
             /\ GetSchema(i)
             /\ job' = [job EXCEPT ![j] =
                  Judged(r, p, [from |-> "schemas", age |-> now - schemas[i].read])]
  <2>0. PICK key : \E i \in CachedSchema(key) :
             /\ GetSchema(i)
             /\ job' = [job EXCEPT ![j] =
                  Judged(r, p, [from |-> "schemas", age |-> now - schemas[i].read])]
    BY <1>6
  <2>1. PICK i \in CachedSchema(key) :
             /\ GetSchema(i)
             /\ job' = [job EXCEPT ![j] =
                  Judged(r, p, [from |-> "schemas", age |-> now - schemas[i].read])]
    BY <2>0
  <2>2. i \in DOMAIN schemas /\ now <= schemas[i].expiresAt
    BY DEF CachedSchema
  <2>3. SchemasOK(schemas') /\ Len(schemas') <= MaxCacheSize
    BY <2>1, <2>2, GetSchemaKeeps
  <2>4. SchemaOK(schemas[i])
    BY <2>2 DEF SchemasOK
  <2>5. now - schemas[i].read <= SchemaTTL + DownloadTimeout
    BY <1>2, <2>2, <2>4 DEF SchemaOK
  <2> DEFINE h == [from |-> "schemas", age |-> now - schemas[i].read]
  <2>6. h.from = "schemas" /\ h.age = now - schemas[i].read
    OBVIOUS
  <2> HIDE DEF h
  <2>7. FreshEnough(h)
    BY <2>5, <2>6 DEF FreshEnough
  <2>8. JobOK(Judged(r, p, h))
    BY <1>1, <2>7, JudgedOK DEF r
  <2> QED BY <2>1, <2>3, <2>8 DEF h
<1>7. CASE job' = [job EXCEPT ![j] = Fetching(r, p)] /\ UNCHANGED schemas
  <2>1. JobOK(Fetching(r, p))
    BY <1>1, FetchingOK DEF r
  <2> QED BY <1>7, <2>1
<1> QED BY <1>3, <1>4, <1>5, <1>6, <1>7

(* validateSchema, the end of a download: within its timeout.              *)
LEMMA SchemaLoadedOK ==
  ASSUME EnvOK, SchemasOK(schemas), Len(schemas) <= MaxCacheSize,
         NEW j, JobOK(job[j]), SchemaLoaded(j)
  PROVE  /\ \E s : JobOK(s) /\ job' = [job EXCEPT ![j] = s]
         /\ SchemasOK(schemas') /\ Len(schemas') <= MaxCacheSize
<1> DEFINE r == job[j]
           h == [from |-> "schemas", age |-> now - r.fetch.at]
<1>1. r.state = "run" /\ env.steps[r.step] = "validateSchema" /\ r.fetch # None
  BY AtStep DEF SchemaLoaded
<1>2. now \in Nat /\ DownloadTimeout \in Nat /\ SchemaTTL \in Nat
  BY ValidatorAssumption DEF EnvOK
<1>3. r.fetch.at \in Nat /\ r.fetch.at <= now /\ now <= r.fetch.at + DownloadTimeout
  BY <1>1 DEF JobOK, FetchOK
<1>4. CASE job' = [job EXCEPT ![j] = Refused(r)] /\ UNCHANGED schemas
  BY <1>4, RefusalOK
<1>5. CASE /\ SetSchema(SchemaURL(r.body[r.fetch.path]), r.fetch.at)
           /\ job' = [job EXCEPT ![j] = Judged(r, r.fetch.path, h)]
  <2>1. h.from = "schemas" /\ h.age = now - r.fetch.at
    OBVIOUS
  <2> HIDE DEF r, h
  <2>2. FreshEnough(h)
    BY <1>2, <1>3, <2>1 DEF FreshEnough
  <2>3. SchemasOK(schemas') /\ Len(schemas') <= MaxCacheSize
    BY <1>2, <1>3, <1>5, SetSchemaKeeps
  <2>4. JobOK(Judged(r, r.fetch.path, h))
    BY <1>1, <2>2, JudgedOK DEF r
  <2> QED BY <1>5, <2>3, <2>4
<1> QED BY <1>4, <1>5 DEF SchemaLoaded

(* mediateSchema, up to the artifacts.                                     *)
LEMMA BeginMediateOK ==
  ASSUME EnvOK, NEW j, JobOK(job[j]), BeginMediate(j)
  PROVE  \E s : JobOK(s) /\ job' = [job EXCEPT ![j] = s]
<1> DEFINE r == job[j]
<1>1. r.state = "run" /\ env.steps[r.step] = "mediateSchema" /\ Entering(r)
  BY AtStep DEF BeginMediate
<1>2. \/ job' = [job EXCEPT ![j] = Refused(r)]
      \/ job' = [job EXCEPT ![j] = Advanced(r)] /\ (~r.remote \/ Needs(r.body) = {})
      \/ job' = [job EXCEPT ![j] = ApplyOnFailure(r)]
      \/ job' = [job EXCEPT ![j] = [r EXCEPT !.left = Needs(r.body)]]
  BY DEF BeginMediate
<1> HIDE DEF r
<1>3. JobOK(Refused(r)) /\ JobOK(ApplyOnFailure(r))
  BY <1>1, RefusalOK, FailureOK DEF r
<1>4. JobOK([r EXCEPT !.left = Needs(r.body)])
  BY <1>1, LeftOK DEF r
<1>5. ASSUME ~r.remote \/ Needs(r.body) = {} PROVE JobOK(Advanced(r))
  <2>1. Needs(r.body) = {} => Settled(r.body)
    BY DEF Settled
  <2> QED BY <1>1, <1>5, <2>1, PassesOK DEF r
<1> QED BY <1>2, <1>3, <1>4, <1>5

(* mediateSchema, a need answered by the cache or asked for.               *)
LEMMA FetchArtifactOK ==
  ASSUME EnvOK, ArtifactsOK, NEW j, JobOK(job[j]), FetchArtifact(j), now' = now
  PROVE  (\E s : JobOK(s) /\ job' = [job EXCEPT ![j] = s]) /\ ArtifactsOK'
<1> DEFINE r == job[j]
<1>1. r.state = "run" /\ env.steps[r.step] = "mediateSchema"
  BY AtStep DEF FetchArtifact
<1>2. PICK p \in r.left :
        \/ job' = [job EXCEPT ![j] = Got(r, p, "noURL", 0)] /\ UNCHANGED mediator
        \/ /\ GetArtifact(ArtifactURL(r.body[p]))
           /\ \/ job' = [job EXCEPT ![j] = Fetching(r, p)]
              \/ \E e \in LiveArtifact(ArtifactURL(r.body[p])) :
                   job' = [job EXCEPT ![j] = Got(r, p, e.effect, now - e.fetchedAt)]
  BY DEF FetchArtifact
<1> HIDE DEF r
<1>3. CASE job' = [job EXCEPT ![j] = Got(r, p, "noURL", 0)] /\ UNCHANGED mediator
  <2>1. FreshEnough([from |-> "noURL", age |-> 0])
    BY MediatorAssumption DEF FreshEnough, Missing
  <2>2. JobOK(Got(r, p, "noURL", 0))
    BY <1>1, <2>1, GotOK DEF r
  <2>3. ArtifactsOK'
    BY <1>3 DEF ArtifactsOK, mediator, IsSeq, ToSet
  <2> QED BY <1>3, <2>2, <2>3
<1>4. CASE /\ GetArtifact(ArtifactURL(r.body[p]))
           /\ job' = [job EXCEPT ![j] = Fetching(r, p)]
  <2>1. JobOK(Fetching(r, p))
    BY <1>1, FetchingOK DEF r
  <2> QED BY <1>4, <2>1, GetArtifactKeeps
<1>5. CASE /\ GetArtifact(ArtifactURL(r.body[p]))
           /\ \E e \in LiveArtifact(ArtifactURL(r.body[p])) :
                job' = [job EXCEPT ![j] = Got(r, p, e.effect, now - e.fetchedAt)]
  <2>1. PICK e \in LiveArtifact(ArtifactURL(r.body[p])) :
          job' = [job EXCEPT ![j] = Got(r, p, e.effect, now - e.fetchedAt)]
    BY <1>5
  <2>2. now - e.fetchedAt <= TTL(e) /\ e.effect \in Effects \cup {Missing}
    BY DEF LiveArtifact, ArtifactsOK
  <2> DEFINE h == [from |-> e.effect, age |-> now - e.fetchedAt]
  <2>3. h.from = e.effect /\ h.age = now - e.fetchedAt
    OBVIOUS
  <2>4. e.effect # "schemas"
    BY <2>2 DEF Effects, Missing
  <2> HIDE DEF h
  <2>5. FreshEnough(h)
    BY <2>2, <2>3, <2>4 DEF FreshEnough, TTL
  <2>6. JobOK(Got(r, p, e.effect, now - e.fetchedAt))
    BY <1>1, <2>5, GotOK DEF r, h
  <2> QED BY <1>5, <2>1, <2>6, GetArtifactKeeps
<1> QED BY <1>2, <1>3, <1>4, <1>5

(* mediateSchema, the end of a request for an artifact.                    *)
LEMMA ArtifactAnsweredOK ==
  ASSUME EnvOK, ArtifactsOK, NEW j, JobOK(job[j]), ArtifactAnswered(j), now' = now
  PROVE  (\E s : JobOK(s) /\ job' = [job EXCEPT ![j] = s]) /\ ArtifactsOK'
<1> DEFINE r == job[j]
           p == r.fetch.path
<1>1. r.state = "run" /\ env.steps[r.step] = "mediateSchema" /\ r.fetch # None
  BY AtStep DEF ArtifactAnswered
<1>2. p \in r.left
  BY <1>1 DEF JobOK, FetchOK
<1>3. \/ \E effect \in Effects \cup {Missing} :
           /\ SetArtifact(ArtifactURL(r.body[p]), effect)
           /\ job' = [job EXCEPT ![j] = Got(r, p, effect, 0)]
      \/ /\ \/ job' = [job EXCEPT ![j] = Retried(r)]
            \/ job' = [job EXCEPT ![j] = Got(r, p, "unreachable", 0)]
         /\ UNCHANGED mediator
  BY DEF ArtifactAnswered
<1> HIDE DEF r, p
<1>4. ASSUME NEW effect, effect # "schemas" PROVE JobOK(Got(r, p, effect, 0))
  <2> DEFINE h == [from |-> effect, age |-> 0]
  <2>1. h.from = effect /\ h.age = 0
    OBVIOUS
  <2> HIDE DEF h
  <2>2. FreshEnough(h)
    BY <1>4, <2>1, MediatorAssumption DEF FreshEnough
  <2> QED BY <1>1, <1>2, <2>2, GotOK DEF r, h
<1>5. CASE UNCHANGED mediator
           /\ (\/ job' = [job EXCEPT ![j] = Retried(r)]
               \/ job' = [job EXCEPT ![j] = Got(r, p, "unreachable", 0)])
  <2>1. JobOK(Retried(r)) /\ JobOK(Got(r, p, "unreachable", 0))
    BY <1>1, <1>4, RetriedOK DEF r
  <2>2. ArtifactsOK'
    BY <1>5 DEF ArtifactsOK, mediator, IsSeq, ToSet
  <2> QED BY <1>5, <2>1, <2>2
<1>6. CASE \E effect \in Effects \cup {Missing} :
           /\ SetArtifact(ArtifactURL(r.body[p]), effect)
           /\ job' = [job EXCEPT ![j] = Got(r, p, effect, 0)]
  <2>1. PICK effect \in Effects \cup {Missing} :
           /\ SetArtifact(ArtifactURL(r.body[p]), effect)
           /\ job' = [job EXCEPT ![j] = Got(r, p, effect, 0)]
    BY <1>6
  <2>2. effect # "schemas"
    BY DEF Effects, Missing
  <2>3. ArtifactsOK'
    BY <2>1, SetArtifactKeeps DEF EnvOK
  <2> QED BY <1>4, <2>1, <2>2, <2>3
<1> QED BY <1>3, <1>5, <1>6

(* mediateSchema, the artifacts applied: no need was left unanswered.      *)
LEMMA MediateSchemaOK ==
  ASSUME EnvOK, NEW j, JobOK(job[j]), MediateSchema(j)
  PROVE  \E s : JobOK(s) /\ job' = [job EXCEPT ![j] = s]
<1> DEFINE r == job[j]
           b == Mediated(r.body, r.got)
           q == [r EXCEPT !.body = b]
<1>1. /\ r.state = "run" /\ env.steps[r.step] = "mediateSchema" /\ IsJob(r)
      /\ BodyOK(r.msg.objects, r.body) /\ ~Entering(r) /\ r.left = {}
  BY AtStep DEF MediateSchema
<1>2. \/ job' = [job EXCEPT ![j] = Refused(r)]
      \/ job' = [job EXCEPT ![j] = ApplyOnFailure(r)]
      \/ job' = [job EXCEPT ![j] = Advanced(q)] /\ ~r.failed
  BY DEF MediateSchema
<1> HIDE DEF r
<1>3. JobOK(Refused(r)) /\ JobOK(ApplyOnFailure(r))
  BY <1>1, RefusalOK, FailureOK DEF r
<1>4. ASSUME ~r.failed PROVE JobOK(Advanced(q))
  <2>1. DOMAIN r.got = Needs(r.body)
    BY <1>1, <1>4 DEF JobOK, NeedsOK, r
  <2>2. BodyOK(r.msg.objects, b) /\ (Confined(r.msg.objects) => Settled(b))
    BY <1>1, <2>1, MediatedOK
  <2> HIDE DEF b
  <2>3. IsJob(q) /\ q.state = r.state /\ q.step = r.step /\ q.msg = r.msg /\ q.remote = r.remote
        /\ q.route = r.route /\ q.body = b
    BY <1>1 DEF IsJob
  <2> HIDE DEF q
  <2> DEFINE s == Advanced(q)
  <2>4. Through(r, s) /\ s.body = b /\ s.heard = None /\ s.route = r.route /\ s.msg = r.msg
    BY <2>3, AdvancedFields DEF Through
  <2> HIDE DEF s
  <2>5. HeardOK(s) /\ RouteOK(s)
    BY <2>4 DEF HeardOK, RouteOK, JobOK, r
  <2>6. Confined(s.msg.objects) => Supported(s)
    BY <2>2, <2>4 DEF Supported
  <2>7. JobOK(s)
    BY <1>1, <2>2, <2>4, <2>5, <2>6, ThroughOK DEF r
  <2> QED BY <2>7 DEF s
<1> HIDE DEF q
<1> QED BY <1>2, <1>3, <1>4

-----------------------------------------------------------------------------
(* The action index *)

IsLoad(l) == DOMAIN l = {"phase", "left", "got", "held"} /\ l = [x \in DOMAIN l |-> l[x]]

AllDocuments == UNION {Documents(s) : s \in ToSet(env.sources)}

(* The reload read the document, or could not and it is a directory's.     *)
Heeded(l, f) ==
  f \in DOMAIN l.got \/ (InDirectory(f) /\ <<f, Unreadable>> \in l.held)

(* What has been read was there to be read, and of the sources that are    *)
(* done every document was heeded.                                         *)
LoadingOK(l) ==
  /\ \A f \in AllDocuments : <<f, world[f]>> \in l.held
  /\ \A f \in DOMAIN l.got : l.got[f] # Unreadable /\ <<f, l.got[f]>> \in l.held
  /\ index # None =>
       \A s \in ToSet(env.sources) \ ToSet(l.left) : \A f \in Documents(s) : Heeded(l, f)

LoadOK ==
  /\ IsLoad(load) /\ IsSeq(load.left) /\ DOMAIN world = DOMAIN Offers
  /\ ToSet(load.left) \subseteq ToSet(env.sources)
  /\ load.left # <<>> => load.phase = "loading"
  /\ index # None => DOMAIN index \subseteq AllDocuments
  /\ DOMAIN load.got \subseteq AllDocuments
  /\ load.phase = "loading" => LoadingOK(load)

(* No action left the index without a reason.                              *)
Accounted ==
  index # None =>
    \A f \in DOMAIN index : \A a \in index[f] \ Merged(index') :
      \/ \E h \in load.held : h[1] = f /\ h[2] # Unreadable /\ a \notin h[2]
      \/ InDirectory(f) /\ <<f, Unreadable>> \in load.held

ContentInv ==
  /\ EnvOK
  /\ job = [j \in Jobs |-> job[j]]
  /\ \A j \in Jobs : JobOK(job[j])
  /\ SchemasOK(schemas) /\ Len(schemas) <= MaxCacheSize
  /\ ArtifactsOK /\ LoadOK

(* No load has read anything, or is to read anything.                      *)
LEMMA IdleFields ==
  /\ IsLoad(Idle) /\ Idle.left = <<>> /\ DOMAIN Idle.got = {} /\ Idle.phase = "idle"
  /\ IsLoad(Dead) /\ Dead.left = <<>> /\ DOMAIN Dead.got = {} /\ Dead.phase = "dead"
BY DEF IsLoad, Idle, Dead

(* The empty sequence.                                                     *)
LEMMA EmptyIsSeq == IsSeq(<<>>) /\ ToSet(<<>>) = {} /\ DOMAIN <<>> = {} /\ Len(<<>>) = 0
BY EmptySeq, SeqIs DEF IsSeq, ToSet

(* The sources are a sequence.                                             *)
LEMMA SourcesSeq ==
  ASSUME EnvOK
  PROVE  IsSeq(env.sources)
BY ValidatorAssumption, SeqIs DEF EnvOK, IsSeq

(* Every document of a source is one that may be there.                    *)
LEMMA DocumentsOffered ==
  ASSUME EnvOK
  PROVE  AllDocuments \subseteq DOMAIN Offers
<1> SUFFICES ASSUME NEW s \in ToSet(env.sources), NEW f \in Documents(s) PROVE f \in DOMAIN Offers
  BY DEF AllDocuments
<1>1. env.sources \in Seq(DOMAIN Offers) /\ FilesOf[s] \in Seq(DOMAIN Offers)
  BY ValidatorAssumption DEF EnvOK
<1>2. \A t \in Seq(DOMAIN Offers) : ToSet(t) \subseteq DOMAIN Offers
  BY SeqIs DEF ToSet
<1> QED BY <1>1, <1>2 DEF Documents

(* Steps that have nothing to do with the index.                           *)
LEMMA SameLoad ==
  ASSUME LoadOK, UNCHANGED <<env, world, load, index>>
  PROVE  LoadOK'
<1>1. AllDocuments' = AllDocuments
  BY DEF AllDocuments
<1>2. LoadingOK(load) => LoadingOK(load)'
  BY <1>1 DEF LoadingOK, Heeded, InDirectory, Documents
<1> QED BY <1>1, <1>2 DEF LoadOK

(* A load that fails leaves the index alone.                               *)
LEMMA LoadFailsOK ==
  ASSUME LoadOK, LoadFails, UNCHANGED <<env, index, world>>
  PROVE  LoadOK'
<1>1. load' = Idle \/ load' = Dead
  BY DEF LoadFails
<1>2. IsLoad(load') /\ load'.left = <<>> /\ DOMAIN load'.got = {} /\ load'.phase # "loading"
  BY <1>1, IdleFields
<1>3. IsSeq(load'.left) /\ ToSet(load'.left) = {}
  BY <1>2, EmptyIsSeq
<1>4. AllDocuments' = AllDocuments
  BY DEF AllDocuments
<1> QED BY <1>2, <1>3, <1>4 DEF LoadOK

(* A document that changes is remembered by the load under way.            *)
LEMMA SourceChangesOK ==
  ASSUME EnvOK, LoadOK, SourceChanges, env' = env
  PROVE  LoadOK'
<1>1. PICK f, d : /\ world' = [world EXCEPT ![f] = d]
                  /\ load' = IF load.phase = "loading"
                             THEN [load EXCEPT !.held = @ \cup {<<f, d>>}] ELSE load
                  /\ UNCHANGED index
  BY DEF SourceChanges
<1>2. AllDocuments' = AllDocuments /\ AllDocuments \subseteq DOMAIN world
  BY DocumentsOffered DEF AllDocuments, LoadOK
<1>3. DOMAIN world' = DOMAIN world /\ \A x \in DOMAIN world : world'[x] = IF x = f THEN d ELSE world[x]
  BY <1>1
<1>4. /\ IsLoad(load') /\ load'.left = load.left /\ load'.got = load.got /\ load'.phase = load.phase
      /\ load.held \subseteq load'.held
      /\ load.phase = "loading" => <<f, d>> \in load'.held
  <2>1. CASE load.phase = "loading"
    BY <1>1, <2>1 DEF LoadOK, IsLoad
  <2>2. CASE load.phase # "loading"
    BY <1>1, <2>2 DEF LoadOK
  <2> QED BY <2>1, <2>2
<1>5. ASSUME load.phase = "loading" PROVE LoadingOK(load)'
  <2>1. LoadingOK(load)
    BY <1>5 DEF LoadOK
  <2>2. \A x \in AllDocuments : <<x, world'[x]>> \in load'.held
    BY <1>2, <1>3, <1>4, <1>5, <2>1 DEF LoadingOK
  <2>3. \A x \in DOMAIN load.got : load.got[x] # Unreadable /\ <<x, load.got[x]>> \in load'.held
    BY <1>4, <2>1 DEF LoadingOK
  <2>4. ASSUME NEW x, Heeded(load, x) PROVE Heeded(load, x)'
    BY <1>4, <2>4 DEF Heeded, InDirectory
  <2> QED BY <1>1, <1>2, <1>4, <2>1, <2>2, <2>3, <2>4 DEF LoadingOK, Documents
<1> QED BY <1>1, <1>2, <1>3, <1>4, <1>5 DEF LoadOK

(* A load is to read every source.                                         *)
LEMMA BeginLoadOK ==
  ASSUME EnvOK, LoadOK, BeginLoad, env' = env
  PROVE  LoadOK'
<1>1. /\ IsLoad(load') /\ load'.left = env.sources /\ DOMAIN load'.got = {}
      /\ load'.held = {<<f, world[f]>> : f \in AllDocuments} /\ load'.phase = "loading"
      /\ UNCHANGED <<world, index>>
  <2>1. load' = [phase |-> "loading", left |-> env.sources, got |-> <<>>,
                 held |-> {<<f, world[f]>> : f \in AllDocuments}]
    BY DEF BeginLoad, AllDocuments
  <2>2. UNCHANGED <<world, index>>
    BY DEF BeginLoad
  <2> HIDE DEF AllDocuments
  <2> QED BY <2>1, <2>2 DEF IsLoad
<1>2. IsSeq(load'.left)
  BY <1>1, SourcesSeq
<1>3. AllDocuments' = AllDocuments
  BY DEF AllDocuments
<1>4. LoadingOK(load)'
  BY <1>1, <1>3 DEF LoadingOK
<1> QED BY <1>1, <1>2, <1>3, <1>4 DEF LoadOK

(* The head of the list is read, the tail still to be.                     *)
LEMMA NextSource ==
  ASSUME LoadOK, load.left # <<>>
  PROVE  /\ IsSeq(Tail(load.left))
         /\ ToSet(load.left) = {Head(load.left)} \cup ToSet(Tail(load.left))
<1> DEFINE u == load.left
           t == Tail(u)
           s == Head(u)
<1>1. Thinned(t, u) /\ IsSeq(u) /\ Len(u) > 0
  BY TailThins, SeqIs, EmptySeq, LenProperties DEF LoadOK, IsSeq
<1>2. /\ DOMAIN u = 1 .. Len(u) /\ DOMAIN t = 1 .. Len(u) - 1 /\ Len(u) \in Nat /\ s = u[1]
      /\ \A i \in DOMAIN t : t[i] = u[i + 1]
  <2>1. u \in Seq(ToSet(u))
    BY <1>1 DEF IsSeq
  <2> QED BY <2>1, HeadTailProperties, LenProperties, EmptySeq
<1> HIDE DEF u, t, s
<1>3. ASSUME NEW i \in DOMAIN u PROVE u[i] \in {s} \cup ToSet(t)
  <2>1. CASE i = 1
    BY <1>2, <2>1
  <2>2. CASE i # 1
    <3>1. i - 1 \in DOMAIN t /\ (i - 1) + 1 = i
      BY <1>2, <2>2
    <3> QED BY <1>2, <3>1 DEF ToSet
  <2> QED BY <2>1, <2>2
<1>4. ASSUME NEW i \in DOMAIN t PROVE t[i] \in ToSet(u)
  <2>1. i + 1 \in DOMAIN u
    BY <1>2
  <2> QED BY <1>2, <2>1 DEF ToSet
<1>5. s \in ToSet(u)
  BY <1>1, <1>2 DEF ToSet
<1>6. ToSet(u) = {s} \cup ToSet(t) /\ IsSeq(t)
  BY <1>1, <1>3, <1>4, <1>5 DEF ToSet, Thinned
<1> QED BY <1>6 DEF u, t, s

(* A specification that loads is what its documents hold; the ones it      *)
(* leaves out are files that cannot be read.                               *)
LEMMA SpecRead ==
  ASSUME NEW s \in ToSet(env.sources), LoadSingleSpec(s) # Unreadable
  PROVE  /\ DOMAIN LoadSingleSpec(s) \subseteq Documents(s)
         /\ \A f \in DOMAIN LoadSingleSpec(s) :
              LoadSingleSpec(s)[f] = world[f] /\ world[f] # Unreadable
         /\ \A f \in Documents(s) \ DOMAIN LoadSingleSpec(s) : InDirectory(f) /\ world[f] = Unreadable
<1>1. CASE FilesOf[s] = <<>>
  BY <1>1 DEF LoadSingleSpec, Documents
<1>2. CASE FilesOf[s] # <<>>
  <2> DEFINE fs == {i \in DOMAIN FilesOf[s] : world[FilesOf[s][i]] # Unreadable}
             S == {FilesOf[s][i] : i \in fs}
  <2>1. LoadSingleSpec(s) = [f \in S |-> world[f]]
    BY <1>2 DEF LoadSingleSpec, LoadSpecFromDir
  <2>2. Documents(s) = ToSet(FilesOf[s])
    BY <1>2 DEF Documents
  <2>3. \A f \in Documents(s) : f \in S <=> world[f] # Unreadable
    BY <2>2 DEF ToSet
  <2>4. S \subseteq Documents(s)
    BY <2>2 DEF ToSet
  <2> HIDE DEF S
  <2> QED BY <2>1, <2>2, <2>3, <2>4 DEF InDirectory
<1> QED BY <1>1, <1>2

(* A reload reads a source or fails: it leaves none out.                   *)
LEMMA LoadNextOK ==
  ASSUME EnvOK, LoadOK, LoadNext, env' = env
  PROVE  LoadOK'
<1> DEFINE s == Head(load.left)
           rest == [load EXCEPT !.left = Tail(@)]
           spec == LoadSingleSpec(s)
<1>1. /\ load.left # <<>> /\ UNCHANGED <<index, env, world>>
      /\ \/ LoadFails
         \/ load' = rest /\ index = None
         \/ spec # Unreadable /\ load' = [rest EXCEPT !.got = Added(load.got, spec)]
  <2>1. rest.got = load.got
    BY DEF LoadOK, IsLoad
  <2> QED BY <2>1 DEF LoadNext
<1>2. /\ IsSeq(Tail(load.left)) /\ ToSet(load.left) = {s} \cup ToSet(Tail(load.left))
      /\ s \in ToSet(env.sources)
  BY <1>1, NextSource DEF LoadOK
<1>3. load.phase = "loading" /\ LoadingOK(load) /\ AllDocuments' = AllDocuments
  BY <1>1 DEF LoadOK, AllDocuments
<1>4. CASE LoadFails
  BY <1>1, <1>4, LoadFailsOK
<1>5. CASE load' = rest /\ index = None
  <2>1. /\ IsLoad(load') /\ load'.left = Tail(load.left) /\ load'.got = load.got
        /\ load'.held = load.held /\ load'.phase = load.phase
    BY <1>5 DEF LoadOK, IsLoad
  <2> HIDE DEF rest, s
  <2>2. IsSeq(load'.left) /\ ToSet(load'.left) \subseteq ToSet(env.sources)
    BY <1>2, <2>1 DEF LoadOK
  <2>3. index' = None /\ env' = env /\ world' = world
    BY <1>1, <1>5
  <2>4. LoadingOK(load)'
    BY <1>3, <2>1, <2>3 DEF LoadingOK
  <2> QED BY <1>3, <2>1, <2>2, <2>3, <2>4 DEF LoadOK
<1>6. CASE spec # Unreadable /\ load' = [rest EXCEPT !.got = Added(load.got, spec)]
  <2> DEFINE g == Added(load.got, spec)
  <2>0. /\ DOMAIN g = DOMAIN load.got \cup DOMAIN spec
        /\ \A f \in DOMAIN g : g[f] = IF f \in DOMAIN spec THEN spec[f] ELSE load.got[f]
    BY DEF Added
  <2> HIDE DEF g
  <2>1. /\ IsLoad(load') /\ load'.left = Tail(load.left) /\ load'.got = g
        /\ load'.held = load.held /\ load'.phase = load.phase
    BY <1>6 DEF LoadOK, IsLoad, g
  <2>2. /\ DOMAIN spec \subseteq Documents(s)
        /\ \A f \in DOMAIN spec : spec[f] = world[f] /\ world[f] # Unreadable
        /\ \A f \in Documents(s) \ DOMAIN spec : InDirectory(f) /\ world[f] = Unreadable
    BY <1>2, <1>6, SpecRead
  <2> HIDE DEF rest, spec, s
  <2>3. IsSeq(load'.left) /\ ToSet(load'.left) \subseteq ToSet(env.sources)
    BY <1>2, <2>1 DEF LoadOK
  <2>4. Documents(s) \subseteq AllDocuments
    BY <1>2 DEF AllDocuments
  <2>5. DOMAIN g \subseteq AllDocuments
    BY <2>0, <2>2, <2>4 DEF LoadOK
  <2>6. \A f \in DOMAIN g : g[f] # Unreadable /\ <<f, g[f]>> \in load.held
    BY <1>3, <2>0, <2>2, <2>4 DEF LoadingOK
  <2>7. ASSUME index # None, NEW x \in ToSet(env.sources) \ ToSet(load'.left), NEW f \in Documents(x)
        PROVE  f \in DOMAIN g \/ (InDirectory(f) /\ <<f, Unreadable>> \in load.held)
    <3>1. CASE x = s
      BY <1>3, <2>0, <2>2, <2>4, <2>7, <3>1 DEF LoadingOK
    <3>2. CASE x # s
      <4>1. x \in ToSet(env.sources) \ ToSet(load.left)
        BY <1>2, <2>1, <2>7, <3>2
      <4>2. Heeded(load, f)
        BY <1>3, <2>7, <4>1 DEF LoadingOK
      <4> QED BY <2>0, <4>2 DEF Heeded
    <3> QED BY <3>1, <3>2
  <2>8. LoadingOK(load)'
    BY <1>1, <1>3, <2>1, <2>6, <2>7 DEF LoadingOK, Heeded, InDirectory, Documents
  <2> QED BY <1>1, <1>3, <2>1, <2>3, <2>5, <2>8 DEF LoadOK
<1> QED BY <1>1, <1>4, <1>5, <1>6

(* A reload that is committed accounts for every action it takes away.     *)
LEMMA CommitIndexOK ==
  ASSUME LoadOK, CommitIndex, env' = env
  PROVE  LoadOK' /\ (UNCHANGED index \/ Accounted)
<1>1. load.phase = "loading" /\ load.left = <<>> /\ UNCHANGED world /\ ToSet(load.left) = {}
  BY EmptyIsSeq DEF CommitIndex
<1>2. CASE LoadFails /\ UNCHANGED index
  BY <1>1, <1>2, LoadFailsOK
<1>3. CASE index' = load.got /\ load' = Idle
  <2>1. AllDocuments' = AllDocuments
    BY DEF AllDocuments
  <2>2. /\ IsLoad(load') /\ IsSeq(load'.left) /\ ToSet(load'.left) = {} /\ DOMAIN load'.got = {}
        /\ load'.phase # "loading" /\ load'.left = <<>>
    BY <1>3, IdleFields, EmptyIsSeq
  <2>3. Accounted
    <3> SUFFICES ASSUME index # None, NEW f \in DOMAIN index, NEW a \in index[f] \ Merged(load.got)
                 PROVE  \/ \E h \in load.held : h[1] = f /\ h[2] # Unreadable /\ a \notin h[2]
                        \/ InDirectory(f) /\ <<f, Unreadable>> \in load.held
      BY <1>3 DEF Accounted
    <3>1. PICK s \in ToSet(env.sources) : f \in Documents(s)
      BY DEF LoadOK, AllDocuments
    <3>2. Heeded(load, f) /\ LoadingOK(load)
      BY <1>1, <3>1 DEF LoadOK, LoadingOK
    <3>3. CASE f \in DOMAIN load.got
      <4>1. load.got[f] # Unreadable /\ <<f, load.got[f]>> \in load.held
        BY <3>2, <3>3 DEF LoadingOK
      <4>2. a \notin load.got[f]
        BY <3>3 DEF Merged
      <4>3. <<f, load.got[f]>>[1] = f /\ <<f, load.got[f]>>[2] = load.got[f]
        OBVIOUS
      <4> QED BY <4>1, <4>2, <4>3
    <3> QED BY <3>2, <3>3 DEF Heeded
  <2> QED BY <1>1, <1>3, <2>1, <2>2, <2>3 DEF LoadOK
<1> QED BY <1>2, <1>3 DEF CommitIndex

-----------------------------------------------------------------------------
(* The inductive invariant *)

(* What holds of a request depends on the configuration and, while it      *)
(* waits for a download, on the clock.                                     *)
LEMMA SameEnv ==
  ASSUME env' = env, NEW j, JobOK(job'[j]), FetchOK(job[j])'
  PROVE  JobOK(job[j])'
<1>1. (IsJob(job[j]) /\ Placed(job[j]))'
  BY DEF JobOK, Placed, Live
<1>2. NeedsOK(job[j])'
  BY DEF JobOK, NeedsOK, Entering, Needs
<1>3. MediationOK(job[j])'
  BY DEF JobOK, MediationOK, Passed, Live, BodyOK, Within, Spared, Confined, Settled, Supported, Needs,
         Target
<1>4. PolicyOK(job[j])'
  BY DEF JobOK, PolicyOK, Passed, Live
<1>5. RouteOK(job[j])'
  BY DEF JobOK, RouteOK, Owns
<1>6. HeardOK(job[j])'
  BY DEF JobOK, HeardOK
<1> QED BY <1>1, <1>2, <1>3, <1>4, <1>5, <1>6 DEF JobOK

(* One request takes a step and the others stay where they are.            *)
LEMMA OneJob ==
  ASSUME job = [j \in Jobs |-> job[j]], \A j \in Jobs : JobOK(job[j]),
         env' = env, now' = now, NEW j \in Jobs,
         \E s : JobOK(s) /\ job' = [job EXCEPT ![j] = s]
  PROVE  job' = [k \in Jobs |-> job'[k]] /\ (\A k \in Jobs : JobOK(job[k]))'
<1>1. PICK s : JobOK(s) /\ job' = [job EXCEPT ![j] = s]
  OBVIOUS
<1>2. job' = [k \in Jobs |-> IF k = j THEN s ELSE job[k]]
  BY <1>1
<1>3. job' = [k \in Jobs |-> job'[k]]
  BY <1>2
<1>4. ASSUME NEW k \in Jobs PROVE JobOK(job[k])'
  <2>1. JobOK(job'[k])
    BY <1>1, <1>2
  <2>2. FetchOK(job[k])'
    BY <2>1 DEF JobOK, FetchOK
  <2> QED BY <2>1, <2>2, SameEnv
<1> QED BY <1>3, <1>4

(* The clock does not pass the timeout of a download under way.            *)
LEMMA TickOK ==
  ASSUME EnvOK, NEW j \in Jobs, JobOK(job[j]), Tick
  PROVE  JobOK(job[j])'
<1> DEFINE r == job[j]
<1>1. now \in Nat /\ now' = now + 1 /\ env' = env /\ r' = r /\ DownloadTimeout \in Nat
  BY ValidatorAssumption DEF EnvOK, Tick
<1>2. FetchOK(r)'
  <2>1. SUFFICES ASSUME r.state = "run", r.fetch # None
                 PROVE  /\ r.fetch.path \in r.left /\ r.fetch.at \in Nat /\ r.fetch.at <= now'
                        /\ env.steps[r.step] = "validateSchema" =>
                             now' <= r.fetch.at + DownloadTimeout
    BY <1>1 DEF FetchOK
  <2>2. r.fetch.path \in r.left /\ r.fetch.at \in Nat /\ r.fetch.at <= now
    BY <2>1 DEF JobOK, FetchOK
  <2>3. env.steps[r.step] = "validateSchema" => ~(now >= r.fetch.at + DownloadTimeout)
    BY <2>1 DEF Tick, Overdue, At
  <2> HIDE DEF r
  <2> QED BY <1>1, <2>2, <2>3
<1>3. JobOK(job'[j])
  BY <1>1
<1> QED BY <1>1, <1>2, <1>3, SameEnv

(* The caches stay what they are as time passes.                           *)
LEMMA LaterOK ==
  ASSUME EnvOK, now' = now + 1 \/ now' = now, UNCHANGED <<env, table>>
  PROVE  /\ EnvOK'
         /\ SchemasOK(schemas') => SchemasOK(schemas)'
         /\ ArtifactsOK /\ UNCHANGED mediator => ArtifactsOK'
<1>1. now \in Nat /\ now' \in Nat /\ now <= now'
  BY DEF EnvOK
<1>2. \A x \in Nat : x <= now => x <= now'
  BY <1>1
<1>3. EnvOK'
  BY <1>1 DEF EnvOK
<1>4. SchemasOK(schemas') => SchemasOK(schemas)'
  BY <1>2 DEF SchemasOK, SchemaOK
<1>5. ArtifactsOK /\ UNCHANGED mediator => ArtifactsOK'
  BY <1>2 DEF ArtifactsOK, mediator
<1> QED BY <1>3, <1>4, <1>5

(* The invariant holds when the module starts.                             *)
LEMMA ContentInit ==
  ASSUME Init
  PROVE  ContentInv
<1>1. EnvOK
  BY DEF Init, RouterInit, EnvOK
<1>2. JobOK(NoJob)
  BY NoJobFields DEF JobOK, Placed, FetchOK, NeedsOK, RouteOK, HeardOK, Live, MediationOK, PolicyOK
<1>3. job = [j \in Jobs |-> job[j]] /\ \A j \in Jobs : JobOK(job[j])
  BY <1>2 DEF Init
<1>4. SchemasOK(schemas) /\ Len(schemas) <= MaxCacheSize
  BY EmptyIsSeq, ValidatorAssumption DEF Init, ValidatorInit, SchemasOK, HeldOnce
<1>5. ArtifactsOK
  BY EmptyIsSeq, MediatorAssumption DEF Init, MediatorInit, ArtifactsOK
<1>6. LoadOK
  <2>1. index = None /\ load = Idle /\ DOMAIN world = DOMAIN Offers
    BY DEF Init, ValidatorInit
  <2>2. /\ IsLoad(load) /\ IsSeq(load.left) /\ DOMAIN load.got = {} /\ ToSet(load.left) = {}
        /\ load.left = <<>> /\ load.phase # "loading"
    BY <2>1, IdleFields, EmptyIsSeq
  <2> QED BY <2>1, <2>2 DEF LoadOK
<1> QED BY <1>1, <1>3, <1>4, <1>5, <1>6 DEF ContentInv

(* Every step keeps the invariant, and the index unless it accounts for    *)
(* what it takes away.                                                     *)
LEMMA ContentStep ==
  ASSUME ContentInv, [Next]_vars
  PROVE  ContentInv' /\ (UNCHANGED index \/ Accounted)
<1> USE DEF ContentInv
<1>1. ASSUME UNCHANGED <<env, now, table>>,
             \/ UNCHANGED job
             \/ \E j \in Jobs : \E s : JobOK(s) /\ job' = [job EXCEPT ![j] = s],
             SchemasOK(schemas') /\ Len(schemas') <= MaxCacheSize, ArtifactsOK', LoadOK'
      PROVE  ContentInv'
  <2>1. EnvOK' /\ SchemasOK(schemas)'
    BY <1>1, LaterOK
  <2>2. job' = [j \in Jobs |-> job'[j]] /\ (\A j \in Jobs : JobOK(job[j]))'
    <3>1. CASE UNCHANGED job
      <4>1. ASSUME NEW j \in Jobs PROVE JobOK(job[j])'
        <5>1. JobOK(job'[j])
          BY <3>1
        <5>2. FetchOK(job[j])'
          BY <1>1, <5>1 DEF JobOK, FetchOK
        <5> QED BY <1>1, <5>1, <5>2, SameEnv
      <4> QED BY <3>1, <4>1
    <3>2. CASE \E j \in Jobs : \E s : JobOK(s) /\ job' = [job EXCEPT ![j] = s]
      BY <1>1, <3>2, OneJob
    <3> QED BY <1>1, <3>1, <3>2
  <2> QED BY <1>1, <2>1, <2>2
<1>2. CASE Tick
  <2>1. UNCHANGED <<env, job, table, world, load, index, schemas, mediator>> /\ now' = now + 1
    BY <1>2 DEF Tick, validator
  <2>2. EnvOK' /\ SchemasOK(schemas)' /\ ArtifactsOK'
    BY <2>1, LaterOK
  <2>3. \A j \in Jobs : JobOK(job[j])'
    BY <1>2, TickOK
  <2>4. LoadOK'
    BY <2>1, SameLoad
  <2> QED BY <2>1, <2>2, <2>3, <2>4
<1>3. CASE UNCHANGED vars
  <2>1. UNCHANGED <<env, now, job, table, world, load, index, schemas, mediator>>
    BY <1>3 DEF vars, validator
  <2>2. ArtifactsOK' /\ LoadOK'
    BY <2>1, LaterOK, SameLoad
  <2> QED BY <1>1, <2>1, <2>2
<1>4. CASE ValidatorNext /\ UNCHANGED <<env, now, mediator, table>>
  <2>1. ArtifactsOK'
    BY <1>4, LaterOK
  <2>2. CASE SourceChanges /\ UNCHANGED job
    <3>1. UNCHANGED <<index, schemas>>
      BY <2>2 DEF SourceChanges
    <3> QED BY <1>1, <1>4, <2>1, <2>2, <3>1, SourceChangesOK
  <2>3. CASE BeginLoad /\ UNCHANGED job
    <3>1. UNCHANGED <<index, schemas>>
      BY <2>3 DEF BeginLoad
    <3> QED BY <1>1, <1>4, <2>1, <2>3, <3>1, BeginLoadOK
  <2>4. CASE LoadNext /\ UNCHANGED job
    <3>1. UNCHANGED <<index, schemas>>
      BY <2>4 DEF LoadNext
    <3> QED BY <1>1, <1>4, <2>1, <2>4, <3>1, LoadNextOK
  <2>5. CASE CommitIndex /\ UNCHANGED job
    <3>1. UNCHANGED schemas
      BY <2>5 DEF CommitIndex
    <3> QED BY <1>1, <1>4, <2>1, <2>5, <3>1, CommitIndexOK
  <2>6. CASE CleanupExpired /\ UNCHANGED job
    <3>1. UNCHANGED <<world, load, index>>
      BY <2>6 DEF CleanupExpired
    <3>2. LoadOK'
      BY <1>4, <3>1, SameLoad
    <3> QED BY <1>1, <1>4, <2>1, <2>6, <3>1, <3>2, CleanupKeeps
  <2>7. ASSUME NEW j \in Jobs, ValidateBase(j) \/ ValidateObject(j) \/ SchemaLoaded(j)
        PROVE  ContentInv' /\ UNCHANGED index
    <3>1. UNCHANGED <<world, load, index>>
      BY <2>7 DEF ValidateBase, ValidateObject, SchemaLoaded, validator
    <3>2. LoadOK'
      BY <1>4, <3>1, SameLoad
    <3>3. /\ \E s : JobOK(s) /\ job' = [job EXCEPT ![j] = s]
          /\ SchemasOK(schemas') /\ Len(schemas') <= MaxCacheSize
      <4>1. CASE ValidateBase(j)
        BY <4>1, ValidateBaseOK DEF ValidateBase, validator
      <4>2. CASE ValidateObject(j)
        BY <4>2, ValidateObjectOK
      <4>3. CASE SchemaLoaded(j)
        BY <4>3, SchemaLoadedOK
      <4> QED BY <2>7, <4>1, <4>2, <4>3
    <3> QED BY <1>1, <1>4, <2>1, <3>1, <3>2, <3>3
  <2> QED BY <1>4, <2>2, <2>3, <2>4, <2>5, <2>6, <2>7 DEF ValidatorNext
<1>5. CASE MediatorNext /\ UNCHANGED <<env, now, validator, table>>
  <2>1. UNCHANGED <<world, load, index, schemas>>
    BY <1>5 DEF validator
  <2>2. LoadOK'
    BY <1>5, <2>1, SameLoad
  <2>3. PICK j \in Jobs : \/ BeginMediate(j) \/ FetchArtifact(j)
                          \/ ArtifactAnswered(j) \/ MediateSchema(j)
    BY <1>5 DEF MediatorNext
  <2>4. (\E s : JobOK(s) /\ job' = [job EXCEPT ![j] = s]) /\ ArtifactsOK'
    <3>1. CASE BeginMediate(j)
      <4>1. UNCHANGED mediator
        BY <3>1 DEF BeginMediate
      <4> QED BY <1>5, <3>1, <4>1, BeginMediateOK, LaterOK
    <3>2. CASE FetchArtifact(j)
      BY <1>5, <3>2, FetchArtifactOK
    <3>3. CASE ArtifactAnswered(j)
      BY <1>5, <3>3, ArtifactAnsweredOK
    <3>4. CASE MediateSchema(j)
      <4>1. UNCHANGED mediator
        BY <3>4 DEF MediateSchema
      <4> QED BY <1>5, <3>4, <4>1, MediateSchemaOK, LaterOK
    <3> QED BY <2>3, <3>1, <3>2, <3>3, <3>4
  <2> QED BY <1>1, <1>5, <2>1, <2>2, <2>4
<1>6. ASSUME NEW j \in Jobs, CheckPolicy(j) \/ Receive(j) \/ Answered(j) \/ AddRoute(j),
             UNCHANGED <<env, now, validator, mediator, table>>
      PROVE  ContentInv' /\ UNCHANGED index
  <2>1. UNCHANGED <<world, load, index, schemas>>
    BY <1>6 DEF validator
  <2>2. LoadOK' /\ ArtifactsOK'
    BY <1>6, <2>1, LaterOK, SameLoad
  <2>3. \E s : JobOK(s) /\ job' = [job EXCEPT ![j] = s]
    BY <1>6, CheckPolicyOK, ReceiveOK, AnsweredOK, AddRouteOK
  <2> QED BY <1>1, <1>6, <2>1, <2>2, <2>3
<1> QED
  <2>1. CASE \E j \in Jobs : AddRoute(j) /\ UNCHANGED <<env, now, validator, mediator>>
    <3>1. PICK j \in Jobs : AddRoute(j) /\ UNCHANGED <<env, now, validator, mediator>>
      BY <2>1
    <3>2. UNCHANGED table
      BY <3>1 DEF AddRoute
    <3> QED BY <1>6, <3>1, <3>2
  <2> QED BY <1>2, <1>3, <1>4, <1>5, <1>6, <2>1 DEF Next

-----------------------------------------------------------------------------
(* Theorems *)

(* The invariant always holds.                                             *)
LEMMA ContentInductive == Spec => []ContentInv
<1>1. Init => ContentInv
  BY ContentInit
<1>2. ContentInv /\ [Next]_vars => ContentInv'
  BY ContentStep
<1> QED BY <1>1, <1>2, PTL DEF Spec

(* A request that leaves has passed every step of the list.                *)
LEMMA ForwardPassed ==
  ASSUME ContentInv, NEW j \in Jobs, job[j].state = "forward", NEW step \in ToSet(env.steps)
  PROVE  Live(job[j]) /\ Passed(job[j], step)
<1>1. env.steps \in Seq(STRING)
  BY StepsAssumption DEF ContentInv, EnvOK
<1>2. PICK k \in DOMAIN env.steps : env.steps[k] = step
  BY DEF ToSet
<1>3. k \in 1 .. Len(env.steps)
  BY <1>1, LenProperties
<1> QED BY <1>2, <1>3 DEF Live, Passed

(* However requests interleave, neither cache outgrows its limit           *)
(* (schemav2validator/extended_schema.go set, schemaversionmediator.go     *)
(* artifactCache.set), no schema is held twice, and nothing is judged or   *)
(* translated by what is older than its TTL allows.                        *)
THEOREM ContentCachesBounded == Spec => []CachesBounded
<1>1. ContentInv => CachesBounded
  <2>1. SUFFICES ASSUME ContentInv PROVE CachesBounded
    OBVIOUS
  <2>2. \A c, d \in ToSet(schemas) : c.key = d.key => c = d
    BY <2>1 DEF ContentInv, SchemasOK, HeldOnce, ToSet
  <2>3. Len(keys) <= MaxCacheEntries /\ DOMAIN entries \subseteq ToSet(keys)
    BY <2>1 DEF ContentInv, ArtifactsOK
  <2>4. \A j \in Jobs : job[j].heard # None => FreshEnough(job[j].heard)
    BY <2>1 DEF ContentInv, JobOK, HeardOK
  <2> QED BY <2>1, <2>2, <2>3, <2>4 DEF CachesBounded, ContentInv, FreshEnough
<1> QED BY <1>1, ContentInductive, PTL

(* Whatever mediateSchema lets through is the message as it was, where the *)
(* configuration says so, or settled as a whole (schemaversionmediator.go  *)
(* Mediate): for every manifest, every nesting of objects and every answer *)
(* of the artifact server.                                                 *)
THEOREM ContentMediatedIsSupported == Spec => []MediatedIsSupported
<1>1. ContentInv => MediatedIsSupported
  <2>1. SUFFICES ASSUME ContentInv, NEW j \in Jobs, job[j].state = "forward", Uses("mediateSchema")
                 PROVE  /\ BodyOK(job[j].msg.objects, job[j].body)
                        /\ Confined(job[j].msg.objects) => Supported(job[j])
    BY DEF MediatedIsSupported, Supported, Settled, BodyOK, Within, Spared, Confined
  <2>2. Live(job[j]) /\ Passed(job[j], "mediateSchema")
    BY <2>1, ForwardPassed DEF Uses
  <2> QED BY <2>1, <2>2 DEF ContentInv, JobOK, MediationOK
<1> QED BY <1>1, ContentInductive, PTL

(* For every list of rules that loads, a request has a route that a rule   *)
(* for its own domain, version and endpoint gives it, with its own query   *)
(* (router.go Route).                                                      *)
THEOREM ContentRoutesAreOwn == Spec => []RoutesAreOwn
<1>1. ContentInv => RoutesAreOwn
  BY DEF ContentInv, JobOK, RouteOK, RoutesAreOwn, Owns
<1> QED BY <1>1, ContentInductive, PTL

(* No message leaves a module with a checkPolicy step that an enabled      *)
(* policy denies, wherever in the list the step is                         *)
(* (opapolicychecker/evaluator.go).                                        *)
THEOREM ContentDenialsStand == Spec => []DenialsStand
<1>1. ContentInv => DenialsStand
  <2>1. SUFFICES ASSUME ContentInv, NEW j \in Jobs, job[j].state = "forward",
                        "checkPolicy" \in ToSet(env.steps), env.policy = "enabled"
                 PROVE  Undenied(job[j].msg)
    BY DEF DenialsStand, Undenied
  <2>2. Live(job[j]) /\ Passed(job[j], "checkPolicy")
    BY <2>1, ForwardPassed
  <2> QED BY <2>1, <2>2 DEF ContentInv, JobOK, PolicyOK
<1> QED BY <1>1, ContentInductive, PTL

(* A committed reload takes an action away only when its document, read    *)
(* anew, did not offer it, or was a directory's file that could not be     *)
(* read (schemav2validator.go loadAllSpecs, loadSpecFromDir): for every    *)
(* number of sources and however they change while they are read.          *)
THEOREM ContentActionsNeverVanish == Spec => ActionsNeverVanish
<1>1. ContentInv /\ [Next]_vars =>
        [index # None =>
           \A f \in DOMAIN index : \A a \in index[f] \ Merged(index') :
             \/ \E h \in load.held : h[1] = f /\ h[2] # Unreadable /\ a \notin h[2]
             \/ InDirectory(f) /\ <<f, Unreadable>> \in load.held]_<<index>>
  BY ContentStep DEF Accounted
<1> QED BY <1>1, ContentInductive, PTL DEF Spec, ActionsNeverVanish
=============================================================================
