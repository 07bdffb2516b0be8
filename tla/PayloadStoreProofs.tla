------------------------- MODULE PayloadStoreProofs -------------------------
(***************************************************************************)
(* Proofs about PayloadStore for every number of messages and writers and  *)
(* every TTL that ParseConfig accepts.                                     *)
(***************************************************************************)
EXTENDS PayloadStore, TLAPS

Entries == [storedAt : Nat, expiresAt : Nat]

TypeOK ==
  /\ env \in Environment
  /\ now \in Nat
  /\ entry \in [Messages -> Entries]
  /\ index \in [ids : Seq(Messages), expiresAt : Nat]
  /\ writer \in [Writers -> [pc : {"idle", "stored", "read"},
                             m : Messages \cup {NoMessage}, ids : Seq(Messages)]]

Busy(w) == writer[w].pc # "idle"

\* No message expires later than one that is stored now.
EntriesFresh == \A m \in Messages : entry[m].expiresAt <= now + TTL

\* A list of ids without duplicates, all of them stored.
GoodIds(ids) == IsInjective(ids) /\ \A m \in ToSet(ids) : entry[m] # NoEntry

\* A writer has stored its message before it looks at the index, and appends it only
\* to ids that are good and do not list it.
WritersSound ==
  \A w \in Writers : Busy(w) =>
    /\ writer[w].m \in Messages /\ entry[writer[w].m] # NoEntry
    /\ writer[w].pc = "read" =>
         GoodIds(writer[w].ids) /\ writer[w].m \notin ToSet(writer[w].ids)

\* The behaviours that IndexComplete is about.
Clean == env.serial /\ ~(env.resends \/ env.getFails \/ env.setFails)

\* In them there is one writer at a time; a live message that it does not write is in
\* the index, and in the ids that it has read.
CleanIndex ==
  Clean =>
    /\ \A v, w \in Writers : Busy(v) /\ Busy(w) => v = w
    /\ \A m \in Messages : Live(entry[m]) =>
         m \in ToSet(index.ids) \/ \E w \in Writers : Busy(w) /\ writer[w].m = m
    /\ \A w \in Writers : writer[w].pc = "read" =>
         \A m \in Messages : Live(entry[m]) => m \in ToSet(writer[w].ids) \cup {writer[w].m}

StoreInv ==
  /\ TypeOK /\ EntriesFresh /\ WritersSound /\ CleanIndex
  /\ IndexSound /\ IndexOutlivesEntries

-----------------------------------------------------------------------------
(* Sequences *)

LEMMA AppendSet ==
  ASSUME NEW S, NEW s \in Seq(S), NEW x \in S
  PROVE  /\ Append(s, x) \in Seq(S)
         /\ ToSet(Append(s, x)) = ToSet(s) \cup {x}
         /\ ToSet(s) \subseteq S
<1>1. DOMAIN Append(s, x) = 1 .. Len(s) + 1 /\ DOMAIN s = 1 .. Len(s) /\ Len(s) \in Nat
  OBVIOUS
<1>2. \A i \in 1 .. Len(s) + 1 :
        Append(s, x)[i] = IF i = Len(s) + 1 THEN x ELSE s[i]
  OBVIOUS
<1>3. Append(s, x) \in Seq(S)
  OBVIOUS
<1>4. ToSet(s) \subseteq S
  BY DEF ToSet
<1>5. ToSet(Append(s, x)) \subseteq ToSet(s) \cup {x}
  BY <1>1, <1>2 DEF ToSet
<1>6. x \in ToSet(Append(s, x))
  <2>1. Len(s) + 1 \in DOMAIN Append(s, x) /\ Append(s, x)[Len(s) + 1] = x
    BY <1>1, <1>2
  <2> QED BY <2>1 DEF ToSet
<1>7. ASSUME NEW y \in ToSet(s) PROVE y \in ToSet(Append(s, x))
  <2>1. PICK i \in 1 .. Len(s) : s[i] = y
    BY <1>1 DEF ToSet
  <2>2. i \in DOMAIN Append(s, x) /\ Append(s, x)[i] = y
    BY <1>1, <1>2, <2>1
  <2> QED BY <2>2 DEF ToSet
<1> QED BY <1>3, <1>4, <1>5, <1>6, <1>7

LEMMA NewIdInjective ==
  ASSUME NEW S, NEW s \in Seq(S), NEW x \in S
  PROVE  IsInjective(s) /\ x \notin ToSet(s) => IsInjective(Append(s, x))
<1> SUFFICES ASSUME IsInjective(s), x \notin ToSet(s)
             PROVE  IsInjective(Append(s, x))
  OBVIOUS
<1>1. DOMAIN Append(s, x) = 1 .. Len(s) + 1 /\ DOMAIN s = 1 .. Len(s) /\ Len(s) \in Nat
  OBVIOUS
<1>2. \A i \in 1 .. Len(s) + 1 :
        Append(s, x)[i] = IF i = Len(s) + 1 THEN x ELSE s[i]
  OBVIOUS
<1>3. \A i \in 1 .. Len(s) : s[i] # x
  BY <1>1 DEF ToSet
<1>4. \A a, b \in 1 .. Len(s) : s[a] = s[b] => a = b
  BY <1>1 DEF IsInjective
<1>5. ASSUME NEW a \in 1 .. Len(s) + 1, NEW b \in 1 .. Len(s) + 1,
             Append(s, x)[a] = Append(s, x)[b]
      PROVE  a = b
  <2>1. a # Len(s) + 1 => a \in 1 .. Len(s) /\ Append(s, x)[a] = s[a]
    BY <1>1, <1>2
  <2>2. b # Len(s) + 1 => b \in 1 .. Len(s) /\ Append(s, x)[b] = s[b]
    BY <1>1, <1>2
  <2>3. Append(s, x)[Len(s) + 1] = x
    BY <1>1, <1>2
  <2> QED BY <1>3, <1>4, <1>5, <2>1, <2>2, <2>3
<1> QED BY <1>1, <1>5 DEF IsInjective

LEMMA EmptyIds == ToSet(<<>>) = {} /\ IsInjective(<<>>)
  BY DEF ToSet, IsInjective

-----------------------------------------------------------------------------
LEMMA InvInit == Init => StoreInv
<1> SUFFICES ASSUME Init PROVE StoreInv
  OBVIOUS
<1> USE PayloadStoreAssumption, EmptyIds DEF Init, NoEntry, NoIndex, IdleWriter
<1>1. TypeOK
  BY DEF TypeOK, Entries
<1>2. EntriesFresh /\ WritersSound /\ CleanIndex
  BY DEF EntriesFresh, WritersSound, CleanIndex, Busy, Live
<1>3. IndexSound /\ IndexOutlivesEntries
  BY DEF IndexSound, IndexOutlivesEntries
<1> QED BY <1>1, <1>2, <1>3 DEF StoreInv

\* A message is stored: it is new, or the environment resends.
LEMMA SetMessageFacts ==
  ASSUME StoreInv, NEW m \in Messages, SetMessage(m)
  PROVE  /\ entry' \in [Messages -> Entries]
         /\ entry'[m] # NoEntry /\ entry'[m].expiresAt = now + TTL
         /\ \A n \in Messages : n # m => entry'[n] = entry[n]
         /\ \A n \in Messages : entry[n] # NoEntry => entry'[n] # NoEntry
         /\ ~env.resends => entry[m] = NoEntry
<1> USE PayloadStoreAssumption DEF StoreInv, TypeOK, SetMessage
<1>1. /\ entry'[m] = [storedAt |-> now, expiresAt |-> now + TTL]
      /\ \A n \in Messages : n # m => entry'[n] = entry[n]
  OBVIOUS
<1>2. entry'[m] # NoEntry
  BY <1>1 DEF NoEntry
<1>3. entry' \in [Messages -> Entries]
  BY DEF Entries
<1> QED BY <1>1, <1>2, <1>3

LEMMA StoreMessageInv ==
  ASSUME StoreInv, NEW w \in Writers, NEW m \in Messages,
         StoreMessage(w, m) \/ StoreMessageFails(w, m)
  PROVE  StoreInv'
<1> USE PayloadStoreAssumption DEF StoreInv
<1>0. SetMessage(m) /\ UNCHANGED <<env, now, index>> /\ writer[w].pc = "idle"
  BY DEF StoreMessage, StoreMessageFails
<1> HIDE DEF StoreInv
<1>1. /\ entry' \in [Messages -> Entries]
      /\ entry'[m] # NoEntry /\ entry'[m].expiresAt = now + TTL
      /\ \A n \in Messages : n # m => entry'[n] = entry[n]
      /\ \A n \in Messages : entry[n] # NoEntry => entry'[n] # NoEntry
      /\ ~env.resends => entry[m] = NoEntry
  BY <1>0, SetMessageFacts
<1>2. \/ writer' = writer /\ env.setFails
      \/ /\ writer' = [writer EXCEPT ![w] = [pc |-> "stored", m |-> m, ids |-> <<>>]]
         /\ env.serial => Settled
  BY DEF StoreMessage, StoreMessageFails
<1> USE DEF StoreInv
<1>3. TypeOK'
  <2>1. writer' \in [Writers -> [pc : {"idle", "stored", "read"},
                                 m : Messages \cup {NoMessage}, ids : Seq(Messages)]]
    <3>1. <<>> \in Seq(Messages)
      OBVIOUS
    <3>2. [pc |-> "stored", m |-> m, ids |-> <<>>]
             \in [pc : {"idle", "stored", "read"},
                  m : Messages \cup {NoMessage}, ids : Seq(Messages)]
      BY <3>1
    <3> QED BY <1>2, <3>2 DEF TypeOK
  <2> QED BY <1>0, <1>1, <2>1 DEF TypeOK
<1>4. EntriesFresh'
  <2>1. \A n \in Messages : entry[n].expiresAt \in Nat
    BY DEF TypeOK, Entries
  <2> SUFFICES ASSUME NEW n \in Messages PROVE entry'[n].expiresAt <= now + TTL
    BY <1>0 DEF EntriesFresh
  <2>2. CASE n = m
    BY <1>1, <2>2 DEF TypeOK
  <2> QED BY <1>1, <2>1, <2>2 DEF EntriesFresh
<1>5. /\ index.ids \in Seq(Messages) /\ ToSet(index.ids) \subseteq Messages
      /\ \A v \in Writers : /\ writer[v].ids \in Seq(Messages)
                            /\ ToSet(writer[v].ids) \subseteq Messages
  BY DEF TypeOK, ToSet
<1>6. IndexSound'
  BY <1>0, <1>1, <1>5 DEF IndexSound
<1>7. IndexOutlivesEntries'
  BY <1>0, <1>1, <1>5 DEF IndexOutlivesEntries, IndexSound
<1>8. \A v \in Writers : writer'[v] = writer[v] \/ (v = w /\ writer'[v].pc = "stored"
                                                          /\ writer'[v].m = m)
  BY <1>2 DEF TypeOK
<1>9. WritersSound'
  BY <1>1, <1>5, <1>8 DEF WritersSound, Busy, GoodIds
<1>10. CleanIndex'
  <2> SUFFICES ASSUME Clean PROVE CleanIndex'
    BY <1>0 DEF CleanIndex, Clean
  <2>1. /\ \A v \in Writers : ~Busy(v)
        /\ writer'[w].pc = "stored" /\ writer'[w].m = m
        /\ \A v \in Writers : v # w => writer'[v] = writer[v]
    BY <1>2 DEF Clean, Settled, Busy, TypeOK
  <2> QED BY <1>0, <1>1, <2>1 DEF CleanIndex, Clean, Busy, Live
<1> QED BY <1>3, <1>4, <1>6, <1>7, <1>9, <1>10

LEMMA ReadIndexInv ==
  ASSUME StoreInv, NEW w \in Writers, ReadIndex(w)
  PROVE  StoreInv'
<1> USE PayloadStoreAssumption DEF StoreInv
<1> DEFINE m == writer[w].m
<1>0. /\ writer[w].pc = "stored" /\ UNCHANGED <<env, now, entry, index>>
      /\ m \in Messages /\ entry[m] # NoEntry
  BY DEF ReadIndex, WritersSound, Busy
<1>1. PICK ids \in {IndexIds} \cup (IF env.getFails THEN {<<>>} ELSE {}) :
        writer' = [writer EXCEPT ![w] = IF m \in ToSet(ids) THEN IdleWriter
                                        ELSE [@ EXCEPT !.pc = "read", !.ids = ids]]
  BY DEF ReadIndex
<1>2. ids \in Seq(Messages) /\ GoodIds(ids) /\ (ids = index.ids \/ ids = <<>>)
  <2>1. ids = index.ids \/ ids = <<>>
    BY DEF IndexIds
  <2>2. index.ids \in Seq(Messages) /\ GoodIds(index.ids)
    BY DEF GoodIds, IndexSound, TypeOK
  <2>3. <<>> \in Seq(Messages) /\ GoodIds(<<>>)
    BY EmptyIds DEF GoodIds
  <2> QED BY <2>1, <2>2, <2>3
<1>3. /\ \A v \in Writers : v # w => writer'[v] = writer[v]
      /\ m \in ToSet(ids) => writer'[w].pc = "idle"
      /\ m \notin ToSet(ids) =>
           writer'[w].pc = "read" /\ writer'[w].m = m /\ writer'[w].ids = ids
  BY <1>1 DEF TypeOK, IdleWriter
<1>4. TypeOK'
  <2>1. IdleWriter \in [pc : {"idle", "stored", "read"},
                        m : Messages \cup {NoMessage}, ids : Seq(Messages)]
    BY DEF IdleWriter
  <2>2. [writer[w] EXCEPT !.pc = "read", !.ids = ids]
           \in [pc : {"idle", "stored", "read"},
                m : Messages \cup {NoMessage}, ids : Seq(Messages)]
    BY <1>2 DEF TypeOK
  <2>3. writer' \in [Writers -> [pc : {"idle", "stored", "read"},
                                 m : Messages \cup {NoMessage}, ids : Seq(Messages)]]
    BY <1>1, <2>1, <2>2 DEF TypeOK
  <2> QED BY <1>0, <2>3 DEF TypeOK
<1>5. EntriesFresh' /\ IndexSound' /\ IndexOutlivesEntries'
  BY <1>0 DEF EntriesFresh, IndexSound, IndexOutlivesEntries
<1>6. WritersSound'
  BY <1>0, <1>2, <1>3 DEF WritersSound, Busy, GoodIds
<1>7. CleanIndex'
  <2> SUFFICES ASSUME Clean PROVE CleanIndex'
    BY <1>0 DEF CleanIndex, Clean
  <2>1. \A v \in Writers : v # w => ~Busy(v) /\ ~Busy(v)'
    BY <1>0, <1>3 DEF CleanIndex, Busy
  <2>2. ASSUME NEW n \in Messages, Live(entry[n]), n # m
        PROVE  n \in ToSet(index.ids) /\ ids = index.ids
    <3>1. n \in ToSet(index.ids)
      BY <2>1, <2>2 DEF CleanIndex, Busy
    <3>2. Live(index)
      BY <2>2, <3>1 DEF IndexOutlivesEntries, Clean, Live, TypeOK, Entries
    <3> QED BY <3>1, <3>2 DEF IndexIds, Clean
  <2>3. m \in ToSet(ids) => m \in ToSet(index.ids)
    BY <1>2, EmptyIds
  <2>4. \A n \in Messages : Live(entry[n])' = Live(entry[n])
    BY <1>0 DEF Live
  <2>5. \A u, v \in Writers : Busy(u)' /\ Busy(v)' => u = v
    BY <2>1
  <2>6. ASSUME NEW n \in Messages, Live(entry[n])
        PROVE  n \in ToSet(index.ids) \/ \E v \in Writers : Busy(v)' /\ writer'[v].m = n
    BY <1>3, <2>2, <2>3, <2>6 DEF Busy
  <2>7. ASSUME NEW v \in Writers, writer'[v].pc = "read", NEW n \in Messages, Live(entry[n])
        PROVE  n \in ToSet(writer'[v].ids) \cup {writer'[v].m}
    <3>1. v = w
      BY <2>1, <2>7 DEF Busy
    <3> QED BY <1>3, <2>2, <2>7, <3>1
  <2> QED BY <1>0, <2>4, <2>5, <2>6, <2>7 DEF CleanIndex
<1> QED BY <1>4, <1>5, <1>6, <1>7

LEMMA WriteIndexInv ==
  ASSUME StoreInv, NEW w \in Writers, WriteIndex(w)
  PROVE  StoreInv'
<1> USE PayloadStoreAssumption DEF StoreInv
<1> DEFINE m == writer[w].m
           ids == writer[w].ids
<1>0. /\ writer[w].pc = "read" /\ UNCHANGED <<env, now, entry>>
      /\ m \in Messages /\ entry[m] # NoEntry
      /\ ids \in Seq(Messages) /\ GoodIds(ids) /\ m \notin ToSet(ids)
  BY DEF WriteIndex, WritersSound, Busy, TypeOK
<1>1. /\ index'.ids = Append(ids, m) /\ index'.expiresAt = now + IndexTTL
      /\ index' = [ids |-> Append(ids, m), expiresAt |-> now + IndexTTL]
  BY DEF WriteIndex
<1>2. Append(ids, m) \in Seq(Messages) /\ ToSet(index'.ids) = ToSet(ids) \cup {m}
      /\ ToSet(ids) \subseteq Messages
  BY <1>0, <1>1, AppendSet
<1>3. /\ writer' = [writer EXCEPT ![w] = IdleWriter]
      /\ \A v \in Writers : writer'[v] = IF v = w THEN IdleWriter ELSE writer[v]
  BY DEF WriteIndex, TypeOK
<1>4. TypeOK'
  BY <1>0, <1>1, <1>2, <1>3 DEF TypeOK, IdleWriter
<1>5. IndexSound'
  <2>1. IsInjective(ids)
    BY <1>0 DEF GoodIds
  <2>2. IsInjective(Append(ids, m))
    BY <1>0, <2>1, NewIdInjective
  <2>3. \A n \in ToSet(index'.ids) : entry'[n] # NoEntry
    BY <1>0, <1>2 DEF GoodIds
  <2> QED BY <1>1, <2>2, <2>3 DEF IndexSound
<1>6. EntriesFresh' /\ IndexOutlivesEntries'
  BY <1>0, <1>1, <1>2 DEF EntriesFresh, IndexOutlivesEntries, TypeOK, Entries
<1>7. WritersSound'
  BY <1>0, <1>3 DEF WritersSound, Busy, GoodIds, IdleWriter
<1>8. CleanIndex'
  BY <1>0, <1>2, <1>3 DEF CleanIndex, Clean, Busy, Live, IdleWriter
<1> QED BY <1>4, <1>5, <1>6, <1>7, <1>8

LEMMA WriteIndexFailsInv ==
  ASSUME StoreInv, NEW w \in Writers, WriteIndexFails(w)
  PROVE  StoreInv'
<1> USE PayloadStoreAssumption DEF StoreInv
<1>1. /\ UNCHANGED <<env, now, entry, index>> /\ env.setFails
      /\ \A v \in Writers : writer'[v] = IF v = w THEN IdleWriter ELSE writer[v]
  BY DEF WriteIndexFails, TypeOK
<1>2. TypeOK'
  BY DEF WriteIndexFails, TypeOK, IdleWriter
<1> QED BY <1>1, <1>2 DEF EntriesFresh, IndexSound, IndexOutlivesEntries, WritersSound, Busy,
                          GoodIds, CleanIndex, Clean, IdleWriter

LEMMA TickInv ==
  ASSUME StoreInv, Tick
  PROVE  StoreInv'
<1> USE PayloadStoreAssumption DEF StoreInv, Tick
<1>1. TypeOK' /\ EntriesFresh'
  BY DEF TypeOK, EntriesFresh, Entries
<1>2. \A n \in Messages : Live(entry[n])' => Live(entry[n])
  BY DEF Live, TypeOK, Entries
<1>3. CleanIndex'
  BY <1>2 DEF CleanIndex, Clean, Busy
<1> QED BY <1>1, <1>3 DEF WritersSound, Busy, GoodIds, IndexSound, IndexOutlivesEntries

-----------------------------------------------------------------------------
(* Theorems *)

\* The invariant of a transaction's index and the Stores that work on it.
THEOREM StoreInvariant == Spec => []StoreInv
<1>1. StoreInv /\ [Next]_vars => StoreInv'
  <2> SUFFICES ASSUME StoreInv, [Next]_vars PROVE StoreInv'
    OBVIOUS
  <2>1. CASE UNCHANGED vars
    BY <2>1 DEF vars, StoreInv, TypeOK, EntriesFresh, WritersSound, CleanIndex, Clean, Busy,
       GoodIds, Live, IndexSound, IndexOutlivesEntries
  <2> QED BY <2>1, StoreMessageInv, ReadIndexInv, WriteIndexInv, WriteIndexFailsInv, TickInv
          DEF Next
<1> QED BY InvInit, <1>1, PTL DEF Spec

\* Whatever races, repeats or fails, the index has no duplicate and no phantom.
THEOREM IndexIsSound == Spec => []IndexSound
<1>1. StoreInv => IndexSound
  BY DEF StoreInv
<1> QED BY StoreInvariant, <1>1, PTL

\* Stored once each, messages do not outlive the index that lists them.
THEOREM IndexOutlives == Spec => []IndexOutlivesEntries
<1>1. StoreInv => IndexOutlivesEntries
  BY DEF StoreInv
<1> QED BY StoreInvariant, <1>1, PTL

\* Stored one at a time, once each and without cache errors, every live message is
\* returned by GetByTransactionID.
THEOREM IndexIsComplete == Spec => []IndexComplete
<1>1. StoreInv => IndexComplete
  <2> SUFFICES ASSUME StoreInv, Settled, Clean, NEW m \in Messages, Live(entry[m])
               PROVE  m \in GetByTransactionID
    BY DEF IndexComplete, Clean
  <2>1. m \in ToSet(index.ids)
    BY DEF StoreInv, CleanIndex, Settled, Busy
  <2>2. Live(index)
    BY <2>1 DEF StoreInv, IndexOutlivesEntries, Clean, Live, TypeOK, Entries
  <2> QED BY <2>1, <2>2 DEF GetByTransactionID, IndexIds
<1> QED BY StoreInvariant, <1>1, PTL

=============================================================================
