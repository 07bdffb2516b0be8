---------------------------- MODULE PayloadStore ----------------------------
(***************************************************************************)
(* payloadstore: Store writes a request under its message id and appends   *)
(* the id to its transaction's index, by a read-modify-write over a cache  *)
(* that adapter instances share.  One cache call is one step.  One         *)
(* transaction is modelled; others use other keys.                         *)
(***************************************************************************)
EXTENDS Naturals, Sequences, FiniteSets, SequencesExt

CONSTANTS Messages,    \* message ids of the transaction
          Writers,     \* requests being handled: callers of Store
          TTL,         \* config ttl
          IndexTTL,    \* config indexTTL
          NoMessage,   \* a writer that is idle
          MaxTime      \* bound: the clock stops here

\* ParseConfig refuses the rest.
ASSUME PayloadStoreAssumption ==
  /\ TTL \in Nat \ {0} /\ IndexTTL \in Nat /\ IndexTTL >= TTL
  /\ MaxTime \in Nat /\ NoMessage \notin Messages

VARIABLES env,     \* what may happen in this behaviour
          now,     \* the cache's clock
          entry,   \* payload:onix:msg:{id}: when stored and when it expires
          index,   \* payload:onix:txn:{id}:index: ids and when it expires
          writer   \* writer[w]: where this call of Store is

vars == <<env, now, entry, index, writer>>

Environment ==
  [serial : BOOLEAN,     \* one Store at a time
   resends : BOOLEAN,    \* a message id may be stored again
   getFails : BOOLEAN,   \* cache.Get may fail
   setFails : BOOLEAN]   \* cache.Set may report an error

NoEntry == [storedAt |-> 0, expiresAt |-> 0]
NoIndex == [ids |-> <<>>, expiresAt |-> 0]
IdleWriter == [pc |-> "idle", m |-> NoMessage, ids |-> <<>>]

\* A key is gone once its TTL is over.
Live(k) == k.expiresAt > now

IndexIds == IF Live(index) THEN index.ids ELSE <<>>

\* The entries of the index that have not expired; their order is left out.
GetByTransactionID == {m \in ToSet(IndexIds) : Live(entry[m])}

Init ==
  /\ env \in Environment
  /\ now = 0
  /\ entry = [m \in Messages |-> NoEntry]
  /\ index = NoIndex
  /\ writer = [w \in Writers |-> IdleWriter]

Settled == \A w \in Writers : writer[w].pc = "idle"

-----------------------------------------------------------------------------
\* Exists only logs; persist writes the message key.
SetMessage(m) ==
  /\ env.resends \/ entry[m] = NoEntry
  /\ entry' = [entry EXCEPT ![m] = [storedAt |-> now, expiresAt |-> now + TTL]]

StoreMessage(w, m) ==
  /\ writer[w].pc = "idle"
  /\ env.serial => Settled
  /\ SetMessage(m)
  /\ writer' = [writer EXCEPT ![w] = [pc |-> "stored", m |-> m, ids |-> <<>>]]
  /\ UNCHANGED <<env, now, index>>

\* cache.Set reports an error although Redis took the write: Store returns.
StoreMessageFails(w, m) ==
  /\ env.setFails
  /\ writer[w].pc = "idle"
  /\ SetMessage(m)
  /\ UNCHANGED <<env, now, index, writer>>

\* Fault: the id is appended without looking whether it is there.
ReadIndexNoScan(w) ==
  /\ writer[w].pc = "stored"
  /\ \E ids \in {IndexIds} \cup (IF env.getFails THEN {<<>>} ELSE {}) :
       writer' = [writer EXCEPT ![w] = [@ EXCEPT !.pc = "read", !.ids = ids]]
  /\ UNCHANGED <<env, now, entry, index>>

\* appendToIndex reads the index; an error counts as no index.  An id that is
\* already listed leaves the index as it is, its TTL included.
ReadIndex(w) ==
  /\ writer[w].pc = "stored"
  /\ \E ids \in {IndexIds} \cup (IF env.getFails THEN {<<>>} ELSE {}) :
       writer' = [writer EXCEPT ![w] =
                    IF writer[w].m \in ToSet(ids) THEN IdleWriter
                    ELSE [@ EXCEPT !.pc = "read", !.ids = ids]]
  /\ UNCHANGED <<env, now, entry, index>>

\* Fault: the ids that were read are not written back.
WriteIndexAlone(w) ==
  /\ writer[w].pc = "read"
  /\ index' = [ids |-> <<writer[w].m>>, expiresAt |-> now + IndexTTL]
  /\ writer' = [writer EXCEPT ![w] = IdleWriter]
  /\ UNCHANGED <<env, now, entry>>

\* Fault: the index keeps the TTL of its first write.
WriteIndexKeepsTTL(w) ==
  /\ writer[w].pc = "read"
  /\ index' = [ids |-> Append(writer[w].ids, writer[w].m),
               expiresAt |-> IF Live(index) THEN index.expiresAt
                             ELSE now + IndexTTL]
  /\ writer' = [writer EXCEPT ![w] = IdleWriter]
  /\ UNCHANGED <<env, now, entry>>

WriteIndex(w) ==
  /\ writer[w].pc = "read"
  /\ index' = [ids |-> Append(writer[w].ids, writer[w].m),
               expiresAt |-> now + IndexTTL]
  /\ writer' = [writer EXCEPT ![w] = IdleWriter]
  /\ UNCHANGED <<env, now, entry>>

WriteIndexFails(w) ==
  /\ env.setFails
  /\ writer[w].pc = "read"
  /\ writer' = [writer EXCEPT ![w] = IdleWriter]
  /\ UNCHANGED <<env, now, entry, index>>

Tick ==
  /\ now < MaxTime
  /\ now' = now + 1
  /\ UNCHANGED <<env, entry, index, writer>>

Next ==
  \/ \E w \in Writers, m \in Messages : StoreMessage(w, m) \/ StoreMessageFails(w, m)
  \/ \E w \in Writers : ReadIndex(w) \/ WriteIndex(w) \/ WriteIndexFails(w)
  \/ Tick

Spec == Init /\ [][Next]_vars

-----------------------------------------------------------------------------
\* Whatever Stores race, are repeated or fail on the way, the index lists no
\* message twice and none that was never stored.
IndexSound ==
  /\ IsInjective(index.ids)
  /\ \A m \in ToSet(index.ids) : entry[m] # NoEntry

\* Stored one at a time, without resends and cache errors, every message whose
\* key has not expired is returned by GetByTransactionID.
IndexComplete ==
  Settled /\ env.serial /\ ~(env.resends \/ env.getFails \/ env.setFails) =>
    \A m \in Messages : Live(entry[m]) => m \in GetByTransactionID

\* Stored once each, the index outlives the last entry it references, whatever
\* Stores race and fail: what ParseConfig's check that indexTTL >= ttl is for.
IndexOutlivesEntries ==
  ~env.resends =>
    \A m \in ToSet(index.ids) : index.expiresAt >= entry[m].expiresAt
=============================================================================
