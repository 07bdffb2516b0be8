-------------------------- MODULE SchemaValidator --------------------------
(***************************************************************************)
(* schemav2validator: the validateSchema step.  The index of actions is    *)
(* merged from a primary and auxiliary OpenAPI documents at startup and    *)
(* again on a ticker, one document at a time, while the documents change   *)
(* and messages are being validated.  Objects that name a domain schema    *)
(* are checked against it: from memory, from an LRU cache with a TTL, or   *)
(* downloaded.                                                             *)
(*                                                                         *)
(* A document is the set of actions it defines, <<"body", action>> and     *)
(* <<"bodyless", endpoint>>; what a schema says of a body is the body's    *)
(* own conforms and fits.                                                  *)
(***************************************************************************)
EXTENDS MessageSteps

CONSTANTS FilesOf,         \* FilesOf[s]: the files of a source of type dir, else <<>>
          Offers,          \* Offers[f]: what the file or document f may hold
          Unreadable,      \* f cannot be read or parsed
          Local,           \* types in localSchemaPath
          AllowedDomains,  \* hosts of the allow list, when one is configured
          MaxCacheSize, SchemaTTL, DownloadTimeout

ASSUME ValidatorAssumption ==
  /\ MaxCacheSize \in Nat \ {0} /\ SchemaTTL \in Nat /\ DownloadTimeout \in Nat
  /\ \A c \in Configs :
       /\ c.sources \in Seq(DOMAIN Offers)
       /\ \A s \in ToSet(c.sources) : FilesOf[s] \in Seq(DOMAIN Offers)

VARIABLES world,   \* world[f]: what f holds at the moment
          load,    \* loadAllSpecs under way: what is still to be read, what was, and
                   \* (history) what the documents have held since it began
          index,   \* index[f]: the actions document f contributes; None before startup
          schemas  \* the schema cache, least recently used first

validator == <<world, load, index, schemas>>

Idle == [phase |-> "idle", left |-> <<>>, got |-> <<>>, held |-> {}]
Dead == [phase |-> "dead", left |-> <<>>, got |-> <<>>, held |-> {}]

ValidatorInit ==
  /\ world = [f \in DOMAIN Offers |-> CHOOSE d \in Offers[f] : TRUE]
  /\ load = Idle /\ index = None /\ schemas = <<>>

(* The documents of a source: itself, or the files of its directory.       *)
Documents(s) == IF FilesOf[s] = <<>> THEN {s} ELSE ToSet(FilesOf[s])

(* Documents are still to be read: at startup, or by a reload before the   *)
(* clock stops, which depends on the TTL the configuration gives them.     *)
Reads == index = None \/ env.reloads

(* A document is edited, or its server comes and goes.                     *)
SourceChanges ==
  /\ Reads
  /\ \E s \in ToSet(env.sources) : \E f \in {s} \cup Documents(s) :
       \E d \in Offers[f] \cup {Unreadable} :
         /\ world' = [world EXCEPT ![f] = d]
         /\ load' = IF load.phase = "loading"
                    THEN [load EXCEPT !.held = @ \cup {<<f, d>>}] ELSE load
  /\ UNCHANGED <<index, schemas>>

-----------------------------------------------------------------------------
(* Loading the action index *)

Merged(got) == UNION {got[f] : f \in DOMAIN got}

(* loadSpecFromDir: a file that does not load is left out, also on reload. *)
LoadSpecFromDir(s) ==
  LET fs == {i \in DOMAIN FilesOf[s] : world[FilesOf[s][i]] # Unreadable} IN
  IF \E i, k \in fs : i # k /\ world[FilesOf[s][i]] \cap world[FilesOf[s][k]] # {}
  THEN Unreadable
  ELSE [f \in {FilesOf[s][i] : i \in fs} |-> world[f]]

LoadSingleSpec(s) ==
  IF world[s] = Unreadable THEN Unreadable
  ELSE IF FilesOf[s] = <<>> THEN [f \in {s} |-> world[f]] ELSE LoadSpecFromDir(s)

(* What was read before, and spec.                                         *)
Added(got, spec) ==
  [f \in DOMAIN got \cup DOMAIN spec |-> IF f \in DOMAIN spec THEN spec[f] ELSE got[f]]

(* At startup New fails and the adapter does not come up; a reload keeps   *)
(* the index there is.                                                     *)
LoadFails == load' = IF index = None THEN Dead ELSE Idle

BeginLoad ==
  /\ load.phase = "idle" /\ Reads
  /\ load' = [phase |-> "loading", left |-> env.sources, got |-> <<>>,
              held |-> {<<f, world[f]>> : f \in UNION {Documents(s) : s \in ToSet(env.sources)}}]
  /\ UNCHANGED <<world, index, schemas>>

(* Fault: a failed auxiliary is skipped on reload as it is at startup.     *)
LoadNextLenient ==
  /\ load.left # <<>>
  /\ LET s == Head(load.left)
         spec == LoadSingleSpec(s)
         rest == [load EXCEPT !.left = Tail(@)]
     IN IF spec = Unreadable
        THEN IF env.primary /\ s = Head(env.sources) THEN LoadFails ELSE load' = rest
        ELSE IF Merged(spec) \cap Merged(load.got) # {} THEN LoadFails
        ELSE load' = [rest EXCEPT !.got = Added(@, spec)]
  /\ UNCHANGED <<world, index, schemas>>

(* A failure of the primary ends the load, one of an auxiliary ends it     *)
(* only on reload, and an action that is already taken ends it always.     *)
LoadNext ==
  /\ load.left # <<>>
  /\ LET s == Head(load.left)
         spec == LoadSingleSpec(s)
         rest == [load EXCEPT !.left = Tail(@)]
     IN IF spec = Unreadable
        THEN IF index # None \/ (env.primary /\ s = Head(env.sources))
             THEN LoadFails ELSE load' = rest
        ELSE IF Merged(spec) \cap Merged(load.got) # {} THEN LoadFails
        ELSE load' = [rest EXCEPT !.got = Added(@, spec)]
  /\ UNCHANGED <<world, index, schemas>>

(* The new index replaces the old one in one step, under specMutex.        *)
CommitIndex ==
  /\ load.phase = "loading" /\ load.left = <<>>
  /\ IF Merged(load.got) = {} THEN LoadFails /\ UNCHANGED index
     ELSE index' = load.got /\ load' = Idle
  /\ UNCHANGED <<world, schemas>>

-----------------------------------------------------------------------------
(* The schema cache *)

SchemaURL(o) == <<o.host, o.type, o.version>>

(* Where a key is held, and not expired.                                   *)
CachedSchema(key) ==
  {i \in DOMAIN schemas : schemas[i].key = key /\ now <= schemas[i].expiresAt}

(* A hit makes the schema the most recently used one.                      *)
GetSchema(i) == schemas' = Append(RemoveAt(schemas, i), schemas[i])

(* A full cache gives up its least recently used schema, even when the     *)
(* schema to be stored is one it already holds.                            *)
SetSchema(key, read) ==
  LET kept == IF Len(schemas) >= MaxCacheSize THEN Tail(schemas) ELSE schemas
      held == {i \in DOMAIN kept : kept[i].key = key}
  IN schemas' = Append(IF held = {} THEN kept ELSE RemoveAt(kept, CHOOSE i \in held : TRUE),
                       [key |-> key, read |-> read, expiresAt |-> now + SchemaTTL])

(* What is left stays in the order of its last use.  The goroutine is the  *)
(* one that reloads the index.                                             *)
CleanupExpired ==
  /\ env.extended /\ load.phase = "idle"
  /\ \E c \in ToSet(schemas) : now > c.expiresAt
  /\ \E live \in SeqOf(ToSet(schemas), Len(schemas)) :
       /\ ToSet(live) = {c \in ToSet(schemas) : now <= c.expiresAt}
       /\ \A a, b \in DOMAIN live :
            a < b => \E i, k \in DOMAIN schemas :
                       i < k /\ live[a] = schemas[i] /\ live[b] = schemas[k]
       /\ schemas' = live
  /\ UNCHANGED <<world, load, index>>

-----------------------------------------------------------------------------
(* The step *)

(* validateSchemaStep.Run and Validate up to the base schema.              *)
ValidBase(m) ==
  IF m.bytes = "none"
  THEN m.method # "POST" /\ <<"bodyless", m.endpoint>> \in Merged(index)
  ELSE <<"body", m.action>> \in Merged(index) /\ m.conforms

(* findReferencedObjects *)
ReferencedObjects(r) == {p \in DOMAIN r.body : InMessage(p)}

ValidateBase(j) ==
  /\ At(j, "validateSchema") /\ Entering(job[j]) /\ index # None
  /\ LET r == job[j] IN
     job' = [job EXCEPT ![j] =
       IF ~ValidBase(r.msg) THEN Refused(r)
       ELSE IF r.msg.bytes = "none" \/ ~env.extended THEN Advanced(r)
       ELSE IF ~r.msg.message THEN Refused(r)
       ELSE IF ReferencedObjects(r) = {} THEN Advanced(r)
       ELSE [r EXCEPT !.left = ReferencedObjects(r)]]
  /\ UNCHANGED validator

(* findSchemaByType and VisitJSON, once the object's document is at hand.  *)
Judged(r, p, heard) ==
  IF r.body[p].fits # "ok" THEN [Refused(r) EXCEPT !.heard = heard]
  ELSE IF r.left = {p} THEN [Advanced(r) EXCEPT !.heard = heard]
  ELSE [r EXCEPT !.left = @ \ {p}, !.fetch = None, !.heard = heard]

(* loadSchemaFromPath for the type's own name: a schema preloaded from     *)
(* localSchemaPath is parsed anew each time, one that is not comes from    *)
(* the cache or from a file of that name.                                  *)
CachedByType(o) == IF o.type \in Local THEN {} ELSE CachedSchema(o.type)

(* The object is judged by the schema its @context leads to: there is no   *)
(* localSchemaPath, or the lookup by type found nothing that parses.       *)
ByContext(o) == ~env.local \/ CachedByType(o) = {}

Allowed(o) == env.allowList => o.host \in AllowedDomains

(* validateReferencedObject, for the objects in any order.                 *)
ValidateObject(j) ==
  /\ At(j, "validateSchema") /\ job[j].left # {} /\ job[j].fetch = None
  /\ \E p \in job[j].left :
       LET r == job[j]
           o == r.body[p]
           hit == CachedSchema(SchemaURL(o))
       IN \/ /\ env.local /\ CachedByType(o) = {}
             /\ SetSchema(o.type, now)
             /\ job' = [job EXCEPT ![j] = Judged(r, p, None)]
          \/ /\ ByContext(o) /\ ~Allowed(o)
             /\ job' = [job EXCEPT ![j] = Refused(r)]
             /\ UNCHANGED schemas
          \/ \E i \in (IF env.local THEN CachedByType(o) ELSE {})
                        \cup (IF ByContext(o) /\ Allowed(o) THEN hit ELSE {}) :
               /\ GetSchema(i)
               /\ job' = [job EXCEPT ![j] =
                    Judged(r, p, [from |-> "schemas", age |-> now - schemas[i].read])]
          \/ /\ ByContext(o) /\ Allowed(o) /\ hit = {}
             /\ job' = [job EXCEPT ![j] = Fetching(r, p)]
             /\ UNCHANGED schemas
  /\ UNCHANGED <<world, load, index>>

(* The download ends within its timeout.                                   *)
SchemaLoaded(j) ==
  /\ At(j, "validateSchema") /\ job[j].fetch # None
  /\ LET r == job[j]
         p == r.fetch.path
     IN \/ /\ SetSchema(SchemaURL(r.body[p]), r.fetch.at)
           /\ job' = [job EXCEPT ![j] =
                Judged(r, p, [from |-> "schemas", age |-> now - r.fetch.at])]
        \/ /\ job' = [job EXCEPT ![j] = Refused(r)]
           /\ UNCHANGED schemas
  /\ UNCHANGED <<world, load, index>>

Overdue(j) ==
  /\ At(j, "validateSchema") /\ job[j].fetch # None
  /\ now >= job[j].fetch.at + DownloadTimeout

ValidatorNext ==
  \/ SourceChanges /\ UNCHANGED job
  \/ BeginLoad /\ UNCHANGED job
  \/ LoadNext /\ UNCHANGED job
  \/ CommitIndex /\ UNCHANGED job
  \/ CleanupExpired /\ UNCHANGED job
  \/ \E j \in Jobs : ValidateBase(j) \/ ValidateObject(j) \/ SchemaLoaded(j)

-----------------------------------------------------------------------------
(* Properties *)

InDirectory(f) == \E s \in ToSet(env.sources) : f \in ToSet(FilesOf[s])

(* An action leaves the index only for a reason: while the reload read the *)
(* documents one by one, the document the action came from was there and   *)
(* did not offer it, or was a file of a directory that could not be read   *)
(* (loadSpecFromDir skips those).  A document of its own that cannot be    *)
(* read costs no action, however the documents come and go meanwhile.      *)
ActionsNeverVanish ==
  [][index # None =>
       \A f \in DOMAIN index : \A a \in index[f] \ Merged(index') :
         \/ \E h \in load.held : h[1] = f /\ h[2] # Unreadable /\ a \notin h[2]
         \/ InDirectory(f) /\ <<f, Unreadable>> \in load.held]_<<index>>
=============================================================================
