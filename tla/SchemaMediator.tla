--------------------------- MODULE SchemaMediator ---------------------------
(***************************************************************************)
(* schemaversionmediator: the mediateSchema step.  Objects of the message  *)
(* whose version the target's manifest does not list are translated by     *)
(* artifacts fetched one after the other through a cache that remembers    *)
(* missing artifacts too; then each artifact is applied to its object, a   *)
(* parent before the objects nested in it, and the body is replaced.       *)
(*                                                                         *)
(* A path is the sequence of keys below $, so that <<"message">> is the    *)
(* message itself.  The JSONata engine, the artifact server and the        *)
(* manifest loader are modelled by their answers.                          *)
(***************************************************************************)
EXTENDS MessageSteps

CONSTANTS NoVersion,   \* an @context URL without a version segment
          Rank,        \* Rank[p]: the place of a path in sort.Strings' order
          PositiveTTL, NegativeTTL, MaxCacheEntries

ASSUME MediatorAssumption ==
  /\ PositiveTTL \in Nat /\ NegativeTTL \in Nat /\ MaxCacheEntries \in Nat \ {0}
  /\ <<"message">> \in DOMAIN Rank /\ \A p \in DOMAIN Rank : Rank[p] \in Nat

VARIABLES entries,  \* the artifact cache: URL -> what was fetched and when
          keys      \* its keys in the order they were first stored

mediator == <<entries, keys>>

(* What an artifact may do to the object it is applied to.                 *)
Effects == {"keeps",   \* translates it, nested objects stay where they are
            "drops",   \* translates it, nested objects are gone
            "scalar",  \* its result is not a JSON object
            "fails"}   \* the translator returns an error

Missing == "missing"   \* the remembered 404

MediatorInit == entries = <<>> /\ keys = <<>>

-----------------------------------------------------------------------------
(* The target's manifest *)

(* latestVersion; versions are numbers.                                    *)
LatestVersion(vs) == CHOOSE v \in vs : \A w \in vs : w <= v

(* The version CanonicalVersion resolves to, or none when it is an error.  *)
CanonicalVersion(s) ==
  IF s.supported = {} THEN {}
  ELSE IF s.policy = "latest" THEN {LatestVersion(s.supported)}
  ELSE IF s.policy = "pinned" THEN {s.pinned} \ {None}
  ELSE {}

(* CheckCompatibility: the objects to be translated.  A type the manifest  *)
(* does not declare, or has no canonical version for, is left alone.       *)
Needs(body) ==
  {p \in DOMAIN body :
     LET o == body[p] IN
     /\ o.type \in DOMAIN env.manifest
     /\ o.version = NoVersion \/ o.version \notin env.manifest[o.type].supported
     /\ CanonicalVersion(env.manifest[o.type]) # {}}

Target(o) == CHOOSE v \in CanonicalVersion(env.manifest[o.type]) : TRUE

(* deriveArtifactURL *)
ArtifactURL(o) == <<o.type, o.version, Target(o)>>

-----------------------------------------------------------------------------
(* The artifact cache *)

Without(f, k) == [x \in DOMAIN f \ {k} |-> f[x]]

TTL(e) == IF e.effect = Missing THEN NegativeTTL ELSE PositiveTTL

(* Fault: a missing artifact is remembered for as long as a found one.     *)
LiveArtifactAnyTTL(url) ==
  {e \in {entries[u] : u \in DOMAIN entries \cap {url}} : now - e.fetchedAt <= PositiveTTL}

LiveArtifact(url) ==
  {e \in {entries[u] : u \in DOMAIN entries \cap {url}} : now - e.fetchedAt <= TTL(e)}

(* get: an expired entry is deleted, its key is not.                       *)
GetArtifact(url) ==
  /\ entries' = IF LiveArtifact(url) = {} THEN Without(entries, url) ELSE entries
  /\ UNCHANGED keys

(* set: a new key takes the place of the oldest when there is no room.     *)
SetArtifact(url, effect) ==
  LET full == Len(keys) >= MaxCacheEntries
      new == url \notin DOMAIN entries
      kept == IF new /\ full THEN Without(entries, Head(keys)) ELSE entries
  IN /\ keys' = IF ~new THEN keys
                ELSE Append(IF full THEN Tail(keys) ELSE keys, url)
     /\ entries' = [u \in DOMAIN kept \cup {url} |->
                      IF u = url THEN [effect |-> effect, fetchedAt |-> now] ELSE kept[u]]

-----------------------------------------------------------------------------
(* Applying the artifacts *)

Below(p, q) == IsStrictPrefix(p, q)

(* relPath is empty: the artifact is applied to the whole message as it    *)
(* came, for $.message itself and for every object outside of it.          *)
OnMessage(p) == ~Below(<<"message">>, p)

(* The artifact at p takes the object at q out of the message: one that    *)
(* lies in its own, or its own.  The result for the whole message is       *)
(* merged into the message, so that the old fields and objects stay.       *)
Removes(p, effect, q) ==
  ~OnMessage(p) /\ \/ Below(p, q) /\ effect \in {"drops", "scalar"}
                   \/ p = q /\ effect = "scalar"

(* The translation fails as a whole when the translator does, when the     *)
(* message does not come back as an object, or when an object to be        *)
(* translated is no longer at its path: sort.Strings puts a parent before  *)
(* what it holds, and only a parent removes anything but itself.           *)
CannotApply(got) ==
  \E p \in DOMAIN got :
    \/ got[p] = "fails" \/ (OnMessage(p) /\ got[p] = "scalar")
    \/ \E q \in DOMAIN got \ {p} : Removes(q, got[q], p)

(* The artifacts applied to the whole message once $.message.* is done: a  *)
(* result that keeps the nested objects puts them back as they came.       *)
Restored(got) ==
  \E p \in DOMAIN got :
    OnMessage(p) /\ Rank[p] > Rank[<<"message">>] /\ got[p] = "keeps"

(* The last of the artifacts that set the message's own @context.          *)
LastOnMessage(got) ==
  CHOOSE p \in DOMAIN got : /\ OnMessage(p)
                            /\ \A q \in DOMAIN got : OnMessage(q) => Rank[q] <= Rank[p]

Relabelled(o, from) ==
  [type |-> o.type, version |-> Target(from), host |-> o.host, fits |-> o.fits]

(* Every artifact on its object, once nothing is in the way; only          *)
(* $.message is written back.                                              *)
Mediated(body, got) ==
  [q \in {x \in DOMAIN body : Restored(got) \/ \A p \in DOMAIN got : ~Removes(p, got[p], x)} |->
     IF q = <<"message">> /\ \E p \in DOMAIN got : OnMessage(p)
     THEN Relabelled(body[q], body[LastOnMessage(got)])
     ELSE IF q \in DOMAIN got /\ ~OnMessage(q) /\ ~Restored(got)
     THEN Relabelled(body[q], body[q])
     ELSE body[q]]

-----------------------------------------------------------------------------
(* The step *)

ApplyOnFailure(r) == IF env.onFailure = "passThrough" THEN Advanced(r) ELSE Refused(r)

(* Mediate up to the artifacts.  The manifest is the node's own for a      *)
(* receiver; a caller asks for the counterparty's.                         *)
BeginMediate(j) ==
  /\ At(j, "mediateSchema") /\ Entering(job[j])
  /\ LET r == job[j] IN
     \E found \in IF env.caller THEN BOOLEAN ELSE {TRUE} :
       job' = [job EXCEPT ![j] =
         IF ~env.onboarded THEN Refused(r)
         ELSE IF ~r.remote THEN Advanced(r)
         ELSE IF ~found THEN ApplyOnFailure(r)
         ELSE IF Needs(r.body) = {} THEN Advanced(r)
         ELSE IF env.action = "reject" THEN Refused(r)
         ELSE [r EXCEPT !.left = Needs(r.body)]]
  /\ UNCHANGED mediator

(* One need answered: by an artifact, or by a failure.                     *)
Got(r, p, effect, age) ==
  [r EXCEPT !.left = @ \ {p}, !.fetch = None,
            !.got = IF effect \in Effects
                    THEN [q \in DOMAIN @ \cup {p} |-> IF q = p THEN effect ELSE @[q]]
                    ELSE @,
            !.failed = @ \/ effect \notin Effects,
            !.heard = [from |-> effect, age |-> age]]

(* fetchAllArtifacts, the needs in any order: no URL can be derived, the   *)
(* cache answers, or a request is made.                                    *)
FetchArtifact(j) ==
  /\ At(j, "mediateSchema") /\ job[j].left # {} /\ job[j].fetch = None
  /\ \E p \in job[j].left :
       LET r == job[j]
           o == r.body[p]
           live == LiveArtifact(ArtifactURL(o))
       IN IF o.version = NoVersion
          THEN /\ job' = [job EXCEPT ![j] = Got(r, p, "noURL", 0)]
               /\ UNCHANGED mediator
          ELSE /\ GetArtifact(ArtifactURL(o))
               /\ IF live = {}
                  THEN job' = [job EXCEPT ![j] = Fetching(r, p)]
                  ELSE \E e \in live :
                         job' = [job EXCEPT ![j] =
                                   Got(r, p, e.effect, now - e.fetchedAt)]

(* The second attempt of the same request.                                 *)
Retried(r) == [r EXCEPT !.fetch = [path |-> @.path, at |-> @.at, attempt |-> @.attempt + 1]]

(* doFetch: an answer, a 404 that is final, or a failure retried once.     *)
ArtifactAnswered(j) ==
  /\ At(j, "mediateSchema") /\ job[j].fetch # None
  /\ LET r == job[j]
         p == r.fetch.path
     IN \/ \E effect \in Effects \cup {Missing} :
             /\ SetArtifact(ArtifactURL(r.body[p]), effect)
             /\ job' = [job EXCEPT ![j] = Got(r, p, effect, 0)]
        \/ /\ job' = [job EXCEPT ![j] =
                IF r.fetch.attempt < 2 THEN Retried(r)
                ELSE Got(r, p, "unreachable", 0)]
           /\ UNCHANGED mediator

(* Fault: what could be fetched is applied, the failures notwithstanding.  *)
MediateSchemaPartly(j) ==
  /\ At(j, "mediateSchema") /\ ~Entering(job[j]) /\ job[j].left = {} /\ job[j].fetch = None
  /\ LET r == job[j] IN
     job' = [job EXCEPT ![j] =
       IF r.got = <<>> THEN ApplyOnFailure(r)
       ELSE IF ~r.msg.message \/ CannotApply(r.got) THEN Refused(r)
       ELSE Advanced([r EXCEPT !.body = Mediated(r.body, r.got)])]
  /\ UNCHANGED mediator

MediateSchema(j) ==
  /\ At(j, "mediateSchema") /\ ~Entering(job[j]) /\ job[j].left = {} /\ job[j].fetch = None
  /\ LET r == job[j] IN
     job' = [job EXCEPT ![j] =
       IF r.failed THEN ApplyOnFailure(r)
       ELSE IF ~r.msg.message \/ CannotApply(r.got) THEN Refused(r)
       ELSE Advanced([r EXCEPT !.body = Mediated(r.body, r.got)])]
  /\ UNCHANGED mediator

MediatorNext ==
  \E j \in Jobs : \/ BeginMediate(j) \/ FetchArtifact(j)
                  \/ ArtifactAnswered(j) \/ MediateSchema(j)
=============================================================================
