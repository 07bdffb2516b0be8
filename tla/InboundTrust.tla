--------------------------- MODULE InboundTrust ---------------------------
(***************************************************************************)
(* Whether a signed message is believed: validateSignStep over a key       *)
(* manager and signvalidator, and registrykey, by which catalogcrawler and *)
(* catalogpublisher resolve the keys of artifacts.  Both look keys up with *)
(* RegistryClient.  A signature is told by the key that made it.           *)
(***************************************************************************)
EXTENDS RegistryClient

CONSTANTS Messages,    \* inbound requests: [headers, network, caller]
          Artifacts,   \* pairs that artifacts name as their signer
          Skew         \* clockSkewTolerance, in ticks

ASSUME TrustAssumption ==
  /\ Skew \in Nat
  /\ Artifacts \subseteq Seq(STRING) \X Seq(STRING)
  /\ \A m \in Messages :
       /\ Len(m.headers) \in Nat \ {0}
       /\ \A i \in 1 .. Len(m.headers) : m.headers[i].pair \in Seq(STRING) \X Seq(STRING)

VARIABLE job           \* job[r]: what looker r works on

vars == <<registryVars, job>>

NoMessage == [headers |-> <<>>, network |-> Blank, caller |-> Blank]
NoJob == [kind |-> "none", message |-> NoMessage, i |-> 0, used |-> <<>>, result |-> ""]

Init == RegistryInit /\ job = [r \in Lookers |-> NoJob]

\* The codes that blame the sender: answered with 401, the others with 5xx.
Unauthorized == {"AUT_SIGNATURE_INVALID", "AUT_SUBSCRIBER_NOT_FOUND", "AUT_KEY_NOT_FOUND",
                 "AUT_NETWORK_NOT_ALLOWED", "AUT_KEY_EXPIRED_OR_REVOKED"}

-----------------------------------------------------------------------------
(* validateSignStep *)

Header(r) == job[r].message.headers[job[r].i]

\* The step fails: the request is answered with a NACK and is done with.
Refuse(r) ==
  /\ job' = [job EXCEPT ![r] = NoJob]
  /\ look' = [look EXCEPT ![r] = NoLook]

\* validate, for a header: parseHeader, then LookupNPKeys, where simplekeymanager
\* refuses empty ids by itself.
LookupNPKeys(r, j) ==
  LET h == j.message.headers[j.i]
  IN IF ~h.wellFormed \/ (~config.vault /\ Blank \in {h.pair[1], h.pair[2]})
     THEN Refuse(r)
     ELSE /\ job' = [job EXCEPT ![r] = j]
          /\ BeginLookup(r, h.pair, j.message.network)

\* The gateway's header first, where there is one, then the subscriber's.
Receive(r, m) ==
  /\ look[r].pc = "idle"
  /\ LookupNPKeys(r, [NoJob EXCEPT !.kind = "request", !.message = m, !.i = 1])
  /\ UNCHANGED <<config, now, version, replaced, cache>>

Looked(r, kind) == look[r].pc = "done" /\ job[r].kind = kind

\* model.IsKeyStatusUsable; DeDi records carry no status.
IsKeyStatusUsable(rec) == Dedi \/ rec.status # "unusable"

\* LookupNPKeys after the registry's answer.
KeyCode(r) ==
  LET l == look[r]
  IN IF l.code # "ok" THEN l.code
     ELSE IF l.version = 0 THEN "AUT_SUBSCRIBER_NOT_FOUND"
     ELSE IF ~IsKeyStatusUsable(Rec(l.pair, l.version)) THEN "AUT_KEY_EXPIRED_OR_REVOKED"
     ELSE "ok"

CheckTimestampWindow(h) == h.created <= now + Skew /\ now <= h.expires

\* Who checkSubscriberIdentity expects: the caller the request declares, if any.
\* It is asked of the subscriber's header only, the last one.
IdentityOk(r) ==
  LET m == job[r].message
  IN job[r].i < Len(m.headers) \/ m.caller \in {Blank, Header(r).pair[1]}

\* signvalidator.Validate, with the key of the record that was looked up.  What is
\* not base64 is refused; on bytes of another length ed25519.Verify panics, and the
\* server drops the request.
Validates(r) ==
  LET rec == Rec(look[r].pair, look[r].version)
  IN /\ CheckTimestampWindow(Header(r))
     /\ rec.ed25519 /\ Header(r).by = rec.key
     /\ IdentityOk(r)

\* What a believed header rested on.
Ground(r) == [pair |-> look[r].pair, version |-> look[r].version, at |-> now]

ValidateRefuses(r) ==
  /\ Looked(r, "request")
  /\ ~(KeyCode(r) = "ok" /\ Validates(r))
  /\ Refuse(r)
  /\ UNCHANGED <<config, now, version, replaced, cache>>

ValidateAccepts(r) ==
  LET j == [job[r] EXCEPT !.used = Append(@, Ground(r))]
  IN /\ Looked(r, "request") /\ KeyCode(r) = "ok" /\ Validates(r)
     /\ IF j.i < Len(j.message.headers)
        THEN LookupNPKeys(r, [j EXCEPT !.i = @ + 1])
        ELSE /\ job' = [job EXCEPT ![r] = [j EXCEPT !.result = "ok"]]
             /\ look' = [look EXCEPT ![r] = [NoLook EXCEPT !.pc = "answered"]]
     /\ UNCHANGED <<config, now, version, replaced, cache>>

-----------------------------------------------------------------------------
(* registrykey.Source *)

\* An artifact that names no node is refused at once.
ResolveKey(r, p) ==
  /\ look[r].pc = "idle"
  /\ IF p[1] = Blank
     THEN /\ job' = [job EXCEPT ![r] = [NoJob EXCEPT !.kind = "artifact", !.result = "permanent"]]
          /\ look' = [look EXCEPT ![r] = [NoLook EXCEPT !.pc = "answered"]]
     ELSE /\ job' = [job EXCEPT ![r] = [NoJob EXCEPT !.kind = "artifact"]]
          /\ BeginLookup(r, p, Blank)
  /\ UNCHANGED <<config, now, version, replaced, cache>>

\* Fault: every failure to get a key is final.
ResolvedFinal(r) ==
  LET l == look[r]
  IN IF l.code = "ok" /\ l.version # 0 /\ IsKeyStatusUsable(Rec(l.pair, l.version))
        /\ Rec(l.pair, l.version).ed25519
     THEN "ok" ELSE "permanent"

\* Resolve: a failed lookup says nothing about the key; a key that is missing,
\* unusable or not an Ed25519 key never verifies.
Resolved(r) ==
  LET l == look[r]
      rec == Rec(l.pair, l.version)
  IN IF l.code # "ok" THEN "transient"
     ELSE IF l.version = 0 \/ ~IsKeyStatusUsable(rec) \/ rec.key = "" \/ ~rec.ed25519
          THEN "permanent"
     ELSE "ok"

KeyResolved(r) ==
  /\ Looked(r, "artifact")
  /\ job' = [job EXCEPT ![r].result = Resolved(r), ![r].used = <<Ground(r)>>]
  /\ look' = [look EXCEPT ![r] = [NoLook EXCEPT !.pc = "answered"]]
  /\ UNCHANGED <<config, now, version, replaced, cache>>

-----------------------------------------------------------------------------
Retire(r) ==
  /\ look[r].pc = "answered"
  /\ look' = [look EXCEPT ![r] = NoLook]
  /\ job' = [job EXCEPT ![r] = NoJob]
  /\ UNCHANGED <<config, now, version, replaced, cache>>

Next ==
  \/ RegistryEnvironment /\ UNCHANGED job
  \/ \E r \in Lookers :
       \/ LookupStep(r) /\ UNCHANGED job
       \/ \E m \in Messages : Receive(r, m)
       \/ \E p \in Artifacts : ResolveKey(r, p)
       \/ ValidateRefuses(r) \/ ValidateAccepts(r) \/ KeyResolved(r) \/ Retire(r)

Spec == Init /\ [][Next]_vars

-----------------------------------------------------------------------------
Answered(r, kind) == look[r].pc = "answered" /\ job[r].kind = kind
Accepted(r) == Answered(r, "request") /\ job[r].result = "ok"

\* The subscriber and key ids of two pairs differ, but not once registry has joined
\* them, since one of the subscriber ids has a "_" of its own.
Collide(p, q) ==
  /\ p[1] \o <<"_">> \o p[2] = q[1] \o <<"_">> \o q[2]
  /\ \E s \in {p[1], q[1]} : \E i \in 1 .. Len(s) : s[i] = "_"

\* Every header of an accepted request was made with a key that the registry
\* published for the very subscriber and key id it names, and that was not replaced
\* or revoked longer ago than the record could be cached; it was valid by then and
\* had not expired.  Without DeDi, the key may be that of a pair whose ids collide
\* with those of the header in the cache, and of no other.
KeysAreFresh ==
  \A r \in Lookers : Accepted(r) =>
    /\ Len(job[r].used) = Len(job[r].message.headers)
    /\ \A i \in DOMAIN job[r].used :
         LET h == job[r].message.headers[i]
             u == job[r].used[i]
             rec == Rec(u.pair, u.version)
         IN /\ rec.key = h.by
            /\ h.pair = u.pair \/ (~Dedi /\ Collide(h.pair, u.pair))
            /\ replaced[u.pair][u.version] = Never
                 \/ u.at <= CachedUntil(rec, replaced[u.pair][u.version])
            /\ h.created <= u.at + Skew /\ u.at <= h.expires

\* With DeDi, an accepted request's subscriber belongs to a network the adapter
\* allows and to the network the request names, also when its key came from the
\* cache and was put there by a request for another network.
MembersOnly ==
  \A r \in Lookers : Accepted(r) /\ Dedi =>
    \A i \in DOMAIN job[r].used :
      LET rec == Rec(job[r].used[i].pair, job[r].used[i].version)
          n == job[r].message.network
      IN rec.subscriber \notin Agnostic =>
           /\ config.allowed # {} => rec.members \cap config.allowed # {}
           /\ n # Blank => n \in rec.members
           /\ n # Blank /\ config.allowed # {} => n \in config.allowed

\* The registry gave no record because it has, or had, none.
Missing(p) == p \in Pairs => \E v \in 1 .. version[p] : ~Rec(p, v).exists

\* A failure of the registry is never held against the sender or the publisher: a
\* request is refused as unauthorized, and an artifact's key as bad for good, only
\* on a record the registry gave, on its having none, or on ids that name nothing.
\* For good means, with either registry, that the record's key is no Ed25519 key;
\* a key that is missing or revoked, or a record that does not exist, is bad for
\* good without DeDi only, which answers these with an error, as it does an outage.
BlameIsRight ==
  \A r \in Lookers :
    /\ Looked(r, "request") /\ KeyCode(r) \in Unauthorized
         => \/ look[r].version # 0 \/ Missing(look[r].pair)
            \/ Blank \in {look[r].pair[1], look[r].pair[2]}
    /\ Answered(r, "artifact") /\ job[r].result = "permanent" /\ job[r].used # <<>>
         => LET u == job[r].used[1]
            IN IF u.version = 0 THEN ~Dedi /\ Missing(u.pair)
               ELSE LET rec == Rec(u.pair, u.version)
                    IN \/ ~Dedi /\ (rec.status = "unusable" \/ rec.key = "")
                       \/ rec.key # "" /\ ~rec.ed25519
=============================================================================
