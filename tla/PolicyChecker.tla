--------------------------- MODULE PolicyChecker ---------------------------
(***************************************************************************)
(* opapolicychecker over manifestloader: an enforcer per adapter instance  *)
(* loads the policies its network policy file lists, those of type         *)
(* manifest through the loader, reloads them at every tick of its refresh  *)
(* loop and decides messages by the policies it has.                       *)
(* The caller i of the loader is the enforcer of instance i.               *)
(***************************************************************************)
EXTENDS ManifestLoader

CONSTANTS Enforcers,     \* instances with the policy checker
          Default,       \* the entry "default"
          NoNetwork,     \* a message without a network id
          Files,         \* contents the network policy file may have
          Contents,      \* contents the releases of the manifest may have
          MaxDay         \* bound: days, the unit of governance windows

\* No file read; one that cannot be read or flattened leaves everything as it is.
Unreadable == <<>>

ASSUME PolicyAssumption ==
  /\ MaxDay \in Nat
  /\ \A i \in Enforcers : i \in Callers /\ Home[i] = i
  /\ \A f \in Files : DOMAIN f # {} /\ DOMAIN f \subseteq Ids \cup {Default}
  /\ \A k \in Contents, r \in 1 .. MaxRelease : k[r].from \in Nat

VARIABLES content,      \* content[r]: the manifest of release r
          day,          \* today
          enf           \* enf[i]: the PolicyEnforcer of instance i

policyVars == <<content, day, enf>>
vars == <<loaderVars, policyVars>>

NoPolicies == <<>>
Entries == Ids \cup {Default}

\* A loaded policy: evaluator or not, and for a manifest its release.
Policy(enabled, release) == [enabled |-> enabled, release |-> release]

DownEnforcer ==
  [pc |-> "down", serving |-> FALSE, file |-> Unreadable,
   todo |-> {}, got |-> NoPolicies, policies |-> NoPolicies]

-----------------------------------------------------------------------------
(* parsePolicyConfig *)

\* Which raw entries are accepted; a manifest takes everything from the manifest.
ParsePolicyConfig(e) ==
  /\ e.timeout # "bad"
  /\ \/ /\ e.type = "manifest"
        /\ ~e.location /\ ~e.query /\ e.verify = "unset"
     \/ /\ e.type \in {"file", "dir", "bundle"}
        /\ e.location /\ e.query
        /\ \/ e.verify \in {"unset", "false"}
           \/ /\ e.verify = "true" /\ e.keyUrl
              /\ \/ e.type = "bundle" /\ ~e.signature
                 \/ e.type = "file" /\ e.signature

-----------------------------------------------------------------------------
(* NetworkManifest.Validate and resolveManifestPolicyConfig *)

InEffect(m) ==
  /\ m.from <= day
  /\ m.until # 0 => m.until > m.from /\ day <= m.until   \* 0: no end

\* Fault: the manifest's networkId is not compared.
ValidManifestAnyNetwork(m, id) ==
  m.complete /\ InEffect(m) /\ m.source = m.section

\* complete: the version, type, release, publisher and policy fields are there.
\* section: which of policies.bundle and policies.file is there, with its fields.
ValidManifest(m, id) ==
  /\ m.complete
  /\ m.network = id
  /\ InEffect(m)
  /\ m.source \in {"bundle", "file"} /\ m.section = m.source
  /\ m.signed => m.keyUrl /\ (m.source = "file" => m.signatureUrl)

\* NewEvaluator: the artifact is fetched, verified if so configured, and compiled;
\* broken: not fetched, too large, without modules or not compiling.
Artifacts == {"signed", "unsigned", "broken"}
Compiles(artifact, verify) ==
  artifact = "signed" \/ (artifact = "unsigned" /\ ~verify)

-----------------------------------------------------------------------------
(* The enforcer *)

Init ==
  /\ LoaderInit
  /\ content \in Contents
  /\ day = 0
  /\ enf = [i \in Enforcers |-> DownEnforcer]

Loading(i) == enf[i].pc = "load"

\* NewWithManifestLoader, or a tick of refreshLoop: reads the file and starts.
BeginLoad(i) ==
  /\ enf[i].pc \in {"down", "idle"}
  /\ \E f \in Files :
       enf' = [enf EXCEPT ![i].pc = "load", ![i].file = f,
                          ![i].todo = DOMAIN f, ![i].got = NoPolicies]
  /\ UNCHANGED <<loaderVars, content, day>>

\* The plugin is switched off: no policies, no refresh loop.
StartDisabled(i) ==
  /\ enf[i].pc = "down"
  /\ enf' = [enf EXCEPT ![i].pc = "off"]
  /\ UNCHANGED <<loaderVars, content, day>>

Loaded(i, n, p) ==
  [enf[i] EXCEPT !.todo = @ \ {n}, !.pc = "load",
                 !.got = [m \in DOMAIN @ \cup {n} |-> IF m = n THEN p ELSE @[m]]]

\* A policy that is disabled, or whose source is a file, directory or bundle.
LoadPolicy(i, n) ==
  LET e == enf[i].file[n]
  IN /\ Loading(i) /\ n \in enf[i].todo
     /\ ParsePolicyConfig(e)
     /\ \/ /\ ~e.enabled
           /\ enf' = [enf EXCEPT ![i] = Loaded(i, n, Policy(FALSE, 0))]
        \/ /\ e.enabled /\ e.type # "manifest"
           /\ \E art \in Artifacts : Compiles(art, e.verify = "true")
           /\ enf' = [enf EXCEPT ![i] = Loaded(i, n, Policy(TRUE, 0))]
     /\ UNCHANGED <<loaderVars, content, day>>

\* resolveManifestPolicyConfig asks the loader.
AskManifest(i, n) ==
  LET e == enf[i].file[n]
  IN /\ Loading(i) /\ n \in enf[i].todo \ {Default}
     /\ ParsePolicyConfig(e) /\ e.enabled /\ e.type = "manifest"
     /\ Get(i, n)
     /\ enf' = [enf EXCEPT ![i].pc = "manifest"]
     /\ UNCHANGED <<content, day>>

Answered(i) == call' = [call EXCEPT ![i] = NoCall]

ManifestLoaded(i) ==
  LET n == call[i].key
      m == content[call[i].doc.release]
  IN /\ enf[i].pc = "manifest" /\ call[i].pc = "done"
     /\ ValidManifest(m, n)
     /\ \E art \in Artifacts : Compiles(art, m.signed)
     /\ enf' = [enf EXCEPT ![i] = Loaded(i, n, Policy(TRUE, call[i].doc.release))]
     /\ Answered(i)
     /\ UNCHANGED <<config, refreshed, uptime, served, signed, cache>>
     /\ UNCHANGED <<content, day>>

\* Some policy of the file cannot be loaded now.
CannotLoad(i) ==
  \/ /\ Loading(i)
     /\ \E n \in enf[i].todo :
          LET e == enf[i].file[n]
          IN \/ ~ParsePolicyConfig(e)
             \/ e.enabled /\ e.type = "manifest" /\ n = Default
             \/ /\ e.enabled /\ e.type # "manifest"
                /\ \E art \in Artifacts : ~Compiles(art, e.verify = "true")
     /\ UNCHANGED call
  \/ /\ enf[i].pc = "manifest"
     /\ \/ call[i].pc = "failed"
        \/ /\ call[i].pc = "done"
           /\ LET m == content[call[i].doc.release]
              IN \/ ~ValidManifest(m, call[i].key)
                 \/ \E art \in Artifacts : ~Compiles(art, m.signed)
     /\ Answered(i)

\* Fault: the policies loaded so far replace the previous ones.
LoadFailsPartly(i) ==
  /\ CannotLoad(i)
  /\ enf' = [enf EXCEPT ![i].pc = IF enf[i].serving THEN "idle" ELSE "exited",
                        ![i].policies = enf[i].got, ![i].got = NoPolicies,
                        ![i].todo = {}, ![i].file = Unreadable]
  /\ UNCHANGED <<config, refreshed, uptime, served, signed, cache>>
  /\ UNCHANGED <<content, day>>

\* The whole load fails: the adapter does not start, or keeps what it had.
LoadFails(i) ==
  /\ CannotLoad(i)
  /\ enf' = [enf EXCEPT ![i].pc = IF enf[i].serving THEN "idle" ELSE "exited",
                        ![i].got = NoPolicies, ![i].todo = {}, ![i].file = Unreadable]
  /\ UNCHANGED <<config, refreshed, uptime, served, signed, cache>>
  /\ UNCHANGED <<content, day>>

\* All policies are loaded; policies and default are swapped under the lock.
Swap(i) ==
  /\ Loading(i) /\ enf[i].todo = {}
  /\ enf' = [enf EXCEPT ![i].pc = "idle", ![i].serving = TRUE,
                        ![i].policies = enf[i].got, ![i].got = NoPolicies,
                        ![i].file = Unreadable]
  /\ UNCHANGED <<loaderVars, content, day>>

\* Close was called or the context cancelled; what is loaded stays in use.
LoopStops(i) ==
  /\ enf[i].pc = "idle"
  /\ enf' = [enf EXCEPT ![i].pc = "stopped"]
  /\ UNCHANGED <<loaderVars, content, day>>

RestartEnforcer(i) ==
  /\ enf[i].pc # "down"
  /\ LoaderRestarts(i)
  /\ enf' = [enf EXCEPT ![i] = DownEnforcer]
  /\ UNCHANGED <<content, day>>

\* selectedPolicy: the network's own policy, even a disabled one, else the default.
SelectedPolicy(i, n) ==
  LET ps == enf[i].policies
  IN IF n \in DOMAIN ps THEN ps[n]
     ELSE IF Default \in DOMAIN ps THEN ps[Default]
     ELSE Policy(FALSE, 0)

-----------------------------------------------------------------------------
DayPasses ==
  /\ day < MaxDay /\ day' = day + 1
  /\ UNCHANGED <<loaderVars, content, enf>>

\* A lookup by another user of the loader, such as the schema version mediator.
OtherLookup(c) ==
  /\ c \notin Enforcers
  /\ \/ \E k \in Ids : Get(c, k)
     \/ /\ call[c].pc \in {"done", "failed"}
        /\ call' = [call EXCEPT ![c] = NoCall]
        /\ UNCHANGED <<config, refreshed, uptime, served, signed, cache>>

Next ==
  \/ DayPasses
  \/ (LoaderEnvironment \/ \E c \in Callers : LookupStep(c) \/ OtherLookup(c))
       /\ UNCHANGED policyVars
  \/ \E i \in Enforcers :
       \/ StartDisabled(i) \/ BeginLoad(i) \/ ManifestLoaded(i) \/ LoadFails(i) \/ Swap(i)
       \/ LoopStops(i) \/ RestartEnforcer(i)
       \/ \E n \in Entries : LoadPolicy(i, n) \/ AskManifest(i, n)

Spec == Init /\ [][Next]_vars

-----------------------------------------------------------------------------
\* A network policy in force that came from a manifest came from that network's
\* manifest, one that has come into effect, and, where the instance verifies, from
\* a signed release - whoever filled the shared cache.
PoliciesSound ==
  \A i \in Enforcers : \A n \in DOMAIN enf[i].policies :
    LET p == enf[i].policies[n]
        m == content[p.release]
    IN p.release # 0 =>
         /\ m.network = n
         /\ m.from <= day
         /\ ~config[i].skip => p.release <= signed

Enforces(i, n) ==
  enf[i].serving /\ n \in DOMAIN enf[i].policies /\ enf[i].policies[n].enabled

\* A network whose policy is enforced stays so while the process runs, through
\* reloads that fail half-way, until a policy file was loaded completely that no
\* longer lists it or disables it.
EnforcementNeverLapses ==
  [][\A i \in Enforcers, n \in Entries :
       Enforces(i, n) /\ enf'[i].serving /\ ~Enforces(i, n)'
         => /\ enf[i].file # Unreadable /\ enf[i].todo = {}
            /\ n \in DOMAIN enf[i].file => ~enf[i].file[n].enabled]_vars
=============================================================================
