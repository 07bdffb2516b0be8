-------------------------- MODULE MCPolicyChecker --------------------------
(***************************************************************************)
(* Contents of files, manifests and query results for PolicyChecker.       *)
(***************************************************************************)
EXTENDS PolicyChecker

CONSTANTS a, b, c, n1

MCHome == [x \in Callers |-> IF x = a THEN a ELSE b]

\* b skips verification and shares the cache with a, which forces a refresh when
\* it starts or does not use the cache.
MCSetups ==
  {[i \in Instances |-> [skip |-> i = b, force |-> i = a /\ ~d, disable |-> i = a /\ d]] :
     d \in BOOLEAN}

Entry(type, enabled, verify) ==
  [type |-> type, enabled |-> enabled, verify |-> verify, timeout |-> "ok",
   location |-> type # "manifest", query |-> type # "manifest",
   keyUrl |-> verify = "true", signature |-> type = "file" /\ verify = "true"]

\* The network by its manifest, by a signed file, disabled; one with a mistake.
MCFiles ==
  {[n \in {n1} |-> Entry("manifest", TRUE, "unset")],
   [n \in {n1, Default} |-> IF n = n1 THEN Entry("file", TRUE, "true")
                            ELSE Entry("dir", TRUE, "unset")],
   [n \in {n1, Default} |-> IF n = n1 THEN Entry("bundle", FALSE, "unset")
                            ELSE Entry("dir", TRUE, "true")]}

Manifest(network, from) ==
  [complete |-> TRUE, network |-> network, from |-> from, until |-> 0,
   source |-> "bundle", section |-> "bundle", signed |-> TRUE, keyUrl |-> TRUE,
   signatureUrl |-> FALSE]

\* The second release is for another network, or not yet in effect.
MCContents ==
  {<<Manifest(n1, 0), Manifest(NoNetwork, 0)>>, <<Manifest(n1, 0), Manifest(n1, 1)>>}
=============================================================================
