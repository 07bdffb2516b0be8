---------------------------- MODULE MCCrawlQueue ----------------------------
(***************************************************************************)
(* Instances of CrawlQueue for TLC.                                        *)
(***************************************************************************)
EXTENDS CrawlQueue, TLC

\* Catalogs, loops and claim tokens are interchangeable.
Symmetry == Permutations(Catalogs) \cup Permutations(Workers)
              \cup Permutations(Pollers) \cup Permutations(ClaimIds)
=============================================================================
