----------------------------- MODULE MCCrawler -----------------------------
(***************************************************************************)
(* The crawler's queue and its sink, for TLC.  The two specifications      *)
(* share no variable: a behaviour is a behaviour of one of them while the  *)
(* other stays where it starts.  Push in CrawlQueue is one Send of the     *)
(* sink, seen from outside.                                                *)
(***************************************************************************)
EXTENDS CrawlQueue, DiscoverySink, Functions, TLC

CONSTANT Blanks     \* white space outside a document's resources

\* Catalogs, loops and claim tokens are interchangeable.
Symmetry == Permutations(Catalogs) \cup Permutations(Workers)
              \cup Permutations(Pollers) \cup Permutations(ClaimIds)

\* Sizes of a resource as it is read and as it is written: unchanged, compacted
\* and escaped.
Sizes == {<<3, 3>>, <<14, 9>>, <<15, 20>>, <<45, 45>>}

\* Where each resource ends, read (k = 1) and written (k = 2).
Ends(s, k) ==
  [i \in DOMAIN s |-> SumFunctionOnSet([j \in DOMAIN s |-> s[j][k]], 1 .. i)]

MCDocs ==
  UNION {{[size |-> BaseBytes + OffersBytes + ResourcesField + blank
                      + (IF s = <<>> THEN 0 ELSE Ends(s, 1)[Len(s)] + Len(s) - 1),
           raw |-> Ends(s, 1), sent |-> Ends(s, 2)] : blank \in Blanks}
         : s \in UNION {[1 .. n -> Sizes] : n \in 0 .. MaxResources}}

\* The bounded number of Sends is used up.
SendsDone ==
  /\ ver = MaxSends /\ result # "sending"
  /\ UNCHANGED sinkVars

MCInit == Init /\ SinkInit

MCNext == \/ SinkInit /\ Next /\ UNCHANGED sinkVars
          \/ Init /\ (SinkNext \/ SendsDone) /\ UNCHANGED vars

MCSpec == MCInit /\ [][MCNext]_<<vars, sinkVars>>
=============================================================================
