--------------------------- MODULE DiscoverySink ---------------------------
(***************************************************************************)
(* DiscoverySink.Send: a resolved catalog is cut into batches by size and  *)
(* pushed one request at a time, the lead batch FULL (replace) and the     *)
(* rest MERGE (upsert by id).  A document is given by its length and by    *)
(* the offsets at which its resources end, one after the other, once as    *)
(* they were read and once as json.Marshal writes them (whitespace goes,   *)
(* & < > become six bytes); everything else in it but the offers has a     *)
(* fixed size.  Discovery is modelled by what the update modes are said to *)
(* do (external).                                                          *)
(*                                                                         *)
(* The batches depend on the document alone, so each is cut when it is     *)
(* pushed and not all of them before the first push.                       *)
(***************************************************************************)
EXTENDS Integers, Sequences, FiniteSetsExt

CONSTANTS MaxDocBytes,    \* config maxPushBytes; 0 = no batching
          BaseBytes,      \* the document without resources and offers
          OffersBytes,    \* the offers member
          Docs,           \* catalogs that may be sent
          MaxResources,   \* bound: resources in a catalog
          MaxSends        \* bound: calls of Send

ASSUME SinkAssumption ==
  /\ MaxDocBytes \in Nat /\ BaseBytes \in Nat /\ OffersBytes \in Nat
  /\ MaxResources \in Nat /\ MaxSends \in Nat
  /\ \A d \in Docs :
       /\ d \in [size : Nat, raw : Seq(Nat), sent : Seq(Nat)]
       /\ Len(d.raw) = Len(d.sent) /\ Len(d.raw) <= MaxResources
       /\ \A i \in 2 .. Len(d.raw) : d.raw[i - 1] < d.raw[i] /\ d.sent[i - 1] < d.sent[i]

VARIABLES doc,       \* the catalog being sent
          ver,       \* number of this Send; tags the content it pushes
          from,      \* first resource of the next batch
          lead,      \* the next batch is the first one
          refused,   \* some batch was answered with another status than 200
          result,    \* what Send returned: SinkOutcome or an error
          held,      \* held[i]: ver of Discovery's resource i, 0 = absent
          offers     \* ver of Discovery's offers

sinkVars == <<doc, ver, from, lead, refused, result, held, offers>>

-----------------------------------------------------------------------------
(* BatchCatalog *)

\* The resources from a to b, without what separates them.
ResourceBytes(ends, a, b) == ends[b] - (IF a = 1 THEN 0 ELSE ends[a - 1])

\* A batch that was cut out, marshalled: ,"resources":[...] around the
\* resources and the commas between them.
ResourcesField == 15
DocBytes(d, a, b, withOffers) ==
  BaseBytes + (IF withOffers THEN OffersBytes ELSE 0)
    + ResourcesField + ResourceBytes(d.sent, a, b) + (b - a)

\* Fault: the separator is not counted.
CostNoSeparator(d, a, b) == ResourceBytes(d.raw, a, b)

\* What the inner loop adds up: each resource as it was read, and a separator.
Cost(d, a, b) == ResourceBytes(d.raw, a, b) + (b + 1 - a)

\* maxDocBytes less the document without its resources; may be negative.
Fits(d, a, b, withOffers) ==
  Cost(d, a, b) + BaseBytes + (IF withOffers THEN OffersBytes ELSE 0) <= MaxDocBytes

\* A catalog that fits, and one without resources, is sent as it is.
Unbatched(d) == MaxDocBytes = 0 \/ d.size <= MaxDocBytes \/ Len(d.raw) = 0

\* The batch that starts at a resource takes it and those that still fit.
BatchEnd(d, a, first) ==
  IF Unbatched(d) THEN Len(d.raw)
  ELSE Max({b \in a .. Len(d.raw) : b = a \/ Fits(d, a, b, first)})

\* The lead batch replaces and carries the offers.
Batch ==
  [from |-> from, to |-> BatchEnd(doc, from, lead),
   mode |-> IF lead THEN "FULL" ELSE "MERGE", offers |-> lead]

-----------------------------------------------------------------------------
(* Send *)

Ids == 1 .. MaxResources

SinkInit ==
  /\ doc = [size |-> 0, raw |-> <<>>, sent |-> <<>>]
  /\ ver = 0 /\ from = 1 /\ lead = TRUE /\ refused = FALSE /\ result = "none"
  /\ held = [i \in Ids |-> 0]
  /\ offers = 0

\* SyncNext calls Send again only after the previous call has returned.
Send ==
  /\ result # "sending"
  /\ ver < MaxSends
  /\ doc' \in Docs
  /\ ver' = ver + 1
  /\ from' = 1 /\ lead' = TRUE
  /\ refused' = FALSE
  /\ result' = "sending"
  /\ UNCHANGED <<held, offers>>

\* Discovery takes the batch: FULL deletes what it does not carry.
Takes(b) ==
  /\ held' = [i \in Ids |-> IF i \in b.from .. b.to THEN ver
                            ELSE IF b.mode = "FULL" THEN 0 ELSE held[i]]
  /\ offers' = IF b.offers THEN ver ELSE IF b.mode = "FULL" THEN 0 ELSE offers

MorePushes == result = "sending" /\ (lead \/ from <= Len(doc.raw))

\* On to the batch after this one.
Pushed == from' = Batch.to + 1 /\ lead' = FALSE

PushAcked ==
  /\ MorePushes
  /\ Takes(Batch)
  /\ Pushed
  /\ UNCHANGED <<doc, ver, refused, result>>

\* Another status than 200: recorded, and the next batch is pushed all the same.
PushRefused ==
  /\ MorePushes
  /\ refused' = TRUE
  /\ Pushed
  /\ UNCHANGED <<doc, ver, result, held, offers>>

\* No answer: Discovery may have taken the batch, and Send gives up.
PushFails ==
  /\ MorePushes
  /\ result' = "error"
  /\ Takes(Batch) \/ UNCHANGED <<held, offers>>
  /\ UNCHANGED <<doc, ver, from, lead, refused>>

\* Fault: accepted as soon as the last batch was pushed.
RollupIgnoresRefusals ==
  /\ result = "sending" /\ ~MorePushes
  /\ result' = "accepted"
  /\ UNCHANGED <<doc, ver, from, lead, refused, held, offers>>

Rollup ==
  /\ result = "sending" /\ ~MorePushes
  /\ result' = IF refused THEN "rejected" ELSE "accepted"
  /\ UNCHANGED <<doc, ver, from, lead, refused, held, offers>>

SinkNext == Send \/ PushAcked \/ PushRefused \/ PushFails \/ Rollup

SinkSpec == SinkInit /\ [][SinkNext]_sinkVars

-----------------------------------------------------------------------------
\* An accepted Send leaves Discovery with exactly the catalog that was sent:
\* every resource and the offers, and nothing of earlier Sends, whatever those
\* left behind half-way.  This is what CrawlQueue's Push stands for.
AcceptedIsWhole ==
  result = "accepted" =>
    /\ \A i \in Ids : held[i] = IF i <= Len(doc.raw) THEN ver ELSE 0
    /\ offers = ver

\* How far a cut batch of several resources may overrun maxDocBytes, which
\* BatchCatalog says none exceeds: by less than the field that holds the
\* resources, the only part of the document that is not in the budget, and
\* what marshalling adds to its resources after they were counted.
OverrunBounded ==
  MorePushes /\ ~Unbatched(doc) /\ Batch.from < Batch.to
    => DocBytes(doc, Batch.from, Batch.to, Batch.offers)
         < MaxDocBytes + ResourcesField
             + (ResourceBytes(doc.sent, Batch.from, Batch.to)
                  - ResourceBytes(doc.raw, Batch.from, Batch.to))
=============================================================================
