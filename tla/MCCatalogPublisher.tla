------------------------- MODULE MCCatalogPublisher -------------------------
(* Three publishes over two catalogs, or two that may overlap.             *)
EXTENDS CatalogPublisher

CONSTANTS a, b, x, y, open, closed

CallSymmetry == Permutations(Calls)

Cat(i, c, m) == [id |-> i, content |-> c, meta |-> m]

Dir(i, mode, force, ok) ==
  [id |-> i, updateMode |-> mode, forceBaseline |-> force,
   resourcesKnown |-> ok, schemaTypesValid |-> TRUE]
Req(cs, ds, rs, ok) == [post |-> TRUE, catalogs |-> cs, directives |-> ds, retire |-> rs,
                        conforms |-> ok]

(* One change file at most.                                                *)
OneChange(refs) == \E f \in refs : f.kind = "change"

Bodies ==
  { Req(<<Cat(a, x, open)>>, <<>>, <<>>, TRUE),
    Req(<<Cat(a, y, open), Cat(b, Invalid, open)>>, <<>>, <<>>, TRUE),
    Req(<<Cat(a, x, open)>>, <<Dir(a, "MERGE", TRUE, TRUE)>>, <<>>, TRUE),
    Req(<<Cat(b, y, open)>>, <<>>, <<a, b>>, TRUE),
    Req(<<>>, <<>>, <<>>, TRUE),
    Req(<<Cat(a, x, open), Cat(a, y, open)>>, <<>>, <<>>, TRUE),
    Req(<<Cat(a, x, open)>>, <<Dir(b, "FULL", FALSE, FALSE)>>, <<>>, TRUE),
    Req(<<Cat(NoId, x, open)>>, <<>>, <<a, a>>, TRUE),
    Req(<<Cat(a, x, closed)>>, <<>>, <<>>, TRUE),
    Req(<<Cat(a, x, open)>>, <<>>, <<>>, FALSE),
    [Req(<<Cat(a, x, open)>>, <<>>, <<>>, TRUE) EXCEPT !.post = FALSE] }
=============================================================================
