------------------------------ MODULE MCClaims ------------------------------
(***************************************************************************)
(* Claims on the smallest CIDR the allocator accepts, a /27: all but a few *)
(* of its addresses belong to peers there already are, so that the races   *)
(* for the last ones, and the exhaustion of the pool, are within reach.    *)
(***************************************************************************)
EXTENDS Claims

CONSTANT LeftFree       \* addresses left free at the start

MCTaken == {a \in Usable : Cardinality({b \in Usable : b >= a}) > LeftFree}

=============================================================================
