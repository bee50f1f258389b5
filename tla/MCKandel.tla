------------------------------ MODULE MCKandel ------------------------------
(***************************************************************************)
(* Kandel on a small instance: two kandels of one owner that share a       *)
(* reserve, with an offer each.                                            *)
(***************************************************************************)
EXTENDS Kandel

CONSTANTS k1, k2, vault, o1, o2

MCReserveOf == [k \in {k1, k2} |-> vault]
MCKandelOf  == [o \in {o1, o2} |-> IF o = o1 THEN k1 ELSE k2]

=============================================================================
