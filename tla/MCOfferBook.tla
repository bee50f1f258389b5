---------------------------- MODULE MCOfferBook ----------------------------
(***************************************************************************)
(* OfferBook on a small instance: the two offers of the bid list have a    *)
(* plain maker and a kandel with a reserve of its own, one order is the    *)
(* order of a MangroveOrder, another one takes what it left resting.       *)
(***************************************************************************)
EXTENDS OfferBook

CONSTANTS rest, other, placing, taking, mo, user, kandel, vault, base, quote

MCListOf    == [f \in {rest, other} |-> "bids"]
MCInbound   == [l \in {"bids"} |-> base]
MCOutbound  == [l \in {"bids"} |-> quote]
MCMakerOf   == [f \in {rest, other} |-> IF f = rest THEN user ELSE kandel]
MCTakerOf   == [o \in {placing, taking} |-> user]
MCReserveOf == [a \in {user, kandel, vault} |-> IF a = kandel THEN vault ELSE a]
MCOrderOf   == [m \in {mo} |-> placing]
MCRestingOf == [m \in {mo} |-> rest]

=============================================================================
