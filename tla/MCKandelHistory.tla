-------------------------- MODULE MCKandelHistory --------------------------
(***************************************************************************)
(* KandelHistory with orders before and after a populate and a retract.    *)
(* One order is like another.                                              *)
(***************************************************************************)
EXTENDS KandelHistory, TLC

CONSTANTS o1, o2, o3, p, r, c, x

MCTxs == {o1, o2, o3, p, r, c, x}

MCKind == [tx \in MCTxs |->
  CASE tx \in {o1, o2, o3} -> "order"
    [] tx = p -> "populate" [] tx = r -> "retract" [] tx = c -> "credit" [] tx = x -> "other"]

MCOffers == {"ask", "bid"}

MCGives == [tx \in MCTxs |->
  CASE tx = p -> ("ask" :> 3) @@ ("bid" :> 2)
    [] tx = r -> ("ask" :> 0)
    [] OTHER  -> [o \in {} |-> 0]]

MCOrders == Permutations({o1, o2, o3})

=============================================================================
