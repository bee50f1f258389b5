------------------------- MODULE MCMangroveEntities -------------------------
(***************************************************************************)
(* MangroveEntities on a small instance: one entity of each kind, so that  *)
(* every order of do and undo over the four tables occurs.                 *)
(***************************************************************************)
EXTENDS MangroveEntities

CONSTANTS m, list, t1, t2

MCChange == {-1, 2}
MCTokensOf == [l \in {list} |-> {t1, t2}]
MCMangroveOf == [x \in {list} \cup MakerBalances \cup TakerApprovals |-> m]
MCListOf == [a \in TakerApprovals |-> list]

=============================================================================
