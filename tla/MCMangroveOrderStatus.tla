----------------------- MODULE MCMangroveOrderStatus -----------------------
(***************************************************************************)
(* MangroveOrderStatus on an order of four that gets one or three at once. *)
(***************************************************************************)
EXTENDS MangroveOrderStatus
=============================================================================
