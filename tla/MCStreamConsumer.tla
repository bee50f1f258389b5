-------------------------- MODULE MCStreamConsumer --------------------------
(***************************************************************************)
(* StreamConsumer with few events per stream.                              *)
(***************************************************************************)
EXTENDS StreamConsumer

CONSTANTS TokenEvents, MangroveEvents, StratsEvents, KandelEvents

MCMaxLength == [s \in Streams |->
  CASE s = "token"    -> TokenEvents
    [] s = "mangrove" -> MangroveEvents
    [] s = "strats"   -> StratsEvents
    [] s = "kandel"   -> KandelEvents]

=============================================================================
