--------------------------- MODULE MCActionQueue ---------------------------
(* Two signals of one sender about one resource.                           *)
EXTENDS ActionQueue
MCSender   == [s \in Signal |-> "ann"]
MCResource == [s \in Signal |-> "lead"]
=============================================================================
