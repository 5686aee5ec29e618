--------------------------- MODULE MCOrchestrator ---------------------------
(* An instance of Orchestrator: two values per part, one stream client.     *)
EXTENDS Orchestrator
MCNeutral == [b |-> "up", s |-> "centre"]
=============================================================================
