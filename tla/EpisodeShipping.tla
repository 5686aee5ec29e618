-------------------------- MODULE EpisodeShipping --------------------------
(***************************************************************************)
(* What nxml-spool promises, without shards, journals or crashes: the      *)
(* capture disk is a sliding buffer in front of a remote dataset, and an   *)
(* episode leaves the disk only after it has become durable.               *)
(***************************************************************************)
CONSTANT Episodes

VARIABLES
  local,    \* episodes whose three files are all on the capture disk
  dataset   \* episodes held by shards the journal has recorded

vars == <<local, dataset>>

TypeOK ==
  /\ local \subseteq Episodes
  /\ dataset \subseteq Episodes

Init ==
  /\ local = {}
  /\ dataset = {}

\* A writer finishes an episode that was never seen before.
Capture(e) ==
  /\ e \notin local \cup dataset
  /\ local' = local \cup {e}
  /\ UNCHANGED dataset

\* A whole shard of local episodes becomes durable at once.
Ship(S) ==
  /\ S # {}
  /\ S \subseteq local \ dataset
  /\ dataset' = dataset \cup S
  /\ UNCHANGED local

\* Only a durable episode may be dropped from the disk.
Discard(e) ==
  /\ e \in local \cap dataset
  /\ local' = local \ {e}
  /\ UNCHANGED dataset

Next ==
  \/ \E e \in Episodes : Capture(e) \/ Discard(e)
  \/ \E S \in SUBSET Episodes : Ship(S)

Spec == Init /\ [][Next]_vars
=============================================================================
