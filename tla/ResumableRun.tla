---------------------------- MODULE ResumableRun ----------------------------
(***************************************************************************)
(* What nxwm-mira promises of a training run that is killed and submitted  *)
(* again, without files, collectives or retention: a run that dies loses   *)
(* what it trained since its last save and nothing else, repeats no step   *)
(* it has kept, and is over only when all its steps are trained.           *)
(***************************************************************************)
EXTENDS Naturals

CONSTANTS
  TotalSteps,  \* the steps of the run
  Starts       \* where a command may begin

VARIABLES
  trained,     \* the steps in the processes' memory
  durable,     \* the steps a new launch would begin with
  over

vars == <<trained, durable, over>>

Init ==
  /\ durable \in Starts
  /\ trained = durable
  /\ over = FALSE

Train ==
  /\ ~over /\ trained < TotalSteps
  /\ trained' = trained + 1
  /\ UNCHANGED <<durable, over>>

\* A save takes effect at once, and is of all that was trained.
Save ==
  /\ ~over /\ durable < trained
  /\ durable' = trained
  /\ UNCHANGED <<trained, over>>

\* The processes are killed; another launch begins with what is durable.
Die ==
  /\ ~over
  /\ trained' = durable
  /\ UNCHANGED <<durable, over>>

Finish ==
  /\ ~over /\ trained >= TotalSteps
  /\ over' = TRUE
  /\ UNCHANGED <<trained, durable>>

Next == Train \/ Save \/ Die \/ Finish

Spec == Init /\ [][Next]_vars
=============================================================================
