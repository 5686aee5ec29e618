------------------------------- MODULE Training -------------------------------
(***************************************************************************)
(* One command of the learning tools. nxrl and nxwm launch a Trainers job; a rank of a  *)
(* PPO job spends its updates in the rollouts of Rewards, and every rank   *)
(* in the predictions of Imagination, both looked at here on their own;    *)
(* nxwm-mira runs the loop of Checkpoints and, in it and when it plays,    *)
(* the network of Streaming. Every job is one operating-system process     *)
(* tree that may be killed and submitted again.                            *)
(***************************************************************************)
EXTENDS Rewards, Trainers, Checkpoints, Imagination, Streaming

CONSTANT Programs   \* which of the components named below are run

ASSUME TrainingAssumption ==
  Programs \subseteq {"rollouts", "trainers", "checkpoints", "imagination", "streaming"}

VARIABLE program    \* the command: it decides which component moves

trainingVars ==
  <<program, rewardVars, trainerVars, checkpointVars, imaginationVars, streamingVars>>

\* The component that does not run has an arbitrary fixed configuration.
Some(S) == CHOOSE x \in S : TRUE

Init ==
  /\ program \in Programs
  /\ RewardsInit /\ TrainersInit /\ CheckpointsInit
  /\ ImaginationInit /\ StreamingInit
  /\ program # "rollouts" => mix = Some(Mixes)
  /\ program # "trainers" => kind = Some(Kinds) /\ ~noVal
  /\ program # "checkpoints" => mode = Some(Modes)
  /\ program # "imagination" => caller = Some(Callers) /\ arch = "dit_v1"
  /\ program # "streaming" => session = Some(Configured) /\ weights = Some(Weights)

\* launch() and the subcommands: the algorithm chooses what runs.
Rolls ==
  /\ program = "rollouts" /\ RewardsNext
  /\ UNCHANGED <<program, trainerVars, checkpointVars, imaginationVars, streamingVars>>
Trains ==
  /\ program = "trainers" /\ TrainersProceed
  /\ UNCHANGED <<program, rewardVars, checkpointVars, imaginationVars, streamingVars>>
Iterates ==
  /\ program = "checkpoints" /\ Proceeds
  /\ UNCHANGED <<program, rewardVars, trainerVars, imaginationVars,
                streamingVars>>
Imagines ==
  /\ program = "imagination" /\ ImaginationNext
  /\ UNCHANGED <<program, rewardVars, trainerVars, checkpointVars, streamingVars>>
Streams ==
  /\ program = "streaming" /\ StreamingNext
  /\ UNCHANGED <<program, rewardVars, trainerVars, checkpointVars, imaginationVars>>
Crashes ==
  /\ UNCHANGED <<program, rewardVars, imaginationVars, streamingVars>>
  /\ \/ program = "trainers" /\ Killed /\ UNCHANGED checkpointVars
     \/ program = "checkpoints" /\ Dies /\ UNCHANGED trainerVars

Runs == Trains \/ Iterates \/ Imagines \/ Streams
Next == Rolls \/ Runs \/ Crashes

Spec == Init /\ [][Next]_trainingVars

\* A job that is alive computes on, and a dead one is submitted again. (A
\* rollout, seen on its own, is a loop over a fixed number of frames.)
FairSpec == Spec /\ WF_trainingVars(Runs)

TypeOK ==
  program \in Programs /\ RewardsTypeOK /\ TrainersTypeOK /\ CheckpointsTypeOK
  /\ ImaginationTypeOK /\ StreamingTypeOK

Over ==
  CASE program = "rollouts" -> TRUE
    [] program = "trainers" -> TrainersDone \/ at[Main] = "failed"
    [] program = "checkpoints" -> CheckpointsDone \/ (mode # "auto" /\ pc = "failed")
    [] program = "imagination" -> ImaginationDone
    [] program = "streaming" -> StreamingDone

\* Every job ends, however its ranks wait for each other and wherever it is
\* killed and submitted again: the ranks of a trainer all get through or the
\* launch is refused (a torn latest.pt raises when it is loaded), and an
\* nxwm-mira run that resumes by itself reaches its last step
\* (checkpoint_manager.py: "transparent crash recovery").
TrainingFinishes == <>Over
=============================================================================
