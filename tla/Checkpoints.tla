------------------------------ MODULE Checkpoints ------------------------------
(***************************************************************************)
(* nxwm-mira training: the loop of the codec and world-model trainers with *)
(* its CheckpointManager and the averages it keeps of the weights. The     *)
(* main process and the others (one stands for them) meet in collectives;  *)
(* all die together and are submitted again with the same command line.    *)
(* Steps of the file system are separate actions: a process dies between   *)
(* any two of them, in the middle of an rmtree too.                        *)
(*                                                                         *)
(* A directory is the set of its files, with "." while it exists. Of the   *)
(* weights it is kept how many optimiser steps are in them and whether     *)
(* they are the average; of optimiser, schedule and average, their steps.  *)
(* The order of the data, which starts anew with each launch, is left out. *)
(***************************************************************************)
EXTENDS Naturals, Sequences, FiniteSets

CONSTANTS
  TotalSteps,    \* run.steps
  SaveEvery,     \* run.checkpoint_every
  KeepRecent,    \* run.checkpoint_keep_recent
  PermanentEvery,\* run.checkpoint_keep_permanent_every, 0 for -1
  Modes,         \* the ways the command line may ask to start
  SourceStep,    \* the step of the checkpoint the command names, of another run
  LogEvery,      \* run.log_every
  VizEvery,      \* run.viz_every
  ValEvery,      \* validation.val_every
  ValFirst,      \* validation.val_first
  EarlySteps,    \* steps that are logged each, 10 in the code
  MaxDeaths      \* bound: times the process is killed

ASSUME CheckpointsAssumption ==
  /\ TotalSteps \in Nat \ {0} /\ SaveEvery \in Nat \ {0}
  /\ KeepRecent \in Nat /\ PermanentEvery \in Nat /\ SourceStep \in Nat
  /\ LogEvery \in Nat \ {0} /\ VizEvery \in Nat \ {0} /\ ValEvery \in Nat \ {0}
  /\ ValFirst \in BOOLEAN /\ EarlySteps \in Nat
  /\ Modes \subseteq {"auto", "finetune", "continue"} /\ MaxDeaths \in Nat

Steps == 0 .. TotalSteps - 1
Entries == {".", "checkpoint.pth", "training_state.pth"}
NoStep == TotalSteps

\* The W&B runs: none, the one of the checkpoint named, those opened here.
NoRun == 0
SourceRun == 1
OwnRuns == 2

\* What the components hold after n steps of training: the weights, the
\* optimiser with its schedule, and the count of the average.
After(n) == [averaged |-> FALSE, steps |-> n, schedule |-> n, average |-> n]
Nothing == After(0)
File(name, contents) == [name |-> name, holds |-> contents]
Here == File(".", Nothing)

VARIABLES
  mode,     \* the command line
  kept,     \* checkpoint-{step}/, per step
  temp,     \* .checkpoint-{step}.tmp/, per step
  sidecar,  \* wandb_run_id.txt
  report,   \* the W&B run this launch logs to
  pc,       \* where the main process stands
  iter,     \* iter_num
  peer,     \* the collective the other processes wait at, and their iter_num
  model,    \* the parameters the model holds, and the state of the others
  final,    \* the save under way is the one after the loop
  recent,   \* recent_checkpoints: their steps, in the order of the list
  doomed,   \* the directories shutil.rmtree has still to remove, in order
  saved,    \* history: the step of the save just completed, else NoStep
  deaths

checkpointVars ==
  <<mode, kept, temp, sidecar, report, pc, iter, peer, model, final, recent,
    doomed, saved, deaths>>
disk == <<kept, temp, sidecar>>
launch == <<mode, report, deaths>>

FileNames(d) == {f.name : f \in d}
Present(s) == kept[s] # {}
Whole(s) == FileNames(kept[s]) = Entries
Found == {s \in Steps : Present(s)}
Newest == CHOOSE s \in Found : \A t \in Found : t <= s
StateOf(s) == (CHOOSE f \in kept[s] : f.name = "training_state.pth").holds

\* periodic_event
Periodic(s, every, atZero) == IF s = 0 THEN atZero ELSE s % every = 0
Permanent(s) == PermanentEvery # 0 /\ Periodic(s, PermanentEvery, TRUE)

\* The members of a set in ascending order: the one such list.
InOrder(S) ==
  {q \in [1 .. Cardinality(S) -> S] : \A i, j \in DOMAIN q : i < j => q[i] < q[j]}

DropAt(q, i) == [j \in 1 .. Len(q) - 1 |-> IF j < i THEN q[j] ELSE q[j + 1]]

\* The indices in a list of checkpoints of those that may be deleted.
Temporary(q) == {i \in DOMAIN q : ~Permanent(q[i])}

\* What an iteration of the loop stops for, in order; the others take no part
\* in the visualisation and in the save, but in the barrier behind it.
Stops == <<"train", "log", "viz", "validate", "save", "barrier", "meet">>
PeerStops == <<"train", "log", "validate", "barrier", "meet">>

Due(stop, i) ==
  CASE stop = "log" -> Periodic(i, LogEvery, TRUE) \/ i < EarlySteps
    [] stop = "viz" -> Periodic(i, VizEvery, TRUE)
    [] stop = "validate" -> Periodic(i, ValEvery, ValFirst)
    [] stop \in {"save", "barrier"} -> Periodic(i, SaveEvery, FALSE)
    [] OTHER -> TRUE

\* The stop behind another one in iteration i.
StopAfter(order, stop, i) ==
  LET k == CHOOSE k \in DOMAIN order : order[k] = stop
      later == {j \in DOMAIN order : j > k /\ Due(order[j], i)}
  IN order[CHOOSE j \in later : \A l \in later : j <= l]

CheckpointsInit ==
  /\ mode \in Modes
  /\ kept = [s \in Steps |-> {}] /\ temp = [s \in Steps |-> {}]
  /\ sidecar = NoRun /\ report = NoRun
  /\ pc = "down" /\ iter = 0 /\ peer = [at |-> "down", iter |-> 0]
  /\ model = Nothing /\ final = FALSE /\ recent = <<>> /\ doomed = <<>>
  /\ saved = NoStep /\ deaths = 0

\* resume_wandb_run_id: the run a launch reports to, else a new one.
ReportTo == IF mode = "continue" THEN SourceRun
            ELSE IF sidecar # NoRun THEN sidecar ELSE OwnRuns + deaths

\* continue_from: every registered component as the checkpoint has it.
ContinueFrom(state) == state

\* finetune_from: the weights alone, which are the average saved.
FinetuneFrom(step) == [After(0) EXCEPT !.steps = step + 1]

\* The next iteration from step s on, or the end of the loop.
Enter(s) == IF s < TotalSteps THEN "train" ELSE "done"

\* _discover_existing_checkpoints, then _resume: from the checkpoint named,
\* from step 0 with a checkpoint's weights, from the newest one here, or
\* anew. A newest directory without its training state ends the process.
Start ==
  /\ pc = "down"
  /\ recent' \in InOrder(Found) /\ saved' = NoStep
  /\ report' = ReportTo /\ sidecar' = ReportTo
  /\ LET resumes == mode = "auto" /\ Found # {}
         broken == resumes /\ "training_state.pth" \notin FileNames(kept[Newest])
         from == IF mode = "continue" THEN SourceStep + 1
                 ELSE IF resumes THEN Newest + 1 ELSE 0
     IN /\ iter' = from
        /\ model' =
             IF mode = "continue"
             THEN ContinueFrom(After(from))
             ELSE IF mode = "finetune" THEN FinetuneFrom(SourceStep)
             ELSE IF resumes /\ ~broken THEN ContinueFrom(StateOf(Newest)) ELSE Nothing
        /\ pc' = IF broken THEN "failed" ELSE Enter(from)
        /\ peer' = [at |-> pc', iter |-> from]
  /\ UNCHANGED <<mode, kept, temp, final, doomed, deaths>>

\* The processes are in the same collective: they leave it together.
Leaves(stop) ==
  /\ pc = stop /\ peer.at = stop
  /\ pc' = StopAfter(Stops, stop, iter)
  /\ peer' = [peer EXCEPT !.at = StopAfter(PeerStops, stop, peer.iter)]

\* ModelEMA.step takes the parameters in.
AverageStep(m) == [m EXCEPT !.average = @ + 1]

\* Forward, backward, the optimiser's and the schedule's step, the average's.
Train ==
  /\ Leaves("train")
  /\ model' = AverageStep([model EXCEPT !.steps = @ + 1, !.schedule = @ + 1])
  /\ saved' = NoStep
  /\ UNCHANGED <<launch, disk, iter, final, recent, doomed>>

\* get_stats and compute reduce over all processes.
Log ==
  /\ Leaves("log")
  /\ UNCHANGED <<launch, disk, iter, model, final, recent, doomed, saved>>

\* average_parameters is entered: the model holds the average ...
SwapIn ==
  /\ pc \in {"viz", "validate", "model"} /\ ~model.averaged
  /\ model' = [model EXCEPT !.averaged = TRUE]
  /\ UNCHANGED <<launch, disk, pc, iter, peer, final, recent, doomed, saved>>

\* ... and at its end what it held before.
SwapOut ==
  model.averaged /\ model' = [model EXCEPT !.averaged = FALSE]

\* The main process alone writes the reconstructions or the rollout.
Visualize ==
  /\ pc = "viz" /\ SwapOut
  /\ pc' = StopAfter(Stops, "viz", iter)
  /\ UNCHANGED <<launch, disk, iter, peer, final, recent, doomed, saved>>

\* run_validation, metrics reduced over all processes.
RunValidation ==
  /\ Leaves("validate") /\ SwapOut
  /\ UNCHANGED <<launch, disk, iter, final, recent, doomed, saved>>

\* The barrier behind a save.
Barrier ==
  /\ Leaves("barrier")
  /\ UNCHANGED <<launch, disk, iter, model, final, recent, doomed, saved>>

\* The barrier at the end of an iteration. Behind the last one the main
\* process saves once more.
Meet ==
  /\ pc = "meet" /\ peer.at = "meet"
  /\ iter' = IF iter = TotalSteps - 1 THEN iter ELSE iter + 1
  /\ final' = (iter = TotalSteps - 1) /\ pc' = IF final' THEN "save" ELSE "train"
  /\ peer' = [at |-> Enter(peer.iter + 1), iter |-> peer.iter + 1]
  /\ UNCHANGED <<launch, disk, model, recent, doomed, saved>>

\* Fault: a temporary directory left by a crash is not removed first.
OpenTempAssumesNone ==
  /\ pc = "save" /\ saved' = NoStep
  /\ temp' = [temp EXCEPT ![iter] = {Here}]
  /\ pc' = IF temp[iter] # {} THEN "failed" ELSE "model"
  /\ UNCHANGED <<launch, kept, sidecar, iter, peer, model, final, recent, doomed>>

\* The directory a crash left at this step goes, a new one is made.
OpenTemp ==
  /\ pc = "save" /\ saved' = NoStep
  /\ temp' = [temp EXCEPT ![iter] = {Here}] /\ pc' = "model"
  /\ UNCHANGED <<launch, kept, sidecar, iter, peer, model, final, recent, doomed>>

\* Fault: the training state is written before the weights are swapped back.
WriteModelOnly ==
  /\ pc = "model" /\ model.averaged /\ pc' = "state"
  /\ temp' = [temp EXCEPT ![iter] = @ \cup {File("checkpoint.pth", model)}]
  /\ UNCHANGED <<launch, kept, sidecar, iter, peer, model, final, recent, doomed, saved>>

\* checkpoint.pth holds the average ...
WriteModel ==
  /\ pc = "model" /\ SwapOut /\ pc' = "state"
  /\ temp' = [temp EXCEPT ![iter] = @ \cup {File("checkpoint.pth", model)}]
  /\ UNCHANGED <<launch, kept, sidecar, iter, peer, final, recent, doomed, saved>>

\* Fault: written into the checkpoint's own directory.
WriteStateInPlace ==
  /\ pc = "state" /\ pc' = "replace"
  /\ temp' = [temp EXCEPT ![iter] = @ \cup {File("training_state.pth", model)}]
  /\ kept' = [kept EXCEPT ![iter] = temp[iter]]
  /\ UNCHANGED <<launch, sidecar, iter, peer, model, final, recent, doomed, saved>>

\* ... and training_state.pth what the components hold.
WriteState ==
  /\ pc = "state" /\ pc' = "replace"
  /\ temp' = [temp EXCEPT ![iter] = @ \cup {File("training_state.pth", model)}]
  /\ UNCHANGED <<launch, kept, sidecar, iter, peer, model, final, recent, doomed, saved>>

\* rmtree of directory s, an entry at a time and the directory last.
RemoveEntry(s) ==
  \E f \in kept[s] :
    /\ f = Here => kept[s] = {Here}
    /\ kept' = [kept EXCEPT ![s] = @ \ {f}]

\* A directory of this step is in the way.
RemoveOld ==
  /\ pc = "replace" /\ RemoveEntry(iter)
  /\ UNCHANGED <<launch, temp, sidecar, pc, iter, peer, model, final, recent, doomed, saved>>

\* Fault: the list is taken to begin with its newest entry.
RetainOldest(q) ==
  LET temps == Temporary(q)
      last == CHOOSE i \in temps : \A j \in temps : j <= i
  IN IF Cardinality(temps) > KeepRecent
     THEN {[remove |-> <<q[last]>>, keep |-> DropAt(q, last)]}
     ELSE {[remove |-> <<>>, keep |-> q]}

\* The retention policy on a list of checkpoints: what it removes, and the
\* list after it. One entry goes when the temporary ones are too many.
Retain(q) ==
  LET temps == Temporary(q)
      first == CHOOSE i \in temps : \A j \in temps : i <= j
  IN IF Cardinality(temps) > KeepRecent
     THEN {[remove |-> <<q[first]>>, keep |-> DropAt(q, first)]}
     ELSE {[remove |-> <<>>, keep |-> q]}

\* At the end every temporary checkpoint goes but the final one.
RetainFinal(q) ==
  {[remove |-> [k \in DOMAIN others |-> q[others[k]]], keep |-> q] :
     others \in InOrder({i \in Temporary(q) : q[i] # iter})}

Replace ==
  /\ pc = "replace" /\ ~Present(iter) /\ pc' = "remove"
  /\ kept' = [kept EXCEPT ![iter] = temp[iter]]
  /\ temp' = [temp EXCEPT ![iter] = {}]
  /\ LET q == Append(recent, iter)
     IN \E r \in IF final THEN RetainFinal(q) ELSE Retain(q) :
          doomed' = r.remove /\ recent' = r.keep
  /\ UNCHANGED <<launch, sidecar, iter, peer, model, final, saved>>

RemoveSurplus ==
  /\ pc = "remove" /\ doomed # <<>> /\ RemoveEntry(Head(doomed))
  /\ doomed' = IF kept'[Head(doomed)] # {} THEN doomed ELSE Tail(doomed)
  /\ UNCHANGED <<launch, temp, sidecar, pc, iter, peer, model, final, recent, saved>>

\* rmtree of a directory that is not there raises and ends the process.
RemoveFails ==
  /\ pc = "remove" /\ doomed # <<>> /\ ~Present(Head(doomed))
  /\ pc' = "failed"
  /\ UNCHANGED <<launch, disk, iter, peer, model, final, recent, doomed, saved>>

\* maybe_save_checkpoint returns: to the barrier, or out of the loop's end.
Saved ==
  /\ pc = "remove" /\ doomed = <<>> /\ saved' = iter
  /\ pc' = IF final THEN "done" ELSE "barrier"
  /\ UNCHANGED <<launch, disk, iter, peer, model, final, recent, doomed>>

\* The processes are killed: what they held in memory is gone.
Dies ==
  /\ pc \notin {"down", "done", "failed"} /\ deaths < MaxDeaths
  /\ deaths' = deaths + 1
  /\ pc' = "down" /\ iter' = 0 /\ peer' = [at |-> "down", iter |-> 0]
  /\ model' = Nothing /\ report' = NoRun /\ final' = FALSE
  /\ recent' = <<>> /\ doomed' = <<>> /\ saved' = NoStep
  /\ UNCHANGED <<mode, disk>>

Proceeds ==
  \/ Start \/ Train \/ Log \/ SwapIn \/ Visualize \/ RunValidation \/ Barrier \/ Meet
  \/ OpenTemp \/ WriteModel \/ WriteState
  \/ RemoveOld \/ Replace \/ RemoveSurplus \/ RemoveFails \/ Saved
CheckpointsNext == Proceeds \/ Dies
CheckpointsDone == pc = "done"

Models == [averaged : BOOLEAN, steps : Nat, schedule : Nat, average : Nat]
Files == [name : Entries, holds : Models]

CheckpointsTypeOK ==
  /\ mode \in Modes
  /\ kept \in [Steps -> SUBSET Files] /\ temp \in [Steps -> SUBSET Files]
  /\ sidecar \in Nat /\ report \in Nat
  /\ pc \in {"down", "train", "log", "viz", "validate", "save", "model", "state",
             "replace", "remove", "barrier", "meet", "done", "failed"}
  /\ peer \in [at : {"down", "train", "log", "validate", "barrier", "meet", "done", "failed"},
               iter : Nat]
  /\ iter \in Nat /\ final \in BOOLEAN /\ model \in Models
  /\ recent \in Seq(Steps) /\ doomed \in Seq(Steps)
  /\ saved \in Steps \cup {NoStep} /\ deaths \in 0 .. MaxDeaths

\* Auto-resume never picks up a partial checkpoint: at any moment the process
\* may die, the newest checkpoint-{step} directory holds the model and the
\* training state (checkpoint_manager.py: "a crash mid-save never leaves a
\* partial `checkpoint-{step}/` for auto-resume to pick up as the latest
\* checkpoint"), retention deletes around it, and progress once saved is not
\* lost: the newest step never falls behind the last save.
LatestIsWhole ==
  mode = "auto" =>
    /\ Found # {} => Whole(Newest)
    /\ saved # NoStep => Found # {} /\ Newest = saved

\* Wherever it was killed and resumed, a run trains on with the weights, the
\* optimiser, the schedule and the average it would have had uninterrupted,
\* never with the averaged weights that visualisation, validation and the save
\* swap in (checkpoint_manager.py: "The model is saved with EMA weights
\* swapped in (for downstream eval), while ``training_state.pth`` holds the
\* raw per-component state needed to resume training exactly"), its processes
\* are in the same iteration, and it reports to the W&B run of its first
\* launch.
ResumesExactly ==
  /\ pc = "train" =>
       /\ model = [After(iter) EXCEPT
                    !.steps = @ + IF mode = "finetune" THEN SourceStep + 1 ELSE 0]
       /\ peer = [at |-> "train", iter |-> iter]
       /\ report = IF mode = "continue" THEN SourceRun ELSE OwnRuns
  /\ \A s \in Found, f \in UNION {kept[t] : t \in Found} :
       f \in kept[s] /\ f # Here =>
         /\ f.holds.averaged = (f.name = "checkpoint.pth")
         /\ f.holds.schedule = s + 1 /\ f.holds.average = s + 1

\* The steps a launch of this command would begin with, and those the
\* processes have trained; what is down has trained what it will begin with.
Durable == IF mode = "continue" THEN SourceStep + 1
           ELSE IF mode = "auto" /\ Found # {} THEN Newest + 1 ELSE 0
Trained == IF pc = "down" THEN Durable ELSE model.schedule

\* With all its files, collectives, retention and deaths a run is a
\* ResumableRun: dying costs it what it trained since its last save, and a
\* save counts from the rename on, wherever the processes die around it
\* (checkpoint_manager.py: "transparent crash recovery"). A finetune or a
\* continue command begins anew with each launch: it has nothing to lose.
Resumable == INSTANCE ResumableRun
             WITH Starts <- {0, SourceStep + 1}, trained <- Trained,
                  durable <- Durable, over <- CheckpointsDone
ResumableSpec == Resumable!Spec
=============================================================================
