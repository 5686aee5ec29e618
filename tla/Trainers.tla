------------------------------- MODULE Trainers -------------------------------
(***************************************************************************)
(* Training under the two launchers that spawn one process per GPU: nxrl   *)
(* (PPO and behaviour cloning) and nxwm (world models). A turn is a PPO    *)
(* update or an epoch. The ranks meet in the collectives of a turn; the    *)
(* main node alone judges it and writes the checkpoint files, in place     *)
(* (torch.save), while the others run ahead to the next collective. When   *)
(* one process dies mp.spawn ends the rest, and somebody launches again.   *)
(*                                                                         *)
(* Of a turn only its scores are kept, higher is better: the mean reward,  *)
(* or the losses turned round. A rollout is the index of its seed.         *)
(***************************************************************************)
EXTENDS Integers, Sequences, FiniteSets

CONSTANTS
  Kinds,           \* which of "ppo", "bc", "world_model" are run
  World,           \* world_size
  Rollouts,        \* rollouts_per_update, over all ranks
  SeedCount,       \* len(seeds)
  Samples,         \* len(train_ds): the windows of the training files
  PerBatch,        \* batch_size_per_gpu
  Turns,           \* total_updates, or epochs, of one launch
  Smooth,          \* updates the reward is smoothed over, 5 in the code
  LatestEvery,       \* checkpoint_frequency
  SnapshotEvery,   \* snapshot_frequency, 0 for none
  Scores,          \* the scores a turn may get
  MaxKills         \* bound: times a process dies

ASSUME TrainersAssumption ==
  /\ World \in Nat \ {0} /\ Rollouts \in Nat \ {0} /\ SeedCount \in Nat \ {0}
  /\ Samples \in Nat \ {0} /\ PerBatch \in Nat \ {0}
  /\ Turns \in Nat \ {0} /\ Smooth \in 1 .. 6 /\ LatestEvery \in Nat \ {0}
  /\ SnapshotEvery \in Nat /\ MaxKills \in Nat
  /\ Scores \subseteq Nat /\ \E s \in Scores : \A t \in Scores : t <= s

Ranks == 0 .. World - 1
Names == {"latest.pt", "best.pt", "best_val.pt", "snapshot", "final.pt"}
NaN == -1                                       \* less than every score
Perfect == 1 + CHOOSE s \in Scores : \A t \in Scores : t <= s
Unseen == [train |-> NaN, val |-> NaN]
NoTurn == -1                                    \* no such file
Torn == -2                                      \* a file cut off by a crash

VARIABLES
  kind,    \* algorithm.name, or nxwm's launcher
  noVal,   \* the validation set is too short for a single sample
  at,      \* where each rank stands
  local,   \* the rollouts a rank has collected this update, or the samples
           \* it has trained on this epoch
  batch,   \* what it trains on: after the all-gather, everybody's
  first,   \* start_epoch; 0 for PPO
  scores,  \* what the main node has seen since the launch, per turn
  best,    \* its best_smoothed_reward or best_loss, and best_val_loss
  todo,    \* the files it has still to write this turn, in order
  files,   \* run_dir: the turn each file was saved at
  kills

setup == <<kind, noVal>>
trainerVars == <<setup, at, local, batch, first, scores, best, todo, files, kills>>

Main == 0
Done == Len(scores)
Up == at[Main] \notin {"down", "failed"}

\* Fault: every rank takes the first share.
RankSeedsFromFirst(r) ==
  LET n == Rollouts \div World IN [i \in 1 .. n |-> (i - 1) % SeedCount]

\* Rank-offset seeds: a contiguous share of the rollouts for each rank.
RankSeeds(r) ==
  LET n == Rollouts \div World IN [i \in 1 .. n |-> (r * n + i - 1) % SeedCount]

\* The shares of the ranks one after the other.
Gathered ==
  LET n == Rollouts \div World
  IN [i \in 1 .. n * World |-> local[(i - 1) \div n][((i - 1) % n) + 1]]

TrainersInit ==
  /\ kind \in Kinds /\ noVal \in (IF kind = "ppo" THEN {FALSE} ELSE BOOLEAN)
  /\ at = [r \in Ranks |-> "down"]
  /\ local = [r \in Ranks |-> <<>>] /\ batch = local
  /\ first = 0 /\ scores = <<>> /\ best = Unseen
  /\ todo = <<>> /\ files = [n \in Names |-> NoTurn] /\ kills = 0

\* The order of an epoch's samples: the sampler shuffles with the epoch for
\* a seed, alike on every rank.
Shuffled(epoch) == [i \in 1 .. Samples |-> (i - 1 + epoch) % Samples]

Shortest(a, b) == IF a < b THEN a ELSE b

\* DistributedSampler: every rank takes each World-th sample, and the last
\* round is filled up from the beginning.
RankSamples(r, epoch) ==
  [i \in 1 .. (Samples + World - 1) \div World |->
     Shuffled(epoch)[((World * (i - 1) + r) % Samples) + 1]]

\* run_dir, as a launch finds it: the one its config names, or a new one.
RunDirs == {files, [n \in Names |-> NoTurn]}

\* From the start, or from a latest.pt: PPO takes the weights alone, the others
\* go on behind the epoch saved. A torn file raises; so does a missing one
\* under PPO, where the others warn and train from scratch. A number of
\* rollouts the ranks cannot share is refused.
Launch ==
  /\ at[Main] = "down"
  /\ \E resume \in BOOLEAN :
       LET file == files["latest.pt"]
           refused == \/ kind = "ppo" /\ Rollouts % World # 0
                      \/ resume /\ file = Torn
                      \/ resume /\ kind = "ppo" /\ file = NoTurn
       IN /\ first' = IF resume /\ kind # "ppo" /\ file >= 0 THEN file + 1 ELSE 0
          /\ at' = [r \in Ranks |-> IF refused THEN "failed" ELSE "work"]
  /\ files' \in RunDirs
  /\ scores' = <<>> /\ best' = Unseen
  /\ UNCHANGED <<setup, local, batch, todo, kills>>

\* The rank's rollouts of this update, in order.
Collect(r) ==
  /\ kind = "ppo" /\ at[r] = "work"
  /\ local' = [local EXCEPT ![r] = RankSeeds(r)]
  /\ at' = [at EXCEPT ![r] = "gather"]
  /\ UNCHANGED <<setup, batch, first, scores, best, todo, files, kills>>

\* The epoch of a rank at work: one ahead of the main node's that has still
\* to judge.
Epoch == first + Done + (IF at[Main] = "judge" THEN 1 ELSE 0)

\* A rank's next batch of its share, up to the gradient exchange.
TakesBatch(r) ==
  LET share == RankSamples(r, Epoch)
      from == Len(local[r]) + 1
  IN /\ at[r] = "work"
     /\ local' = [local EXCEPT ![r] =
          @ \o SubSeq(share, from, Shortest(from + PerBatch - 1, Len(share)))]
     /\ at' = [at EXCEPT ![r] = "gather"]
     /\ UNCHANGED <<setup, batch, first, scores, best, todo, files, kills>>

\* One batch of train_epoch: of the policy's, of the world model's.
TrainEpoch(r) == kind = "bc" /\ TakesBatch(r)
TrainWorldEpoch(r) == kind = "world_model" /\ TakesBatch(r)

\* Whether a rank is through with the turn's collectives.
Through(r) == kind = "ppo" \/ Len(local[r]) = Len(RankSamples(r, 0))

\* A collective: nobody is through before everybody is there. PPO gathers the
\* buffers and then exchanges gradients over the same batches everywhere; an
\* epoch exchanges them after every batch.
Exchange ==
  /\ \A r \in Ranks : at[r] = "gather"
  /\ batch' = IF kind = "ppo" THEN [r \in Ranks |-> Gathered] ELSE batch
  /\ at' = [r \in Ranks |-> IF Through(r) THEN "judge" ELSE "work"]
  /\ UNCHANGED <<setup, local, first, scores, best, todo, files, kills>>

\* Whether the loop of the launcher is over after n turns.
NextTurn(n) == IF n < Turns THEN "work" ELSE "done"

\* A rank that is not the main node goes straight on, whether that one has
\* judged the turn yet or not.
RunAhead(r) ==
  /\ r # Main /\ at[r] = "judge"
  /\ at' = [at EXCEPT ![r] = NextTurn(IF at[Main] = "judge" THEN Done + 1 ELSE Done)]
  /\ local' = [local EXCEPT ![r] = <<>>]
  /\ UNCHANGED <<setup, batch, first, scores, best, todo, files, kills>>

Total(window) ==
  LET sum[i \in 0 .. Len(window)] == IF i = 0 THEN 0 ELSE sum[i - 1] + window[i].train
  IN sum[Len(window)]

\* The rolling mean behind turn n, in sixtieths: exact for windows of up to six.
Smoothed(s, n) ==
  LET window == SubSeq(s, IF n > Smooth THEN n - Smooth + 1 ELSE 1, n)
  IN (60 * Total(window)) \div Len(window)

\* update_step and the launcher's loop: best.pt on a new high of the smoothed
\* reward, then latest.pt, the snapshot, and final.pt behind the last update.
JudgeUpdate ==
  /\ kind = "ppo" /\ at[Main] = "judge"
  /\ \E s \in Scores :
       LET seen == Append(scores, [train |-> s, val |-> NaN])
           n == Len(seen)
           high == Smoothed(seen, n)
       IN /\ scores' = seen
          /\ best' = IF high > best.train THEN [best EXCEPT !.train = high] ELSE best
          /\ todo' = (IF high > best.train THEN <<"best.pt">> ELSE <<>>)
                     \o (IF n % LatestEvery = 0 THEN <<"latest.pt">> ELSE <<>>)
                     \o (IF SnapshotEvery > 0 /\ n % SnapshotEvery = 0
                         THEN <<"snapshot">> ELSE <<>>)
                     \o (IF n = Turns THEN <<"final.pt">> ELSE <<>>)
  /\ at' = [at EXCEPT ![Main] = "write"]
  /\ UNCHANGED <<setup, local, batch, first, files, kills>>

\* What validation yields over the main node's share: over no batches at all,
\* behaviour cloning gets no number and the world model a loss of zero.
Validated == IF noVal THEN {NaN} ELSE Scores
ValidatedWorld == IF noVal THEN {Perfect} ELSE Scores

\* A turn of training score s and validation score v goes on the record, and
\* the named files are to be written.
Judge(s, v, names) ==
  /\ at[Main] = "judge"
  /\ scores' = Append(scores, [train |-> s, val |-> v])
  /\ best' = [train |-> IF s > best.train THEN s ELSE best.train,
              val |-> IF v > best.val THEN v ELSE best.val]
  /\ todo' = names
  /\ at' = [at EXCEPT ![Main] = "write"]
  /\ UNCHANGED <<setup, local, batch, first, files, kills>>

NewHigh(is, name) == IF is THEN <<name>> ELSE <<>>

\* val_epoch, then save_checkpoint: best_val.pt, latest.pt, best.pt.
JudgeEpoch ==
  /\ kind = "bc"
  /\ \E s \in Scores, v \in Validated :
       Judge(s, v, NewHigh(v > best.val, "best_val.pt") \o <<"latest.pt">>
                   \o NewHigh(s > best.train, "best.pt"))

\* The same of a world model, with the rollout GIF, whose errors are caught,
\* behind validation.
JudgeWorldEpoch ==
  /\ kind = "world_model"
  /\ \E s \in Scores, v \in ValidatedWorld :
       Judge(s, v, NewHigh(v > best.val, "best_val.pt") \o <<"latest.pt">>
                   \o NewHigh(s > best.train, "best.pt"))

\* torch.save truncates the file ...
OpenFile ==
  /\ at[Main] = "write" /\ todo # <<>>
  /\ files' = [files EXCEPT ![Head(todo)] = Torn]
  /\ at' = [at EXCEPT ![Main] = "flush"]
  /\ UNCHANGED <<setup, local, batch, first, scores, best, todo, kills>>

\* ... and fills it.
CloseFile ==
  /\ at[Main] = "flush"
  /\ files' = [files EXCEPT ![Head(todo)] = first + Done - 1]
  /\ todo' = Tail(todo) /\ at' = [at EXCEPT ![Main] = "write"]
  /\ UNCHANGED <<setup, local, batch, first, scores, best, kills>>

AllWritten ==
  /\ at[Main] = "write" /\ todo = <<>>
  /\ at' = [at EXCEPT ![Main] = NextTurn(Done)]
  /\ local' = [local EXCEPT ![Main] = <<>>]
  /\ UNCHANGED <<setup, batch, first, scores, best, todo, files, kills>>

\* A process dies; mp.spawn takes the others down. The files stay.
Killed ==
  /\ Up /\ kills < MaxKills /\ \E r \in Ranks : at[r] # "done"
  /\ kills' = kills + 1
  /\ at' = [r \in Ranks |-> "down"] /\ todo' = <<>>
  /\ local' = [r \in Ranks |-> <<>>] /\ batch' = [r \in Ranks |-> <<>>]
  /\ UNCHANGED <<setup, first, scores, best, files>>

TrainersProceed ==
  \/ Launch
  \/ \E r \in Ranks : Collect(r) \/ TrainEpoch(r) \/ TrainWorldEpoch(r) \/ RunAhead(r)
  \/ Exchange \/ JudgeUpdate \/ JudgeEpoch \/ JudgeWorldEpoch
  \/ OpenFile \/ CloseFile \/ AllWritten
TrainersNext == TrainersProceed \/ Killed
TrainersDone == \A r \in Ranks : at[r] = "done"

TrainersTypeOK ==
  /\ kind \in Kinds /\ noVal \in BOOLEAN /\ kills \in 0 .. MaxKills
  /\ at \in [Ranks -> {"down", "failed", "work", "gather", "judge", "write",
                       "flush", "done"}]
  /\ Len(scores) <= Turns /\ first \in 0 .. Turns * MaxKills
  /\ files \in [Names -> Torn .. Turns * (MaxKills + 1) - 1]

------------------------------------------------------------------------------
\* The first turn since the launch whose value is the highest of them.
FirstBest(Value(_)) ==
  CHOOSE n \in 1 .. Done : /\ \A m \in 1 .. Done : Value(m) <= Value(n)
                           /\ \A m \in 1 .. n - 1 : Value(m) < Value(n)

Rate(n) == IF kind # "ppo" THEN scores[n].train
           ELSE LET window == SubSeq(scores, IF n > Smooth THEN n - Smooth + 1 ELSE 1, n)
                IN (60 * Total(window)) \div Len(window)
RateVal(n) == scores[n].val

\* Once the files of a turn are written, best.pt (and best_val.pt) hold the
\* best turn the main node has seen since the launch, judged over the
\* smoothing window, however far the other ranks have run ahead
\* (ppo/trainer.py: "save best.pt whenever the smoothed value sets a new
\* high"; bc/trainer.py and nxwm's trainer: the lowest loss); and every rank
\* has trained on the rollouts one GPU would have made, each exactly once
\* and in the same order (ppo/trainer.py: "the same global rollout set as
\* single-GPU"), and an epoch has shown every sample to some rank.
TurnsAreSound ==
  /\ at[Main] \in {"work", "gather", "done"} /\ Done > 0 =>
       /\ files["best.pt"] = first + FirstBest(Rate) - 1
       /\ kind # "ppo" /\ scores[FirstBest(RateVal)].val # NaN =>
            files["best_val.pt"] = first + FirstBest(RateVal) - 1
  /\ \A r \in Ranks :
       at[r] = "judge" /\ kind = "ppo" =>
         batch[r] = [i \in 1 .. Rollouts |-> (i - 1) % SeedCount]
  /\ (\A r \in Ranks : at[r] = "judge") /\ kind # "ppo" =>
       UNION {{local[r][i] : i \in DOMAIN local[r]} : r \in Ranks} = 0 .. Samples - 1
=============================================================================
