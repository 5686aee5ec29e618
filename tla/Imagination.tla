------------------------------ MODULE Imagination ------------------------------
(***************************************************************************)
(* What the frames that nxwm's world models predict are predicted from.    *)
(* The model is trained on windows of recorded episodes, fed its own       *)
(* predictions for unroll_steps frames; afterwards the evaluation GIFs of  *)
(* the trainer, the policy rollouts of nxrl and the sessions of a server   *)
(* each drive it in a loop of their own. Whoever asks must present a       *)
(* frame the way training does: the same frames before it, the actions     *)
(* paired with them, the goal or the anchor at the same distance.          *)
(*                                                                         *)
(* A frame of the episode is its number; a predicted frame has the number  *)
(* of the frame it stands for. An action has the number of the frame it is *)
(* paired with. Of a latent the number, the times LATENT_SCALE was applied *)
(* and the predictions its gradient reaches are kept, of a noise level a   *)
(* number of FlowSteps-ths. One window stands for the batch.               *)
(***************************************************************************)
EXTENDS Integers, Sequences, FiniteSets

CONSTANTS
  Callers,      \* the loops that are run, of the names below
  Archs,        \* of "dit_v1" and "fa_dit"
  Length,       \* frames of the episode
  Past,         \* sequence_length, seq_len, past_seq_len, history_length
  Offset,       \* goal_offset
  Anchor,       \* future_anchor_len
  Plan,         \* plan_horizon
  UnrollSteps, UnrollMin, RampEpochs,
  Tbptt,        \* tbptt_window, 0 for None
  FlowSteps,    \* Euler steps of a sample
  GifFrames,    \* frames an evaluation draws
  PolicyPast,   \* frames a policy looks at, at least Past
  SeedFrames,   \* the start_frame of each seed of the configuration
  HistoryLengths,  \* history_length of the servers a model is loaded into
  ServedOffset     \* their goal_offset, which nothing compares with Offset

ASSUME ImaginationAssumption ==
  /\ Callers \subseteq {"train", "validate", "repeat_last", "from_mmap", "ppo",
                        "eval_mkv", "debug", "eval", "clone", "session", "rollout", "frames"}
  /\ Archs \subseteq {"dit_v1", "fa_dit"}
  /\ Length \in Nat /\ Past \in Nat \ {0} /\ Offset \in Nat /\ Anchor \in Nat \ {0}
  /\ Plan \in Nat /\ UnrollSteps \in Nat \ {0} /\ UnrollMin \in Nat \ {0}
  /\ RampEpochs \in Nat /\ Tbptt \in Nat /\ FlowSteps \in Nat \ {0}
  /\ GifFrames \in Nat \ {0} /\ PolicyPast \in Nat /\ PolicyPast >= Past
  /\ SeedFrames \in Seq(Nat) /\ SeedFrames # <<>>
  /\ HistoryLengths \subseteq Nat \ {0} /\ ServedOffset \in Nat

VARIABLES
  caller, arch,
  opening,     \* the frame the first prediction stands for
  frames,    \* predictions this loop makes
  asked,     \* the question behind the latest prediction
  k,         \* predictions made
  past,      \* obs, latent_history or past_latents
  acts,      \* act_buf, action_history or past_poses
  taus,      \* past_taus: the noise fa_dit is told of
  goal,      \* goal_latent, or the latents of the anchor
  watched,   \* policy_obs: the frames the policy acts on
  standing   \* "setup", "running", "over", "refused"

imaginationVars ==
  <<caller, arch, opening, frames, asked, k, past, acts, taus, goal, watched, standing>>

Acting == {"ppo", "eval_mkv", "debug", "eval"}   \* a policy acts
Zeros == -1           \* a padded frame or an action of zeros
None == <<>>
Smaller(a, b) == IF a < b THEN a ELSE b
Larger(a, b) == IF a > b THEN a ELSE b

Clean == [i \in 1 .. Past |-> 0]

\* A slice of the episode: what lies beyond its end is cut off.
Cut(from, to) == [i \in 1 .. Larger(0, Smaller(to, Length) - from) |-> from + i - 1]

\* tail = seq[1:] + [x], and seq[-n:].
Slide(seq, x) == Append(Tail(seq), x)
LastOf(seq, n) == SubSeq(seq, Larger(1, Len(seq) - n + 1), Len(seq))
Pad(n) == [i \in 1 .. n |-> Zeros]

\* nxwm encode stores latents that LATENT_SCALE has been applied to.
Stored(i) == [frame |-> i, scale |-> 1, noise |-> 0, reach |-> {}]
Latents(seq) == [i \in 1 .. Len(seq) |-> Stored(seq[i])]
Rescaled(l) == [l EXCEPT !.scale = @ + 1]
Imagined(i, reach) == [frame |-> i, scale |-> 1, noise |-> 0, reach |-> reach]

Elements(seq) == {seq[i] : i \in 1 .. Len(seq)}
Numbers(seq) == [i \in 1 .. Len(seq) |-> seq[i].frame]
Reaches(seq) == UNION {l.reach : l \in Elements(seq)}

(***************************************************************************)
(* The forward pass. dit_v1 sees the past, the actions paired with it and  *)
(* the goal; fa_dit also the action of the frame to predict and the noise  *)
(* level of every frame. marks pairs the level the target is labelled with *)
(* and the share of noise in it, for all levels the caller goes through.   *)
(***************************************************************************)
Forward(now, history, actions, aim, marks) ==
  [frame |-> now, past |-> Numbers(history), acts |-> actions,
   goal |-> Numbers(aim), marks |-> marks, reach |-> Reaches(history),
   scales |-> {l.scale : l \in Elements(history) \cup Elements(aim)},
   mislabelled |-> FALSE]
ForwardFaDit(now, history, actions, aim, pose, told, marks) ==
  [Forward(now, history, Append(actions, pose), aim, marks) EXCEPT
     !.mislabelled = \E i \in 1 .. Len(history) : told[i] # history[i].noise]

(***************************************************************************)
(* Training                                                                *)
(***************************************************************************)

\* The windows of a LatentEpisodeDataset, and one of them.
Lookahead == Larger(Offset + UnrollSteps, Larger(Offset + Anchor, Plan))
Indices == 0 .. Length - (Past + Lookahead) - 1
Window(start) ==
  LET t0 == start + Past
  IN [observations |-> Latents(Cut(start, t0)), actions |-> Cut(start, t0),
      targets |-> Cut(t0, t0 + UnrollSteps),
      goals |-> Latents(Cut(t0 + Offset, t0 + UnrollSteps + Offset)),
      future_actions |-> Cut(t0, t0 + UnrollSteps),
      future_latents |-> Latents(Cut(t0 + Offset, t0 + Offset + Anchor))]

\* _active_K: the unroll grows over the first epochs of a launch.
ActiveK(elapsed) ==
  IF RampEpochs = 0 \/ UnrollSteps <= UnrollMin THEN UnrollSteps
  ELSE Larger(UnrollMin, UnrollMin + ((UnrollSteps - UnrollMin)
                                    * Smaller(elapsed, RampEpochs)) \div RampEpochs)

\* The history is noised at random, frame by frame; fa_dit is told how much.
Noisy(history, levels) ==
  [i \in 1 .. Len(history) |-> [history[i] EXCEPT !.noise = levels[i]]]
Augmented(history) ==
  {history} \cup {Noisy(history, levels) : levels \in [1 .. Len(history) -> 0 .. FlowSteps]}
AugmentedWithTaus(history) ==
  {[seen |-> h, told |-> [i \in 1 .. Len(h) |-> h[i].noise]] : h \in Augmented(history)}

\* flow_match_loss: x_t = t x1 + (1 - t) x0 at a random t, which is the label.
MatchMarks == {[told |-> t, noise |-> FlowSteps - t] : t \in 0 .. FlowSteps}
FlowMatchLoss(window, i, history, actions) ==
  Forward(window.targets[i + 1], history, actions, <<window.goals[i + 1]>>, MatchMarks)
FaDitFlowMatchLoss(window, i, history, actions, told) ==
  ForwardFaDit(window.targets[i + 1], history, actions, window.future_latents,
               window.future_actions[i + 1], told, MatchMarks)

\* The gradient of a later loss stops at a prediction that was detached.
Detached(K, i) == Tbptt # 0 /\ (K - 1) - i >= Tbptt
Predicted(K, i, question) ==
  Imagined(question.frame, IF Detached(K, i) THEN {} ELSE question.reach \cup {i})

\* train_epoch: a batch, its augmentation, and K steps through it.
BeginBatch ==
  /\ caller = "train" /\ standing = "setup"
  /\ \E start \in Indices, epoch \in 0 .. RampEpochs :
       LET window == Window(start)
       IN /\ opening' = start + Past /\ frames' = ActiveK(epoch)
          /\ IF arch = "fa_dit"
               THEN /\ \E pair \in AugmentedWithTaus(window.observations) :
                         past' = pair.seen /\ taus' = pair.told
                    /\ goal' = window.future_latents
               ELSE /\ past' \in Augmented(window.observations)
                    /\ taus' = None /\ goal' = None
          /\ acts' = window.actions
  /\ standing' = "running" /\ UNCHANGED <<caller, arch, asked, k, watched>>

\* unrolled_forward: the prediction takes its place in the history.
UnrollDit ==
  LET window == Window(opening - Past)
      question == FlowMatchLoss(window, k, past, acts)
  IN /\ asked' = question
     /\ IF k < frames - 1
          THEN /\ past' = Slide(past, Predicted(frames, k, question))
               /\ acts' = Slide(acts, window.future_actions[k + 1])
          ELSE UNCHANGED <<past, acts>>
     /\ UNCHANGED <<taus, goal>>

\* unrolled_forward_fa_dit: the same, under an anchor that stays.
UnrollFaDit ==
  LET window == Window(opening - Past)
      question == FaDitFlowMatchLoss(window, k, past, acts, taus)
  IN /\ asked' = question
     /\ IF k < frames - 1
          THEN /\ past' = Slide(past, Predicted(frames, k, question))
               /\ acts' = Slide(acts, window.future_actions[k + 1])
               /\ taus' = Slide(taus, 0)
          ELSE UNCHANGED <<past, acts, taus>>
     /\ UNCHANGED goal

Counted ==
  /\ k' = k + 1 /\ standing' = IF k + 1 = frames THEN "over" ELSE "running"

Unroll ==
  /\ caller = "train" /\ standing = "running"
  /\ IF arch = "fa_dit" THEN UnrollFaDit ELSE UnrollDit
  /\ Counted /\ UNCHANGED <<caller, arch, opening, frames, watched>>

\* val_epoch: the first frame after every window, without augmentation.
Validate ==
  /\ caller = "validate" /\ standing = "setup"
  /\ \E start \in Indices :
       LET window == Window(start)
       IN /\ opening' = start + Past
          /\ asked' = IF arch = "fa_dit"
                        THEN FaDitFlowMatchLoss(window, 0, window.observations, window.actions, Clean)
                        ELSE FlowMatchLoss(window, 0, window.observations, window.actions)
  /\ standing' = "over" /\ k' = 1 /\ frames' = 1
  /\ UNCHANGED <<caller, arch, past, acts, taus, goal, watched>>

(***************************************************************************)
(* The rollout interface of the two architectures                          *)
(***************************************************************************)

\* init_rollout_state checks the number of frames.
InitRolloutState(latents, actions, aim) ==
  IF Len(latents) = Past /\ Len(actions) = Past
    THEN past' = latents /\ acts' = actions /\ goal' = aim /\ taus' = None
                         /\ standing' = "running"
    ELSE standing' = "refused" /\ UNCHANGED <<past, acts, goal, taus>>
InitFaDitState(latents, poses, aim) ==
  IF Len(latents) = Past /\ Len(aim) = Anchor
    THEN past' = latents /\ acts' = poses /\ goal' = aim
         /\ taus' = Clean /\ standing' = "running"
    ELSE standing' = "refused" /\ UNCHANGED <<past, acts, goal, taus>>

\* FlowMatchingSampler.sample starts from noise at t = 0.
SampleMarks == {[told |-> i, noise |-> FlowSteps - i] : i \in 0 .. FlowSteps - 1}
\* fa_dit's own loop starts from noise at tau = 1.
FaDitMarks == {[told |-> FlowSteps - i, noise |-> FlowSteps - i] : i \in 0 .. FlowSteps - 1}

\* Fault: the action is appended before the frame is sampled.
StepRolloutAppendsFirst(aim, action) ==
  /\ acts' = Slide(acts, action)
  /\ asked' = Forward(opening + k, past, acts', aim, SampleMarks)
  /\ past' = Slide(past, Imagined(opening + k, {}))
\* step_rollout: the prediction is made first, then the action is paired
\* with it.
StepRollout(aim, action) ==
  /\ asked' = Forward(opening + k, past, acts, aim, SampleMarks)
  /\ past' = Slide(past, Imagined(opening + k, {}))
  /\ acts' = Slide(acts, action)
StepFaDit(pose) ==
  /\ asked' = ForwardFaDit(opening + k, past, acts, goal, pose, taus, FaDitMarks)
  /\ past' = Slide(past, Imagined(opening + k, {}))
  /\ acts' = Slide(acts, pose) /\ UNCHANGED <<goal, taus>>
Step(aim, action) ==
  /\ StepRollout(aim, action) /\ goal' = aim /\ UNCHANGED taus

(***************************************************************************)
(* eval_gif.py                                                             *)
(***************************************************************************)

\* _from_repeat_last: the first window of the validation set, one goal.
BeginRepeatLast ==
  LET window == Window(0)
  IN /\ opening' = Past /\ frames' = GifFrames
     /\ InitRolloutState(LastOf(window.observations, Past), LastOf(window.actions, Past),
                         <<window.goals[1]>>)
RepeatLast ==
  Step(goal, Window(0).future_actions[Smaller(k, UnrollSteps - 1) + 1])
BeginRepeatLastFaDit ==
  LET window == Window(0)
  IN /\ opening' = Past /\ frames' = GifFrames
     /\ InitFaDitState(window.observations, window.actions, window.future_latents)
RepeatLastFaDit ==
  StepFaDit(Window(0).future_actions[Smaller(k, UnrollSteps - 1) + 1])

\* _from_mmap: a whole episode, the goal moves on with every frame.
ActionAt(i) == IF i < Length THEN i ELSE Zeros
BeginFromMmap(start_frame) ==
  LET start == Larger(0, Smaller(start_frame, Length - Past - GifFrames - Offset))
  IN /\ opening' = start + Past /\ frames' = GifFrames
     /\ InitRolloutState(Latents(Cut(start, start + Past)), Cut(start, start + Past),
                         <<Stored(Smaller(start + Past + Offset, Length - 1))>>)
Receding(i) == IF i < Length THEN <<Stored(i)>> ELSE goal
FromMmap == Step(Receding(opening + k + Offset), ActionAt(opening + k))
BeginFromMmapFaDit(start_frame) ==
  LET needed == Past + GifFrames + Larger(Offset + Anchor, 1)
      start == Larger(0, Smaller(start_frame, Length - needed))
      t0 == start + Past
  IN /\ opening' = t0 /\ frames' = GifFrames
     /\ InitFaDitState(Latents(Cut(start, t0)), Cut(start, t0),
                       Latents(Cut(t0 + Offset, t0 + Offset + Anchor)))
FromMmapFaDit == StepFaDit(ActionAt(opening + k))

\* generate_eval_gif: the mode and the shape of the configuration choose.
BeginGif ==
  /\ caller \in {"repeat_last", "from_mmap"} /\ standing = "setup"
  /\ CASE caller = "repeat_last" /\ arch = "fa_dit" -> BeginRepeatLastFaDit
       [] caller = "repeat_last" /\ arch # "fa_dit" -> BeginRepeatLast
       [] OTHER -> \E start_frame \in 0 .. Length :
                     IF arch = "fa_dit" THEN BeginFromMmapFaDit(start_frame)
                                        ELSE BeginFromMmap(start_frame)
  /\ UNCHANGED <<caller, arch, asked, k, watched>>
DrawGif ==
  /\ caller \in {"repeat_last", "from_mmap"} /\ standing = "running"
  /\ CASE caller = "repeat_last" /\ arch = "fa_dit" -> RepeatLastFaDit
       [] caller = "repeat_last" /\ arch # "fa_dit" -> RepeatLast
       [] caller = "from_mmap" /\ arch = "fa_dit" -> FromMmapFaDit
       [] OTHER -> FromMmap
  /\ Counted /\ UNCHANGED <<caller, arch, opening, frames, watched>>

(***************************************************************************)
(* nxrl: a policy acts, dit_v1 answers                                     *)
(***************************************************************************)

\* LatentBCDataset: a window of an episode, or (align_starts) the head of a
\* group of files, chained in the order of their names until they hold enough
\* frames: a part may end anywhere and the next be of another recording.
Windows == {Cut(start, start + PolicyPast) : start \in 0 .. Length - PolicyPast - 1}
Chained == {Cut(0, end) \o Cut(next, Length) : end, next \in 0 .. Length}
EpisodeGroups ==
  {SubSeq(group, 1, PolicyPast) : group \in {c \in Chained : Len(c) >= PolicyPast}}

\* The action to imitate is the one recorded with the last frame.
Clone ==
  /\ caller = "clone" /\ standing = "setup"
  /\ \E observations \in Windows \cup EpisodeGroups :
       watched' = observations /\ acts' = <<observations[PolicyPast]>>
  /\ standing' = "over"
  /\ UNCHANGED <<caller, arch, opening, frames, asked, k, past, taus, goal>>

\* Where the context starts: a negative start_frame asks for padding, a late
\* one is moved forward, and a short episode shortens the rollout.
Placed(start_frame, wanted) ==
  LET pad == Larger(0, -start_frame)
      context == PolicyPast - pad
      needed == context + wanted + Offset
      asks == Larger(0, start_frame)
      start == IF asks + needed > Length THEN Larger(0, Length - needed) ELSE asks
      room == Length - start - context
  IN [pad |-> pad, start |-> start, context |-> context,
      frames |-> IF room < wanted THEN Larger(1, room) ELSE wanted]

\* The head of collect_rollout, and of eval_runner.generate_eval_gif.
BeginRolloutAt(place) ==
  LET t0 == place.start + place.context
      context == Pad(place.pad) \o Cut(place.start, t0)
  IN /\ opening' = t0 /\ frames' = place.frames
     /\ watched' = context
     /\ InitRolloutState(LastOf(Latents(context), Past), LastOf(context, Past),
                         <<Stored(Smaller(t0 + Offset, Length - 1))>>)
\* A SeedSpec names the frame the policy takes over at; an update takes the
\* seeds in turn.
FromSeed(s) == BeginRolloutAt(Placed(SeedFrames[s + 1] - PolicyPast, GifFrames))
BeginPPO == \E i \in 0 .. 2 * Len(SeedFrames) : FromSeed(i % Len(SeedFrames))
\* The videos of the trainer leave out a seed that is not there; rollout-debug
\* counts a negative one from the end and fails on the others.
Chosen == -1 .. Len(SeedFrames)
BeginMkv == \E s \in Chosen : s >= 0 /\ s < Len(SeedFrames) /\ FromSeed(s)
BeginDebug ==
  \E s \in Chosen :
    IF s = Len(SeedFrames)
      THEN standing' = "refused"
           /\ UNCHANGED <<opening, frames, watched, past, acts, goal, taus>>
      ELSE FromSeed(IF s < 0 THEN s + Len(SeedFrames) ELSE s)
BeginEval == \E sf \in -PolicyPast .. Length : BeginRolloutAt(Placed(sf, GifFrames))
BeginPolicy ==
  /\ arch = "dit_v1" /\ standing = "setup"
  /\ \/ caller = "ppo" /\ BeginPPO
     \/ caller = "eval_mkv" /\ BeginMkv
     \/ caller = "debug" /\ BeginDebug
     \/ caller = "eval" /\ BeginEval
  /\ UNCHANGED <<caller, arch, asked, k>>

\* The policy acts on the frames before the predicted one, the action is
\* paired with the prediction, and the prediction joins what it watches.
PolicyStep ==
  /\ caller \in Acting /\ standing = "running"
  /\ Step(Receding(opening + k + Offset), opening + k)
  /\ watched' = Slide(watched, opening + k)
  /\ Counted /\ UNCHANGED <<caller, arch, opening, frames>>

(***************************************************************************)
(* A session of the world-model server, and nxwm rollout                   *)
(***************************************************************************)

\* EpisodeSeed.from_npz refuses a start without room for history and goal,
\* and applies LATENT_SCALE.
SeedStarts(history) ==
  {s \in 0 .. Length : s <= Length - (history + ServedOffset + 1)}
CurrentGoal(current) ==
  <<Rescaled(Stored(Smaller(current + ServedOffset, Length - 1)))>>
FromNpz(start, history) ==
  LET t0 == start + history
      scaled == Latents(Cut(start, t0))
  IN /\ opening' = t0
     /\ InitRolloutState([i \in 1 .. history |-> Rescaled(scaled[i])], Cut(start, t0),
                         CurrentGoal(t0 - 1))
Reseed ==
  /\ caller \in {"session", "rollout"} /\ arch = "dit_v1" /\ standing = "setup"
  /\ \E history \in HistoryLengths : \E start \in SeedStarts(history) :
       FromNpz(start, history)
  /\ frames' = GifFrames /\ UNCHANGED <<caller, arch, asked, k, watched>>

\* init_from_frames: the oldest frame is repeated, no action was taken, the
\* goal is the last frame if none is given.
InitFromFrames ==
  /\ caller = "frames" /\ arch = "dit_v1" /\ standing = "setup"
  /\ \E history \in HistoryLengths : \E n \in 1 .. history :
       /\ opening' = n
       /\ InitRolloutState(Latents([i \in 1 .. history |-> Larger(0, n - 1 - (history - i))]),
                           Pad(history), <<Stored(n - 1)>>)
  /\ frames' = GifFrames /\ UNCHANGED <<caller, arch, asked, k, watched>>

\* step_latent: after the prediction the seed advances and so does the goal.
StepLatent(action) ==
  /\ StepRollout(goal, action) /\ UNCHANGED taus
  /\ goal' = IF caller = "frames" THEN goal ELSE CurrentGoal(opening + k)
SessionStep ==
  /\ caller \in {"session", "frames"} /\ standing = "running"
  /\ StepLatent(opening + k)
  /\ Counted /\ UNCHANGED <<caller, arch, opening, frames, watched>>
\* nxwm rollout without an actions file acts with zeros.
RunRollout ==
  /\ caller = "rollout" /\ standing = "running"
  /\ StepLatent(Zeros)
  /\ Counted /\ UNCHANGED <<caller, arch, opening, frames, watched>>

(***************************************************************************)
ImaginationInit ==
  /\ caller \in Callers /\ arch \in Archs
  /\ caller \in {"clone", "session", "rollout", "frames"} \cup Acting =>
       arch = "dit_v1"
  /\ opening = 0 /\ frames = 0 /\ asked = None /\ k = 0
  /\ past = None /\ acts = None /\ taus = None /\ goal = None /\ watched = None
  /\ standing = "setup"

ImaginationNext ==
  \/ BeginBatch \/ Unroll \/ Validate \/ BeginGif \/ DrawGif \/ Clone
  \/ BeginPolicy \/ PolicyStep
  \/ Reseed \/ InitFromFrames \/ SessionStep \/ RunRollout

ImaginationDone == standing \in {"over", "refused"}

ImaginationTypeOK ==
  /\ caller \in Callers /\ arch \in Archs
  /\ opening \in Nat /\ (standing # "refused" => opening <= Length + 1)
  /\ frames \in Nat /\ k \in 0 .. frames
  /\ Len(past) \in {0, Past} /\ Len(acts) \in {0, 1, Past} /\ Len(goal) <= Anchor + 1
  /\ standing \in {"setup", "running", "over", "refused"}

(***************************************************************************)
(* Properties                                                              *)
(***************************************************************************)

\* What stood at the frames from .. to - 1, zeros before the episode began.
Shown(from, to) == [i \in 1 .. to - from |-> Larger(Zeros, from + i - 1)]

\* Every loop presents a frame the way training does, however often it has
\* fed its own predictions back: the Past frames before it in order, the
\* action paired with each of them (fa_dit: and the frame's own), the goal at
\* the distance goal_offset as long as the episode reaches so far, the noise
\* of each frame as it is, and for dit_v1 the level t of x_t. A policy acts on
\* the frames just before the one its action is paired with, and imitates the
\* action recorded with the last of the frames it is shown. repeat_last asks
\* so until its goal and its actions run out, a rollout without actions as far
\* as the frames go; JPEG frames carry no recording. (What a session makes of
\* goal and scale is the subject of ServedAsTrained.) Through the predictions
\* in the history the loss of a step reaches at most the tbptt_window
\* predictions before it (unrolled.py: gradients "cannot flow back into
\* earlier ones beyond tbptt_window predictions").
ActionsOf(f) ==
  LET last == IF arch = "fa_dit" THEN f ELSE f - 1
  IN [i \in 1 .. last + 1 - f + Past |->
        IF caller = "from_mmap" THEN ActionAt(f - Past + i - 1) ELSE Shown(f - Past, last + 1)[i]]
GoalOf(f) ==
  IF arch = "fa_dit" THEN Cut(opening + Offset, opening + Offset + Anchor)
  ELSE <<Smaller(f + Offset, Length - 1)>>
AskedAsTrained ==
  /\ caller = "clone" /\ standing = "over" =>
       Len(watched) = PolicyPast /\ acts = <<watched[PolicyPast]>>
  /\ asked # None /\ caller # "frames" =>
    LET f == asked.frame
    IN /\ asked.past = Shown(f - Past, f)
       /\ \/ caller = "repeat_last" /\ f - opening >= UnrollSteps
          \/ caller = "rollout" /\ f > opening
          \/ asked.acts = ActionsOf(f)
       /\ \/ caller = "repeat_last" /\ arch = "dit_v1" /\ f > opening
          \/ caller \in {"session", "rollout"}
          \/ asked.goal = GoalOf(f)
       /\ caller \in Acting => watched = Shown(f + 1 - PolicyPast, f + 1)
       /\ ~asked.mislabelled
       /\ arch = "dit_v1" => \A m \in asked.marks : m.told + m.noise = FlowSteps
       /\ caller \notin {"session", "rollout"} => asked.scales = {1}
       /\ Tbptt # 0 => \A i \in asked.reach : i < f - opening /\ i >= f - opening - Tbptt

\* A session and nxwm rollout ask as the evaluation of the trainer does
\* (eval_gif.py: "matching what nxwm rollout produces", "apples-to-apples
\* with the offline rollout subcommand"): for the goal goal_offset frames on,
\* with latents "pre-scaled to match the training-time convention"
\* (episode_seed.py).
ServedAsTrained ==
  asked # None /\ caller \in {"session", "rollout"} =>
    asked.goal = GoalOf(asked.frame) /\ asked.scales = {1}

\* The noise level a target is labelled with is its share of noise
\* (fa_dit/model.py: "Training: x_t = tau eps + (1 - tau) x_clean, so tau=1
\* is noise, tau=0 is clean").
NoiseIsLabelled ==
  asked # None /\ arch = "fa_dit" => \A m \in asked.marks : m.told = m.noise
=============================================================================
