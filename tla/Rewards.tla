------------------------------- MODULE Rewards -------------------------------
(***************************************************************************)
(* The Pokemon ZA reward of nxrl's PPO: RewardShaper with its counters,    *)
(* latches and histories, the closure make_reward_fn wraps around it (the  *)
(* reset at step 0 and the terminal conditions), and collect_rollout,      *)
(* which calls it once per frame the world model predicts. One closure     *)
(* serves every rollout of a rank, the evaluation rollouts included.       *)
(*                                                                         *)
(* A latent is a place: two latents are similar exactly when the places    *)
(* are equal (cosine 1, else 0; every threshold lies in between). Of an    *)
(* amount only which component pays is kept. The components that look at   *)
(* one frame alone and keep no state (action, stagnation, goal, start      *)
(* divergence, movement, stick penalties) are left out.                    *)
(***************************************************************************)
EXTENDS Naturals, Sequences, FiniteSets

CONSTANTS
  Mixes,        \* the sets of components a config may enable
  Places,       \* what latents show, up to similarity
  BadPlace,     \* the place of the penalty PNG
  Seeds,        \* seed scenes: [frames, start]
  Context,      \* policy.sequence_length
  Frames,       \* RolloutSpec.frames
  GoalOffset,   \* RolloutSpec.goal_offset
  Cfg,          \* of RewardConfig: thresholds in frames, one in percent, an index
  MaxRollouts   \* bound: rollouts one closure serves

NoPlace == "None"

\* Two settings each of one component.
Variants == {{"stuck_forward", "stuck_stagnation"}, {"unique", "unique_press"}}

ASSUME RewardsAssumption ==
  /\ \A m \in Mixes, v \in Variants : ~(v \subseteq m)
  /\ NoPlace \notin Places /\ BadPlace \in Places
  /\ Context \in Nat \ {0} /\ Frames \in Nat \ {0} /\ GoalOffset \in Nat /\ MaxRollouts \in Nat
  /\ \A s \in Seeds : s.frames \in Nat \ {0} /\ s.start \in Nat
  /\ Cfg.minHits \in Nat \ {0} /\ Cfg.window \in Nat \ {0}
  /\ \A t \in {Cfg.stuckFrames, Cfg.turnFrames, Cfg.sweepTimeout, Cfg.minUnlocked,
              Cfg.grace, Cfg.initialWindow, Cfg.initialPercent, Cfg.attackWindow,
              Cfg.minAttacks, Cfg.startFrame} : t \in Nat

VARIABLES
  mix,        \* the components of the config
  shaper,     \* RewardShaper, its detector, and the closure's attack history
  origin,     \* the place of the frame start_frame_idx of this rollout's seed,
              \* NoPlace where the seed has no such frame
  planned,    \* n_frames of the rollout under way, 0 between rollouts
  rollouts,   \* rollouts begun
  seen,       \* history: the frames of this rollout,
  earned,     \* what each was paid,
  alone       \* and what a closure made for this rollout only would hold

rewardVars == <<mix, shaper, origin, planned, rollouts, seen, earned, alone>>

Least(a, b) == IF a < b THEN a ELSE b
Most(a, b) == IF a < b THEN b ELSE a

\* A bounded history: append, and drop the oldest beyond n entries.
Keep(h, x, n) == LET g == Append(h, x) IN IF Len(g) > n THEN Tail(g) ELSE g
Pay(s, c) == [s EXCEPT !.paid = @ \cup {c}]
Count(cond, n) == IF cond THEN n + 1 ELSE 0

------------------------------------------------------------------------------
(* The inputs: what a frame shows and what the policy did in it.            *)

Reads(m) ==
  (IF "target_ui" \in m THEN {"target"} ELSE {})
  \cup (IF m \cap {"locked_attack", "verified", "unique_press"} # {}
        THEN {"attack"} ELSE {})
  \cup (IF m \cap {"progress", "stuck_forward"} # {} THEN {"forward"} ELSE {})
  \cup (IF m \cap {"stuck_forward", "stuck_stagnation"} # {} THEN {"turning"} ELSE {})
  \cup (IF m \cap {"unique", "unique_press", "stuck_stagnation", "escape",
                   "sliding", "unstuck", "png"} # {} THEN {"place"} ELSE {})

Inputs(m) ==
  LET Bool(field) == IF field \in Reads(m) THEN BOOLEAN ELSE {FALSE}
  IN [target : Bool("target"), attack : Bool("attack"), forward : Bool("forward"),
      turning : Bool("turning"),
      place : IF "place" \in Reads(m) THEN Places ELSE {BadPlace}]

------------------------------------------------------------------------------
(* RewardShaper                                                             *)

Blank ==
  [streak |-> 0, start |-> NoPlace, forward |-> "None",
   stuckForward |-> 0, turn |-> 0, latents |-> <<>>, stagnant |-> 0,
   pending |-> FALSE, pendingAge |-> 0,
   prevLocked |-> FALSE, uniqueCount |-> 0, lastLockBegin |-> NoPlace,
   unlocked |-> 0, lockBegin |-> NoPlace, pressed |-> FALSE,
   escapePaid |-> FALSE, nearStart |-> 0, startFrames |-> 0,
   slideLatents |-> <<>>, slideStreak |-> 0,
   unstuckLatents |-> <<>>, unstuckStreak |-> 0, beenStuck |-> FALSE,
   penaltyStreak |-> 0, attacks |-> <<>>, paid |-> {}]

\* Fault: the detector keeps its streak across rollouts.
ResetShaperOnly(s) == [Blank EXCEPT !.start = s.start, !.streak = s.streak]

\* reset(), and the closure's attack_history; the reference latents stay.
Reset(s) == [Blank EXCEPT !.start = s.start]

Progress(s, f) ==
  LET now == IF f.forward THEN "forward" ELSE "rest"
      t == [s EXCEPT !.forward = now]
  IN IF s.forward = "rest" /\ f.forward THEN Pay(t, "progress") ELSE t

\* Reads the detector's streak before this frame has been decoded.
StuckForward(s, f) ==
  LET pushed == Count(s.streak = 0 /\ f.forward, s.stuckForward)
      turned == Count(pushed >= Cfg.stuckFrames /\ f.turning, s.turn)
  IN IF turned >= Cfg.turnFrames
     THEN Pay([s EXCEPT !.stuckForward = 0, !.turn = 0], "stuck_turn")
     ELSE [s EXCEPT !.stuckForward = pushed, !.turn = turned]

\* The sweep latch. Stagnant is "cosine below the threshold", and what
\* _frame_distance returns for the cosine is a similarity.
StuckStagnation(s, f) ==
  LET seeing == s.streak > 0
      latents == Keep(s.latents, f.place, Cfg.window + 1)
      far == ~seeing /\ Len(latents) > Cfg.window
               /\ f.place # latents[Len(latents) - Cfg.window]
      still == Count(far, s.stagnant)
      held == s.pending /\ ~seeing
      latch == held \/ still >= Cfg.stuckFrames
      age == (IF held THEN s.pendingAge ELSE 0) + 1
      expired == latch /\ age > Cfg.sweepTimeout
      armed == latch /\ ~expired
      before == IF expired THEN 0 ELSE s.turn
      turned == IF f.turning THEN before + (IF armed THEN 1 ELSE 0) ELSE 0
      done == armed /\ turned >= Cfg.turnFrames
      t == [s EXCEPT !.latents = latents,
                     !.stagnant = IF expired \/ done THEN 0 ELSE still,
                     !.pending = armed /\ ~done,
                     !.pendingAge = IF armed /\ ~done THEN age ELSE 0,
                     !.turn = IF done THEN 0 ELSE turned]
  IN IF done THEN Pay(t, "stuck_turn") ELSE t

\* Also reads the streak of the frame before: target_ui runs later.
LockedAttack(s, f) ==
  IF s.streak >= 1 /\ f.attack THEN Pay(s, "locked_attack") ELSE s

TargetUI(s, f) ==
  LET t == [s EXCEPT !.streak = Count(f.target, @)]
  IN IF t.streak >= Cfg.minHits THEN Pay(t, "target_ui") ELSE t

\* The one-shot bonus and its sustain reward, on the similarity to the start.
\* It is withheld when the initial frames were on average above the threshold,
\* unless the config does not ask for that (require_initial_stagnation off, an
\* option a mix names "unchecked").
Escape(s, f, n) ==
  LET near == f.place = s.start
      early == n < Cfg.initialWindow
      t == [s EXCEPT !.nearStart = @ + (IF early /\ near THEN 1 ELSE 0),
                     !.startFrames = @ + (IF early THEN 1 ELSE 0)]
      moved == 100 * t.nearStart > Cfg.initialPercent * t.startFrames
  IN IF s.escapePaid THEN IF near THEN Pay(t, "escape_sustain") ELSE t
     ELSE IF /\ n >= Cfg.grace /\ near
             /\ "unchecked" \in mix \/ (t.startFrames # 0 /\ ~moved)
     THEN Pay([t EXCEPT !.escapePaid = TRUE], "escape") ELSE t

SlidingStagnation(s, f, n) ==
  LET latents == Keep(s.slideLatents, f.place, Cfg.window + 1)
      ready == n >= Cfg.grace /\ Len(latents) > Cfg.window
      pinned == Count(ready /\ latents[1] = f.place, s.slideStreak)
      t == [s EXCEPT !.slideLatents = latents, !.slideStreak = pinned]
  IN IF pinned >= Cfg.minHits THEN Pay(t, "slide_stag") ELSE t

Unstuck(s, f, n) ==
  LET latents == Keep(s.unstuckLatents, f.place, Cfg.window + 1)
      t == [s EXCEPT !.unstuckLatents = latents]
      streak == Count(latents[1] = f.place, s.unstuckStreak)
      u == [t EXCEPT !.unstuckStreak = streak]
  IN IF n < Cfg.grace \/ Len(latents) <= Cfg.window THEN t
     ELSE IF streak >= Cfg.minHits THEN [u EXCEPT !.beenStuck = TRUE]
     ELSE IF s.beenStuck THEN Pay(u, "unstuck") ELSE u

\* Flicker and movement gates of a lock begun at place p; "moved enough" is
\* again a similarity above the threshold.
AcquisitionGate(s, p) ==
  LET anchor == IF s.lastLockBegin # NoPlace THEN s.lastLockBegin ELSE s.start
  IN /\ s.uniqueCount = 0 \/ s.unlocked >= Cfg.minUnlocked
     /\ anchor = NoPlace \/ p = anchor

Acquire(s, p) ==
  Pay([s EXCEPT !.uniqueCount = @ + 1, !.lastLockBegin = p], "unique_acq")

UniqueOnBegin(s, f, locked) ==
  IF locked /\ ~s.prevLocked /\ AcquisitionGate(s, f.place)
  THEN Acquire(s, f.place) ELSE s

UniqueOnRelease(s, f, locked) ==
  LET began == IF locked /\ ~s.prevLocked
               THEN [s EXCEPT !.lockBegin = f.place, !.pressed = FALSE] ELSE s
      held == [began EXCEPT !.pressed = @ \/ (locked /\ f.attack)]
      paid == IF held.pressed /\ held.lockBegin # NoPlace
                 /\ AcquisitionGate(held, held.lockBegin)
              THEN Acquire(held, held.lockBegin) ELSE held
  IN IF s.prevLocked /\ ~locked
     THEN [paid EXCEPT !.lockBegin = NoPlace, !.pressed = FALSE] ELSE held

UniqueAcquisition(s, f, onRelease) ==
  LET locked == s.streak >= Cfg.minHits
      t == IF onRelease THEN UniqueOnRelease(s, f, locked)
           ELSE UniqueOnBegin(s, f, locked)
  IN [t EXCEPT !.unlocked = Count(~locked, @), !.prevLocked = locked]

PngPenalty(s, f) ==
  LET t == [s EXCEPT !.penaltyStreak = Count(f.place = BadPlace, @)]
  IN IF t.penaltyStreak >= Cfg.minHits THEN Pay(t, "png_pen") ELSE t

\* compute_reward: one step of every enabled component, in the order of the
\* code.
Order == <<"progress", "stuck_forward", "stuck_stagnation", "locked_attack",
           "target_ui", "escape", "sliding", "unstuck", "unique", "unique_press",
           "png">>

Component(c, s, f, n) ==
  CASE c = "progress" -> Progress(s, f)
    [] c = "stuck_forward" -> StuckForward(s, f)
    [] c = "stuck_stagnation" -> StuckStagnation(s, f)
    [] c = "locked_attack" -> LockedAttack(s, f)
    [] c = "target_ui" -> TargetUI(s, f)
    [] c = "escape" -> IF s.start = NoPlace THEN s ELSE Escape(s, f, n)
    [] c = "sliding" -> SlidingStagnation(s, f, n)
    [] c = "unstuck" -> Unstuck(s, f, n)
    [] c \in {"unique", "unique_press"} -> UniqueAcquisition(s, f, c = "unique_press")
    [] c = "png" -> PngPenalty(s, f)

ComputeReward(s, f, n) ==
  LET after[i \in 0 .. Len(Order)] ==
        IF i = 0 THEN [s EXCEPT !.paid = {}]
        ELSE IF Order[i] \in mix THEN Component(Order[i], after[i - 1], f, n)
        ELSE after[i - 1]
  IN after[Len(Order)]

------------------------------------------------------------------------------
(* make_reward_fn                                                           *)

\* The two-gate terminal when it is configured, else the streak alone unless
\* targets are paid for one by one.
Terminal(s, f) ==
  LET engaged == f.attack /\ s.streak > 0
      t == [s EXCEPT !.attacks = Keep(@, engaged, Cfg.attackWindow)]
      presses == {i \in DOMAIN t.attacks : t.attacks[i]}
  IN IF "target_ui" \notin mix THEN s
     ELSE IF "verified" \in mix
     THEN IF t.streak >= Cfg.minHits /\ Cardinality(presses) >= Cfg.minAttacks
          THEN Pay(t, "terminal") ELSE t
     ELSE IF mix \cap {"unique", "unique_press"} = {} /\ s.streak >= Cfg.minHits
     THEN Pay(s, "terminal") ELSE s

\* A start_frame_idx the seed does not have leaves the start latent of the
\* rollout before in place.
RewardFn(s, f, n, at) ==
  LET blank == Reset(s)
      fresh == IF n # 0 THEN s
               ELSE IF at = NoPlace THEN blank ELSE [blank EXCEPT !.start = at]
  IN Terminal(ComputeReward(fresh, f, n), f)

------------------------------------------------------------------------------
(* collect_rollout                                                          *)

\* The frames there is room for: the seed's context is padded in front when
\* the scene is too near the episode's start, moved when too near its end.
RolloutLength(seed) ==
  LET pad == IF seed.start < Context THEN Context - seed.start ELSE 0
      first == IF seed.start < Context THEN 0 ELSE seed.start - Context
      needed == Context - pad + Frames + GoalOffset
      from == IF first + needed <= seed.frames THEN first
              ELSE IF seed.frames < needed THEN 0 ELSE seed.frames - needed
      used == from + Context - pad
  IN IF seed.frames < used + Frames
     THEN (IF seed.frames <= used THEN 1 ELSE seed.frames - used)
     ELSE Frames

RewardsInit ==
  /\ mix \in Mixes
  /\ shaper = Blank /\ origin = NoPlace
  /\ planned = 0 /\ rollouts = 0 /\ seen = <<>> /\ earned = <<>> /\ alone = Blank

BeginRollout ==
  /\ planned = 0 /\ rollouts < MaxRollouts
  /\ rollouts' = rollouts + 1 /\ seen' = <<>> /\ earned' = <<>> /\ alone' = Blank
  /\ \E seed \in Seeds :
       /\ planned' = RolloutLength(seed)
       /\ origin' \in IF Cfg.startFrame >= seed.frames THEN {NoPlace}
                     ELSE IF "place" \in Reads(mix) THEN Places ELSE {BadPlace}
  /\ UNCHANGED <<mix, shaper>>

\* The policy acts, the world model predicts, the reward is asked for; a
\* terminal frame is the rollout's last.
RolloutStep ==
  /\ planned > 0
  /\ \E f \in Inputs(mix) :
       LET s == RewardFn(shaper, f, Len(seen), origin)
       IN /\ seen' = Append(seen, f) /\ earned' = Append(earned, s.paid)
          /\ shaper' = s /\ alone' = RewardFn(alone, f, Len(seen), origin)
          /\ planned' = IF "terminal" \in s.paid \/ Len(seen) + 1 = planned
                        THEN 0 ELSE planned
  /\ UNCHANGED <<mix, origin, rollouts>>

RewardsNext == BeginRollout \/ RolloutStep

RewardsTypeOK ==
  /\ mix \in Mixes /\ origin \in Places \cup {NoPlace}
  /\ planned \in 0..Frames /\ rollouts \in 0..MaxRollouts
  /\ Len(seen) <= Frames /\ Len(earned) = Len(seen)
  /\ shaper.streak \in 0..Frames /\ shaper.uniqueCount \in 0..Frames
  /\ Len(shaper.attacks) <= Cfg.attackWindow

------------------------------------------------------------------------------
(* What the newest payment of a rollout stands for: q are its frames so     *)
(* far, e what each was paid.                                               *)

\* How many frames in a row, up to frame n, are in S.
Row(S, n) == CHOOSE r \in 0 .. n : n - r + 1 .. n \subseteq S /\ n - r \notin S

Visible(q) == {i \in 1 .. Len(q) : q[i].target}
Locked(q) == {i \in 1 .. Len(q) : Row(Visible(q), i) >= Cfg.minHits}
Engaged(q) == {i \in 1 .. Len(q) : q[i].target /\ q[i].attack}
Lately(q, r) == Most(1, Len(q) - r + 1) .. Len(q)
Pays(c, e) == c \in e[Len(e)]
PaidIn(c, e, S) == \E i \in S : c \in e[i]

TerminalEarned(q, e) ==
  Pays("terminal", e) <=>
    /\ "target_ui" \in mix /\ Len(q) \in Locked(q)
    /\ IF "verified" \in mix
       THEN Cardinality(Lately(q, Cfg.attackWindow) \cap Engaged(q)) >= Cfg.minAttacks
       ELSE mix \cap {"unique", "unique_press"} = {}

\* Whichever streak is read, that of this frame or that of the one before.
AttackEarned(q, e) ==
  Pays("locked_attack", e) =>
    {Len(q) - 1, Len(q)} \cap Visible(q) # {} /\ q[Len(q)].attack

TargetEarned(q, e) ==
  LET n == Len(q)
  IN Pays("unique_acq", e) =>
       IF "unique_press" \in mix
       THEN /\ n - 1 \in Locked(q) /\ n \notin Locked(q)
            /\ \E i \in 1 .. n - 1 : q[i].attack /\ i .. n - 1 \subseteq Locked(q)
       ELSE /\ n \in Locked(q) /\ n - 1 \notin Locked(q)
            /\ PaidIn("unique_acq", e, 1 .. n - 1) =>
                 Locked(q) \cap (n - Cfg.minUnlocked .. n - 1) = {}

\* Everything from stuck to the end of the turn lies inside this rollout and
\* after its last such payment, and no target is seen in it.
TurnEarned(q, e) ==
  LET n == Len(q)
  IN Pays("stuck_turn", e) =>
       /\ n >= Cfg.turnFrames
       /\ \A i \in Lately(q, Cfg.turnFrames) : q[i].turning
       /\ ~PaidIn("stuck_turn", e, Lately(q, Cfg.turnFrames) \ {n})
       /\ IF "stuck_forward" \in mix
          THEN /\ n >= Cfg.turnFrames + Cfg.stuckFrames - 1
               /\ \A i \in Lately(q, Cfg.turnFrames + Cfg.stuckFrames - 1) :
                    q[i].forward /\ (i # n => i \notin Visible(q))
          ELSE \E i \in Lately(q, Cfg.sweepTimeout) :
                 /\ i >= Cfg.stuckFrames + Cfg.window
                 /\ Visible(q) \cap (i .. n - 1) = {}

\* Once in a rollout, after the grace period, and then sustained.
EscapeEarned(q, e) ==
  LET n == Len(q)
  IN /\ Pays("escape", e) => n > Cfg.grace /\ ~PaidIn("escape", e, 1 .. n - 1)
     /\ Pays("escape_sustain", e) => PaidIn("escape", e, 1 .. n - 1)

Pinned(q) ==
  {i \in 1 .. Len(q) : /\ i > Cfg.window /\ i > Cfg.grace
                      /\ q[i].place = q[i - Cfg.window].place}
Stuck(q) == {i \in 1 .. Len(q) : Row(Pinned(q), i) >= Cfg.minHits}
Penalised(q) == {i \in 1 .. Len(q) : q[i].place = BadPlace}

StillEarned(q, e) ==
  /\ "sliding" \in mix => (Pays("slide_stag", e) <=> Len(q) \in Stuck(q))
  /\ "unstuck" \in mix =>
       (Pays("unstuck", e) <=> Len(q) \notin Stuck(q) /\ Stuck(q) # {})
  /\ "png" \in mix => (Pays("png_pen", e) <=> Row(Penalised(q), Len(q)) >= Cfg.minHits)

\* What a frame is paid depends on its own rollout and on nothing else,
\* although one closure serves them all (composite.py: reset, "Reset per-rollout
\* state"; factory.py: the reset at info.step == 0): it is what a closure made
\* for this rollout would pay, provided its seed has the frame start_frame_idx
\* (without it the start latent of an earlier rollout is compared with).  And
\* whichever counters, latches and histories were left behind, the frames of
\* this rollout bear the payment out: a terminal has both its gates in it
\* (config.py, VerifiedLockTerminalConfig), a target its lock, a turn its stuck
\* frames, an escape pays once, and the stuck detectors count in this rollout.
PaidByThisRollout ==
  seen # <<>> =>
    /\ origin # NoPlace => earned[Len(earned)] = alone.paid
    /\ TerminalEarned(seen, earned) /\ AttackEarned(seen, earned)
    /\ TargetEarned(seen, earned) /\ TurnEarned(seen, earned)
    /\ EscapeEarned(seen, earned) /\ StillEarned(seen, earned)

\* composite.py:452: the escape reward "Pays `bonus` the first time the current
\* latent diverges from the rollout start latent".
EscapePaysForLeaving ==
  seen # <<>> /\ origin # NoPlace /\ Pays("escape", earned) =>
    seen[Len(seen)].place # origin
=============================================================================
