----------------------------- MODULE MCTraining -----------------------------
(* The instance of Training for TLC: eight reward configurations, two seed  *)
(* scenes (one too short for a whole rollout), two ranks, an nxwm-mira run  *)
(* of eight steps with one permanent checkpoint.                            *)
EXTENDS Training

MCMixes ==
  {{"target_ui", "locked_attack", "verified"}, {"target_ui", "locked_attack"},
   {"target_ui", "unique"}, {"target_ui", "unique_press"},
   {"stuck_forward"}, {"target_ui", "stuck_stagnation"},
   {"progress", "escape", "sliding", "unstuck", "png"}, {"escape", "unchecked"}}

MCSeeds == {[frames |-> 12, start |-> 4], [frames |-> 4, start |-> 1]}

\* A scene at the start of the episode, two inside, one beyond its end.
MCSeedFrames == <<0, 2, 5, 11>>

MCCfg ==
  [minHits |-> 2, window |-> 1, stuckFrames |-> 1, turnFrames |-> 2,
   sweepTimeout |-> 2, minUnlocked |-> 1, grace |-> 1, initialWindow |-> 2,
   initialPercent |-> 15, attackWindow |-> 3, minAttacks |-> 2, startFrame |-> 4]
=============================================================================
