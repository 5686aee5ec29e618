---------------------------- MODULE MCAutopilot -----------------------------
(***************************************************************************)
(* Instances of Autopilot: one trigger bound to a macro of two frames and  *)
(* one mash_a trigger.                                                     *)
(***************************************************************************)
EXTENDS Autopilot
CONSTANTS walk, menu, dialog, t1, t2, a1, a2

MCMacros == {walk}
MCDelays == [m \in MCMacros |-> <<FALSE, TRUE>>]
MCOneFrame == [m \in MCMacros |-> <<TRUE>>]
MCTriggers == {menu, dialog}
MCMenuOnly == {menu}

MCMacro == [n \in Triggers |-> IF n = menu THEN walk ELSE None]
MCLoops == [n \in Triggers |-> FALSE]

AnyScreen  == SUBSET Triggers
MenuScreen == {s \in AnyScreen : menu \in s}

Objects == Permutations({t1, t2}) \cup Permutations({a1, a2})
=============================================================================
