---------------------------- MODULE MCHumanInput ----------------------------
(* Instance of DeviceInput: two buttons and a stick; the page rests (with a *)
(* little drift) or taps A with the stick; the policy does what neither of  *)
(* these does, B included. Of three mapper files one extends another under  *)
(* its id and makes a trigger of one of its sticks; the pads have a key and *)
(* a trigger, or a hat and a control nobody maps.                           *)
EXTENDS DeviceInput, TLC
CONSTANTS A, B, X
MCButtons == {A, B}
MCSticks == {X}
MCPageVectors == {(A :> 0) @@ (B :> 1) @@ (X :> 1),
                  (A :> 10) @@ (B :> 0) @@ (X :> -10)}
MCAiVectors == {(A :> 3) @@ (B :> 9) @@ (X :> 5)}
MCPadAi == MCAiVectors
MCDeadzone == 2

StickX == [kind |-> "stick", target |-> X, deadzone |-> 3, invert |-> TRUE]
TriggerB == [kind |-> "trigger", target |-> B, threshold |-> 3, invert |-> FALSE]
HatAB == [kind |-> "hat_pair", targets |-> <<A, B>>]

BaseFile == [stem |-> "base", id |-> "base", parent |-> None, matches |-> {"Pad"},
             buttons |-> "SOUTH" :> A,
             axes |-> ("ABS_X" :> StickX) @@ ("ABS_Z" :> StickX)]
HatFile == [stem |-> "hat", id |-> None, parent |-> None, matches |-> {"Hat"},
            buttons |-> "SOUTH" :> A, axes |-> "ABS_HAT" :> HatAB]
ChildFile == [stem |-> "child", id |-> None, parent |-> BaseFile, matches |-> None,
              buttons |-> "EAST" :> B, axes |-> "ABS_Z" :> TriggerB]
MCFiles == <<BaseFile, ChildFile, HatFile>>

MCListing ==
  <<[name |-> "Keyboard", opens |-> TRUE, info |-> <<>>, moves |-> "ESC" :> {0, 1}],
    [name |-> "Pad", opens |-> FALSE, info |-> <<>>, moves |-> "SOUTH" :> {0, 1}],
    [name |-> "Pad", opens |-> TRUE,
     info |-> ("ABS_X" :> <<-4, 4>>) @@ ("ABS_Z" :> <<0, 4>>),
     moves |-> ("SOUTH" :> {0, 1}) @@ ("ABS_Z" :> {0, 2})],
    [name |-> "Hat", opens |-> TRUE, info |-> <<>>,
     moves |-> ("ABS_HAT" :> {-1, 0, 1}) @@ ("MISC" :> {0, 1})]>>
=============================================================================
