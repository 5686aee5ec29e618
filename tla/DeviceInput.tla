----------------------------- MODULE DeviceInput -----------------------------
(***************************************************************************)
(* The action loop of nxml-autopilot with the human source the command     *)
(* line chose: the page of HumanInput or the gamepad of Devices. The mux   *)
(* polls it the same way, and nxbt-orchestrator turns what is posted into  *)
(* a packet.                                                               *)
(***************************************************************************)
EXTENDS HumanInput

CONSTANTS
  Sources,   \* of {"web", "evdev"}
  PadAi,     \* bound: what the policy returns while a gamepad is used
  Files, Listing, QueueSize   \* of Devices

VARIABLES
  source,    \* config.input_source
  device, mapper, controls, events, known, stamped, thread, plugged, heard

INSTANCE Devices

ASSUME DeviceInputAssumption ==
  /\ Sources \subseteq {"web", "evdev"} /\ PadAi \subseteq AiVectors
  /\ QueueSize \in Nat \ {0}
  /\ DevicesOK

padVars == <<device, mapper, controls, events, known, stamped, thread, plugged, heard>>
inputVars == <<source, vars, padVars>>

InputInit ==
  /\ source \in Sources
  /\ Init
  /\ IF source = "evdev" THEN DevicesInit
     ELSE /\ device = 1 /\ mapper = None /\ controls = <<>> /\ events = <<>>
          /\ known = Untouched /\ stamped = FALSE /\ thread = "none"
          /\ plugged = FALSE /\ heard = {}

\* mux.tick() polls the gamepad: no latch, and no age either.
ReadPad ==
  /\ at = "human" /\ thread # "none"
  /\ at' = "ai"
  /\ human' = PadSnapshot
  /\ due' = {}
  /\ UNCHANGED <<reader, runtime, ai, posted, recorder, owed, sent, late>>

PadTick == ReadPad \/ ReadAi \/ Post \/ Tape

\* The recorder and the AI switch are left to the page's runs.
PadLoop ==
  /\ source = "evdev"
  /\ PadTick \/ \E v \in PadAi : Infer(v)
  /\ UNCHANGED <<source, padVars>>

PadMoves ==
  /\ source = "evdev"
  /\ \/ StartReader \/ ReadEvent \/ Unplug
     \/ \E c \in DOMAIN controls : \E p \in Listing[device].moves[c] : MoveControl(c, p)
  /\ UNCHANGED <<source, vars>>

WebLoop == source = "web" /\ Next /\ UNCHANGED <<source, padVars>>

InputNext == WebLoop \/ PadLoop \/ PadMoves

InputSpec == InputInit /\ [][InputNext]_inputVars

\* The loop ticks for ever and time passes on the page.
InputFairSpec ==
  /\ InputSpec
  /\ WF_inputVars(source = "web" /\ Tick /\ UNCHANGED <<source, padVars>>)
  /\ WF_inputVars(source = "web" /\ GoStale /\ UNCHANGED <<source, padVars>>)

-----------------------------------------------------------------------------

\* packet_to_action and action_to_packet: a button is down above the
\* threshold, a stick is a whole number of hundredths.
ActionToPacket(v) ==
  [down |-> {b \in Buttons : v[b] > 5}, sticks |-> [s \in Sticks |-> v[s] * 10]]

PacketToAction(packet) ==
  [d \in Dims |-> IF d \in Sticks THEN packet.sticks[d] \div 10
                  ELSE IF d \in packet.down THEN 10 ELSE 0]

\* Once the events of a gamepad that is still there are handled, what the
\* reader holds for a control is where the control stands, however the player
\* moved it and the others meanwhile. That is not so of a control whose newest
\* event an overflow of the kernel's queue has dropped: a lost release keeps a
\* button pressed until the button moves again, when it is heard as before. Nor
\* is it of one that has not moved since the reader began. A target two controls
\* share is the last one's (evdev_reader.py:138).
PadMirrored ==
  source = "evdev" /\ events = <<>> /\ plugged =>
    \A c \in heard :
      \A d \in Targets(c) :
        (\A e \in DOMAIN controls \ {c} : d \notin Targets(e)) =>
          known[d] = Handled(Untouched, [code |-> c, value |-> controls[c]])[d]

\* What the human holds is in the packet of the tick, read back alike.
HeldIsSent ==
  source = "evdev" /\ at = "tape" /\ sent /\ human # None =>
    \A d \in human.mask :
      PacketToAction(ActionToPacket(posted))[d] = human.action[d]

PadReachesConsole == PadMirrored /\ HeldIsSent

\* SilenceReleases is about the page: a gamepad is never stale.
PageSilenceReleases ==
  source = "web" => SilenceReleases
=============================================================================
