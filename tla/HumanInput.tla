----------------------------- MODULE HumanInput -----------------------------
(***************************************************************************)
(* How the browser gamepad and the policy reach the console in             *)
(* nxml-autopilot: the page pushes vectors into WebGamepadReader, the AI   *)
(* thread caches its last action, and the action loop reads both, merges   *)
(* them with the current strategy, posts the result and hands the human's  *)
(* part to the macro recorder.  The web handlers, the AI thread and the    *)
(* loop interleave between the loop's reads.  Values are tenths.           *)
(*                                                                         *)
(* A tick on which a mash or a macro drives the console reads nothing and  *)
(* is a stuttering step here (see Autopilot).                              *)
(***************************************************************************)
EXTENDS Integers, Sequences

CONSTANTS
  Buttons, Sticks,   \* BUTTON_RANGE and STICK_RANGE
  PageVectors,       \* the vectors the page sends
  AiVectors,         \* the actions the policy returns
  Deadzone,          \* stick_deadzone, in tenths
  None               \* no snapshot, no action

Dims == Buttons \cup Sticks

Vectors == [Dims -> Int]
Snapshots == [human : BOOLEAN, action : Vectors, mask : SUBSET Dims]

ASSUME HumanInputAssumption ==
  /\ Buttons \cap Sticks = {}
  /\ PageVectors \subseteq Vectors
  /\ AiVectors \subseteq Vectors
  /\ Deadzone \in Nat \ {0}
  /\ None \notin Vectors \cup Snapshots

INSTANCE Strategies

Modes == {"human-priority", "human-takeover"}

VARIABLES
  \* WebGamepadReader
  action,      \* _action
  latched,     \* _buttons_latched
  age,         \* of _latest_ts: "never" set, "live", or "stale"
  \* the AI source and the runtime switches
  cached,      \* _cached_action
  enabled,     \* CachedAiSource.enabled
  mode,        \* the strategy of the mux
  \* the action loop
  at,          \* where the loop is in its tick
  human, ai,   \* the snapshots of this tick
  posted,      \* the last merged action the orchestrator got
  \* the macro recorder
  recording,   \* "off", "empty" or "taped"
  tape,        \* its last frame
  \* history
  owed,        \* buttons pushed since the loop last got a snapshot
  due,         \* what was owed when this tick's snapshot was taken
  sent,        \* this tick's action has reached the orchestrator
  late         \* AI actions posted since the AI was switched off

reader   == <<action, latched, age>>
runtime  == <<cached, enabled, mode>>
tick     == <<at, human, ai, posted>>
recorder == <<recording, tape>>
history  == <<owed, due, sent, late>>
vars     == <<reader, runtime, tick, recorder, history>>

Pressed(v) == {b \in Buttons : v[b] >= 5}

Max0(a, b) == IF a >= b THEN a ELSE b
Abs(n) == IF n < 0 THEN -n ELSE n

TypeOK ==
  /\ action \in Vectors
  /\ latched \subseteq Buttons
  /\ age \in {"never", "live", "stale"}
  /\ cached \in AiVectors \cup {None}
  /\ enabled \in BOOLEAN
  /\ mode \in Modes
  /\ at \in {"human", "ai", "post", "tape"}
  /\ human \in Snapshots \cup {None}
  /\ ai \in Snapshots \cup {None}
  /\ posted \in Vectors
  /\ recording \in {"off", "empty", "taped"}
  /\ tape \in Vectors \cup {None}
  /\ recording = "taped" <=> tape # None
  /\ owed \subseteq Buttons /\ due \subseteq Buttons
  /\ sent \in BOOLEAN /\ late \in Nat

Init ==
  /\ action = Neutral /\ latched = {} /\ age = "never"
  /\ cached = None /\ enabled = TRUE /\ mode \in Modes
  /\ at = "human" /\ human = None /\ ai = None /\ posted = Neutral
  /\ recording = "off" /\ tape = None
  /\ owed = {} /\ due = {} /\ sent = FALSE /\ late = 0

-----------------------------------------------------------------------------
(* The page: POST /action *)

Clean(v) ==
  [d \in Dims |-> IF d \in Sticks /\ Abs(v[d]) < Deadzone THEN 0 ELSE v[d]]

\* Fault: the latch keeps only the newest vector's presses.
PushActionUnlatched(v) ==
  /\ action' = Clean(v)
  /\ latched' = Pressed(action')
  /\ age' = "live"
  /\ owed' = owed \cup Pressed(action')
  /\ UNCHANGED <<runtime, tick, recorder, due, sent, late>>

\* push_action: a press is latched, the rest is overwritten.
PushAction(v) ==
  /\ action' = Clean(v)
  /\ latched' = latched \cup Pressed(action')
  /\ age' = "live"
  /\ owed' = owed \cup Pressed(action')
  /\ UNCHANGED <<runtime, tick, recorder, due, sent, late>>

\* stale_after_s passes without a push.
GoStale ==
  /\ age = "live"
  /\ age' = "stale"
  /\ UNCHANGED <<action, latched, runtime, tick, recorder, history>>

-----------------------------------------------------------------------------
(* The AI thread and the runtime switches *)

Infer(v) ==
  /\ cached' = v
  /\ UNCHANGED <<reader, enabled, mode, tick, recorder, history>>

SetAiEnabled(on) ==
  /\ enabled' = on
  /\ late' = IF on \/ enabled THEN 0 ELSE late
  /\ UNCHANGED <<reader, cached, mode, tick, recorder, owed, due, sent>>

SetMode(m) ==
  /\ mode' = m
  /\ UNCHANGED <<reader, cached, enabled, tick, recorder, history>>

-----------------------------------------------------------------------------
(* The action loop *)

\* latest(): the newest vector with every latched press in it.
ReaderSnapshot ==
  LET v == [d \in Dims |-> IF d \in latched THEN Max0(action[d], 10) ELSE action[d]]
  IN [human |-> TRUE, action |-> v,
      mask |-> Pressed(v) \cup {s \in Sticks : v[s] # 0}]

\* Fault: staleness is not looked at.
ReadHumanForEver ==
  /\ at = "human"
  /\ at' = "ai"
  /\ latched' = {} /\ owed' = {} /\ due' = owed
  /\ human' = IF age = "never" THEN None ELSE ReaderSnapshot
  /\ UNCHANGED <<action, age, runtime, ai, posted, recorder, sent, late>>

ReadHuman ==
  /\ at = "human"
  /\ at' = "ai"
  /\ IF age = "live"
     THEN /\ human' = ReaderSnapshot
          /\ latched' = {}
          /\ due' = owed
          /\ owed' = {}
     ELSE /\ human' = None
          /\ due' = {}
          /\ UNCHANGED <<latched, owed>>
  /\ UNCHANGED <<action, age, runtime, ai, posted, recorder, sent, late>>

\* Fault: the switch is not looked at.
AiSnapshotAlways ==
  IF cached # None
  THEN [human |-> FALSE, action |-> cached, mask |-> Dims] ELSE None

\* CachedAiSource.latest(): the cached action, however old, for every index.
AiSnapshot ==
  IF enabled /\ cached # None
  THEN [human |-> FALSE, action |-> cached, mask |-> Dims] ELSE None

ReadAi ==
  /\ at = "ai"
  /\ at' = "post"
  /\ ai' = AiSnapshot
  /\ UNCHANGED <<reader, runtime, human, posted, recorder, history>>

Sampled(s) == IF s = None THEN <<>> ELSE <<s>>

\* The snapshots of this tick, the human's first.
Present == Sampled(human) \o Sampled(ai)

Merged == IF mode = "human-takeover" THEN HumanTakeover(Present)
          ELSE HumanPriority(Present)

\* merge and _post_action: a POST that fails is printed, and the tick goes on
\* without it.
Post ==
  /\ at = "post"
  /\ at' = "tape"
  /\ \/ /\ posted' = Merged
        /\ sent' = TRUE
        /\ late' = IF ai # None /\ ~enabled THEN late + 1 ELSE late
     \/ UNCHANGED <<posted, sent, late>>
  /\ UNCHANGED <<reader, runtime, human, ai, recorder, owed, due>>

\* What the human actively did this tick.
Intent ==
  [d \in Dims |-> IF human # None /\ d \in human.mask THEN human.action[d] ELSE 0]

\* MacroRecorder.append: nothing happens unless a recording is active.
Tape ==
  /\ at = "tape"
  /\ at' = "human"
  /\ human' = None /\ ai' = None /\ due' = {} /\ sent' = FALSE
  /\ IF recording = "off"
     THEN UNCHANGED recorder
     ELSE recording' = "taped" /\ tape' = Intent
  /\ UNCHANGED <<reader, runtime, posted, owed, late>>

-----------------------------------------------------------------------------
(* The recorder's handlers *)

RecordStart ==
  /\ recording = "off"
  /\ recording' = "empty"
  /\ tape' = None
  /\ UNCHANGED <<reader, runtime, tick, history>>

\* stop() hands the frames over, cancel() drops them; both forget them.
RecordEnd ==
  /\ recording # "off"
  /\ recording' = "off"
  /\ tape' = None
  /\ UNCHANGED <<reader, runtime, tick, history>>

-----------------------------------------------------------------------------
Tick == ReadHuman \/ ReadAi \/ Post \/ Tape

Next ==
  \/ \E v \in PageVectors : PushAction(v)
  \/ GoStale
  \/ \E v \in AiVectors : Infer(v)
  \/ \E on \in BOOLEAN : SetAiEnabled(on)
  \/ \E m \in Modes : SetMode(m)
  \/ Tick
  \/ RecordStart
  \/ RecordEnd

Spec == Init /\ [][Next]_vars

\* The loop ticks for ever and time passes; nobody has to push or click.
FairSpec == Spec /\ WF_vars(Tick) /\ WF_vars(GoStale)

-----------------------------------------------------------------------------
(* Correctness *)

\* web_gamepad_reader.py: without the latch a brief tap "gets clobbered before
\* the consumer's next read and the press is lost".  Every button pressed in
\* any push since the loop's last snapshot is pressed in the action the tick
\* posts, whatever the AI does and however the mode changes meanwhile.  A tick
\* whose POST fails loses its taps: nothing posts them again.
NoTapLost == at = "tape" /\ sent => due \subseteq Pressed(posted)

\* Neither strategy, nor a switch between them in the middle of a tick, lets
\* the AI change a dimension the human contributes.
HumanNeverOverruled ==
  at = "tape" /\ sent /\ human # None =>
    \A d \in human.mask : posted[d] = human.action[d]

\* Once the AI is switched off only the tick in flight may still post its
\* action.
AiOffPromptly == late <= 1

\* README.md (nxml-autopilot), of recording a macro: it "captures every merged
\* 26-dim action"; recorder.py: append() takes "the action that was just
\* dispatched".
TapeIsMerged ==
  [][at = "tape" /\ at' = "human" /\ recording' = "taped" /\ sent => tape' = posted]_vars

\* web_gamepad_reader.py: after stale_after_s of silence strategies treat the
\* human as absent.  A page that falls silent for good holds no button: as long
\* as POSTs do not all fail, only the AI's own actions, or neutral ones, are
\* with the orchestrator from some tick on.
SilenceReleases ==
  <>[](age # "live") /\ []<>sent => <>[](posted \in AiVectors \cup {Neutral})

=============================================================================
