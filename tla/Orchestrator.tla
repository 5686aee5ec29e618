---------------------------- MODULE Orchestrator ----------------------------
(***************************************************************************)
(* nxbt-orchestrator: one controller state, written by HTTP handlers and   *)
(* sent to the console by an update thread, which also tapes it and hands  *)
(* it to the subscribers of the state stream.  Handlers, stream consumers  *)
(* and the callbacks of call_soon_threadsafe share one event loop, so they *)
(* do not overlap each other; all of them interleave with the thread.      *)
(***************************************************************************)
EXTENDS Naturals, Sequences, SequencesExt

CONSTANTS
  Buttons,       \* values of the button part of the state
  Sticks,        \* values of the stick part
  Neutral,       \* the state of an untouched controller
  PartSources,   \* sources used with /buttons and /stick
  Clients,       \* WebSocket clients of the state stream, each used once
  QueueSize,     \* StateStream(queue_size)
  Paths,         \* recording output paths
  MaxFrames,     \* bound: frames the update thread builds
  None

States  == [b : Buttons, s : Sticks]
Parts   == {"b", "s"}
Sources == {"human", "inference"}

ASSUME OrchestratorAssumption ==
  /\ Neutral \in States
  /\ PartSources \subseteq Sources
  /\ QueueSize \in Nat \ {0}
  /\ MaxFrames \in Nat
  /\ None \notin Buttons \cup Sticks

VARIABLES
  state,     \* _controller_state
  window,    \* is the last human input younger than override_window?
  held,      \* history: what the human set in this window, per part
  active,    \* _recording_active
  tape,      \* _packet_history
  files,     \* what was written to each path
  path,      \* _recording_output_path
  taken,     \* history: frames built since this recording became active
  loop,      \* where the update thread is
  snap,      \* the frame it is working on: frames are numbered
  taping,    \* the _recording_active it has read under the lock
  console,   \* number of the frame the console got last
  todo,      \* its copy of the subscriber list
  link,      \* each client's connection
  pending,   \* callbacks scheduled by call_soon_threadsafe
  queue,     \* each subscription's asyncio.Queue
  newest,    \* history: the newest frame handed to the subscription
  got,       \* the newest frame the client received
  busy,      \* what occupies the event loop
  main       \* lifecycle of the controller

control   == <<state, window, held>>
recording == <<active, tape, files, path, taken>>
thread    == <<loop, snap, taping, console, todo>>
stream    == <<link, pending, queue, newest, got>>
vars == <<control, recording, thread, stream, busy, main>>

Frames == 1..MaxFrames
Subscribed(c) == link[c] \in {"open", "gone"}

ControlOK ==
  /\ state \in States /\ window \in BOOLEAN
  /\ held \in [Parts -> Buttons \cup Sticks \cup {None}]

RecordingOK ==
  /\ active \in BOOLEAN
  /\ tape \in Seq(Frames) /\ taken \in Seq(Frames)
  /\ files \in [Paths -> Seq(Frames)] /\ path \in Paths

ThreadOK ==
  /\ loop \in {"top", "locked", "send", "notify", "ended"}
  /\ snap \in 0..MaxFrames /\ console \in 0..MaxFrames
  /\ loop \in {"locked", "send", "notify"} => snap \in Frames
  /\ taping \in BOOLEAN /\ todo \subseteq Clients

StreamOK ==
  /\ link \in [Clients -> {"new", "open", "gone", "closed"}]
  /\ pending \in [Clients -> Seq(Frames)]
  /\ queue \in [Clients -> Seq(Frames)]
  /\ \A c \in Clients : Len(queue[c]) <= QueueSize
  /\ newest \in [Clients -> 0..MaxFrames] /\ got \in [Clients -> 0..MaxFrames]

TypeOK ==
  /\ ControlOK /\ RecordingOK /\ ThreadOK /\ StreamOK
  /\ busy \in {"idle", "saving", "clearing", "starting", "macro"}
  /\ main \in {"serving", "saving", "joining", "removed"}

Init ==
  /\ state = Neutral /\ window = FALSE /\ held = [p \in Parts |-> None]
  /\ active = FALSE /\ tape = <<>> /\ taken = <<>>
  /\ files = [p \in Paths |-> <<>>] /\ path \in Paths
  /\ loop = "top" /\ snap = 0 /\ taping = FALSE /\ console = 0 /\ todo = {}
  /\ link = [c \in Clients |-> "new"]
  /\ pending = [c \in Clients |-> <<>>] /\ queue = [c \in Clients |-> <<>>]
  /\ newest = [c \in Clients |-> 0] /\ got = [c \in Clients |-> 0]
  /\ busy = "idle" /\ main = "serving"

-----------------------------------------------------------------------------
(* HTTP handlers.  One that writes the state needs the lock, which the      *)
(* thread holds while it copies and tapes.                                  *)

Handler == busy = "idle" /\ main = "serving"

\* The parts in `parts` of the state become those of new; a human opens the
\* window before the lock is taken.
Write(parts, new, source) ==
  /\ loop # "locked"
  /\ state' = [p \in Parts |-> IF p \in parts THEN new[p] ELSE state[p]]
  /\ window' = (window \/ source = "human")
  /\ held' = IF source = "human"
             THEN [p \in Parts |-> IF p \in parts THEN new[p] ELSE held[p]]
             ELSE held
  /\ UNCHANGED <<recording, thread, stream, busy, main>>

\* Fault: the override window is not looked at.
ApplyPacketUngated(new, source) == Handler /\ Write(Parts, new, source)

\* POST /action: inference is refused inside the window.
ApplyPacket(new, source) ==
  /\ Handler
  /\ ~(source = "inference" /\ window)
  /\ Write(Parts, new, source)

ApplyButtonSet(new, source) == Handler /\ Write({"b"}, new, source)

ApplyStick(new, source) == Handler /\ Write({"s"}, new, source)

\* The override window runs out.
WindowCloses ==
  /\ window
  /\ window' = FALSE
  /\ held' = [p \in Parts |-> None]
  /\ UNCHANGED <<state, recording, thread, stream, busy, main>>

\* POST /macro with block=True occupies the event loop until nxbt is done.
FireMacro ==
  /\ Handler
  /\ busy' = "macro"
  /\ UNCHANGED <<control, recording, thread, stream, main>>

MacroReturns ==
  /\ busy = "macro"
  /\ busy' = "idle"
  /\ UNCHANGED <<control, recording, thread, stream, main>>

SetRecordingPath(p) ==
  /\ Handler
  /\ path' = p
  /\ UNCHANGED <<control, active, tape, files, taken, thread, stream, busy, main>>

-----------------------------------------------------------------------------
(* toggle_recording, without the lock *)

\* Fault: recording is switched on before the old frames are dropped.
StartRecordingThenClear ==
  /\ Handler /\ ~active
  /\ active' = TRUE /\ taken' = <<>>
  /\ busy' = "clearing"
  /\ UNCHANGED <<control, tape, files, path, thread, stream, main>>

StartRecording ==
  /\ Handler /\ ~active
  /\ tape' = <<>>
  /\ busy' = "starting"
  /\ UNCHANGED <<control, active, files, path, taken, thread, stream, main>>

RecordingStarts ==
  /\ busy = "starting"
  /\ active' = TRUE
  /\ taken' = <<>>
  /\ busy' = "idle"
  /\ UNCHANGED <<control, tape, files, path, thread, stream, main>>

StopRecording ==
  /\ Handler /\ active
  /\ active' = FALSE
  /\ busy' = "saving"
  /\ UNCHANGED <<control, tape, files, path, taken, thread, stream, main>>

\* An empty recording writes no file.
SaveRecording ==
  files' = IF tape = <<>> THEN files ELSE [files EXCEPT ![path] = tape]

RecordingSaved ==
  /\ busy = "saving"
  /\ SaveRecording
  /\ busy' = "clearing"
  /\ UNCHANGED <<control, active, tape, path, taken, thread, stream, main>>

RecordingCleared ==
  /\ busy = "clearing"
  /\ tape' = <<>>
  /\ busy' = "idle"
  /\ UNCHANGED <<control, active, files, path, taken, thread, stream, main>>

-----------------------------------------------------------------------------
(* _continuous_update_loop *)

Running == main = "serving"

\* Copies the state under the lock and reads _recording_active.
LoopBuild ==
  /\ loop = "top" /\ Running
  /\ snap < MaxFrames
  /\ snap' = snap + 1
  /\ taping' = active
  /\ taken' = IF active THEN Append(taken, snap') ELSE taken
  /\ loop' = "locked"
  /\ UNCHANGED <<control, active, tape, files, path, console, todo, stream, busy, main>>

LoopTape ==
  /\ loop = "locked"
  /\ tape' = IF taping THEN Append(tape, snap) ELSE tape
  /\ loop' = "send"
  /\ UNCHANGED <<control, active, files, path, taken, snap, taping, console, todo, stream, busy, main>>

LoopSend ==
  /\ loop = "send"
  /\ console' = snap
  /\ todo' = {c \in Clients : Subscribed(c)}
  /\ loop' = "notify"
  /\ UNCHANGED <<control, recording, snap, taping, stream, busy, main>>

\* One callback: the frame is copied and scheduled on the event loop.
LoopNotify(c) ==
  /\ loop = "notify" /\ c \in todo
  /\ todo' = todo \ {c}
  /\ IF Subscribed(c)
     THEN /\ pending' = [pending EXCEPT ![c] = Append(@, snap)]
          /\ newest' = [newest EXCEPT ![c] = snap]
     ELSE UNCHANGED <<pending, newest>>  \* nobody reads that queue any more
  /\ UNCHANGED <<control, recording, loop, snap, taping, console, link, queue, got, busy, main>>

LoopSleep ==
  /\ loop = "notify" /\ todo = {}
  /\ loop' = "top"
  /\ UNCHANGED <<control, recording, snap, taping, console, todo, stream, busy, main>>

LoopEnds ==
  /\ loop = "top" /\ ~Running
  /\ loop' = "ended"
  /\ UNCHANGED <<control, recording, snap, taping, console, todo, stream, busy, main>>

-----------------------------------------------------------------------------
(* The state stream *)

Subscribe(c) ==
  /\ Handler /\ link[c] = "new"
  /\ link' = [link EXCEPT ![c] = "open"]
  /\ UNCHANGED <<control, recording, thread, pending, queue, newest, got, busy, main>>

Disconnect(c) ==
  /\ link[c] = "open"
  /\ link' = [link EXCEPT ![c] = "gone"]
  /\ UNCHANGED <<control, recording, thread, pending, queue, newest, got, busy, main>>

\* Fault: a full queue refuses the new frame.
PushedKeepsOld(q, n) == IF Len(q) = QueueSize THEN q ELSE Append(q, n)

\* A full queue loses its oldest frame.
Pushed(q, n) == Append(IF Len(q) = QueueSize THEN Tail(q) ELSE q, n)

\* Fault: the latest callback runs first.
EnqueueLatest(c) ==
  /\ Handler /\ pending[c] # <<>>
  /\ queue' = [queue EXCEPT ![c] = Pushed(@, Last(pending[c]))]
  /\ pending' = [pending EXCEPT ![c] = Front(@)]
  /\ UNCHANGED <<control, recording, thread, link, newest, got, busy, main>>

Enqueue(c) ==
  /\ Handler /\ pending[c] # <<>>
  /\ queue' = [queue EXCEPT ![c] = Pushed(@, Head(pending[c]))]
  /\ pending' = [pending EXCEPT ![c] = Tail(@)]
  /\ UNCHANGED <<control, recording, thread, link, newest, got, busy, main>>

Deliver(c) ==
  /\ Handler /\ link[c] = "open" /\ queue[c] # <<>>
  /\ got' = [got EXCEPT ![c] = Head(queue[c])]
  /\ queue' = [queue EXCEPT ![c] = Tail(@)]
  /\ UNCHANGED <<control, recording, thread, link, pending, newest, busy, main>>

\* The subscriptions of these clients are dropped, with what is in them.
Drop(cs) ==
  /\ link' = [c \in Clients |-> IF c \in cs THEN "closed" ELSE link[c]]
  /\ pending' = [c \in Clients |-> IF c \in cs THEN <<>> ELSE pending[c]]
  /\ queue' = [c \in Clients |-> IF c \in cs THEN <<>> ELSE queue[c]]
  /\ newest' = [c \in Clients |-> IF c \in cs THEN 0 ELSE newest[c]]
  /\ got' = [c \in Clients |-> IF c \in cs THEN 0 ELSE got[c]]

\* The handler learns of a disconnect when it sends, and unsubscribes.
SendFails(c) ==
  /\ Handler /\ link[c] = "gone" /\ queue[c] # <<>>
  /\ Drop({c})
  /\ UNCHANGED <<control, recording, thread, busy, main>>

-----------------------------------------------------------------------------
(* stop() *)

\* The web server has closed the WebSockets by then, and stop() occupies the
\* event loop until the process ends.
StopRunning ==
  /\ Handler
  /\ main' = IF active THEN "saving" ELSE "joining"
  /\ Drop({c \in Clients : Subscribed(c)})
  /\ UNCHANGED <<control, recording, thread, busy>>

StopSaves ==
  /\ main = "saving"
  /\ SaveRecording
  /\ main' = "joining"
  /\ UNCHANGED <<control, active, tape, path, taken, thread, stream, busy>>

\* The join gives up after two seconds, which only a blocked send outlasts.
RemoveController ==
  /\ main = "joining"
  /\ loop \in {"ended", "send"}
  /\ main' = "removed"
  /\ UNCHANGED <<control, recording, thread, stream, busy>>

\* The process is gone; the thread is a daemon.
Exited ==
  /\ main = "removed" /\ loop = "ended"
  /\ UNCHANGED vars

Loop ==
  \/ LoopBuild \/ LoopTape \/ LoopSend \/ LoopSleep \/ LoopEnds
  \/ \E c \in Clients : LoopNotify(c)

EventLoop ==
  \/ RecordingStarts \/ RecordingSaved \/ RecordingCleared \/ MacroReturns
  \/ StopSaves \/ RemoveController
  \/ \E c \in Clients : Enqueue(c) \/ Deliver(c) \/ SendFails(c)

Next ==
  \/ \E src \in Sources, new \in States : ApplyPacket(new, src)
  \/ \E src \in PartSources, new \in States :
       ApplyButtonSet(new, src) \/ ApplyStick(new, src)
  \/ WindowCloses \/ FireMacro \/ \E p \in Paths : SetRecordingPath(p)
  \/ StartRecording \/ StopRecording \/ StopRunning
  \/ \E c \in Clients : Subscribe(c) \/ Disconnect(c)
  \/ Loop \/ EventLoop \/ Exited

Spec == Init /\ [][Next]_vars

\* The thread runs, and the event loop serves every client in turn.
Fairness ==
  /\ WF_vars(Loop)
  /\ WF_vars(MacroReturns)
  /\ WF_vars(RecordingStarts \/ RecordingSaved \/ RecordingCleared)
  /\ WF_vars(StopSaves \/ RemoveController)
  /\ \A c \in Clients : SF_vars(Enqueue(c)) /\ SF_vars(Deliver(c) \/ SendFails(c))

FairSpec == Spec /\ Fairness

-----------------------------------------------------------------------------
(* Correctness *)

\* README.md: inference is ignored after any human input.  Until the window
\* closes, every part of the state a human set keeps the human's value.
HumanHolds ==
  window => \A p \in Parts : held[p] # None => state[p] = held[p]

\* Toggling and taping are not synchronised.  Still a recording is saved with
\* every frame built while it was on, in order, except that it may miss the
\* last one and begin with one that was being taped when recording was
\* switched off and on again.
SavedFaithfully ==
  [][\A p \in Paths : files'[p] # files[p] =>
       \E k \in 0..1 :
         LET saved == SubSeq(files'[p], k + 1, Len(files'[p]))
         IN saved = taken \/ (taken # <<>> /\ saved = Front(taken))]_vars

InTransit(c) == queue[c] \o pending[c]

\* Nobody receives a frame older than the one before it.
StreamInOrder ==
  \A c \in Clients :
    LET s == <<got[c]>> \o InTransit(c)
    IN \A i, j \in DOMAIN s : i < j => s[i] < s[j]

\* A client that stays connected while the server runs sees every frame, or a newer one.
ClientsKeepUp ==
  \A c \in Clients, n \in Frames :
    (newest[c] = n) ~> (got[c] >= n \/ link[c] # "open")
=============================================================================
