---------------------------- MODULE MacroPlayer ----------------------------
(***************************************************************************)
(* MacroPlayer (nx-macros): plays a recorded macro frame by frame from a   *)
(* daemon thread, posting every frame to the orchestrator.  One stop event *)
(* serves all playbacks; play_async clears it, stop() sets it and joins    *)
(* the thread for at most two seconds.  Sections under the player's lock   *)
(* do not block and are single steps.                                      *)
(***************************************************************************)
EXTENDS Naturals, Sequences

CONSTANTS
  Callers,     \* threads that call play or play_async, and stop
  Blocking,    \* the callers that use play rather than play_async
  Threads,     \* playback threads; a finished one is reused (bound)
  Macros,
  Delays,      \* per macro: for each frame, is its dt positive?
  SlowPoster,  \* may one post outlast the join timeout of stop()?
  None         \* no thread, no macro

ASSUME PlayerAssumption ==
  /\ Blocking \subseteq Callers
  /\ Delays \in [Macros -> Seq(BOOLEAN)]
  /\ SlowPoster \in BOOLEAN
  /\ None \notin Threads \cup Macros

VARIABLES
  stopEv,   \* _stop
  current,  \* _thread
  playing,  \* _playing_name
  at,       \* where each playback thread is in _run
  macro,    \* the macro it plays
  loops,    \* loop=True
  frame,    \* index of the frame it is at
  call,     \* where each caller is inside stop() or play()
  target    \* the thread it waits for

threads == <<at, macro, loops, frame>>
shared  == <<stopEv, current, playing>>
callers == <<call, target>>
playerVars == <<shared, threads, callers>>

Frames(m) == 1..Len(Delays[m])

Running == {"top", "frame", "post"}

\* A playback indexes only frames its macro has.
FramesInRange ==
  \A t \in Threads :
    at[t] \in {"frame", "post"} => frame[t] \in Frames(macro[t])

PlayerTypes ==
  /\ stopEv \in BOOLEAN
  /\ current \in Threads \cup {None}
  /\ playing \in Macros \cup {None}
  /\ at \in [Threads -> Running \cup {"off", "end"}]
  /\ macro \in [Threads -> Macros \cup {None}]
  /\ loops \in [Threads -> BOOLEAN]
  /\ frame \in [Threads -> Nat]
  /\ call \in [Callers -> {"idle", "stopping", "joining", "forgetting", "playing"}]
  /\ target \in [Callers -> Threads \cup {None}]

PlayerTypeOK == PlayerTypes /\ FramesInRange

PlayerInit ==
  /\ stopEv = FALSE
  /\ current = None
  /\ playing = None
  /\ at = [t \in Threads |-> "off"]
  /\ macro = [t \in Threads |-> None]
  /\ loops = [t \in Threads |-> FALSE]
  /\ frame = [t \in Threads |-> 0]
  /\ call = [c \in Callers |-> "idle"]
  /\ target = [c \in Callers |-> None]

-----------------------------------------------------------------------------
\* Thread.is_alive()
Alive(t) == at[t] # "off"

\* is_playing
IsPlaying == current # None /\ Alive(current)

\* A thread object nobody waits for: it may stand for a new one.
Unused(t) == ~Alive(t) /\ \A c \in Callers : target[c] # t

\* _run starts at the loop test, or returns at once for an empty macro.
Begin(t, m, loop) ==
  /\ Unused(t)
  /\ at' = [at EXCEPT ![t] = IF Frames(m) = {} THEN "end" ELSE "top"]
  /\ macro' = [macro EXCEPT ![t] = m]
  /\ loops' = [loops EXCEPT ![t] = loop]
  /\ UNCHANGED frame

\* Fault: a running playback is not looked for.
PlayAsyncUnguarded(c, m, loop) ==
  /\ call[c] = "idle"
  /\ stopEv' = FALSE
  /\ playing' = m
  /\ \E t \in Threads : current' = t /\ Begin(t, m, loop)
  /\ UNCHANGED callers

\* play_async: refused while _thread is alive.
PlayAsync(c, m, loop) ==
  /\ call[c] = "idle"
  /\ ~IsPlaying
  /\ stopEv' = FALSE
  /\ playing' = m
  /\ \E t \in Threads : current' = t /\ Begin(t, m, loop)
  /\ UNCHANGED callers

\* play: the caller itself runs the frames, with no check and no _thread.
Play(c, m, loop) ==
  /\ call[c] = "idle"
  /\ stopEv' = FALSE
  /\ playing' = m
  /\ call' = [call EXCEPT ![c] = "playing"]
  /\ \E t \in Threads \ {current} :
       /\ Begin(t, m, loop)
       /\ target' = [target EXCEPT ![c] = t]
  /\ UNCHANGED current

PlayReturns(c) ==
  /\ call[c] = "playing"
  /\ ~Alive(target[c])
  /\ call' = [call EXCEPT ![c] = "idle"]
  /\ target' = [target EXCEPT ![c] = None]
  /\ UNCHANGED <<shared, threads>>

-----------------------------------------------------------------------------
(* stop() *)

StopSet(c) ==
  /\ call[c] = "idle"
  /\ stopEv' = TRUE
  /\ call' = [call EXCEPT ![c] = "stopping"]
  /\ UNCHANGED <<current, playing, threads, target>>

StopRead(c) ==
  /\ call[c] = "stopping"
  /\ call' = [call EXCEPT ![c] = IF current = None THEN "forgetting" ELSE "joining"]
  /\ target' = [target EXCEPT ![c] = current]
  /\ UNCHANGED <<shared, threads>>

StopWaiting(c) ==
  /\ call[c] = "joining"
  /\ call' = [call EXCEPT ![c] = "forgetting"]
  /\ target' = [target EXCEPT ![c] = None]
  /\ UNCHANGED <<shared, threads>>

Joined(c) == StopWaiting(c) /\ ~Alive(target[c])

\* Fault: join() without a timeout.
JoinForEver(c) == StopWaiting(c) /\ FALSE

\* join(timeout=2.0) gives up.  A thread that sees the event set and posts
\* promptly is gone before that.
JoinTimeout(c) == StopWaiting(c) /\ Alive(target[c]) /\ (SlowPoster \/ ~stopEv)

StopForget(c) ==
  /\ call[c] = "forgetting"
  /\ current' = None
  /\ playing' = None
  /\ call' = [call EXCEPT ![c] = "idle"]
  /\ UNCHANGED <<stopEv, threads, target>>

-----------------------------------------------------------------------------
(* _run and _run_async *)

\* while not self._stop.is_set()
LoopTest(t) ==
  /\ at[t] = "top"
  /\ at' = [at EXCEPT ![t] = IF stopEv THEN "end" ELSE "frame"]
  /\ frame' = [frame EXCEPT ![t] = 1]
  /\ UNCHANGED <<shared, macro, loops, callers>>

\* The wait before a frame: only a positive dt looks at the stop event.
AwaitFrame(t) ==
  /\ at[t] = "frame"
  /\ at' = [at EXCEPT ![t] =
              IF Delays[macro[t]][frame[t]] /\ stopEv THEN "end" ELSE "post"]
  /\ UNCHANGED <<shared, macro, loops, frame, callers>>

\* poster(action) returns, or its exception is swallowed.
Posted(t) ==
  /\ at[t] = "post"
  /\ IF frame[t] + 1 \in Frames(macro[t])
     THEN /\ at' = [at EXCEPT ![t] = "frame"]
          /\ frame' = [frame EXCEPT ![t] = @ + 1]
     ELSE /\ at' = [at EXCEPT ![t] = IF loops[t] THEN "top" ELSE "end"]
          /\ UNCHANGED frame
  /\ UNCHANGED <<shared, macro, loops, callers>>

\* finally: the shared name is cleared, the thread ends.
Finish(t) ==
  /\ at[t] = "end"
  /\ playing' = None
  /\ at' = [at EXCEPT ![t] = "off"]
  /\ macro' = [macro EXCEPT ![t] = None]
  /\ loops' = [loops EXCEPT ![t] = FALSE]
  /\ frame' = [frame EXCEPT ![t] = 0]
  /\ UNCHANGED <<stopEv, current, callers>>

-----------------------------------------------------------------------------
PlayCall(c) ==
  \E m \in Macros, loop \in BOOLEAN :
    IF c \in Blocking THEN Play(c, m, loop) ELSE PlayAsync(c, m, loop)

StopStep(c) == StopRead(c) \/ Joined(c) \/ JoinTimeout(c) \/ StopForget(c)

ThreadStep(t) == LoopTest(t) \/ AwaitFrame(t) \/ Posted(t) \/ Finish(t)

PlayerNext ==
  \/ \E c \in Callers : PlayCall(c) \/ PlayReturns(c) \/ StopSet(c) \/ StopStep(c)
  \/ \E t \in Threads : ThreadStep(t)

PlayerSpec == PlayerInit /\ [][PlayerNext]_playerVars

-----------------------------------------------------------------------------
(* Correctness *)

\* player.py, play_async: "Raises if a previous playback is still running",
\* so two playbacks never post to the Switch at the same time (with one
\* caller, and posts shorter than the join timeout).
OnePlayback == \A s, t \in Threads : Alive(s) /\ Alive(t) => s = t

\* The name reported by playing_info is that of the macro a running thread
\* plays: no other thread's end wipes it, and no stop() that gave up.
NameTracksPlayback ==
  \A t \in Threads : at[t] \in Running => playing = macro[t]
=============================================================================
