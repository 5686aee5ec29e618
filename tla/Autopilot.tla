----------------------------- MODULE Autopilot ------------------------------
(***************************************************************************)
(* Who drives the console in nxml-autopilot.  Four threads share it: the   *)
(* action loop posts merged or mash actions, the trigger watcher starts a  *)
(* mash or a macro when an armed trigger matches the screen, the macro's   *)
(* playback thread (MacroPlayer) posts its frames, and the web handlers    *)
(* arm, disarm, play and stop.  The mash controller has no lock.  At the   *)
(* end the main thread stops the watcher, then the player.                 *)
(***************************************************************************)
EXTENDS MacroPlayer, SequencesExt

CONSTANTS
  Web, Watcher, Main,  \* the callers of the player
  Triggers,            \* names of the trigger specs on disk
  Macro,               \* per trigger: its macro, None for a mash_a trigger
  Loops,               \* per trigger: does its macro loop?
  Entries,             \* _ArmedTrigger objects; a dropped one is reused (bound)
  Screens,             \* what a frame may show: sets of triggers
  Buttons              \* which of the page's other buttons are used

ASSUME AutopilotAssumption ==
  /\ Callers = {Web, Watcher, Main}
  /\ Blocking = {}
  /\ Macro \in [Triggers -> Macros \cup {None}]
  /\ Loops \in [Triggers -> BOOLEAN]
  /\ None \notin Entries
  /\ Screens \subseteq SUBSET Triggers
  /\ Buttons \subseteq {"play", "stop", "files"}

VARIABLES
  \* MashController
  active,    \* _active
  over,      \* has the window's deadline passed?
  \* the action loop, and the shutdown after it
  loop,      \* where the main thread is
  quit,      \* _stop_flag
  \* TriggerWatcher
  armed,     \* _armed, in insertion order: [name, entry]
  watch,     \* where the watcher thread is
  wstop,     \* its _stop
  pass,      \* armed_snapshot
  firing,    \* the armed trigger being fired
  held,      \* per entry: match_started_at is set
  cooling,   \* per entry: cooldown_until lies ahead
  store,     \* macro files
  \* history
  mixed,     \* merged actions posted since the last playback began: 0, 1, 2 for more
  wanted,    \* the triggers last armed rather than disarmed
  strays     \* per trigger: fires while it is not wanted

mash    == <<active, over>>
main    == <<loop, quit>>
clocks  == <<held, cooling>>
watcher == <<watch, wstop, pass, firing, clocks>>
history == <<mixed, wanted, strays>>
vars    == <<playerVars, mash, main, armed, watcher, store, history>>

Pairs == [name : Triggers, entry : Entries]

TypeOK ==
  /\ PlayerTypeOK
  /\ active \in BOOLEAN /\ over \in BOOLEAN
  /\ loop \in {"mash", "clear", "reread", "gate", "merged",
               "joining watcher", "stopping player", "stopping web", "done"}
  /\ quit \in BOOLEAN
  /\ armed \in Seq(Pairs) /\ pass \in Seq(Pairs)
  /\ \A i, j \in DOMAIN armed : armed[i].name = armed[j].name => i = j
  /\ watch \in {"top", "gates", "frame", "fire", "missing", "play", "cool", "dead"}
  /\ wstop \in BOOLEAN
  /\ firing \in Pairs \cup {None}
  /\ held \in [Entries -> BOOLEAN]
  /\ cooling \in [Entries -> BOOLEAN]
  /\ store \subseteq Macros
  /\ mixed \in 0..2
  /\ wanted \subseteq Triggers /\ strays \in [Triggers -> Nat]

Init ==
  /\ PlayerInit
  /\ active = FALSE /\ over = FALSE
  /\ loop = "mash" /\ quit = FALSE
  /\ armed = <<>>
  /\ watch = "top" /\ wstop = FALSE /\ pass = <<>> /\ firing = None
  /\ held = [e \in Entries |-> FALSE]
  /\ cooling = [e \in Entries |-> FALSE]
  /\ store = Macros
  /\ mixed = 0
  /\ wanted = {} /\ strays = [n \in Triggers |-> 0]

IsArmed(n) == \E i \in DOMAIN armed : armed[i].name = n
Place(n) == CHOOSE i \in DOMAIN armed : armed[i].name = n
Without(n) == IF IsArmed(n) THEN RemoveAt(armed, Place(n)) ELSE armed

\* A playback thread that may still post.
Playback == \E t \in Threads : at[t] \in Running

-----------------------------------------------------------------------------
(* The action loop: AutopilotRunner.run *)

LoopAt(from, to) == loop = from /\ loop' = to

\* next_action asks is_active: an open window makes this a mash tick, a window
\* past its deadline ...
LoopMash ==
  /\ loop = "mash"
  /\ ~quit
  /\ active => over
  /\ loop' = IF active THEN "clear" ELSE "gate"
  /\ UNCHANGED <<playerVars, mash, quit, armed, watcher, store, history>>

\* ... is closed ...
LoopClear ==
  /\ LoopAt("clear", "reread")
  /\ active' = FALSE
  /\ over' = FALSE
  /\ UNCHANGED <<playerVars, quit, armed, watcher, store, history>>

\* ... and is_active returns what _active is by then: a fresh window makes
\* this a mash tick after all.
LoopReread ==
  /\ loop = "reread"
  /\ loop' = IF active THEN "mash" ELSE "gate"
  /\ UNCHANGED <<playerVars, mash, quit, armed, watcher, store, history>>

\* Fault: the playback is not looked for.
LoopGateOpen ==
  /\ LoopAt("gate", "merged")
  /\ UNCHANGED <<playerVars, mash, quit, armed, watcher, store, history>>

\* A playback makes the loop yield; otherwise it merges and posts.
LoopGate ==
  /\ loop = "gate"
  /\ loop' = IF IsPlaying THEN "mash" ELSE "merged"
  /\ UNCHANGED <<playerVars, mash, quit, armed, watcher, store, history>>

LoopPostMerged ==
  /\ LoopAt("merged", "mash")
  /\ mixed' = IF Playback /\ mixed < 2 THEN mixed + 1 ELSE mixed
  /\ UNCHANGED <<playerVars, mash, quit, armed, watcher, store, wanted, strays>>

\* request_stop(): the loop leaves at its next test.
RequestStop ==
  /\ ~quit
  /\ quit' = TRUE
  /\ UNCHANGED <<playerVars, mash, loop, armed, watcher, store, history>>

\* Fault: the loop only leaves between two playbacks.
LoopLeaveIdle ==
  /\ quit
  /\ ~IsPlaying
  /\ LoopAt("mash", "joining watcher")
  /\ wstop' = TRUE
  /\ UNCHANGED <<playerVars, mash, quit, armed, watch, pass, firing, clocks, store, history>>

\* shutdown(): the watcher's stop event ...
LoopLeave ==
  /\ quit
  /\ LoopAt("mash", "joining watcher")
  /\ wstop' = TRUE
  /\ UNCHANGED <<playerVars, mash, quit, armed, watch, pass, firing, clocks, store, history>>

\* Fault: the watcher is not joined.
ShutdownUnjoined ==
  /\ LoopAt("joining watcher", "stopping player")
  /\ StopSet(Main)
  /\ UNCHANGED <<mash, quit, armed, watcher, store, history>>

\* ... its join, which ends with the thread, as the watcher never blocks for
\* long; then the player's stop() ...
ShutdownWatcher ==
  /\ watch = "dead"
  /\ LoopAt("joining watcher", "stopping player")
  /\ StopSet(Main)
  /\ UNCHANGED <<mash, quit, armed, watcher, store, history>>

ShutdownPlayer ==
  /\ LoopAt("stopping player", "stopping web")
  /\ StopForget(Main)
  /\ UNCHANGED <<mash, quit, armed, watcher, store, history>>

\* ... and the web server, after which no handler runs.
ShutdownWeb ==
  /\ LoopAt("stopping web", "done")
  /\ UNCHANGED <<playerVars, mash, quit, armed, watcher, store, history>>

MainStep ==
  \/ LoopMash \/ LoopClear \/ LoopReread \/ LoopGate \/ LoopPostMerged
  \/ LoopLeave \/ ShutdownWatcher \/ ShutdownPlayer \/ ShutdownWeb

-----------------------------------------------------------------------------
(* TriggerWatcher._loop and _fire *)

WatchTop ==
  /\ watch = "top"
  /\ IF wstop
     THEN watch' = "dead" /\ UNCHANGED pass
     ELSE watch' = "gates" /\ pass' = armed
  /\ UNCHANGED <<playerVars, mash, main, armed, wstop, firing, clocks, store, history>>

\* Fault: an open mash is not looked for.
WatchGatesMashing ==
  /\ watch = "gates"
  /\ watch' = IF pass = <<>> \/ IsPlaying THEN "top" ELSE "frame"
  /\ pass' = IF watch' = "frame" THEN pass ELSE <<>>
  /\ UNCHANGED <<playerVars, mash, main, armed, wstop, firing, clocks, store, history>>

\* Nothing armed, a playback, or an open mash: not now.  is_active also closes
\* a window past its deadline.
WatchGates ==
  /\ watch = "gates"
  /\ IF pass = <<>> \/ IsPlaying
     THEN watch' = "top" /\ UNCHANGED mash
     ELSE /\ watch' = IF active /\ ~over THEN "top" ELSE "frame"
          /\ active' = (active /\ ~over)
          /\ over' = FALSE
  /\ pass' = IF watch' = "frame" THEN pass ELSE <<>>
  /\ UNCHANGED <<playerVars, main, armed, wstop, firing, clocks, store, history>>

Cooling(i) == cooling[pass[i].entry]

\* The armed triggers that fire on a frame, were they first: due is the set of
\* entries whose match is as old as the debounce time.
Ready(shown, due) ==
  {i \in DOMAIN pass : pass[i].name \in shown /\ ~Cooling(i) /\ pass[i].entry \in due}

\* The frame is held against all before the first one that fires.
Evaluated(ready) == {i \in DOMAIN pass : ~Cooling(i) /\ \A j \in ready : i < j}

\* Fault: every pass starts the match anew.
EvaluateForgetful(shown, ready) ==
  /\ held' = [e \in Entries |-> FALSE]

Evaluate(shown, ready) ==
  /\ held' = [e \in Entries |->
             IF \E i \in Evaluated(ready) : pass[i].entry = e
             THEN \E i \in Evaluated(ready) : pass[i].entry = e /\ pass[i].name \in shown
             ELSE held[e]]

DueSets == SUBSET {e \in Entries : held[e]}

WatchAt(from, to) == watch = from /\ watch' = to

\* No frame since the last pass.
WatchSame ==
  /\ WatchAt("frame", "top")
  /\ pass' = <<>>
  /\ UNCHANGED <<playerVars, mash, main, armed, wstop, firing, clocks, store, history>>

\* A new frame, and no trigger fires.
WatchQuiet ==
  /\ WatchAt("frame", "top")
  /\ \E shown \in Screens, due \in DueSets :
       Ready(shown, due) = {} /\ Evaluate(shown, {})
  /\ pass' = <<>>
  /\ UNCHANGED <<playerVars, mash, main, armed, wstop, firing, cooling, store, mixed, wanted, strays>>

\* A new frame, and the first ready trigger fires.
WatchFires ==
  /\ WatchAt("frame", "fire")
  /\ \E shown \in Screens, due \in DueSets :
       LET ready == Ready(shown, due) IN
       \E i \in ready :
         /\ \A j \in ready : i <= j
         /\ firing' = pass[i]
         /\ Evaluate(shown, ready)
  /\ pass' = <<>>
  /\ UNCHANGED <<playerVars, mash, main, armed, wstop, cooling, store, mixed, wanted, strays>>

Stray(n) == strays' = [strays EXCEPT ![n] = IF n \in wanted THEN @ ELSE @ + 1]

\* A mash_a trigger opens a window.
FireMash ==
  /\ WatchAt("fire", "cool")
  /\ Macro[firing.name] = None
  /\ active' = TRUE
  /\ over' = FALSE
  /\ Stray(firing.name)
  /\ UNCHANGED <<playerVars, main, armed, wstop, pass, firing, clocks, store, mixed, wanted>>

\* A macro trigger loads its macro, whose file may be gone.
LoadMacro ==
  /\ watch = "fire"
  /\ Macro[firing.name] # None
  /\ watch' = IF Macro[firing.name] \in store THEN "play" ELSE "missing"
  /\ UNCHANGED <<playerVars, mash, main, armed, wstop, pass, firing, clocks, store, history>>

FireMacro ==
  /\ WatchAt("play", "cool")
  /\ PlayAsync(Watcher, Macro[firing.name], Loops[firing.name])
  /\ mixed' = 0
  /\ Stray(firing.name)
  /\ UNCHANGED <<mash, main, armed, wstop, pass, firing, clocks, store, wanted>>

EndFire ==
  /\ watch' = "top"
  /\ firing' = None
  /\ held' = [held EXCEPT ![firing.entry] = FALSE]

\* play_async refuses: another playback runs.
FireRefused ==
  /\ watch = "play"
  /\ IsPlaying
  /\ EndFire
  /\ UNCHANGED <<playerVars, mash, main, armed, wstop, pass, cooling, store, mixed, wanted, strays>>

\* Whatever is armed under that name by now is disarmed.
FireMissing ==
  /\ watch = "missing"
  /\ EndFire
  /\ armed' = Without(firing.name)
  /\ wanted' = wanted \ {firing.name}
  /\ UNCHANGED <<playerVars, mash, main, wstop, pass, cooling, store, mixed, strays>>

\* Fault: the entry is written back under its name.
StartCooldownRearms ==
  /\ watch = "cool"
  /\ EndFire
  /\ cooling' = [cooling EXCEPT ![firing.entry] = TRUE]
  /\ armed' = IF IsArmed(firing.name) THEN armed ELSE Append(armed, firing)
  /\ UNCHANGED <<playerVars, mash, main, wstop, pass, store, mixed, wanted, strays>>

StartCooldown ==
  /\ watch = "cool"
  /\ EndFire
  /\ cooling' = [cooling EXCEPT ![firing.entry] = TRUE]
  /\ UNCHANGED <<playerVars, mash, main, armed, wstop, pass, store, mixed, wanted, strays>>

WatcherStep ==
  \/ WatchTop \/ WatchGates \/ WatchSame \/ WatchQuiet \/ WatchFires
  \/ FireMash \/ LoadMacro \/ FireMacro \/ FireRefused \/ FireMissing
  \/ StartCooldown

-----------------------------------------------------------------------------
(* The web handlers: one at a time, until the server has stopped *)

Handler == loop # "done" /\ call[Web] = "idle"

\* No thread looks at this object any more: it may stand for a new one.
Dropped(e) ==
  /\ \A i \in DOMAIN armed : armed[i].entry # e
  /\ \A i \in DOMAIN pass : pass[i].entry # e
  /\ firing # None => firing.entry # e

\* arm: a fresh entry, in the old one's place when the name is armed already.
Arm(n) ==
  /\ Handler
  /\ Macro[n] \in store \cup {None}
  /\ \E e \in Entries :
       /\ Dropped(e)
       /\ armed' = IF IsArmed(n)
                   THEN [i \in DOMAIN armed |->
                           IF armed[i].name = n THEN [name |-> n, entry |-> e] ELSE armed[i]]
                   ELSE Append(armed, [name |-> n, entry |-> e])
       /\ held' = [held EXCEPT ![e] = FALSE]
       /\ cooling' = [cooling EXCEPT ![e] = FALSE]
  /\ wanted' = wanted \cup {n}
  /\ strays' = [strays EXCEPT ![n] = 0]
  /\ UNCHANGED <<playerVars, mash, main, watch, wstop, pass, firing, store, mixed>>

Disarm(n) ==
  /\ Handler
  /\ IsArmed(n)
  /\ armed' = Without(n)
  /\ wanted' = wanted \ {n}
  /\ UNCHANGED <<playerVars, mash, main, watcher, store, mixed, strays>>

DisarmAll ==
  /\ Handler
  /\ armed' = <<>>
  /\ wanted' = {}
  /\ UNCHANGED <<playerVars, mash, main, watcher, store, mixed, strays>>

DeleteMacro(m) ==
  /\ "files" \in Buttons
  /\ Handler
  /\ store' = store \ {m}
  /\ UNCHANGED <<playerVars, mash, main, armed, watcher, history>>

SaveMacro(m) ==
  /\ "files" \in Buttons
  /\ Handler
  /\ store' = store \cup {m}
  /\ UNCHANGED <<playerVars, mash, main, armed, watcher, history>>

\* macros_play: refused while a macro plays, not while a mash runs.
PlayButton(m, again) ==
  /\ "play" \in Buttons
  /\ Handler
  /\ m \in store
  /\ PlayAsync(Web, m, again)
  /\ mixed' = 0
  /\ UNCHANGED <<mash, main, armed, watcher, store, wanted, strays>>

\* macros_stop: the event loop is blocked until stop() returns.
StopButton ==
  /\ "stop" \in Buttons
  /\ Handler
  /\ StopSet(Web)
  /\ UNCHANGED <<mash, main, armed, watcher, store, history>>

WebStep ==
  \/ \E n \in Triggers : Arm(n) \/ Disarm(n)
  \/ DisarmAll
  \/ \E m \in Macros : DeleteMacro(m) \/ SaveMacro(m)
  \/ \E m \in Macros, again \in BOOLEAN : PlayButton(m, again)
  \/ StopButton

-----------------------------------------------------------------------------
(* Playback threads and clocks *)

PlayerStep ==
  /\ \/ \E t \in Threads : ThreadStep(t)
     \/ \E c \in Callers : StopRead(c) \/ Joined(c) \/ JoinTimeout(c)
     \/ StopForget(Web)
  /\ UNCHANGED <<mash, main, armed, watcher, store, history>>

MashDeadline ==
  /\ active /\ ~over
  /\ over' = TRUE
  /\ UNCHANGED <<playerVars, active, main, armed, watcher, store, history>>

CooledDown(e) ==
  /\ cooling[e]
  /\ cooling' = [cooling EXCEPT ![e] = FALSE]
  /\ UNCHANGED <<playerVars, mash, main, armed, watch, wstop, pass, firing, held, store,
                 history>>

Clock == MashDeadline \/ \E e \in Entries : CooledDown(e)

\* The process ends.
Exited == loop = "done" /\ UNCHANGED vars

Next == MainStep \/ RequestStop \/ WatcherStep \/ WebStep \/ PlayerStep \/ Clock
        \/ Exited

Spec == Init /\ [][Next]_vars

\* Every thread is scheduled and time passes; the camera delivers, and a match
\* that lasts becomes due.  Nobody has to click, and no screen has to appear.
Fairness ==
  /\ WF_vars(MainStep) /\ WF_vars(WatcherStep) /\ WF_vars(PlayerStep)
  /\ WF_vars(MashDeadline)
  /\ \A e \in Entries : WF_vars(CooledDown(e))
  /\ SF_vars(WatchQuiet \/ WatchFires) /\ SF_vars(WatchFires)

FairSpec == Spec /\ Fairness

-----------------------------------------------------------------------------
(* Correctness *)

MashOpen == active /\ ~over

\* triggers.py: a fired macro "automatically displaces the AI".  Only the tick
\* that had passed its check when the playback began may still post a merged
\* action beside it.
MacroDisplacesTick == mixed <= 1

\* README.md: while a mash or a macro plays, everything else yields to it, and
\* two triggers do not clobber each other: never both at once.
OneScript == ~(MashOpen /\ Playback)

\* A disarmed trigger fires at most once more: in the pass that had begun.
DisarmHolds == \A n \in Triggers : strays[n] <= 1

\* After shutdown nothing plays and the watcher is gone.
QuietAfterShutdown == loop = "done" => watch = "dead" /\ \A t \in Threads : ~Alive(t)

\* A shutdown that was asked for ends.
ShutdownEnds == quit ~> (loop = "done")

\* As long as a trigger stays armed and every frame shows its image, scripts
\* keep being started: no cooldown, refusal, finished playback or other trigger
\* wedges the watcher.
ScreenIsAnswered ==
  \A p \in {q \in Pairs : \A shown \in Screens : q.name \in shown} :
    <>[](~wstop /\ \E i \in DOMAIN armed : armed[i] = p) => []<>(MashOpen \/ Playback)
=============================================================================
