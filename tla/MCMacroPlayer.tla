---------------------------- MODULE MCMacroPlayer --------------------------
(***************************************************************************)
(* Three instances in one run: "duty", the autopilot's threads without the *)
(* page's buttons (MCAutopilot), and the macro player alone, "serial", one *)
(* caller of play_async and posts shorter than stop()'s join timeout, and   *)
(* "shared", a second caller that blocks in play(), with posts that may    *)
(* outlast it.  The macros are as the recorder writes them: the first dt    *)
(* is 0, later ones are positive; a tap has one frame, and a recording may  *)
(* be empty.                                                               *)
(***************************************************************************)
EXTENDS MCAutopilot

CONSTANTS cli, tap, empty

VARIABLE use

usedVars == <<use, vars>>

Recorded == {walk, tap, empty}
RecordedDelays == [m \in Recorded |-> CASE m = walk -> <<FALSE, TRUE, TRUE>>
                                        [] m = tap -> <<FALSE>>
                                        [] m = empty -> <<>>]

Serial == INSTANCE MacroPlayer
            WITH Callers <- {Web}, Blocking <- {}, Threads <- {t1, t2},
                 Macros <- Recorded, Delays <- RecordedDelays, SlowPoster <- FALSE
Shared == INSTANCE MacroPlayer
            WITH Callers <- {Web, cli}, Blocking <- {cli}, Threads <- {t1, t2},
                 Macros <- Recorded, Delays <- RecordedDelays, SlowPoster <- TRUE

\* What the autopilot has beside its player.
aroundVars == <<mash, main, armed, watcher, store, history>>

InitAround ==
  /\ active = FALSE /\ over = FALSE /\ loop = "mash" /\ quit = FALSE
  /\ armed = <<>> /\ watch = "top" /\ wstop = FALSE /\ pass = <<>> /\ firing = None
  /\ held = [e \in Entries |-> FALSE] /\ cooling = [e \in Entries |-> FALSE]
  /\ store = Macros /\ mixed = 0 /\ wanted = {} /\ strays = [n \in Triggers |-> 0]

MCInit ==
  \/ use = "duty" /\ Init
  \/ use = "serial" /\ Serial!PlayerInit /\ InitAround
  \/ use = "shared" /\ Shared!PlayerInit /\ InitAround

Duty(A) == use = "duty" /\ A /\ UNCHANGED use
Alone(which, A) == use = which /\ A /\ UNCHANGED <<use, aroundVars>>

MCNext ==
  Duty(Next) \/ Alone("serial", Serial!PlayerNext) \/ Alone("shared", Shared!PlayerNext)

\* Threads are scheduled, a post ends (the HTTP client has timeouts), and a
\* call of stop() runs on.  Nobody has to call anything.  For the duty it is
\* the fairness of Autopilot.
MCFairness ==
  /\ WF_usedVars(Alone("serial", Serial!StopStep(Web)))
  /\ \A c \in {Web, cli} : WF_usedVars(Alone("shared", Shared!StopStep(c)))
  /\ \A t \in {t1, t2} :
       /\ WF_usedVars(Alone("serial", Serial!ThreadStep(t)))
       /\ WF_usedVars(Alone("shared", Shared!ThreadStep(t)))
  /\ WF_usedVars(Duty(MainStep)) /\ WF_usedVars(Duty(WatcherStep))
  /\ WF_usedVars(Duty(PlayerStep)) /\ WF_usedVars(Duty(MashDeadline))
  /\ \A e \in Entries : WF_usedVars(Duty(CooledDown(e)))
  /\ SF_usedVars(Duty(WatchQuiet \/ WatchFires)) /\ SF_usedVars(Duty(WatchFires))

MCSpec == MCInit /\ [][MCNext]_usedVars /\ MCFairness

\* With one caller and prompt posts the playback stop() waits for ends,
\* looping or not (player.py: "stop() interrupts a running playback within
\* roughly one dt"), and no other ever runs beside it (play_async: "Raises if
\* a previous playback is still running"); and whatever the posts and the
\* other caller do, stop() returns.
StopWorks ==
  /\ \A t \in {t1, t2} :
       (use = "serial" /\ call[Web] = "joining" /\ target[Web] = t)
         ~> (use # "serial" \/ ~Serial!Alive(t))
  /\ [](use = "serial" => Serial!OnePlayback)
  /\ \A c \in {Web, cli} :
       (use = "shared" /\ call[c] = "stopping") ~> (use # "shared" \/ call[c] = "idle")
=============================================================================
