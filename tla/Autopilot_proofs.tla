--------------------------- MODULE Autopilot_proofs ---------------------------
(***************************************************************************)
(* First the player alone: with one caller and posts that end within the   *)
(* join timeout it keeps its promises for any threads and any macros. Then *)
(* who drives the console, for any triggers, macros, screens and thread    *)
(* objects.                                                                *)
(***************************************************************************)
EXTENDS Autopilot, TLAPS

-----------------------------------------------------------------------------
(* The player                                                              *)

\* One thread calls the player, through play_async and stop only, and a post
\* never outlasts the join timeout.
SerialUse ==
  /\ \A c, d \in Callers : c = d
  /\ Blocking = {}
  /\ ~SlowPoster

\* While the caller is inside stop() nobody clears the event, so a join ends
\* with the thread: only _thread can be alive.
SerialInv ==
  /\ PlayerTypes
  /\ \A t \in Threads : Alive(t) => t = current
  /\ NameTracksPlayback
  /\ \A c \in Callers :
       /\ call[c] # "playing"
       /\ call[c] \in {"stopping", "joining"} => stopEv
       /\ call[c] = "joining" => target[c] = current /\ current # None
       /\ call[c] = "forgetting" => \A t \in Threads : ~Alive(t)

LEMMA PlayerTypeStep == PlayerTypes /\ [PlayerNext]_playerVars => PlayerTypes'
<1> SUFFICES ASSUME PlayerTypes, [PlayerNext]_playerVars PROVE PlayerTypes'
  OBVIOUS
<1> USE DEF PlayerTypes, Running, shared, threads, callers
<1>1. ASSUME NEW c \in Callers, NEW m \in Macros, NEW looped \in BOOLEAN,
             PlayAsync(c, m, looped) \/ Play(c, m, looped)
      PROVE  PlayerTypes'
  <2>1. ASSUME NEW t \in Threads, Begin(t, m, looped)
        PROVE  UNCHANGED frame /\ at' \in [Threads -> Running \cup {"off", "end"}]
               /\ macro' \in [Threads -> Macros \cup {None}] /\ loops' \in [Threads -> BOOLEAN]
    BY <2>1 DEF Begin
  <2>2. CASE PlayAsync(c, m, looped)
    BY <2>1, <2>2 DEF PlayAsync
  <2>3. CASE Play(c, m, looped)
    BY <2>1, <2>3 DEF Play
  <2> QED BY <1>1, <2>2, <2>3
<1>2. ASSUME NEW c \in Callers, PlayReturns(c) \/ StopSet(c) \/ StopStep(c)
      PROVE  PlayerTypes'
  BY <1>2 DEF PlayReturns, StopSet, StopStep, StopRead, Joined, JoinTimeout,
     StopWaiting, StopForget
<1>3. ASSUME NEW t \in Threads, ThreadStep(t)
      PROVE  PlayerTypes'
  <2>1. CASE LoopTest(t)
    BY <2>1 DEF LoopTest
  <2>2. CASE AwaitFrame(t)
    BY <2>2 DEF AwaitFrame
  <2>3. CASE Posted(t)
    BY <2>3 DEF Posted
  <2>4. CASE Finish(t)
    BY <2>4 DEF Finish
  <2> QED BY <1>3, <2>1, <2>2, <2>3, <2>4 DEF ThreadStep
<1>4. CASE UNCHANGED playerVars
  BY <1>4 DEF playerVars
<1> QED BY <1>1, <1>2, <1>3, <1>4 DEF PlayerNext, PlayCall

LEMMA PlayerTypeInit == PlayerInit => PlayerTypes
<1> SUFFICES ASSUME PlayerInit PROVE PlayerTypes
  OBVIOUS
<1> USE DEF PlayerInit, Running
<1>1. at \in [Threads -> Running \cup {"off", "end"}]
  OBVIOUS
<1>2. macro \in [Threads -> Macros \cup {None}] /\ loops \in [Threads -> BOOLEAN]
  OBVIOUS
<1>3. frame \in [Threads -> Nat]
  OBVIOUS
<1>4. call \in [Callers -> {"idle", "stopping", "joining", "forgetting", "playing"}]
  OBVIOUS
<1>5. target \in [Callers -> Threads \cup {None}]
  OBVIOUS
<1> QED BY <1>1, <1>2, <1>3, <1>4, <1>5 DEF PlayerTypes

\* A thread that runs has a macro with frames, and is at one of them.
RangeInv ==
  /\ PlayerTypes
  /\ FramesInRange
  /\ \A t \in Threads :
       at[t] \in Running => macro[t] \in Macros /\ 1 \in Frames(macro[t])

LEMMA RangeInvariant == PlayerSpec => []RangeInv
<1>1. PlayerInit => RangeInv
  BY PlayerTypeInit DEF PlayerInit, RangeInv, FramesInRange, Running
<1>2. ASSUME RangeInv, [PlayerNext]_playerVars PROVE RangeInv'
  <2>0. PlayerTypes'
    BY <1>2, PlayerTypeStep DEF RangeInv
  <2> USE <1>2 DEF RangeInv, FramesInRange, Running, shared, threads, callers
  <2>1. ASSUME NEW m \in Macros PROVE Frames(m) # {} => 1 \in Frames(m)
    <3>1. Len(Delays[m]) \in Nat
      BY PlayerAssumption
    <3> QED BY <3>1 DEF Frames
  <2>2. ASSUME NEW c \in Callers, NEW m \in Macros, NEW looped \in BOOLEAN,
               PlayAsync(c, m, looped) \/ Play(c, m, looped)
        PROVE  RangeInv'
    <3>1. PICK t \in Threads : Begin(t, m, looped)
      BY <2>2 DEF PlayAsync, Play
    <3> QED BY <2>0, <2>1, <3>1 DEF Begin, PlayerTypes
  <2>3. ASSUME NEW c \in Callers, PlayReturns(c) \/ StopSet(c) \/ StopStep(c)
        PROVE  RangeInv'
    <3>1. UNCHANGED threads
      BY <2>3 DEF PlayReturns, StopSet, StopStep, StopRead, Joined, JoinTimeout,
         StopWaiting, StopForget
    <3> QED BY <2>0, <3>1
  <2>4. ASSUME NEW t \in Threads, ThreadStep(t) PROVE RangeInv'
    <3>1. \A s \in Threads : s # t =>
            at'[s] = at[s] /\ macro'[s] = macro[s] /\ frame'[s] = frame[s]
      BY <2>4 DEF ThreadStep, LoopTest, AwaitFrame, Posted, Finish, PlayerTypes
    <3>2. CASE LoopTest(t)
      BY <2>0, <3>1, <3>2 DEF LoopTest, PlayerTypes
    <3>3. CASE AwaitFrame(t)
      BY <2>0, <3>1, <3>3 DEF AwaitFrame, PlayerTypes
    <3>4. CASE Posted(t)
      BY <2>0, <3>1, <3>4 DEF Posted, PlayerTypes
    <3>5. CASE Finish(t)
      BY <2>0, <3>1, <3>5 DEF Finish, PlayerTypes
    <3> QED BY <2>4, <3>2, <3>3, <3>4, <3>5 DEF ThreadStep
  <2>5. CASE UNCHANGED playerVars
    BY <2>0, <2>5 DEF playerVars
  <2> QED BY <2>2, <2>3, <2>4, <2>5, <1>2 DEF PlayerNext, PlayCall
<1> QED BY <1>1, <1>2, PTL DEF PlayerSpec

LEMMA SerialInvInit == PlayerInit => SerialInv
<1> SUFFICES ASSUME PlayerInit PROVE SerialInv
  OBVIOUS
<1>1. \A t \in Threads : at[t] = "off"
  BY DEF PlayerInit
<1>2. \A c \in Callers : call[c] = "idle"
  BY DEF PlayerInit
<1> QED BY <1>1, <1>2, PlayerTypeInit DEF SerialInv, Running, Alive, NameTracksPlayback

LEMMA SerialInvStep ==
  ASSUME SerialUse, SerialInv, [PlayerNext]_playerVars
  PROVE  SerialInv'
<1>0. PlayerTypes'
  BY PlayerTypeStep DEF SerialInv
<1> USE PlayerAssumption DEF SerialInv, SerialUse, NameTracksPlayback, Alive, Running,
        shared, threads, callers
<1>1. ASSUME NEW c \in Callers, NEW m \in Macros, NEW looped \in BOOLEAN,
             PlayAsync(c, m, looped)
      PROVE  SerialInv'
  <2>1. \A t \in Threads : ~Alive(t)
    BY <1>1 DEF PlayAsync, IsPlaying
  <2>2. \A d \in Callers : call'[d] = "idle"
    BY <1>1 DEF PlayAsync
  <2> QED BY <1>0, <1>1, <2>1, <2>2 DEF PlayAsync, Begin, PlayerTypes
<1>2. ASSUME NEW c \in Callers, StopSet(c) \/ StopStep(c) \/ PlayReturns(c)
      PROVE  SerialInv'
  <2>1. UNCHANGED threads /\ \A d \in Callers : d = c
    BY <1>2 DEF StopSet, StopStep, StopRead, Joined, JoinTimeout, StopWaiting,
       StopForget, PlayReturns
  <2>2. CASE StopSet(c)
    BY <1>0, <2>1, <2>2 DEF StopSet, PlayerTypes
  <2>3. CASE StopRead(c)
    BY <1>0, <2>1, <2>3 DEF StopRead, PlayerTypes
  <2>4. CASE Joined(c)
    BY <1>0, <2>1, <2>4 DEF Joined, StopWaiting, PlayerTypes
  <2>5. CASE JoinTimeout(c)
    BY <2>5 DEF JoinTimeout, StopWaiting
  <2>6. CASE StopForget(c)
    BY <1>0, <2>1, <2>6 DEF StopForget, PlayerTypes
  <2>7. CASE PlayReturns(c)
    BY <2>7 DEF PlayReturns
  <2> QED BY <1>2, <2>2, <2>3, <2>4, <2>5, <2>6, <2>7 DEF StopStep
<1>3. ASSUME NEW t \in Threads, ThreadStep(t)
      PROVE  SerialInv'
  <2>1. UNCHANGED <<stopEv, current, callers>>
    BY <1>3 DEF ThreadStep, LoopTest, AwaitFrame, Posted, Finish
  <2>2. /\ Alive(t)
        /\ \A s \in Threads : s # t => at'[s] = at[s] /\ macro'[s] = macro[s]
    BY <1>3 DEF ThreadStep, LoopTest, AwaitFrame, Posted, Finish, PlayerTypes
  <2>3. at'[t] \in Running => at[t] \in Running /\ macro'[t] = macro[t] /\ playing' = playing
    BY <1>3 DEF ThreadStep, LoopTest, AwaitFrame, Posted, Finish, PlayerTypes
  <2> QED BY <1>0, <2>1, <2>2, <2>3
<1>4. CASE UNCHANGED playerVars
  BY <1>0, <1>4 DEF playerVars
<1> QED BY <1>1, <1>2, <1>3, <1>4 DEF PlayerNext, PlayCall

LEMMA SerialInvariant == ASSUME SerialUse PROVE PlayerSpec => []SerialInv
<1>1. SerialInv /\ [PlayerNext]_playerVars => SerialInv'
  BY SerialUse, SerialInvStep
<1> QED BY <1>1, SerialInvInit, PTL DEF PlayerSpec

\* One caller, prompt posts: never two playbacks at once (player.py,
\* play_async: "Raises if a previous playback is still running").
THEOREM SerialOnePlayback == ASSUME SerialUse PROVE PlayerSpec => []OnePlayback
<1>1. SerialInv => OnePlayback
  BY DEF SerialInv, OnePlayback
<1> QED BY <1>1, SerialInvariant, PTL

\* One caller, prompt posts: the status names the macro that is played.
THEOREM SerialNameTracksPlayback ==
  ASSUME SerialUse PROVE PlayerSpec => []NameTracksPlayback
<1>1. SerialInv => NameTracksPlayback
  BY DEF SerialInv
<1> QED BY <1>1, SerialInvariant, PTL

\* The type invariant, with any number of callers and any posts.
THEOREM PlayerTypeCorrect == PlayerSpec => []PlayerTypeOK
<1>1. RangeInv => PlayerTypeOK
  BY DEF RangeInv, PlayerTypeOK
<1> QED BY <1>1, RangeInvariant, PTL

-----------------------------------------------------------------------------
(* The autopilot                                                           *)

\* The threads other than the player's.  A trigger that is being fired has
\* ended its pass, and one at the player has a macro.
DriverTypes ==
  /\ active \in BOOLEAN /\ over \in BOOLEAN
  /\ loop \in {"mash", "clear", "reread", "gate", "merged",
               "joining watcher", "stopping player", "stopping web", "done"}
  /\ quit \in BOOLEAN
  /\ armed \in Seq(Pairs) /\ pass \in Seq(Pairs)
  /\ \A i, j \in DOMAIN armed : armed[i].name = armed[j].name => i = j
  /\ watch \in {"top", "gates", "frame", "fire", "missing", "play", "cool", "dead"}
  /\ wstop \in BOOLEAN
  /\ firing \in Pairs \cup {None}
  /\ held \in [Entries -> BOOLEAN]
  /\ cooling \in [Entries -> BOOLEAN]
  /\ store \subseteq Macros
  /\ mixed \in 0..2
  /\ wanted \subseteq Triggers /\ strays \in [Triggers -> Nat]

FireInv ==
  /\ watch \in {"fire", "missing", "play", "cool"} => firing \in Pairs /\ pass = <<>>
  /\ watch \in {"missing", "play"} => Macro[firing.name] \in Macros

DriverInv == DriverTypes /\ FireInv

\* dict.pop keeps the order and the uniqueness of the other names.
LEMMA Popping ==
  ASSUME DriverTypes, NEW n
  PROVE  /\ Without(n) \in Seq(Pairs)
         /\ \A i \in DOMAIN Without(n) : \E j \in DOMAIN armed : Without(n)[i] = armed[j]
         /\ \A i \in DOMAIN Without(n) : Without(n)[i].name # n
         /\ \A i, j \in DOMAIN Without(n) : Without(n)[i].name = Without(n)[j].name => i = j
<1>1. CASE ~IsArmed(n)
  BY <1>1 DEF Without, IsArmed, DriverTypes
<1>2. CASE IsArmed(n)
  <2> DEFINE k == Place(n)
             L == Len(armed)
             W == SubSeq(armed, 1, k - 1) \o SubSeq(armed, k + 1, L)
  <2>1. k \in DOMAIN armed /\ armed[k].name = n
    BY <1>2 DEF Place, IsArmed
  <2>0. armed \in Seq(Pairs)
    BY DEF DriverTypes
  <2>2. L \in Nat /\ k \in 1..L /\ DOMAIN armed = 1..L
    BY <2>0, <2>1
  <2>3. Without(n) = W
    BY <1>2 DEF Without, RemoveAt
  <2> HIDE DEF k, L
  <2>4. /\ SubSeq(armed, 1, k - 1) \in Seq(Pairs) /\ Len(SubSeq(armed, 1, k - 1)) = k - 1
        /\ SubSeq(armed, k + 1, L) \in Seq(Pairs) /\ Len(SubSeq(armed, k + 1, L)) = L - k
    BY <2>0, <2>2
  <2>5. /\ W \in Seq(Pairs) /\ DOMAIN W = 1..(L - 1)
        /\ \A i \in 1..(L - 1) : W[i] = IF i < k THEN armed[i] ELSE armed[i + 1]
    BY <2>2, <2>4
  <2> HIDE DEF W
  <2>6. \A i, j \in 1..L : armed[i].name = armed[j].name => i = j
    BY <2>2 DEF DriverTypes
  <2>7. \A i \in DOMAIN W : \E j \in DOMAIN armed : W[i] = armed[j] /\ j # k
    <3> TAKE i \in DOMAIN W
    <3>1. CASE i < k
      BY <2>2, <2>5, <3>1
    <3>2. CASE ~(i < k)
      BY <2>2, <2>5, <3>2
    <3> QED BY <3>1, <3>2
  <2>8. \A i \in DOMAIN W : W[i].name # n
    BY <2>1, <2>2, <2>6, <2>7
  <2>9. \A i, j \in DOMAIN W : W[i].name = W[j].name => i = j
    BY <2>2, <2>5, <2>6
  <2> QED BY <2>3, <2>5, <2>7, <2>8, <2>9
<1> QED BY <1>1, <1>2

LEMMA Evaluating ==
  ASSUME DriverTypes, NEW shown, NEW ready, Evaluate(shown, ready)
  PROVE  held' \in [Entries -> BOOLEAN]
<1> USE DEF Evaluate, DriverTypes
<1>1. \A e \in Entries : held'[e] \in BOOLEAN
  OBVIOUS
<1>2. held' = [e \in Entries |-> held'[e]]
  OBVIOUS
<1> QED BY <1>1, <1>2

LEMMA NoPairs == <<>> \in Seq(Pairs) /\ DOMAIN <<>> = {}
OBVIOUS

LEMMA NoneMixed == 0 \in 0..2
OBVIOUS

LEMMA DriverInit == Init => DriverInv
<1> SUFFICES ASSUME Init PROVE DriverInv
  OBVIOUS
<1>1. /\ held \in [Entries -> BOOLEAN] /\ cooling \in [Entries -> BOOLEAN]
      /\ strays \in [Triggers -> Nat]
  BY DEF Init
<1>2. /\ active = FALSE /\ over = FALSE /\ loop = "mash" /\ quit = FALSE /\ armed = <<>>
      /\ watch = "top" /\ wstop = FALSE /\ pass = <<>> /\ firing = None /\ store = Macros
      /\ mixed = 0 /\ wanted = {}
  BY DEF Init
<1> QED BY <1>1, <1>2, NoPairs, NoneMixed DEF DriverInv, DriverTypes, FireInv

LEMMA DriverMain ==
  ASSUME DriverInv, MainStep \/ RequestStop PROVE DriverInv'
<1> USE DEF DriverInv, DriverTypes, FireInv
<1>1. CASE LoopMash
  <2>1. UNCHANGED <<active, over, quit, armed, watch, wstop, pass, firing, held,
        cooling, store, mixed, wanted, strays>>
    BY <1>1 DEF LoopMash, main, mash, watcher, clocks, history
  <2>2. loop' \in {"clear", "gate"}
    BY <1>1 DEF LoopMash
  <2> QED BY <2>1, <2>2
<1>2. CASE LoopClear
  <2>1. UNCHANGED <<quit, armed, watch, wstop, pass, firing, held, cooling, store,
        mixed, wanted, strays>>
    BY <1>2 DEF LoopClear, main, mash, watcher, clocks, history
  <2>2. loop' = "reread" /\ active' = FALSE /\ over' = FALSE
    BY <1>2 DEF LoopClear, LoopAt
  <2> QED BY <2>1, <2>2
<1>3. CASE LoopReread
  <2>1. UNCHANGED <<active, over, quit, armed, watch, wstop, pass, firing, held,
        cooling, store, mixed, wanted, strays>>
    BY <1>3 DEF LoopReread, main, mash, watcher, clocks, history
  <2>2. loop' \in {"mash", "gate"}
    BY <1>3 DEF LoopReread
  <2> QED BY <2>1, <2>2
<1>4. CASE LoopGate
  <2>1. UNCHANGED <<active, over, quit, armed, watch, wstop, pass, firing, held,
        cooling, store, mixed, wanted, strays>>
    BY <1>4 DEF LoopGate, main, mash, watcher, clocks, history
  <2>2. loop' \in {"mash", "merged"}
    BY <1>4 DEF LoopGate
  <2> QED BY <2>1, <2>2
<1>5. CASE LoopPostMerged
  <2>1. UNCHANGED <<active, over, quit, armed, watch, wstop, pass, firing, held,
        cooling, store, wanted, strays>>
    BY <1>5 DEF LoopPostMerged, main, mash, watcher, clocks, history
  <2>2. loop' = "mash" /\ mixed' \in 0..2
    BY <1>5 DEF LoopPostMerged, LoopAt
  <2> QED BY <2>1, <2>2
<1>6. CASE RequestStop
  <2>1. UNCHANGED <<active, over, loop, armed, watch, wstop, pass, firing, held,
        cooling, store, mixed, wanted, strays>>
    BY <1>6 DEF RequestStop, main, mash, watcher, clocks, history
  <2>2. quit' = TRUE
    BY <1>6 DEF RequestStop
  <2> QED BY <2>1, <2>2
<1>7. CASE LoopLeave
  <2>1. UNCHANGED <<active, over, quit, armed, watch, pass, firing, held, cooling,
        store, mixed, wanted, strays>>
    BY <1>7 DEF LoopLeave, main, mash, watcher, clocks, history
  <2>2. loop' = "joining watcher" /\ wstop' = TRUE
    BY <1>7 DEF LoopLeave, LoopAt
  <2> QED BY <2>1, <2>2
<1>8. CASE ShutdownWatcher
  <2>1. UNCHANGED <<active, over, quit, armed, watch, wstop, pass, firing, held,
        cooling, store, mixed, wanted, strays>>
    BY <1>8 DEF ShutdownWatcher, main, mash, watcher, clocks, history
  <2>2. loop' = "stopping player"
    BY <1>8 DEF ShutdownWatcher, LoopAt
  <2> QED BY <2>1, <2>2
<1>9. CASE ShutdownPlayer
  <2>1. UNCHANGED <<active, over, quit, armed, watch, wstop, pass, firing, held,
        cooling, store, mixed, wanted, strays>>
    BY <1>9 DEF ShutdownPlayer, main, mash, watcher, clocks, history
  <2>2. loop' = "stopping web"
    BY <1>9 DEF ShutdownPlayer, LoopAt
  <2> QED BY <2>1, <2>2
<1>10. CASE ShutdownWeb
  <2>1. UNCHANGED <<active, over, quit, armed, watch, wstop, pass, firing, held,
        cooling, store, mixed, wanted, strays>>
    BY <1>10 DEF ShutdownWeb, main, mash, watcher, clocks, history
  <2>2. loop' = "done"
    BY <1>10 DEF ShutdownWeb, LoopAt
  <2> QED BY <2>1, <2>2
<1> QED BY <1>1, <1>2, <1>3, <1>4, <1>5, <1>6, <1>7, <1>8, <1>9, <1>10 DEF MainStep

LEMMA Holding == DriverTypes => \A i \in DOMAIN pass : pass[i] \in Pairs
<1>1. pass \in Seq(Pairs) => \A i \in DOMAIN pass : pass[i] \in Pairs
  OBVIOUS
<1> QED BY <1>1 DEF DriverTypes

LEMMA Straying ==
  ASSUME DriverTypes, NEW p \in Pairs, Stray(p.name) PROVE strays' \in [Triggers -> Nat]
<1>1. strays \in [Triggers -> Nat] /\ p.name \in Triggers
  BY DEF DriverTypes, Pairs
<1>2. CASE p.name \in wanted
  BY <1>1, <1>2 DEF Stray
<1>3. CASE p.name \notin wanted
  BY <1>1, <1>3 DEF Stray
<1> QED BY <1>2, <1>3

LEMMA Ending ==
  ASSUME DriverTypes, EndFire
  PROVE  /\ watch' = "top" /\ firing' = None
         /\ held' \in [Entries -> BOOLEAN]
BY DEF EndFire, DriverTypes

LEMMA DriverWatcher ==
  ASSUME DriverInv, WatcherStep PROVE DriverInv'
<1> USE DEF DriverInv, DriverTypes, FireInv
<1>1. CASE WatchTop
  <2>1. UNCHANGED <<active, over, loop, quit, armed, wstop, firing, held, cooling,
        store, mixed, wanted, strays>>
    BY <1>1 DEF WatchTop, main, mash, watcher, clocks, history
  <2>2. watch' \in {"dead", "gates"} /\ pass' \in Seq(Pairs)
    BY <1>1 DEF WatchTop
  <2> QED BY <2>1, <2>2
<1>2. CASE WatchGates
  <2>1. UNCHANGED <<loop, quit, armed, wstop, firing, held, cooling, store, mixed,
        wanted, strays>>
    BY <1>2 DEF WatchGates, main, mash, watcher, clocks, history
  <2>2. watch' \in {"top", "frame"} /\ pass' \in Seq(Pairs) /\ active' \in BOOLEAN /\ over' \in BOOLEAN
    <3>1. (active /\ ~over) \in BOOLEAN
      OBVIOUS
    <3>2. active' \in BOOLEAN /\ over' \in BOOLEAN
      BY <1>2, <3>1 DEF WatchGates, mash
    <3>3. watch' \in {"top", "frame"} /\ pass' \in Seq(Pairs)
      BY <1>2, NoPairs DEF WatchGates
    <3> QED BY <3>2, <3>3
  <2> QED BY <2>1, <2>2
<1>3. CASE WatchSame
  <2>1. UNCHANGED <<active, over, loop, quit, armed, wstop, firing, held, cooling,
        store, mixed, wanted, strays>>
    BY <1>3 DEF WatchSame, main, mash, watcher, clocks, history
  <2>2. watch' = "top" /\ pass' = <<>>
    BY <1>3 DEF WatchSame, WatchAt
  <2> QED BY <2>1, <2>2, NoPairs
<1>4. CASE WatchQuiet
  <2>1. UNCHANGED <<active, over, loop, quit, armed, wstop, firing, cooling, store,
        mixed, wanted, strays>>
    BY <1>4 DEF WatchQuiet, main, mash, watcher, clocks, history
  <2>2. watch' = "top" /\ pass' = <<>> /\ held' \in [Entries -> BOOLEAN]
    BY <1>4, Evaluating DEF WatchQuiet, WatchAt
  <2> QED BY <2>1, <2>2, NoPairs
<1>5. CASE WatchFires
  <2>1. UNCHANGED <<active, over, loop, quit, armed, wstop, cooling, store, mixed,
        wanted, strays>>
    BY <1>5 DEF WatchFires, main, mash, watcher, clocks, history
  <2>2. watch' = "fire" /\ pass' = <<>> /\ firing' \in Pairs /\ held' \in [Entries -> BOOLEAN]
    <3>1. PICK shown, due : \E i \in Ready(shown, due) :
                               firing' = pass[i] /\ Evaluate(shown, Ready(shown, due))
      BY <1>5 DEF WatchFires
    <3> QED BY <1>5, <3>1, Holding, Evaluating DEF WatchFires, WatchAt, Ready
  <2> QED BY <2>1, <2>2, NoPairs
<1>6. CASE FireMash
  <2>1. UNCHANGED <<loop, quit, armed, wstop, pass, firing, held, cooling, store, mixed,
        wanted>>
    BY <1>6 DEF FireMash, main, mash, watcher, clocks, history
  <2>2. /\ watch = "fire" /\ watch' = "cool" /\ active' \in BOOLEAN /\ over' \in BOOLEAN
        /\ strays' \in [Triggers -> Nat]
    BY <1>6, Straying DEF FireMash, WatchAt
  <2> QED BY <2>1, <2>2
<1>7. CASE LoadMacro
  <2>1. UNCHANGED <<active, over, loop, quit, armed, wstop, pass, firing, held, cooling,
        store, mixed, wanted, strays>>
    BY <1>7 DEF LoadMacro, main, mash, watcher, clocks, history
  <2>2. watch = "fire" /\ watch' \in {"play", "missing"} /\ Macro[firing.name] \in Macros
    BY <1>7, AutopilotAssumption DEF LoadMacro, Pairs
  <2> QED BY <2>1, <2>2
<1>8. CASE FireMacro
  <2>1. UNCHANGED <<active, over, loop, quit, armed, wstop, pass, firing, held, cooling,
        store, wanted>>
    BY <1>8 DEF FireMacro, main, mash, watcher, clocks, history
  <2>2. /\ watch = "play" /\ watch' = "cool" /\ mixed' \in 0..2
        /\ strays' \in [Triggers -> Nat]
    <3>1. watch = "play" /\ watch' = "cool" /\ mixed' = 0 /\ Stray(firing.name)
      BY <1>8 DEF FireMacro, WatchAt
    <3> QED BY <3>1, Straying, NoneMixed
  <2> QED BY <2>1, <2>2
<1>9. CASE FireRefused
  <2>1. UNCHANGED <<active, over, loop, quit, armed, wstop, pass, cooling, store, mixed,
        wanted, strays>>
    BY <1>9 DEF FireRefused, main, mash, watcher, clocks, history
  <2>2. watch' = "top" /\ firing' = None /\ held' \in [Entries -> BOOLEAN]
    BY <1>9, Ending DEF FireRefused
  <2> QED BY <2>1, <2>2
<1>10. CASE FireMissing
  <2>1. UNCHANGED <<active, over, loop, quit, wstop, pass, cooling, store, mixed,
        strays>>
    BY <1>10 DEF FireMissing, main, mash, watcher, clocks, history
  <2>2. /\ watch' = "top" /\ firing' = None /\ held' \in [Entries -> BOOLEAN]
        /\ armed' = Without(firing.name) /\ wanted' \subseteq Triggers
    BY <1>10, Ending DEF FireMissing
  <2> QED BY <2>1, <2>2, Popping
<1>11. CASE StartCooldown
  <2>1. UNCHANGED <<active, over, loop, quit, armed, wstop, pass, store, mixed, wanted,
        strays>>
    BY <1>11 DEF StartCooldown, main, mash, watcher, clocks, history
  <2>2. /\ watch' = "top" /\ firing' = None /\ held' \in [Entries -> BOOLEAN]
        /\ cooling' \in [Entries -> BOOLEAN]
    BY <1>11, Ending DEF StartCooldown
  <2> QED BY <2>1, <2>2
<1> QED BY <1>1, <1>2, <1>3, <1>4, <1>5, <1>6, <1>7, <1>8, <1>9, <1>10, <1>11
   DEF WatcherStep

LEMMA Arming ==
  ASSUME DriverTypes, NEW n \in Triggers, NEW e \in Entries,
         armed' = IF IsArmed(n)
                  THEN [i \in DOMAIN armed |->
                          IF armed[i].name = n THEN [name |-> n, entry |-> e] ELSE armed[i]]
                  ELSE Append(armed, [name |-> n, entry |-> e])
  PROVE  /\ armed' \in Seq(Pairs)
         /\ \A i, j \in DOMAIN armed' : armed'[i].name = armed'[j].name => i = j
         /\ \A i \in DOMAIN armed' :
              armed'[i].name = n \/ \E j \in DOMAIN armed : armed'[i].name = armed[j].name
<1> DEFINE p == [name |-> n, entry |-> e]
<1>1. p \in Pairs /\ p.name = n
  BY DEF Pairs
<1>2. armed \in Seq(Pairs)
  BY DEF DriverTypes
<1>3. \A i, j \in DOMAIN armed : armed[i].name = armed[j].name => i = j
  BY DEF DriverTypes
<1>4. CASE IsArmed(n)
  <2> HIDE DEF p
  <2>1. armed' = [i \in DOMAIN armed |-> IF armed[i].name = n THEN p ELSE armed[i]]
    BY <1>4 DEF p
  <2>2. DOMAIN armed' = DOMAIN armed
    BY <2>1
  <2>3. armed' \in Seq(Pairs)
    BY <1>1, <1>2, <2>1
  <2>4. \A i \in DOMAIN armed' : armed'[i].name = armed[i].name
    BY <1>1, <2>1
  <2> QED BY <1>3, <2>2, <2>3, <2>4
<1>5. CASE ~IsArmed(n)
  <2> HIDE DEF p
  <2>1. armed' = Append(armed, p)
    BY <1>5 DEF p
  <2>2. /\ armed' \in Seq(Pairs)
        /\ DOMAIN armed' = 1..(Len(armed) + 1) /\ DOMAIN armed = 1..Len(armed)
        /\ Len(armed) \in Nat
        /\ \A i \in DOMAIN armed : armed'[i] = armed[i]
        /\ armed'[Len(armed) + 1] = p
    BY <1>1, <1>2, <2>1
  <2>3. \A i \in DOMAIN armed : armed[i].name # n
    BY <1>5 DEF IsArmed
  <2>4. \A i \in DOMAIN armed' : i \in DOMAIN armed \/ i = Len(armed) + 1
    BY <2>2
  <2> QED BY <1>1, <1>3, <2>2, <2>3, <2>4
<1> QED BY <1>4, <1>5

LEMMA DriverWeb ==
  ASSUME DriverInv, WebStep PROVE DriverInv'
<1> USE DEF DriverInv, DriverTypes, FireInv
<1>1. ASSUME NEW n \in Triggers, Arm(n) PROVE DriverInv'
  <2>1. UNCHANGED <<active, over, loop, quit, watch, wstop, pass, firing, store, mixed>>
    BY <1>1 DEF Arm, main, mash
  <2>2. /\ wanted' \subseteq Triggers /\ strays' \in [Triggers -> Nat]
        /\ held' \in [Entries -> BOOLEAN] /\ cooling' \in [Entries -> BOOLEAN]
    BY <1>1 DEF Arm
  <2>3. /\ armed' \in Seq(Pairs)
        /\ \A i, j \in DOMAIN armed' : armed'[i].name = armed'[j].name => i = j
    BY <1>1, Arming DEF Arm
  <2> QED BY <2>1, <2>2, <2>3
<1>2. ASSUME NEW n \in Triggers, Disarm(n) PROVE DriverInv'
  <2>1. UNCHANGED <<active, over, loop, quit, watch, wstop, pass, firing, held, cooling,
        store, mixed, strays>>
    BY <1>2 DEF Disarm, main, mash, watcher, clocks, history
  <2>2. /\ armed' \in Seq(Pairs) /\ wanted' \subseteq Triggers
        /\ \A i, j \in DOMAIN armed' : armed'[i].name = armed'[j].name => i = j
    <3>1. armed' = Without(n) /\ wanted' \subseteq Triggers
      BY <1>2 DEF Disarm
    <3> QED BY <3>1, Popping
  <2>3. DriverTypes'
    BY <2>1, <2>2
  <2>4. FireInv'
    BY <2>1
  <2> QED BY <2>3, <2>4
<1>3. CASE DisarmAll
  <2>1. UNCHANGED <<active, over, loop, quit, watch, wstop, pass, firing, held, cooling,
        store, mixed, strays>>
    BY <1>3 DEF DisarmAll, main, mash, watcher, clocks, history
  <2>2. armed' = <<>> /\ wanted' \subseteq Triggers
    BY <1>3 DEF DisarmAll
  <2> QED BY <2>1, <2>2, NoPairs
<1>4. ASSUME NEW m \in Macros, DeleteMacro(m) PROVE DriverInv'
  <2>1. UNCHANGED <<active, over, loop, quit, armed, watch, wstop, pass, firing, held,
        cooling, mixed, wanted, strays>>
    BY <1>4 DEF DeleteMacro, main, mash, watcher, clocks, history
  <2>2. store' \subseteq Macros
    BY <1>4 DEF DeleteMacro
  <2> QED BY <2>1, <2>2
<1>5. ASSUME NEW m \in Macros, SaveMacro(m) PROVE DriverInv'
  <2>1. UNCHANGED <<active, over, loop, quit, armed, watch, wstop, pass, firing, held,
        cooling, mixed, wanted, strays>>
    BY <1>5 DEF SaveMacro, main, mash, watcher, clocks, history
  <2>2. store' \subseteq Macros
    BY <1>5 DEF SaveMacro
  <2> QED BY <2>1, <2>2
<1>6. ASSUME NEW m \in Macros, NEW again \in BOOLEAN, PlayButton(m, again) PROVE DriverInv'
  <2>1. UNCHANGED <<active, over, loop, quit, armed, watch, wstop, pass, firing, held,
        cooling, store, wanted, strays>>
    BY <1>6 DEF PlayButton, main, mash, watcher, clocks, history
  <2>2. mixed' \in 0..2
    <3>1. mixed' = 0
      BY <1>6 DEF PlayButton
    <3> QED BY <3>1, NoneMixed
  <2> QED BY <2>1, <2>2
<1>7. CASE StopButton
  <2>1. UNCHANGED <<active, over, loop, quit, armed, watch, wstop, pass, firing, held,
        cooling, store, mixed, wanted, strays>>
    BY <1>7 DEF StopButton, main, mash, watcher, clocks, history
  <2> QED BY <2>1
<1> QED BY <1>1, <1>2, <1>3, <1>4, <1>5, <1>6, <1>7 DEF WebStep

LEMMA DriverOther ==
  ASSUME DriverInv, PlayerStep \/ Clock \/ UNCHANGED vars PROVE DriverInv'
<1> USE DEF DriverInv, DriverTypes, FireInv
<1>1. CASE PlayerStep
  <2>1. UNCHANGED <<active, over, loop, quit, armed, watch, wstop, pass, firing, held,
        cooling, store, mixed, wanted, strays>>
    BY <1>1 DEF PlayerStep, main, mash, watcher, clocks, history
  <2> QED BY <2>1
<1>2. CASE MashDeadline
  <2>1. UNCHANGED <<active, loop, quit, armed, watch, wstop, pass, firing, held,
        cooling, store, mixed, wanted, strays>>
    BY <1>2 DEF MashDeadline, main, mash, watcher, clocks, history
  <2>2. over' = TRUE
    BY <1>2 DEF MashDeadline
  <2> QED BY <2>1, <2>2
<1>3. ASSUME NEW e \in Entries, CooledDown(e) PROVE DriverInv'
  <2>1. UNCHANGED <<active, over, loop, quit, armed, watch, wstop, pass, firing, held,
        store, mixed, wanted, strays>>
    BY <1>3 DEF CooledDown, main, mash, watcher, clocks, history
  <2>2. cooling' \in [Entries -> BOOLEAN]
    BY <1>3 DEF CooledDown
  <2> QED BY <2>1, <2>2
<1>4. CASE UNCHANGED vars
  <2>1. UNCHANGED <<active, over, loop, quit, armed, watch, wstop, pass, firing, held,
        cooling, store, mixed, wanted, strays>>
    BY <1>4 DEF vars, main, mash, watcher, clocks, history
  <2> QED BY <2>1
<1> QED BY <1>1, <1>2, <1>3, <1>4 DEF Clock

LEMMA DriverInvariant == Spec => []DriverInv
<1>1. DriverInv /\ [Next]_vars => DriverInv'
  BY DriverMain, DriverWatcher, DriverWeb, DriverOther DEF Next, Exited
<1> QED BY <1>1, DriverInit, PTL DEF Spec

-----------------------------------------------------------------------------
(* The player in use *)

LEMMA PlayerUse == ASSUME DriverInv, [Next]_vars PROVE [PlayerNext]_playerVars
<1> USE AutopilotAssumption DEF playerVars
<1>1. CASE WebStep
  <2>1. ASSUME NEW m \in Macros, NEW again \in BOOLEAN, PlayButton(m, again) PROVE PlayerNext
    BY <2>1 DEF PlayButton, PlayerNext, PlayCall
  <2>2. ASSUME StopButton PROVE PlayerNext
    BY <2>2 DEF StopButton, PlayerNext
  <2>3. ASSUME NEW n \in Triggers, Arm(n) \/ Disarm(n) \/ DisarmAll PROVE UNCHANGED playerVars
    BY <2>3 DEF Arm, Disarm, DisarmAll
  <2>4. ASSUME NEW m \in Macros, DeleteMacro(m) \/ SaveMacro(m) PROVE UNCHANGED playerVars
    BY <2>4 DEF DeleteMacro, SaveMacro
  <2>5. DisarmAll => UNCHANGED playerVars
    BY DEF DisarmAll
  <2> QED BY <1>1, <2>1, <2>2, <2>3, <2>4, <2>5 DEF WebStep
<1>2. CASE PlayerStep
  BY <1>2 DEF PlayerStep, PlayerNext, StopStep
<1>3. CASE WatcherStep
  <2>1. CASE FireMacro
    <3>1. Macro[firing.name] \in Macros /\ Loops[firing.name] \in BOOLEAN
      BY <2>1 DEF FireMacro, WatchAt, DriverInv, FireInv, Pairs
    <3> QED BY <2>1, <3>1 DEF FireMacro, PlayerNext, PlayCall
  <2>2. CASE ~FireMacro
    BY <1>3, <2>2 DEF WatcherStep, WatchTop, WatchGates, WatchSame, WatchQuiet, WatchFires,
       FireMash, LoadMacro, FireRefused, FireMissing, StartCooldown
  <2> QED BY <2>1, <2>2
<1>4. CASE MainStep \/ RequestStop
  <2>1. ShutdownWatcher \/ ShutdownPlayer => PlayerNext
    BY DEF ShutdownWatcher, ShutdownPlayer, PlayerNext, StopStep
  <2>2. LoopMash \/ LoopClear \/ LoopReread \/ LoopGate \/ LoopPostMerged \/ LoopLeave
        \/ ShutdownWeb \/ RequestStop => UNCHANGED playerVars
    BY DEF LoopMash, LoopClear, LoopReread, LoopGate, LoopPostMerged, LoopLeave, ShutdownWeb,
       RequestStop
  <2> QED BY <1>4, <2>1, <2>2 DEF MainStep
<1>5. CASE Clock \/ UNCHANGED vars
  BY <1>5 DEF Clock, MashDeadline, CooledDown, vars
<1> QED BY <1>1, <1>2, <1>3, <1>4, <1>5 DEF Next, Exited

\* runner.py, triggers.py, web.py: whatever the three callers do to the
\* player is a behaviour of the player on its own, so that what is proved of
\* MacroPlayer for any callers holds here.
THEOREM PlayerIsUsedAsSpecified == Spec => PlayerSpec
<1>1. Init => PlayerInit
  BY DEF Init
<1> QED BY <1>1, PlayerUse, DriverInvariant, PTL DEF Spec, PlayerSpec

\* The types of all threads, the player's included: a thread never indexes a
\* frame its macro does not have, and a name is armed at most once.
THEOREM AutopilotTypeCorrect == Spec => []TypeOK
<1>1. DriverInv /\ RangeInv => TypeOK
  BY DEF DriverInv, DriverTypes, RangeInv, TypeOK, PlayerTypeOK
<1> QED BY <1>1, DriverInvariant, RangeInvariant, PlayerIsUsedAsSpecified, PTL

-----------------------------------------------------------------------------
(* Disarming *)

AboutToFire == {"fire", "missing", "play"}

\* Only wanted triggers are armed, and one that has fired unwanted is neither
\* in the pass nor being fired.
StrayInv ==
  /\ \A i \in DOMAIN armed : armed[i].name \in wanted
  /\ \A n \in Triggers : strays[n] # 0 =>
       /\ strays[n] = 1
       /\ n \notin wanted
       /\ \A i \in DOMAIN pass : pass[i].name # n
       /\ watch \in AboutToFire => firing.name # n

\* A fire that nobody wants uses up the one that is allowed.
LEMMA StrayFire ==
  ASSUME DriverInv, StrayInv, watch \in AboutToFire, watch' = "cool", pass' = pass,
         Stray(firing.name), UNCHANGED <<armed, wanted>>
  PROVE  StrayInv'
<1>1. firing \in Pairs /\ firing.name \in Triggers /\ pass = <<>>
  BY DEF DriverInv, FireInv, AboutToFire, Pairs
<1>2. strays[firing.name] = 0
  BY <1>1 DEF StrayInv
<1>3. strays \in [Triggers -> Nat]
  BY DEF DriverInv, DriverTypes
<1>4. CASE firing.name \in wanted
  <2>1. strays' = strays
    BY <1>1, <1>3, <1>4 DEF Stray
  <2> QED BY <1>1, <2>1 DEF StrayInv, AboutToFire
<1>5. CASE firing.name \notin wanted
  <2>1. strays' = [strays EXCEPT ![firing.name] = 1]
    BY <1>1, <1>2, <1>3, <1>5 DEF Stray
  <2>2. \A n \in Triggers : n # firing.name => strays'[n] = strays[n]
    BY <1>3, <2>1
  <2>3. strays'[firing.name] = 1
    BY <1>1, <1>3, <2>1
  <2>4. \A i \in DOMAIN pass' : pass'[i].name # firing.name
    BY <1>1
  <2> QED BY <1>5, <2>2, <2>3, <2>4 DEF StrayInv, AboutToFire
<1> QED BY <1>4, <1>5

LEMMA StrayStep == ASSUME DriverInv, StrayInv, [Next]_vars PROVE StrayInv'
<1> USE DEF StrayInv, AboutToFire, WatchAt
<1>1. ASSUME UNCHANGED <<armed, wanted, strays>>,
             \/ UNCHANGED <<pass, watch, firing>>
             \/ UNCHANGED <<pass, firing>> /\ watch \in AboutToFire
             \/ pass' \in {<<>>, pass, armed} /\ watch' \notin AboutToFire
      PROVE  StrayInv'
  <2>1. CASE pass' = <<>>
    BY <1>1, <2>1
  <2>2. CASE pass' # <<>>
    BY <1>1, <2>2
  <2> QED BY <2>1, <2>2
<1>2. CASE MainStep \/ RequestStop \/ PlayerStep \/ Clock \/ UNCHANGED vars
  <2>1. UNCHANGED <<armed, wanted, strays, pass, watch, firing>>
    BY <1>2 DEF MainStep, RequestStop, PlayerStep, Clock, LoopMash, LoopClear, LoopReread,
       LoopGate, LoopPostMerged, LoopLeave, ShutdownWatcher, ShutdownPlayer, ShutdownWeb,
       MashDeadline, CooledDown, vars, watcher, history
  <2> QED BY <1>1, <2>1
<1>3. CASE WatcherStep
  <2>1. CASE WatchTop \/ WatchGates \/ WatchSame \/ WatchQuiet \/ FireRefused \/ StartCooldown
    <3>1. /\ UNCHANGED <<armed, wanted, strays>>
          /\ pass' \in {<<>>, pass, armed} /\ watch' \notin AboutToFire
      BY <2>1 DEF WatchTop, WatchGates, WatchSame, WatchQuiet, FireRefused, StartCooldown,
         EndFire, history
    <3> QED BY <1>1, <3>1
  <2>2. CASE WatchFires
    <3>1. UNCHANGED <<armed, wanted, strays>> /\ pass' = <<>> /\ watch' = "fire"
          /\ \E i \in DOMAIN pass : firing' = pass[i]
      BY <2>2 DEF WatchFires, Ready
    <3> QED BY <3>1
  <2>3. CASE LoadMacro
    <3>1. UNCHANGED <<armed, wanted, strays, pass, firing>> /\ watch \in AboutToFire
      BY <2>3 DEF LoadMacro, history
    <3> QED BY <1>1, <3>1
  <2>4. CASE FireMash
    BY <2>4, StrayFire DEF FireMash
  <2>5. CASE FireMacro
    BY <2>5, StrayFire DEF FireMacro
  <2>6. CASE FireMissing
    <3>1. /\ armed' = Without(firing.name) /\ wanted' = wanted \ {firing.name}
          /\ strays' = strays /\ pass' = pass /\ watch' = "top"
      BY <2>6 DEF FireMissing, EndFire
    <3>2. /\ \A i \in DOMAIN armed' : \E j \in DOMAIN armed : armed'[i] = armed[j]
          /\ \A i \in DOMAIN armed' : armed'[i].name # firing.name
      BY <3>1, Popping DEF DriverInv
    <3> QED BY <3>1, <3>2
  <2> QED BY <1>3, <2>1, <2>2, <2>3, <2>4, <2>5, <2>6 DEF WatcherStep
<1>4. ASSUME NEW n \in Triggers, Arm(n) PROVE StrayInv'
  <2>1. /\ wanted' = wanted \cup {n} /\ strays' = [strays EXCEPT ![n] = 0]
        /\ UNCHANGED <<pass, watch, firing>>
    BY <1>4 DEF Arm
  <2>2. \A i \in DOMAIN armed' :
          armed'[i].name = n \/ \E j \in DOMAIN armed : armed'[i].name = armed[j].name
    BY <1>4, Arming DEF Arm, DriverInv
  <2>3. strays \in [Triggers -> Nat]
    BY DEF DriverInv, DriverTypes
  <2> QED BY <2>1, <2>2, <2>3
<1>5. ASSUME NEW n \in Triggers, Disarm(n) PROVE StrayInv'
  <2>1. /\ armed' = Without(n) /\ wanted' = wanted \ {n}
        /\ UNCHANGED <<strays, pass, watch, firing>>
    BY <1>5 DEF Disarm, watcher
  <2>2. /\ \A i \in DOMAIN armed' : \E j \in DOMAIN armed : armed'[i] = armed[j]
        /\ \A i \in DOMAIN armed' : armed'[i].name # n
    BY <2>1, Popping DEF DriverInv
  <2> QED BY <2>1, <2>2
<1>6. CASE DisarmAll
  <2>1. armed' = <<>> /\ wanted' = {} /\ UNCHANGED <<strays, pass, watch, firing>>
    BY <1>6 DEF DisarmAll, watcher
  <2> QED BY <2>1
<1>7. ASSUME NEW m \in Macros, NEW again \in BOOLEAN,
             DeleteMacro(m) \/ SaveMacro(m) \/ PlayButton(m, again)
      PROVE  StrayInv'
  <2>1. UNCHANGED <<armed, wanted, strays, pass, watch, firing>>
    BY <1>7 DEF DeleteMacro, SaveMacro, PlayButton, watcher, history
  <2> QED BY <1>1, <2>1
<1>8. CASE StopButton
  <2>1. UNCHANGED <<armed, wanted, strays, pass, watch, firing>>
    BY <1>8 DEF StopButton, watcher, history
  <2> QED BY <1>1, <2>1
<1> QED BY <1>2, <1>3, <1>4, <1>5, <1>6, <1>7, <1>8 DEF Next, WebStep, Exited

\* triggers.py, disarm: whenever a trigger is disarmed, and however it was
\* armed before, it fires at most once more.
THEOREM DisarmedFiresOnce == Spec => []DisarmHolds
<1>1. Init => StrayInv
  BY DEF Init, StrayInv
<1>2. DriverInv /\ StrayInv => DisarmHolds
  <2> SUFFICES ASSUME DriverInv, StrayInv, NEW n \in Triggers PROVE strays[n] <= 1
    BY DEF DisarmHolds
  <2>1. strays[n] = 0 \/ strays[n] = 1
    BY DEF StrayInv
  <2> QED BY <2>1
<1> QED BY <1>1, <1>2, StrayStep, DriverInvariant, PTL DEF Spec

-----------------------------------------------------------------------------
(* Yielding to a playback, when the page's stop button is not used          *)

NoStopButton == "stop" \notin Buttons

\* The main thread is in the player's stop() or past it.
Stopping == loop \in {"stopping player", "stopping web", "done"}

NothingRuns == \A t \in Threads : ~Alive(t)
OnlyCurrentRuns == \A t \in Threads : Alive(t) => t = current

\* Nobody forgets a running playback before the watcher is dead, so whoever
\* starts one, nothing runs beside it; and a tick that still posts beside a
\* playback had passed its gate before that began.
TurnInv ==
  /\ Stopping => watch = "dead"
  /\ ~Stopping => OnlyCurrentRuns /\ \A c \in Callers : call[c] = "idle"
  /\ mixed <= 1
  /\ mixed = 1 /\ loop = "merged" => NothingRuns

\* Steps of the playbacks: they only end.
LEMMA PlaybackStep ==
  ASSUME PlayerTypes, NEW t \in Threads, ThreadStep(t)
  PROVE  /\ UNCHANGED <<stopEv, current, callers>>
         /\ \A s \in Threads : at'[s] # "off" => at[s] # "off"
         /\ \A s \in Threads : at'[s] \in Running => at[s] \in Running
<1>1. UNCHANGED <<stopEv, current, callers>>
  BY DEF ThreadStep, LoopTest, AwaitFrame, Posted, Finish, shared
<1>2. at[t] # "off" /\ \A s \in Threads : s # t => at'[s] = at[s]
  BY DEF ThreadStep, LoopTest, AwaitFrame, Posted, Finish, PlayerTypes
<1>3. at'[t] \in Running => at[t] \in Running
  BY DEF ThreadStep, LoopTest, AwaitFrame, Posted, Finish, PlayerTypes, Running
<1> QED BY <1>1, <1>2, <1>3

\* Once started a playback is the only thread, if it was looked for.
LEMMA StartedAlone ==
  ASSUME PlayerTypes, OnlyCurrentRuns,
         NEW c \in Callers, NEW m, NEW looped, PlayAsync(c, m, looped)
  PROVE  NothingRuns /\ OnlyCurrentRuns' /\ call' = call
<1>1. NothingRuns /\ call' = call
  BY PlayerAssumption DEF PlayAsync, IsPlaying, OnlyCurrentRuns, NothingRuns, callers
<1>2. PICK t \in Threads : current' = t /\ Begin(t, m, looped)
  BY DEF PlayAsync
<1>3. \A s \in Threads : s # t => at'[s] = at[s]
  BY <1>2 DEF Begin, PlayerTypes
<1> QED BY <1>1, <1>2, <1>3 DEF NothingRuns, OnlyCurrentRuns, Alive

LEMMA Counting ==
  /\ \A x : x \in 0..2 /\ x <= 1 => x = 0 \/ x = 1
  /\ \A x : x = 0 => x <= 1 /\ x # 1
OBVIOUS

LEMMA GateIsShut ==
  ASSUME OnlyCurrentRuns, ~IsPlaying PROVE NothingRuns
BY PlayerAssumption DEF OnlyCurrentRuns, NothingRuns, IsPlaying

LEMMA TurnPlayer == ASSUME PlayerTypes, TurnInv, PlayerStep PROVE TurnInv'
<1> USE DEF TurnInv, Stopping, OnlyCurrentRuns, NothingRuns, Alive, Running
<1>1. UNCHANGED <<loop, watch, mixed>>
  BY DEF PlayerStep, main, watcher, history
<1>2. ASSUME NEW t \in Threads, ThreadStep(t) PROVE TurnInv'
  BY <1>1, <1>2, PlaybackStep DEF callers
<1>3. ASSUME NEW c \in Callers, StopRead(c) \/ Joined(c) \/ JoinTimeout(c) \/ StopForget(c)
      PROVE  TurnInv'
  <2>1. call[c] # "idle" /\ UNCHANGED threads
    BY <1>3 DEF StopRead, Joined, JoinTimeout, StopForget, StopWaiting
  <2>2. Stopping
    BY <2>1
  <2> QED BY <1>1, <2>1, <2>2 DEF threads
<1>4. Web \in Callers
  BY AutopilotAssumption
<1> QED BY <1>2, <1>3, <1>4 DEF PlayerStep

LEMMA TurnMain == ASSUME mixed \in 0 .. 2, TurnInv, MainStep \/ RequestStop PROVE TurnInv'
<1> USE DEF TurnInv, Stopping, Alive
<1>1. CASE LoopMash \/ LoopClear \/ LoopReread \/ RequestStop \/ LoopLeave
  <2>1. /\ UNCHANGED <<watch, mixed>> /\ at' = at /\ current' = current /\ call' = call
        /\ loop' = loop \/ (loop' \notin {"merged", "stopping player", "stopping web", "done"}
                            /\ ~Stopping)
    BY <1>1 DEF LoopMash, LoopClear, LoopReread, RequestStop, LoopLeave, LoopAt, watcher, history,
       playerVars, shared, threads, callers
  <2> QED BY <2>1 DEF OnlyCurrentRuns, NothingRuns
<1>2. CASE LoopGate
  <2>1. /\ UNCHANGED <<watch, mixed>> /\ at' = at /\ current' = current /\ call' = call
        /\ loop = "gate" /\ loop' \in {"mash", "merged"} /\ (loop' = "merged" => ~IsPlaying)
    BY <1>2 DEF LoopGate, watcher, history, playerVars, shared, threads, callers
  <2>2. ~IsPlaying => NothingRuns
    BY <2>1, GateIsShut
  <2> QED BY <2>1, <2>2 DEF OnlyCurrentRuns, NothingRuns
<1>3. CASE LoopPostMerged
  <2>1. /\ watch' = watch /\ at' = at /\ current' = current /\ call' = call
        /\ loop = "merged" /\ loop' = "mash"
        /\ mixed' = IF Playback /\ mixed < 2 THEN mixed + 1 ELSE mixed
    BY <1>3 DEF LoopPostMerged, LoopAt, watcher, playerVars, shared, threads, callers
  <2>2. mixed' <= 1
    <3>1. mixed = 0 \/ mixed = 1
      BY Counting
    <3>2. Playback => ~NothingRuns
      BY DEF Playback, NothingRuns, Running
    <3> QED BY <2>1, <3>1, <3>2
  <2> QED BY <2>1, <2>2 DEF OnlyCurrentRuns
<1>4. CASE ShutdownWatcher \/ ShutdownPlayer \/ ShutdownWeb
  <2>1. /\ UNCHANGED <<watch, mixed>> /\ watch = "dead"
        /\ loop' \in {"stopping player", "stopping web", "done"}
    BY <1>4 DEF ShutdownWatcher, ShutdownPlayer, ShutdownWeb, LoopAt, watcher, history
  <2> QED BY <2>1
<1> QED BY <1>1, <1>2, <1>3, <1>4 DEF MainStep

LEMMA TurnWatcher == ASSUME PlayerTypes, TurnInv, WatcherStep PROVE TurnInv'
<1> USE DEF TurnInv, Stopping, WatchAt
<1>0. loop' = loop /\ ~Stopping
  BY DEF WatcherStep, WatchTop, WatchGates, WatchSame, WatchQuiet, WatchFires, FireMash,
     LoadMacro, FireMacro, FireRefused, FireMissing, StartCooldown, main
<1>1. CASE FireMacro
  <2>1. mixed' = 0 /\ PlayAsync(Watcher, Macro[firing.name], Loops[firing.name])
    BY <1>1 DEF FireMacro
  <2>2. OnlyCurrentRuns' /\ call' = call
    BY <1>0, <2>1, StartedAlone, AutopilotAssumption
  <2>3. mixed' <= 1 /\ mixed' # 1
    BY <2>1, Counting
  <2> QED BY <1>0, <2>2, <2>3
<1>2. CASE ~FireMacro
  <2>1. mixed' = mixed /\ at' = at /\ current' = current /\ call' = call
    BY <1>2 DEF WatcherStep, WatchTop, WatchGates, WatchSame, WatchQuiet, WatchFires, FireMash,
       LoadMacro, FireRefused, FireMissing, StartCooldown, history, playerVars, shared, threads,
       callers
  <2> QED BY <1>0, <2>1 DEF OnlyCurrentRuns, NothingRuns, Alive
<1> QED BY <1>1, <1>2

\* The page's play button looks for a playback as the watcher does.
LEMMA TurnOther ==
  ASSUME NoStopButton, PlayerTypes, TurnInv, WebStep \/ Clock \/ UNCHANGED vars
  PROVE  TurnInv'
<1> USE DEF TurnInv, Stopping
<1>1. UNCHANGED <<loop, watch>>
  BY DEF WebStep, Arm, Disarm, DisarmAll, DeleteMacro, SaveMacro, PlayButton, StopButton,
     Clock, MashDeadline, CooledDown, vars, main, watcher
<1>2. ASSUME NEW m \in Macros, NEW again \in BOOLEAN, PlayButton(m, again) PROVE TurnInv'
  <2>1. mixed' = 0 /\ PlayAsync(Web, m, again)
    BY <1>2 DEF PlayButton
  <2>2. ~Stopping => OnlyCurrentRuns' /\ call' = call
    BY <2>1, StartedAlone, AutopilotAssumption
  <2>3. mixed' <= 1 /\ mixed' # 1
    BY <2>1, Counting
  <2> QED BY <1>1, <2>2, <2>3
<1>3. ASSUME UNCHANGED <<mixed, at, current, call>> PROVE TurnInv'
  BY <1>1, <1>3 DEF OnlyCurrentRuns, NothingRuns, Alive
<1> USE DEF history, playerVars, shared, threads, callers
<1>4. ASSUME NEW n \in Triggers, Arm(n) PROVE TurnInv'
  BY <1>3, <1>4 DEF Arm
<1>5. ASSUME NEW n \in Triggers, Disarm(n) PROVE TurnInv'
  BY <1>3, <1>5 DEF Disarm
<1>6. CASE DisarmAll
  BY <1>3, <1>6 DEF DisarmAll
<1>7. ASSUME NEW m \in Macros, DeleteMacro(m) \/ SaveMacro(m) PROVE TurnInv'
  BY <1>3, <1>7 DEF DeleteMacro, SaveMacro
<1>8. ~StopButton
  BY DEF NoStopButton, StopButton
<1>9. CASE MashDeadline
  BY <1>3, <1>9 DEF MashDeadline
<1>10. ASSUME NEW e \in Entries, CooledDown(e) PROVE TurnInv'
  BY <1>3, <1>10 DEF CooledDown
<1>11. CASE UNCHANGED vars
  BY <1>3, <1>11 DEF vars
<1> QED BY <1>2, <1>4, <1>5, <1>6, <1>7, <1>8, <1>9, <1>10, <1>11 DEF WebStep, Clock

LEMMA TurnInvariant == ASSUME NoStopButton PROVE Spec => []TurnInv
<1>1. Init => TurnInv
  BY DEF Init, PlayerInit, TurnInv, Stopping, OnlyCurrentRuns, NothingRuns, Alive
<1>2. DriverInv => mixed \in 0 .. 2
  BY DEF DriverInv, DriverTypes
<1>3. DriverInv /\ PlayerTypes /\ TurnInv /\ [Next]_vars => TurnInv'
  BY <1>2, NoStopButton, TurnPlayer, TurnMain, TurnWatcher, TurnOther DEF Next, Exited
<1>4. RangeInv => PlayerTypes
  BY DEF RangeInv
<1> QED
  BY <1>1, <1>3, <1>4, DriverInvariant, RangeInvariant, PlayerIsUsedAsSpecified, PTL DEF Spec

\* triggers.py: a macro "automatically displaces the AI", but for one tick,
\* whether a trigger or the page's play button has started it.
THEOREM MacroDisplacesAi == ASSUME NoStopButton PROVE Spec => []MacroDisplacesTick
<1>1. TurnInv => MacroDisplacesTick
  BY DEF TurnInv, MacroDisplacesTick
<1> QED BY <1>1, TurnInvariant, PTL

-----------------------------------------------------------------------------
(* Sharing the console, when the page's play and stop buttons are not used *)

HandsOff == Buttons \cap {"play", "stop"} = {}

\* The watcher is the only one to start scripts and looks before it does.
OwnInv ==
  /\ watch \in {"frame", "fire", "missing", "play"} => ~active /\ NothingRuns
  /\ OneScript

ScriptInv == TurnInv /\ OwnInv
IInv == DriverInv /\ PlayerTypes /\ ScriptInv

LEMMA OwnPlayer == ASSUME IInv, PlayerStep PROVE OwnInv'
<1> USE DEF OwnInv, NothingRuns, Alive, Running, OneScript, MashOpen, Playback
<1>1. UNCHANGED <<active, over, loop, watch>>
  BY DEF PlayerStep, mash, main, watcher
<1>2. ASSUME NEW t \in Threads, ThreadStep(t) PROVE OwnInv'
  BY <1>1, <1>2, PlaybackStep DEF IInv, ScriptInv
<1>3. ASSUME NEW c \in Callers, StopRead(c) \/ Joined(c) \/ JoinTimeout(c) \/ StopForget(c)
      PROVE  OwnInv'
  <2>1. UNCHANGED threads
    BY <1>3 DEF StopRead, Joined, JoinTimeout, StopForget, StopWaiting
  <2> QED BY <1>1, <2>1 DEF threads, IInv, ScriptInv
<1>4. Web \in Callers
  BY AutopilotAssumption
<1> QED BY <1>2, <1>3, <1>4 DEF PlayerStep

LEMMA OwnMain == ASSUME IInv, MainStep \/ RequestStop PROVE OwnInv'
<1> USE DEF LoopAt, mash, watcher, playerVars, shared, threads
<1>1. ASSUME UNCHANGED <<active, over, watch, at>> PROVE OwnInv'
  BY <1>1 DEF IInv, ScriptInv, OwnInv, NothingRuns, Alive, OneScript, MashOpen, Playback
<1>2. CASE LoopMash \/ LoopReread \/ LoopGate \/ LoopPostMerged \/ RequestStop
  BY <1>1, <1>2 DEF LoopMash, LoopReread, LoopGate, LoopPostMerged, RequestStop
<1>3. CASE LoopClear
  <2>1. watch' = watch /\ at' = at /\ active' = FALSE
    BY <1>3 DEF LoopClear
  <2> QED BY <2>1 DEF IInv, ScriptInv, OwnInv, NothingRuns, Alive, OneScript, MashOpen
<1>4. CASE LoopLeave
  BY <1>1, <1>4 DEF LoopLeave
<1>5. CASE ShutdownWatcher \/ ShutdownPlayer \/ ShutdownWeb
  BY <1>1, <1>5 DEF ShutdownWatcher, ShutdownPlayer, ShutdownWeb, StopSet, StopForget
<1> QED BY <1>2, <1>3, <1>4, <1>5 DEF MainStep

LEMMA OwnWatcher == ASSUME IInv, WatcherStep PROVE OwnInv'
<1> USE DEF IInv, ScriptInv, OwnInv, NothingRuns, Alive, Running, OneScript, MashOpen, Playback,
        WatchAt
<1>1. CASE WatchTop \/ WatchSame \/ FireRefused \/ FireMissing \/ StartCooldown
  <2>1. /\ UNCHANGED <<active, over>> /\ at' = at /\ watch' \in {"dead", "top", "gates"}
    BY <1>1 DEF WatchTop, WatchSame, FireRefused, FireMissing, StartCooldown, EndFire, mash,
       playerVars, threads
  <2> QED BY <2>1
<1>2. CASE WatchQuiet \/ WatchFires \/ LoadMacro
  <2>1. /\ UNCHANGED <<active, over>> /\ at' = at
        /\ watch \in {"frame", "fire"} /\ watch' \in {"top", "fire", "play", "missing"}
    BY <1>2 DEF WatchQuiet, WatchFires, LoadMacro, mash, playerVars, threads
  <2> QED BY <2>1
<1>3. CASE WatchGates
  <2>1. /\ at' = at /\ watch' \in {"top", "frame"} /\ loop' = loop /\ watch = "gates"
        /\ watch' = "frame" => ~active' /\ ~IsPlaying
        /\ active' /\ ~over' => active /\ ~over
    BY <1>3 DEF WatchGates, mash, main, playerVars, threads
  <2>2. OnlyCurrentRuns
    BY <2>1 DEF TurnInv
  <2>3. ~IsPlaying => NothingRuns
    BY <2>2, GateIsShut
  <2> QED BY <2>1, <2>3
<1>4. CASE FireMash
  <2>1. at' = at /\ watch = "fire" /\ watch' = "cool"
    BY <1>4 DEF FireMash, playerVars, threads
  <2> QED BY <2>1
<1>5. CASE FireMacro
  <2>1. UNCHANGED <<active, over>> /\ watch = "play" /\ watch' = "cool"
    BY <1>5 DEF FireMacro, mash
  <2> QED BY <2>1
<1> QED BY <1>1, <1>2, <1>3, <1>4, <1>5 DEF WatcherStep

LEMMA OwnOther ==
  ASSUME HandsOff, IInv, WebStep \/ Clock \/ UNCHANGED vars PROVE OwnInv'
<1>1. UNCHANGED <<active, watch>> /\ at' = at /\ (over => over')
  <2> USE DEF mash, watcher, playerVars, threads
  <2>1. ASSUME NEW n \in Triggers, Arm(n) PROVE UNCHANGED <<active, over, watch, at>>
    BY <2>1 DEF Arm
  <2>2. ASSUME NEW n \in Triggers, Disarm(n) PROVE UNCHANGED <<active, over, watch, at>>
    BY <2>2 DEF Disarm
  <2>3. CASE DisarmAll
    BY <2>3 DEF DisarmAll
  <2>4. ASSUME NEW m \in Macros, DeleteMacro(m) \/ SaveMacro(m)
        PROVE  UNCHANGED <<active, over, watch, at>>
    BY <2>4 DEF DeleteMacro, SaveMacro
  <2>5. ~StopButton /\ \A m, again : ~PlayButton(m, again)
    BY DEF HandsOff, StopButton, PlayButton
  <2>6. CASE MashDeadline
    BY <2>6 DEF MashDeadline
  <2>7. ASSUME NEW e \in Entries, CooledDown(e) PROVE UNCHANGED <<active, over, watch, at>>
    BY <2>7 DEF CooledDown
  <2>8. CASE UNCHANGED vars
    BY <2>8 DEF vars
  <2> QED BY <2>1, <2>2, <2>3, <2>4, <2>5, <2>6, <2>7, <2>8 DEF WebStep, Clock
<1> QED BY <1>1 DEF IInv, ScriptInv, OwnInv, NothingRuns, Alive, OneScript, MashOpen, Playback

LEMMA ScriptInvariant == ASSUME HandsOff PROVE Spec => []IInv
<1>1. Init => OwnInv
  BY DEF Init, PlayerInit, OwnInv, OneScript, MashOpen
<1>2. DriverInv /\ PlayerTypes /\ TurnInv /\ OwnInv /\ [Next]_vars => OwnInv'
  BY HandsOff, OwnPlayer, OwnMain, OwnWatcher, OwnOther DEF IInv, ScriptInv, Next, Exited
<1>3. RangeInv => PlayerTypes
  BY DEF RangeInv
<1>4. IInv <=> DriverInv /\ PlayerTypes /\ TurnInv /\ OwnInv
  BY DEF IInv, ScriptInv
<1>5. NoStopButton
  BY HandsOff DEF HandsOff, NoStopButton
<1>6. Spec => []TurnInv
  BY <1>5, TurnInvariant
<1> QED
  BY <1>1, <1>2, <1>3, <1>4, <1>6, DriverInvariant, RangeInvariant, PlayerIsUsedAsSpecified, PTL
     DEF Spec

\* README.md: a mash and a macro never drive the console together, as long as
\* only the triggers start and nobody stops them.
THEOREM OneScriptAtATime == ASSUME HandsOff PROVE Spec => []OneScript
<1>1. IInv => OneScript
  BY DEF IInv, ScriptInv, OwnInv
<1> QED BY <1>1, ScriptInvariant, PTL

-----------------------------------------------------------------------------
(* Shutdown *)

\* Once the watcher is gone the stop event stays set, so the main thread's
\* join ends with the playback, and nothing can follow it.
QuietInv ==
  /\ Stopping =>
       /\ stopEv
       /\ OnlyCurrentRuns
       /\ \A c \in Callers : call[c] # "idle" => c = Main
       /\ \A c \in Callers : call[c] = "joining" => target[c] = current /\ current # None
       /\ \A c \in Callers : call[c] = "forgetting" => NothingRuns
  /\ loop \in {"stopping web", "done"} => NothingRuns

\* What only the main thread's shutdown changes.
LEMMA QuietFrame ==
  ASSUME QuietInv, UNCHANGED <<loop, stopEv, at, current, call, target>> PROVE QuietInv'
BY DEF QuietInv, Stopping, OnlyCurrentRuns, NothingRuns, Alive

LEMMA QuietPlayer == ASSUME ~SlowPoster, IInv, QuietInv, PlayerStep PROVE QuietInv'
<1> USE DEF QuietInv, Stopping, OnlyCurrentRuns, NothingRuns, Alive
<1>0. loop' = loop /\ PlayerTypes
  BY DEF PlayerStep, main, IInv
<1>1. ASSUME NEW t \in Threads, ThreadStep(t) PROVE QuietInv'
  BY <1>0, <1>1, PlaybackStep DEF callers
<1>2. ASSUME NEW c \in Callers, StopRead(c) \/ Joined(c) \/ JoinTimeout(c) \/ StopForget(c)
      PROVE  QuietInv'
  <2>1. call[c] # "idle" /\ at' = at /\ stopEv' = stopEv
    BY <1>2 DEF StopRead, Joined, JoinTimeout, StopForget, StopWaiting, threads, shared
  <2>2. Stopping
    BY <2>1 DEF IInv, ScriptInv, TurnInv
  <2>3. c = Main /\ \A d \in Callers : d # c => call'[d] = call[d] /\ call[d] = "idle"
    BY <1>0, <1>2, <2>1, <2>2 DEF StopRead, Joined, JoinTimeout, StopForget, StopWaiting,
       PlayerTypes
  <2>4. CASE StopRead(c)
    <3>1. /\ current' = current /\ target'[c] = current
          /\ call'[c] = IF current = None THEN "forgetting" ELSE "joining"
      BY <1>0, <2>4 DEF StopRead, shared, PlayerTypes
    <3>2. current = None => NothingRuns
      BY <2>2, PlayerAssumption
    <3> QED BY <1>0, <2>1, <2>2, <2>3, <3>1, <3>2
  <2>5. CASE Joined(c)
    <3>1. current' = current /\ call'[c] = "forgetting" /\ NothingRuns
      BY <1>0, <2>2, <2>5 DEF Joined, StopWaiting, shared, PlayerTypes
    <3> QED BY <1>0, <2>1, <2>2, <2>3, <3>1
  <2>6. ~JoinTimeout(c)
    BY <2>2 DEF JoinTimeout
  <2>7. CASE StopForget(c)
    <3>1. call'[c] = "idle" /\ NothingRuns
      BY <1>0, <2>2, <2>7 DEF StopForget, PlayerTypes
    <3> QED BY <1>0, <2>1, <2>2, <2>3, <3>1
  <2> QED BY <1>2, <2>4, <2>5, <2>6, <2>7
<1>3. Web \in Callers
  BY AutopilotAssumption
<1> QED BY <1>1, <1>2, <1>3 DEF PlayerStep

LEMMA QuietMain == ASSUME IInv, QuietInv, MainStep \/ RequestStop PROVE QuietInv'
<1>1. CASE LoopMash \/ LoopClear \/ LoopReread \/ LoopGate \/ LoopPostMerged \/ LoopLeave
           \/ RequestStop
  <2>1. UNCHANGED <<stopEv, at, current, call, target>>
        /\ (loop' = loop \/ ~Stopping')
    BY <1>1 DEF LoopMash, LoopClear, LoopReread, LoopGate, LoopPostMerged, LoopLeave,
       RequestStop, LoopAt, Stopping, playerVars, shared, threads, callers
  <2> QED BY <2>1, QuietFrame DEF QuietInv, Stopping
<1>2. CASE ShutdownWatcher
  <2>1. /\ loop = "joining watcher" /\ loop' = "stopping player"
        /\ stopEv' /\ at' = at /\ current' = current /\ call' = [call EXCEPT ![Main] = "stopping"]
    BY <1>2 DEF ShutdownWatcher, StopSet, LoopAt, threads
  <2>2. OnlyCurrentRuns /\ \A c \in Callers : call[c] = "idle"
    BY <2>1 DEF IInv, ScriptInv, TurnInv, Stopping
  <2>3. \A c \in Callers : call'[c] = IF c = Main THEN "stopping" ELSE "idle"
    BY <2>1, <2>2 DEF IInv, PlayerTypes
  <2>4. OnlyCurrentRuns'
    BY <2>1, <2>2 DEF OnlyCurrentRuns, Alive
  <2>5. loop' \notin {"stopping web", "done"}
    BY <2>1
  <2>6. \A c \in Callers : call'[c] \notin {"joining", "forgetting"}
    BY <2>3
  <2> QED BY <2>1, <2>3, <2>4, <2>5, <2>6 DEF QuietInv
<1>3. CASE ShutdownPlayer
  <2>1. /\ loop = "stopping player" /\ loop' = "stopping web"
        /\ stopEv' = stopEv /\ at' = at /\ call' = [call EXCEPT ![Main] = "idle"]
        /\ call[Main] = "forgetting" /\ current' = None
    BY <1>3 DEF ShutdownPlayer, StopForget, LoopAt, threads
  <2>2. stopEv /\ NothingRuns /\ \A c \in Callers : call[c] # "idle" => c = Main
    BY <2>1, AutopilotAssumption DEF QuietInv, Stopping
  <2>3. \A c \in Callers : call'[c] = "idle"
    BY <2>1, <2>2 DEF IInv, PlayerTypes
  <2>4. stopEv' /\ NothingRuns'
    BY <2>1, <2>2 DEF NothingRuns, Alive
  <2>5. OnlyCurrentRuns'
    BY <2>4 DEF OnlyCurrentRuns, NothingRuns
  <2>6. \A c \in Callers : call'[c] # "joining"
    BY <2>3
  <2> QED BY <2>3, <2>4, <2>5, <2>6 DEF QuietInv
<1>4. CASE ShutdownWeb
  <2>1. /\ loop = "stopping web" /\ loop' = "done"
        /\ UNCHANGED <<stopEv, at, current, call, target>>
    BY <1>4 DEF ShutdownWeb, LoopAt, playerVars, shared, threads, callers
  <2> QED BY <2>1 DEF QuietInv, Stopping, OnlyCurrentRuns, NothingRuns, Alive
<1> QED BY <1>1, <1>2, <1>3, <1>4 DEF MainStep

LEMMA QuietOther ==
  ASSUME HandsOff, IInv, QuietInv, WatcherStep \/ WebStep \/ Clock \/ UNCHANGED vars
  PROVE  QuietInv'
<1> USE DEF mash, main, history, playerVars, shared, threads, callers
<1>1. CASE WatcherStep
  <2>1. watch # "dead" /\ loop' = loop
    BY <1>1 DEF WatcherStep, WatchTop, WatchGates, WatchSame, WatchQuiet, WatchFires, FireMash,
       LoadMacro, FireMacro, FireRefused, FireMissing, StartCooldown, WatchAt
  <2>2. ~Stopping
    BY <2>1 DEF IInv, ScriptInv, TurnInv
  <2> QED BY <2>1, <2>2 DEF QuietInv, Stopping
<1>2. ASSUME NEW n \in Triggers, Arm(n)
      PROVE  UNCHANGED <<loop, stopEv, at, current, call, target>>
  BY <1>2 DEF Arm
<1>3. ASSUME NEW n \in Triggers, Disarm(n)
      PROVE  UNCHANGED <<loop, stopEv, at, current, call, target>>
  BY <1>3 DEF Disarm
<1>4. ASSUME NEW m \in Macros, DeleteMacro(m) \/ SaveMacro(m)
      PROVE  UNCHANGED <<loop, stopEv, at, current, call, target>>
  BY <1>4 DEF DeleteMacro, SaveMacro
<1>5. ~StopButton /\ \A m, again : ~PlayButton(m, again)
  BY DEF HandsOff, StopButton, PlayButton
<1>6. ASSUME NEW e \in Entries, CooledDown(e)
      PROVE  UNCHANGED <<loop, stopEv, at, current, call, target>>
  BY <1>6 DEF CooledDown
<1>7. DisarmAll => UNCHANGED <<loop, stopEv, at, current, call, target>>
  BY DEF DisarmAll
<1>8. MashDeadline => UNCHANGED <<loop, stopEv, at, current, call, target>>
  BY DEF MashDeadline
<1>9. UNCHANGED vars => UNCHANGED <<loop, stopEv, at, current, call, target>>
  BY DEF vars
<1> QED
  BY <1>1, <1>2, <1>3, <1>4, <1>5, <1>6, <1>7, <1>8, <1>9, QuietFrame DEF WebStep, Clock

\* runner.py, shutdown: the watcher is stopped before the player, so nothing
\* plays and no thread is left when shutdown() returns.
THEOREM ShutdownIsQuiet ==
  ASSUME HandsOff, ~SlowPoster PROVE Spec => []QuietAfterShutdown
<1>1. Init => QuietInv
  BY DEF Init, QuietInv, Stopping
<1>2. IInv /\ QuietInv /\ [Next]_vars => QuietInv'
  BY HandsOff, ~SlowPoster, QuietPlayer, QuietMain, QuietOther DEF Next, Exited
<1>3. IInv /\ QuietInv => QuietAfterShutdown
  BY DEF IInv, ScriptInv, TurnInv, QuietInv, Stopping, NothingRuns, QuietAfterShutdown
<1> QED BY <1>1, <1>2, <1>3, ScriptInvariant, PTL DEF Spec
=============================================================================
