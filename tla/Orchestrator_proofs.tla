------------------------- MODULE Orchestrator_proofs -------------------------
(***************************************************************************)
(* Proofs about Orchestrator, for any number of clients, any queue size    *)
(* and any number of frames.  StreamInv orders what is on its way to a     *)
(* client, TapeInv relates the tape to what was built, HoldInv keeps the   *)
(* human's values.                                                         *)
(***************************************************************************)
EXTENDS Orchestrator, SequenceTheorems, TLAPS

\* What the human set is in the state, and is forgotten with the window.
HoldInv ==
  /\ HumanHolds
  /\ ~window => \A p \in Parts : held[p] = None

\* The values of s grow, lie above low and do not exceed high.
Grows(s, low, high) ==
  /\ \A i \in 1..Len(s) : low < s[i] /\ s[i] <= high
  /\ \A i, j \in 1..Len(s) : i < j => s[i] < s[j]

\* The frame in hand has not been handed to c yet.
Ahead(c) == loop \in {"locked", "send"} \/ (loop = "notify" /\ c \in todo)

\* What is scheduled is younger than what is queued, which is younger than
\* what was received; nothing is younger than the frame handed over last.
StreamOf(c) ==
  /\ Grows(queue[c], got[c], newest[c])
  /\ Grows(pending[c], got[c], newest[c])
  /\ \A i \in 1..Len(queue[c]), j \in 1..Len(pending[c]) : queue[c][i] < pending[c][j]
  /\ got[c] <= newest[c] /\ newest[c] <= snap
  /\ Ahead(c) => newest[c] < snap

StreamInv == \A c \in Clients : StreamOf(c)

\* A frame read while recording is about to be taped.
Taping == loop = "locked" /\ taping

\* The tape without the k frames of an earlier recording it begins with.
Since(k) == SubSeq(tape, k + 1, Len(tape))

TapeInv ==
  /\ busy # "idle" => main = "serving"
  /\ busy \in {"starting", "saving", "clearing"} => ~active
  /\ main = "saving" => active
  /\ busy = "starting" => Len(tape) <= 1 /\ (Taping => tape = <<>>)
  /\ active \/ busy = "saving" =>
       IF Taping
       THEN \/ tape = <<>> /\ taken = <<>>
            \/ \E k \in 0..1 : k <= Len(tape) /\ taken = Append(Since(k), snap)
       ELSE \E k \in 0..1 : k <= Len(tape) /\ taken = Since(k)

-----------------------------------------------------------------------------
LEMMA PushedType ==
  ASSUME NEW q \in Seq(Frames), NEW n \in Frames, Len(q) <= QueueSize
  PROVE  Pushed(q, n) \in Seq(Frames) /\ Len(Pushed(q, n)) <= QueueSize
<1>1. QueueSize \in Nat \ {0}
  BY OrchestratorAssumption
<1>2. CASE Len(q) = QueueSize
  <2>1. q # <<>>
    BY <1>1, <1>2
  <2>2. Tail(q) \in Seq(Frames) /\ Len(Tail(q)) = Len(q) - 1
    BY <2>1, HeadTailProperties
  <2> QED BY <1>1, <1>2, <2>2 DEF Pushed
<1>3. CASE Len(q) # QueueSize
  BY <1>1, <1>3 DEF Pushed
<1> QED BY <1>2, <1>3

LEMMA TypeStep == TypeOK /\ [Next]_vars => TypeOK'
<1> SUFFICES ASSUME TypeOK, [Next]_vars PROVE TypeOK'
  OBVIOUS
<1>0. /\ busy' \in {"idle", "saving", "clearing", "starting", "macro"}
      /\ main' \in {"serving", "saving", "joining", "removed"}
  BY DEF TypeOK, Next, vars, Loop, EventLoop, Write, ApplyPacket, ApplyButtonSet, ApplyStick,
     WindowCloses, FireMacro, MacroReturns, SetRecordingPath, StartRecording,
     RecordingStarts, StopRecording, RecordingSaved, RecordingCleared, LoopBuild,
     LoopTape, LoopSend, LoopNotify, LoopSleep, LoopEnds, Subscribe, Disconnect,
     Enqueue, Deliver, SendFails, StopRunning, StopSaves, RemoveController, Exited
<1> USE OrchestratorAssumption DEF TypeOK
<1>1. ASSUME NEW src \in Sources, NEW new \in States,
             \/ ApplyPacket(new, src) \/ ApplyButtonSet(new, src) \/ ApplyStick(new, src)
      PROVE  TypeOK'
  <2>1. PICK parts \in SUBSET Parts : Write(parts, new, src)
    BY <1>1 DEF ApplyPacket, ApplyButtonSet, ApplyStick, Parts
  <2>2. ControlOK'
    BY <2>1 DEF Write, ControlOK, States, Parts
  <2> QED BY <1>0, <2>1, <2>2 DEF Write, RecordingOK, ThreadOK, StreamOK, recording, thread, stream
<1>2. CASE WindowCloses
  BY <1>0, <1>2 DEF WindowCloses, ControlOK, Parts, RecordingOK, ThreadOK, StreamOK,
     recording, thread, stream
<1>3. CASE \/ FireMacro \/ MacroReturns \/ \E p \in Paths : SetRecordingPath(p)
           \/ StartRecording \/ RecordingStarts \/ StopRecording \/ RecordingCleared
           \/ RecordingSaved \/ StopSaves \/ RemoveController \/ Exited \/ UNCHANGED vars
  <2>1. UNCHANGED <<control, thread, stream>>
    BY <1>3 DEF FireMacro, MacroReturns, SetRecordingPath, StartRecording, RecordingStarts,
       StopRecording, RecordingCleared, RecordingSaved, StopSaves, RemoveController, Exited, vars
  <2>2. files' \in [Paths -> Seq(Frames)]
    BY <1>3 DEF FireMacro, MacroReturns, SetRecordingPath, StartRecording, RecordingStarts,
       StopRecording, RecordingCleared, RecordingSaved, StopSaves, RemoveController, Exited,
       vars, recording, SaveRecording, RecordingOK
  <2>3. path' \in Paths /\ active' \in BOOLEAN
    BY <1>3 DEF FireMacro, MacroReturns, SetRecordingPath, StartRecording, RecordingStarts,
       StopRecording, RecordingCleared, RecordingSaved, StopSaves, RemoveController, Exited,
       vars, recording, RecordingOK
  <2>4. tape' \in {tape, <<>>} /\ taken' \in {taken, <<>>}
    BY <1>3 DEF FireMacro, MacroReturns, SetRecordingPath, StartRecording, RecordingStarts,
       StopRecording, RecordingCleared, RecordingSaved, StopSaves, RemoveController, Exited,
       vars, recording
  <2>5. tape' \in Seq(Frames) /\ taken' \in Seq(Frames)
    BY <2>4, EmptySeq DEF RecordingOK
  <2>6. RecordingOK'
    BY <2>2, <2>3, <2>5 DEF RecordingOK
  <2> QED BY <1>0, <2>1, <2>6 DEF ControlOK, ThreadOK, StreamOK, control, thread, stream
<1>4. CASE LoopBuild
  <2>1. ThreadOK'
    BY <1>4 DEF LoopBuild, ThreadOK, RecordingOK, Frames
  <2>2. RecordingOK'
    BY <1>4, <2>1 DEF LoopBuild, ThreadOK, RecordingOK
  <2> QED BY <1>0, <1>4, <2>1, <2>2 DEF LoopBuild, ControlOK, StreamOK, control, stream
<1>5. CASE LoopTape
  <2>1. ThreadOK' /\ RecordingOK'
    BY <1>5 DEF LoopTape, ThreadOK, RecordingOK
  <2> QED BY <1>0, <1>5, <2>1 DEF LoopTape, ControlOK, StreamOK, control, stream
<1>6. CASE LoopSend \/ LoopSleep \/ LoopEnds
  <2>1. ThreadOK'
    BY <1>6 DEF LoopSend, LoopSleep, LoopEnds, ThreadOK, Frames
  <2> QED BY <1>0, <1>6, <2>1 DEF LoopSend, LoopSleep, LoopEnds, ControlOK, RecordingOK, StreamOK,
          control, recording, stream
<1>7. ASSUME NEW c \in Clients, LoopNotify(c) PROVE TypeOK'
  <2>1. ThreadOK'
    BY <1>7 DEF LoopNotify, ThreadOK
  <2>2. Append(pending[c], snap) \in Seq(Frames)
    <3>1. snap \in Frames /\ pending[c] \in Seq(Frames)
      BY <1>7 DEF LoopNotify, ThreadOK, StreamOK
    <3> QED BY <3>1, AppendProperties
  <2>3. pending' \in [Clients -> Seq(Frames)]
    BY <1>7, <2>2 DEF LoopNotify, StreamOK
  <2>4. newest' \in [Clients -> 0..MaxFrames]
    BY <1>7 DEF LoopNotify, StreamOK, ThreadOK
  <2>5. StreamOK'
    BY <1>7, <2>3, <2>4 DEF LoopNotify, StreamOK
  <2> QED BY <1>0, <1>7, <2>1, <2>5 DEF LoopNotify, ControlOK, RecordingOK, control, recording
<1>8. ASSUME NEW c \in Clients, Subscribe(c) \/ Disconnect(c) PROVE TypeOK'
  BY <1>0, <1>8 DEF Subscribe, Disconnect, ControlOK, RecordingOK, ThreadOK, StreamOK,
     control, recording, thread
<1>9. ASSUME NEW c \in Clients, Enqueue(c) PROVE TypeOK'
  <2>1. Head(pending[c]) \in Frames /\ Tail(pending[c]) \in Seq(Frames)
    BY <1>9 DEF Enqueue, StreamOK
  <2>2. Pushed(queue[c], Head(pending[c])) \in Seq(Frames)
        /\ Len(Pushed(queue[c], Head(pending[c]))) <= QueueSize
    BY <2>1, PushedType DEF StreamOK
  <2>3. StreamOK'
    BY <1>9, <2>1, <2>2 DEF Enqueue, StreamOK
  <2> QED BY <1>0, <1>9, <2>3 DEF Enqueue, ControlOK, RecordingOK, ThreadOK, control, recording, thread
<1>10. ASSUME NEW c \in Clients, Deliver(c) PROVE TypeOK'
  <2>1. Head(queue[c]) \in Frames /\ Tail(queue[c]) \in Seq(Frames)
        /\ Len(Tail(queue[c])) <= QueueSize
    BY <1>10 DEF Deliver, StreamOK
  <2>2. StreamOK'
    BY <1>10, <2>1 DEF Deliver, StreamOK, Frames
  <2> QED BY <1>0, <1>10, <2>2 DEF Deliver, ControlOK, RecordingOK, ThreadOK, control, recording, thread
<1>11. ASSUME NEW cs \in SUBSET Clients, Drop(cs) PROVE StreamOK'
  BY <1>11 DEF Drop, StreamOK
<1>12. CASE StopRunning \/ \E c \in Clients : SendFails(c)
  <2>1. StreamOK'
    BY <1>11, <1>12 DEF StopRunning, SendFails
  <2> QED BY <1>0, <1>12, <2>1 DEF StopRunning, SendFails, ControlOK, RecordingOK, ThreadOK,
          control, recording, thread
<1> QED
  BY <1>1, <1>2, <1>3, <1>4, <1>5, <1>6, <1>7, <1>8, <1>9, <1>10, <1>12
     DEF Next, Loop, EventLoop

LEMMA TypeInit == Init => TypeOK
<1> SUFFICES ASSUME Init PROVE TypeOK
  OBVIOUS
<1> USE OrchestratorAssumption DEF Init
<1>1. ControlOK
  BY DEF ControlOK, Parts
<1>2. RecordingOK
  BY EmptySeq DEF RecordingOK
<1>3. ThreadOK
  <2>1. snap \in 0..MaxFrames /\ console \in 0..MaxFrames
    OBVIOUS
  <2> QED BY <2>1 DEF ThreadOK
<1>4. StreamOK
  BY EmptySeq DEF StreamOK
<1> QED BY <1>1, <1>2, <1>3, <1>4 DEF TypeOK

\* Every variable keeps its type in every reachable state.
THEOREM OrchestratorTypeOK == Spec => []TypeOK
BY TypeInit, TypeStep, PTL DEF Spec

-----------------------------------------------------------------------------
(* The human's values *)

\* Nobody but a human sends single buttons and sticks: these two endpoints do
\* not look at the window.
PartsByHuman == PartSources \subseteq {"human"}

LEMMA HoldStep ==
  ASSUME PartsByHuman
  PROVE  TypeOK /\ HoldInv /\ [Next]_vars => HoldInv'
<1> SUFFICES ASSUME TypeOK, HoldInv, [Next]_vars PROVE HoldInv'
  OBVIOUS
<1> USE DEF HoldInv, HumanHolds, TypeOK, ControlOK
<1>1. ASSUME NEW parts \in SUBSET Parts, NEW new \in States, NEW src \in Sources,
             Write(parts, new, src),
             src = "human" \/ (parts = Parts /\ ~window)
      PROVE  HoldInv'
  <2>1. CASE src = "human"
    BY <1>1, <2>1 DEF Write
  <2>2. CASE src # "human" /\ ~window
    BY <1>1, <2>2 DEF Write
  <2> QED BY <1>1, <2>1, <2>2
<1>2. CASE \E src \in Sources, new \in States : ApplyPacket(new, src)
  BY <1>1, <1>2 DEF ApplyPacket, Sources
<1>3. CASE \E src \in PartSources, new \in States :
             ApplyButtonSet(new, src) \/ ApplyStick(new, src)
  BY <1>1, <1>3 DEF ApplyButtonSet, ApplyStick, PartsByHuman, Sources, Parts
<1>4. CASE WindowCloses
  BY <1>4 DEF WindowCloses
<1>5. CASE UNCHANGED control
  BY <1>5 DEF control
<1>6. \/ \E src \in Sources, new \in States : ApplyPacket(new, src)
      \/ \E src \in PartSources, new \in States :
           ApplyButtonSet(new, src) \/ ApplyStick(new, src)
      \/ WindowCloses
      \/ UNCHANGED control
  BY DEF Next, vars, Loop, EventLoop, FireMacro, MacroReturns, SetRecordingPath, StartRecording,
     RecordingStarts, StopRecording, RecordingSaved, RecordingCleared, LoopBuild,
     LoopTape, LoopSend, LoopNotify, LoopSleep, LoopEnds, Subscribe, Disconnect,
     Enqueue, Deliver, SendFails, StopRunning, StopSaves, RemoveController, Exited
<1> QED BY <1>2, <1>3, <1>4, <1>5, <1>6

\* Until the override window closes, no packet of the policy takes a part of the
\* state away from the human who set it.
THEOREM HumanKeepsControl ==
  ASSUME PartsByHuman
  PROVE  Spec => []HumanHolds
<1>1. Init => HoldInv
  BY DEF Init, HoldInv, HumanHolds
<1>2. TypeOK /\ HoldInv /\ [Next]_vars => HoldInv'
  BY HoldStep
<1>3. HoldInv => HumanHolds
  BY DEF HoldInv
<1> QED BY <1>1, <1>2, <1>3, OrchestratorTypeOK, PTL DEF Spec

-----------------------------------------------------------------------------
(* The order of the stream *)

\* Taking the head leaves what is younger than it.
LEMMA GrowsTail ==
  ASSUME NEW q \in Seq(Frames), q # <<>>, NEW low \in Nat, NEW high \in Nat,
         Grows(q, low, high)
  PROVE  /\ Head(q) \in Frames /\ low < Head(q) /\ Head(q) <= high
         /\ Tail(q) \in Seq(Frames) /\ Len(Tail(q)) = Len(q) - 1
         /\ \A i \in 1..Len(Tail(q)) : Tail(q)[i] = q[i + 1] /\ i + 1 \in 1..Len(q)
         /\ Grows(Tail(q), Head(q), high)
         /\ Grows(Tail(q), low, high)
<1> USE OrchestratorAssumption
<1>0. \A i \in 1..Len(q) : q[i] \in Nat
  BY DEF Frames
<1>1. Head(q) = q[1] /\ 1 \in 1..Len(q) /\ Head(q) \in Frames
  BY EmptySeq
<1>2. Tail(q) \in Seq(Frames) /\ Len(Tail(q)) = Len(q) - 1
  BY HeadTailProperties
<1>3. \A i \in 1..Len(Tail(q)) : Tail(q)[i] = q[i + 1] /\ i + 1 \in 1..Len(q)
  BY <1>2, HeadTailProperties
<1>4. low < Head(q) /\ Head(q) <= high
  BY <1>1 DEF Grows
<1>5. Grows(Tail(q), Head(q), high) /\ Grows(Tail(q), low, high)
  BY <1>0, <1>1, <1>2, <1>3 DEF Grows
<1> QED BY <1>1, <1>2, <1>3, <1>4, <1>5

\* A younger frame goes to the end.
LEMMA GrowsAppend ==
  ASSUME NEW q \in Seq(Frames), NEW n \in Frames,
         NEW low \in Nat, NEW high \in Nat, NEW top \in Nat,
         Grows(q, low, high), high <= top,
         \A i \in 1..Len(q) : q[i] < n, low < n, n <= top
  PROVE  /\ Len(Append(q, n)) = Len(q) + 1
         /\ \A i \in 1..Len(Append(q, n)) :
              (i \in 1..Len(q) /\ Append(q, n)[i] = q[i]) \/ (i = Len(q) + 1 /\ Append(q, n)[i] = n)
         /\ Grows(Append(q, n), low, top)
<1> USE OrchestratorAssumption
<1>0. n \in Nat /\ \A i \in 1..Len(q) : q[i] \in Nat
  BY DEF Frames
<1>1. Len(Append(q, n)) = Len(q) + 1 /\ Len(q) \in Nat
  BY AppendProperties
<1>2. \A i \in 1..Len(q) : Append(q, n)[i] = q[i]
  BY AppendProperties
<1>3. Append(q, n)[Len(q) + 1] = n
  BY AppendProperties
<1>4. \A i \in 1..Len(Append(q, n)) :
        (i \in 1..Len(q) /\ Append(q, n)[i] = q[i]) \/ (i = Len(q) + 1 /\ Append(q, n)[i] = n)
  BY <1>1, <1>2, <1>3
<1>5. Grows(Append(q, n), low, top)
  BY <1>0, <1>1, <1>4 DEF Grows
<1> QED BY <1>1, <1>4, <1>5

\* The clause speaks of the client's own queues and of the thread.
LEMMA StreamOfUnchanged ==
  ASSUME NEW c \in Clients, StreamOf(c),
         queue'[c] = queue[c], pending'[c] = pending[c], newest'[c] = newest[c],
         got'[c] = got[c], snap' = snap, Ahead(c)' => Ahead(c)
  PROVE  StreamOf(c)'
BY DEF StreamOf, Grows

\* The thread: a new frame is younger than everything handed over.
LEMMA StreamLoopStep ==
  ASSUME TypeOK, StreamInv, LoopBuild \/ LoopTape \/ LoopSend \/ LoopSleep \/ LoopEnds
  PROVE  StreamInv'
<1> SUFFICES ASSUME NEW c \in Clients PROVE StreamOf(c)'
  BY DEF StreamInv
<1>0. StreamOf(c)
  BY DEF StreamInv
<1>1. UNCHANGED <<queue, pending, newest, got>>
  BY DEF LoopBuild, LoopTape, LoopSend, LoopSleep, LoopEnds, stream
<1>2. CASE LoopBuild
  <2>1. snap \in Nat /\ snap' = snap + 1 /\ newest[c] \in Nat
    BY <1>2 DEF LoopBuild, TypeOK, ThreadOK, StreamOK
  <2> QED BY <1>0, <1>1, <2>1 DEF StreamOf, Grows
<1>3. CASE LoopTape \/ LoopSend \/ LoopSleep \/ LoopEnds
  <2>1. snap' = snap /\ (Ahead(c)' => Ahead(c))
    BY <1>3 DEF LoopTape, LoopSend, LoopSleep, LoopEnds, Ahead
  <2> QED BY <1>0, <1>1, <2>1, StreamOfUnchanged
<1> QED BY <1>2, <1>3

LEMMA StreamNotifyStep ==
  ASSUME TypeOK, StreamInv, NEW d \in Clients, LoopNotify(d)
  PROVE  StreamInv'
<1> SUFFICES ASSUME NEW c \in Clients PROVE StreamOf(c)'
  BY DEF StreamInv
<1>0. StreamOf(c)
  BY DEF StreamInv
<1>1. UNCHANGED <<queue, got, snap, loop>> /\ loop = "notify" /\ d \in todo /\ todo' = todo \ {d}
  BY DEF LoopNotify
<1>2. Ahead(c)' => Ahead(c) /\ c # d
  BY <1>1 DEF Ahead
<1>3. CASE c = d /\ Subscribed(d)
  <2>1. snap \in Frames /\ pending[c] \in Seq(Frames) /\ queue[c] \in Seq(Frames)
    BY <1>1 DEF TypeOK, ThreadOK, StreamOK
  <2>2. snap \in Nat /\ got[c] \in Nat /\ newest[c] \in Nat
    BY DEF TypeOK, ThreadOK, StreamOK
  <2>3. pending'[c] = Append(pending[c], snap) /\ newest'[c] = snap
    BY <1>3 DEF LoopNotify, TypeOK, StreamOK
  <2>4. newest[c] < snap
    BY <1>0, <1>1, <1>3 DEF StreamOf, Ahead
  <2>5. (\A i \in 1..Len(pending[c]) : pending[c][i] \in Nat) /\ \A i \in 1..Len(queue[c]) : queue[c][i] \in Nat
    BY <2>1, OrchestratorAssumption DEF Frames
  <2>6. (\A i \in 1..Len(pending[c]) : pending[c][i] < snap)
        /\ (\A i \in 1..Len(queue[c]) : queue[c][i] < snap)
        /\ got[c] < snap
    BY <1>0, <2>2, <2>4, <2>5 DEF StreamOf, Grows
  <2>7. /\ Grows(Append(pending[c], snap), got[c], snap)
        /\ \A i \in 1..Len(Append(pending[c], snap)) :
             \/ i \in 1..Len(pending[c]) /\ Append(pending[c], snap)[i] = pending[c][i]
             \/ i = Len(pending[c]) + 1 /\ Append(pending[c], snap)[i] = snap
    BY <1>0, <2>1, <2>2, <2>4, <2>6, GrowsAppend DEF StreamOf
  <2>8. \A i \in 1..Len(queue[c]), j \in 1..Len(pending'[c]) : queue[c][i] < pending'[c][j]
    BY <1>0, <2>3, <2>6, <2>7 DEF StreamOf
  <2>9. Grows(queue[c], got[c], snap)
    BY <1>0, <2>2, <2>4, <2>5 DEF StreamOf, Grows
  <2> QED BY <1>1, <1>2, <1>3, <2>2, <2>3, <2>6, <2>7, <2>8, <2>9 DEF StreamOf, Grows
<1>4. CASE ~(c = d /\ Subscribed(d))
  <2>1. pending'[c] = pending[c] /\ newest'[c] = newest[c]
    BY <1>4 DEF LoopNotify, TypeOK, StreamOK
  <2> QED BY <1>0, <1>1, <1>2, <2>1, StreamOfUnchanged
<1> QED BY <1>3, <1>4

\* The callback: what leaves the schedule enters the queue, whose head may go.
LEMMA StreamEnqueueStep ==
  ASSUME TypeOK, StreamInv, NEW d \in Clients, Enqueue(d)
  PROVE  StreamInv'
<1> SUFFICES ASSUME NEW c \in Clients PROVE StreamOf(c)'
  BY DEF StreamInv
<1>0. StreamOf(c)
  BY DEF StreamInv
<1>1. UNCHANGED <<newest, got, snap, loop, todo>>
  BY DEF Enqueue, thread
<1>2. Ahead(c)' <=> Ahead(c)
  BY <1>1 DEF Ahead
<1>3. CASE c # d
  <2>1. pending'[c] = pending[c] /\ queue'[c] = queue[c]
    BY <1>3 DEF Enqueue, TypeOK, StreamOK
  <2> QED BY <1>0, <1>1, <1>2, <2>1, StreamOfUnchanged
<1>4. CASE c = d
  <2> DEFINE n == Head(pending[c])
             kept == IF Len(queue[c]) = QueueSize THEN Tail(queue[c]) ELSE queue[c]
  <2>1. pending[c] \in Seq(Frames) /\ queue[c] \in Seq(Frames) /\ pending[c] # <<>>
        /\ got[c] \in Nat /\ newest[c] \in Nat
    BY <1>4 DEF Enqueue, TypeOK, StreamOK
  <2>2. pending'[c] = Tail(pending[c]) /\ queue'[c] = Append(kept, n)
    BY <1>4 DEF Enqueue, Pushed, TypeOK, StreamOK
  <2>3. /\ n \in Frames /\ got[c] < n /\ n <= newest[c]
        /\ \A i \in 1..Len(Tail(pending[c])) :
             Tail(pending[c])[i] = pending[c][i + 1] /\ i + 1 \in 1..Len(pending[c])
        /\ Grows(Tail(pending[c]), n, newest[c])
        /\ Grows(Tail(pending[c]), got[c], newest[c])
    BY <1>0, <2>1, GrowsTail DEF StreamOf
  <2>4. \A i \in 1..Len(queue[c]) : queue[c][i] < n
    <3>1. n = pending[c][1] /\ 1 \in 1..Len(pending[c])
      BY <2>1, EmptySeq
    <3> QED BY <1>0, <3>1 DEF StreamOf
  <2>5. kept \in Seq(Frames) /\ Grows(kept, got[c], newest[c]) /\ \A i \in 1..Len(kept) : kept[i] < n
    <3>1. CASE Len(queue[c]) = QueueSize
      <4>1. queue[c] # <<>>
        BY <3>1, EmptySeq, OrchestratorAssumption
      <4>2. /\ Tail(queue[c]) \in Seq(Frames)
            /\ \A i \in 1..Len(Tail(queue[c])) :
                 Tail(queue[c])[i] = queue[c][i + 1] /\ i + 1 \in 1..Len(queue[c])
            /\ Grows(Tail(queue[c]), got[c], newest[c])
        BY <1>0, <2>1, <4>1, GrowsTail DEF StreamOf
      <4> QED BY <2>4, <3>1, <4>2
    <3>2. CASE Len(queue[c]) # QueueSize
      BY <1>0, <2>1, <2>4, <3>2 DEF StreamOf
    <3> QED BY <3>1, <3>2
  <2> HIDE DEF n, kept
  <2>6. /\ \A i \in 1..Len(Append(kept, n)) :
             (i \in 1..Len(kept) /\ Append(kept, n)[i] = kept[i])
             \/ (i = Len(kept) + 1 /\ Append(kept, n)[i] = n)
        /\ Grows(Append(kept, n), got[c], newest[c])
    BY <2>1, <2>3, <2>5, GrowsAppend
  <2>7. n \in Nat /\ (\A i \in 1..Len(kept) : kept[i] \in Nat)
        /\ \A j \in 1..Len(pending[c]) : pending[c][j] \in Nat
    BY <2>1, <2>3, <2>5, OrchestratorAssumption DEF Frames
  <2>8. \A i \in 1..Len(Append(kept, n)), j \in 1..Len(Tail(pending[c])) :
          Append(kept, n)[i] < Tail(pending[c])[j]
    <3> TAKE i \in 1..Len(Append(kept, n)), j \in 1..Len(Tail(pending[c]))
    <3>1. n < Tail(pending[c])[j] /\ Tail(pending[c])[j] \in Nat
      BY <2>3, <2>7 DEF Grows
    <3>2. Append(kept, n)[i] = n \/ (Append(kept, n)[i] < n /\ Append(kept, n)[i] \in Nat)
      BY <2>5, <2>6, <2>7
    <3> QED BY <2>7, <3>1, <3>2
  <2> QED BY <1>0, <1>1, <1>2, <2>2, <2>3, <2>6, <2>8 DEF StreamOf, Grows
<1> QED BY <1>3, <1>4

LEMMA StreamDeliverStep ==
  ASSUME TypeOK, StreamInv, NEW d \in Clients, Deliver(d)
  PROVE  StreamInv'
<1> SUFFICES ASSUME NEW c \in Clients PROVE StreamOf(c)'
  BY DEF StreamInv
<1>0. StreamOf(c)
  BY DEF StreamInv
<1>1. UNCHANGED <<newest, pending, snap, loop, todo>>
  BY DEF Deliver, thread
<1>2. Ahead(c)' <=> Ahead(c)
  BY <1>1 DEF Ahead
<1>3. CASE c # d
  <2>1. got'[c] = got[c] /\ queue'[c] = queue[c]
    BY <1>3 DEF Deliver, TypeOK, StreamOK
  <2> QED BY <1>0, <1>1, <1>2, <2>1, StreamOfUnchanged
<1>4. CASE c = d
  <2>1. queue[c] \in Seq(Frames) /\ queue[c] # <<>> /\ got[c] \in Nat /\ newest[c] \in Nat
        /\ got'[c] = Head(queue[c]) /\ queue'[c] = Tail(queue[c])
    BY <1>4 DEF Deliver, TypeOK, StreamOK
  <2>2. /\ Head(queue[c]) <= newest[c]
        /\ \A i \in 1..Len(Tail(queue[c])) :
             Tail(queue[c])[i] = queue[c][i + 1] /\ i + 1 \in 1..Len(queue[c])
        /\ Grows(Tail(queue[c]), Head(queue[c]), newest[c])
    BY <1>0, <2>1, GrowsTail DEF StreamOf
  <2>3. Head(queue[c]) = queue[c][1] /\ 1 \in 1..Len(queue[c])
    BY <2>1, EmptySeq
  <2>4. Grows(pending[c], Head(queue[c]), newest[c])
    BY <1>0, <2>3 DEF StreamOf, Grows
  <2>5. \A i \in 1..Len(Tail(queue[c])), j \in 1..Len(pending[c]) :
          Tail(queue[c])[i] < pending[c][j]
    BY <1>0, <2>2 DEF StreamOf
  <2> QED BY <1>0, <1>1, <1>2, <2>1, <2>2, <2>4, <2>5 DEF StreamOf, Grows
<1> QED BY <1>3, <1>4

\* A dropped subscription is as good as new.
LEMMA StreamDropStep ==
  ASSUME TypeOK, StreamInv, NEW cs \in SUBSET Clients, Drop(cs), UNCHANGED thread
  PROVE  StreamInv'
<1> SUFFICES ASSUME NEW c \in Clients PROVE StreamOf(c)'
  BY DEF StreamInv
<1>0. StreamOf(c)
  BY DEF StreamInv
<1>1. UNCHANGED <<snap, loop, todo>> /\ (Ahead(c)' <=> Ahead(c))
  BY DEF thread, Ahead
<1>2. CASE c \in cs
  <2>1. queue'[c] = <<>> /\ pending'[c] = <<>> /\ newest'[c] = 0 /\ got'[c] = 0
    BY <1>2 DEF Drop
  <2>2. snap \in Nat /\ (Ahead(c) => 0 < snap)
    BY DEF TypeOK, ThreadOK, Ahead, Frames
  <2>3. 1..Len(<<>>) = {}
    BY EmptySeq
  <2> QED BY <1>1, <2>1, <2>2, <2>3 DEF StreamOf, Grows
<1>3. CASE c \notin cs
  <2>1. queue'[c] = queue[c] /\ pending'[c] = pending[c] /\ newest'[c] = newest[c] /\ got'[c] = got[c]
    BY <1>3 DEF Drop
  <2> QED BY <1>0, <1>1, <2>1, StreamOfUnchanged
<1> QED BY <1>2, <1>3

LEMMA StreamStep == TypeOK /\ StreamInv /\ [Next]_vars => StreamInv'
<1> SUFFICES ASSUME TypeOK, StreamInv, [Next]_vars PROVE StreamInv'
  OBVIOUS
<1>1. CASE LoopBuild \/ LoopTape \/ LoopSend \/ LoopSleep \/ LoopEnds
  BY <1>1, StreamLoopStep
<1>2. CASE \E c \in Clients : LoopNotify(c)
  BY <1>2, StreamNotifyStep
<1>3. CASE \E c \in Clients : Enqueue(c) \/ Deliver(c)
  BY <1>3, StreamEnqueueStep, StreamDeliverStep
<1>4. CASE StopRunning \/ \E c \in Clients : SendFails(c)
  BY <1>4, StreamDropStep DEF StopRunning, SendFails
<1>5. CASE UNCHANGED <<thread, pending, queue, newest, got>>
  <2> SUFFICES ASSUME NEW c \in Clients PROVE StreamOf(c)'
    BY DEF StreamInv
  <2>1. StreamOf(c) /\ (Ahead(c)' <=> Ahead(c))
    BY <1>5 DEF StreamInv, Ahead, thread
  <2> QED BY <1>5, <2>1, StreamOfUnchanged DEF thread
<1>6. \/ LoopBuild \/ LoopTape \/ LoopSend \/ LoopSleep \/ LoopEnds
      \/ \E c \in Clients : LoopNotify(c) \/ Enqueue(c) \/ Deliver(c)
      \/ StopRunning \/ \E c \in Clients : SendFails(c)
      \/ UNCHANGED <<thread, pending, queue, newest, got>>
  BY DEF Next, vars, Loop, EventLoop, Write, ApplyPacket, ApplyButtonSet, ApplyStick,
     WindowCloses, FireMacro, MacroReturns, SetRecordingPath, StartRecording,
     RecordingStarts, StopRecording, RecordingSaved, RecordingCleared,
     Subscribe, Disconnect, StopSaves, RemoveController, Exited, stream
<1> QED BY <1>1, <1>2, <1>3, <1>4, <1>5, <1>6

\* What is in transit to a client grows from what it received last.
LEMMA InTransitGrows ==
  ASSUME TypeOK, StreamInv
  PROVE  StreamInOrder
<1> SUFFICES ASSUME NEW c \in Clients,
                    NEW i \in DOMAIN (<<got[c]>> \o InTransit(c)),
                    NEW j \in DOMAIN (<<got[c]>> \o InTransit(c)), i < j
             PROVE  (<<got[c]>> \o InTransit(c))[i] < (<<got[c]>> \o InTransit(c))[j]
  BY DEF StreamInOrder
<1> DEFINE q == queue[c]
           p == pending[c]
           s == <<got[c]>> \o (q \o p)
<1>1. q \in Seq(Nat) /\ p \in Seq(Nat) /\ got[c] \in Nat
  <2>1. Frames \subseteq Nat /\ queue[c] \in Seq(Frames) /\ pending[c] \in Seq(Frames)
    BY OrchestratorAssumption DEF Frames, TypeOK, StreamOK
  <2>2. q \in Seq(Nat) /\ p \in Seq(Nat)
    BY <2>1, SeqMonotonic
  <2>3. got[c] \in Nat
    BY DEF TypeOK, StreamOK
  <2> QED BY <2>2, <2>3
<1>2. StreamOf(c)
  BY DEF StreamInv
<1> HIDE DEF q, p
<1>3. Len(s) = 1 + Len(q) + Len(p) /\ DOMAIN s = 1..Len(s)
  BY <1>1
<1>4. \A k \in 1..Len(s) :
        \/ k = 1 /\ s[k] = got[c]
        \/ k - 1 \in 1..Len(q) /\ s[k] = q[k - 1]
        \/ k - 1 - Len(q) \in 1..Len(p) /\ s[k] = p[k - 1 - Len(q)]
  BY <1>1, <1>3
<1>6. i \in 1..Len(s) /\ j \in 1..Len(s)
  BY <1>3 DEF InTransit, q, p
<1>7. /\ \A k \in 1..Len(q) : got[c] < q[k]
      /\ \A k \in 1..Len(p) : got[c] < p[k]
      /\ \A k, l \in 1..Len(q) : k < l => q[k] < q[l]
      /\ \A k, l \in 1..Len(p) : k < l => p[k] < p[l]
      /\ \A k \in 1..Len(q), l \in 1..Len(p) : q[k] < p[l]
  BY <1>2 DEF StreamOf, Grows, q, p
<1> HIDE DEF s
<1>8. s[i] < s[j]
  <2>0. Len(q) \in Nat /\ Len(p) \in Nat /\ i \in Nat /\ j \in Nat
    BY <1>1, <1>6
  <2>1. CASE i = 1 /\ s[i] = got[c]
    <3>0. j # 1
      BY <2>0, <2>1
    <3>1. \/ j - 1 \in 1..Len(q) /\ s[j] = q[j - 1]
          \/ j - 1 - Len(q) \in 1..Len(p) /\ s[j] = p[j - 1 - Len(q)]
      BY <1>4, <1>6, <3>0
    <3> QED BY <1>7, <2>1, <3>1
  <2>2. CASE i - 1 \in 1..Len(q) /\ s[i] = q[i - 1]
    <3>0. j # 1 /\ i - 1 < j - 1
      BY <2>0, <2>2
    <3>1. \/ j - 1 \in 1..Len(q) /\ s[j] = q[j - 1] /\ i - 1 < j - 1
          \/ j - 1 - Len(q) \in 1..Len(p) /\ s[j] = p[j - 1 - Len(q)]
      BY <1>4, <1>6, <3>0
    <3> QED BY <1>7, <2>2, <3>1
  <2>3. CASE i - 1 - Len(q) \in 1..Len(p) /\ s[i] = p[i - 1 - Len(q)]
    <3>0. j # 1 /\ j - 1 \notin 1..Len(q) /\ i - 1 - Len(q) < j - 1 - Len(q)
      BY <2>0, <2>3
    <3>1. j - 1 - Len(q) \in 1..Len(p) /\ s[j] = p[j - 1 - Len(q)]
      BY <1>4, <1>6, <3>0
    <3> QED BY <1>7, <2>3, <3>0, <3>1
  <2> QED BY <1>4, <1>6, <2>1, <2>2, <2>3
<1> QED BY <1>8 DEF InTransit, q, p, s

\* A client of the state stream never receives a frame older than the one before
\* it, whatever the bounded queue has dropped in between.
THEOREM ClientsSeeFramesInOrder == Spec => []StreamInOrder
<1>1. Init => StreamInv
  <2> SUFFICES ASSUME Init PROVE StreamInv
    OBVIOUS
  <2>1. 1..Len(<<>>) = {}
    BY EmptySeq
  <2> QED BY <2>1 DEF Init, StreamInv, StreamOf, Grows, Ahead
<1>2. TypeOK /\ StreamInv /\ [Next]_vars => StreamInv'
  BY StreamStep
<1>3. TypeOK /\ StreamInv => StreamInOrder
  BY InTransitGrows
<1> QED BY <1>1, <1>2, <1>3, OrchestratorTypeOK, PTL DEF Spec

-----------------------------------------------------------------------------
(* The recording *)

\* Appending to a tape appends to what follows its first k frames.
LEMMA SuffixOfAppend ==
  ASSUME NEW S, NEW t \in Seq(S), NEW n \in S, NEW k \in 0..1, k <= Len(t)
  PROVE  SubSeq(Append(t, n), k + 1, Len(Append(t, n))) = Append(SubSeq(t, k + 1, Len(t)), n)
<1> DEFINE u == Append(t, n)
           a == SubSeq(u, k + 1, Len(u))
           b == Append(SubSeq(t, k + 1, Len(t)), n)
<1>1. Len(t) \in Nat /\ Len(u) = Len(t) + 1 /\ u \in Seq(S)
  BY AppendProperties
<1>2. (\A i \in 1..Len(t) : u[i] = t[i]) /\ u[Len(t) + 1] = n
  BY AppendProperties
<1> HIDE DEF u
<1>3. /\ a \in Seq(S) /\ Len(a) = Len(t) + 1 - k
      /\ \A i \in 1..Len(t) + 1 - k : a[i] = u[k + i]
  BY <1>1
<1>4. /\ SubSeq(t, k + 1, Len(t)) \in Seq(S) /\ Len(SubSeq(t, k + 1, Len(t))) = Len(t) - k
      /\ \A i \in 1..Len(t) - k : SubSeq(t, k + 1, Len(t))[i] = t[k + i]
  BY <1>1
<1>5. /\ b \in Seq(S) /\ Len(b) = Len(t) - k + 1
      /\ \A i \in 1..Len(t) - k : b[i] = t[k + i]
      /\ b[Len(t) - k + 1] = n
  BY <1>1, <1>4, AppendProperties
<1>6. \A i \in 1..Len(a) : a[i] = b[i]
  BY <1>1, <1>2, <1>3, <1>5
<1>7. Len(a) = Len(b)
  BY <1>1, <1>3, <1>5
<1> HIDE DEF a, b
<1>8. a = b
  BY <1>3, <1>5, <1>6, <1>7, SeqEqual
<1> QED BY <1>8 DEF a, b, u

\* A sequence but for the last element it was given.
LEMMA FrontOfAppend ==
  ASSUME NEW S, NEW t \in Seq(S), NEW n \in S
  PROVE  Append(t, n) # <<>> /\ Front(Append(t, n)) = t
<1>1. Append(t, n) \in Seq(S) /\ Append(t, n) # <<>>
      /\ Len(Append(t, n)) = Len(t) + 1 /\ Len(t) \in Nat
      /\ \A i \in 1..Len(t) : Append(t, n)[i] = t[i]
  BY AppendProperties
<1>2. Front(Append(t, n)) = SubSeq(Append(t, n), 1, Len(t))
  BY <1>1 DEF Front
<1>3. SubSeq(Append(t, n), 1, Len(t)) \in Seq(S) /\ Len(SubSeq(Append(t, n), 1, Len(t))) = Len(t)
      /\ \A i \in 1..Len(t) : SubSeq(Append(t, n), 1, Len(t))[i] = Append(t, n)[i]
  BY <1>1
<1> DEFINE f == SubSeq(Append(t, n), 1, Len(t))
<1>4. f \in Seq(S) /\ Len(f) = Len(t) /\ \A i \in 1..Len(f) : f[i] = t[i]
  BY <1>1, <1>3
<1> HIDE DEF f
<1>5. f = t
  BY <1>4, SeqEqual
<1>6. Front(Append(t, n)) = t
  BY <1>2, <1>5 DEF f
<1> QED BY <1>1, <1>6

\* Nothing follows the whole of a tape of at most one frame.
LEMMA NothingSince ==
  ASSUME NEW S, NEW t \in Seq(S), Len(t) <= 1
  PROVE  \E k \in 0..1 : k <= Len(t) /\ SubSeq(t, k + 1, Len(t)) = <<>>
<1>1. PICK n \in Nat : n = Len(t)
  BY LenProperties
<1>2. n \in 0..1
  BY <1>1
<1>3. SubSeq(t, n + 1, n) = <<>>
  BY SubSeqEmpty
<1> QED BY <1>1, <1>2, <1>3

\* Steps that leave the tape, its history and what is being taped alone.
LEMMA TapeUnchanged ==
  ASSUME TapeInv, UNCHANGED <<active, tape, taken, snap, busy, main>>, Taping' <=> Taping
  PROVE  TapeInv'
<1>1. \A k : Since(k)' = Since(k)
  BY DEF Since
<1> QED BY <1>1 DEF TapeInv

LEMMA TapeStep == TypeOK /\ TapeInv /\ [Next]_vars => TapeInv'
<1> SUFFICES ASSUME TypeOK, TapeInv, [Next]_vars PROVE TapeInv'
  OBVIOUS
<1>0. tape \in Seq(Frames) /\ taken \in Seq(Frames) /\ Len(tape) \in Nat
  BY DEF TypeOK, RecordingOK
<1>1. CASE LoopBuild
  <2>1. /\ UNCHANGED <<tape, active, busy, main>> /\ loop = "top" /\ loop' = "locked"
        /\ taping' = active /\ taken' = IF active THEN Append(taken, snap') ELSE taken
    BY <1>1 DEF LoopBuild
  <2>2. ~Taping /\ (Taping' <=> active) /\ \A k : Since(k)' = Since(k)
    BY <2>1 DEF Taping, Since
  <2> QED BY <2>1, <2>2 DEF TapeInv
<1>2. CASE LoopTape
  <2>1. /\ UNCHANGED <<active, taken, snap, taping, busy, main>>
        /\ loop = "locked" /\ ~Taping' /\ (Taping <=> taping) /\ snap \in Frames
    BY <1>2 DEF LoopTape, Taping, TypeOK, ThreadOK
  <2>2. CASE ~Taping
    <3>1. tape' = tape
      BY <1>2, <2>1, <2>2 DEF LoopTape
    <3> QED BY <2>1, <2>2, <3>1, TapeUnchanged
  <2>3. CASE Taping
    <3>1. tape' = Append(tape, snap)
      BY <1>2, <2>1, <2>3 DEF LoopTape
    <3>2. Len(tape') = Len(tape) + 1 /\ tape' \in Seq(Frames)
      BY <1>0, <2>1, <3>1, AppendProperties
    <3>3. busy = "starting" => Len(tape') <= 1
      BY <1>0, <2>3, <3>2, EmptySeq DEF TapeInv
    <3>4. ASSUME active \/ busy = "saving"
          PROVE  \E k \in 0..1 : k <= Len(tape') /\ taken = Since(k)'
      <4>1. CASE tape = <<>> /\ taken = <<>>
        BY <2>1, <3>1, <3>2, <4>1, NothingSince, EmptySeq DEF Since
      <4>2. CASE \E k \in 0..1 : k <= Len(tape) /\ taken = Append(Since(k), snap)
        <5>1. PICK k \in 0..1 : k <= Len(tape) /\ taken = Append(Since(k), snap)
          BY <4>2
        <5>2. Since(k)' = Append(Since(k), snap)
          BY <1>0, <2>1, <3>1, <5>1, SuffixOfAppend DEF Since
        <5> QED BY <1>0, <3>2, <5>1, <5>2
      <4> QED BY <2>3, <3>4, <4>1, <4>2 DEF TapeInv
    <3> QED BY <2>1, <3>3, <3>4 DEF TapeInv
  <2> QED BY <2>2, <2>3
<1>3. CASE StartRecording
  <2>1. /\ busy = "idle" /\ main = "serving" /\ ~active /\ UNCHANGED <<active, taken, thread, main>>
        /\ tape' = <<>> /\ busy' = "starting"
    BY <1>3 DEF StartRecording, Handler
  <2> QED BY <2>1, EmptySeq DEF TapeInv
<1>4. CASE RecordingStarts
  <2>1. /\ busy = "starting" /\ busy' = "idle" /\ active' = TRUE /\ taken' = <<>>
        /\ UNCHANGED <<tape, thread, main>>
    BY <1>4 DEF RecordingStarts
  <2>2. (Taping' <=> Taping) /\ \A k : Since(k)' = Since(k)
    BY <2>1 DEF thread, Taping, Since
  <2>3. main = "serving" /\ Len(tape) <= 1 /\ (Taping => tape = <<>>)
    BY <2>1 DEF TapeInv
  <2>4. \E k \in 0..1 : k <= Len(tape) /\ Since(k) = <<>>
    BY <1>0, <2>3, NothingSince DEF Since
  <2> QED BY <2>1, <2>2, <2>3, <2>4 DEF TapeInv
<1>5. CASE StopRecording
  <2>1. /\ busy = "idle" /\ main = "serving" /\ active /\ active' = FALSE /\ busy' = "saving"
        /\ UNCHANGED <<tape, taken, thread, main>>
    BY <1>5 DEF StopRecording, Handler
  <2>2. (Taping' <=> Taping) /\ snap' = snap /\ \A k : Since(k)' = Since(k)
    BY <2>1 DEF thread, Taping, Since
  <2> QED BY <2>1, <2>2 DEF TapeInv
<1>6. CASE RecordingSaved \/ RecordingCleared
  BY <1>6 DEF RecordingSaved, RecordingCleared, TapeInv
<1>7. CASE StopRunning \/ StopSaves \/ RemoveController \/ FireMacro \/ MacroReturns
  <2>1. /\ UNCHANGED <<active, tape, taken, thread>>
        /\ busy' # "idle" => main' = "serving"
        /\ busy' \notin {"starting", "saving", "clearing"} \/ busy' = busy
        /\ main' = "saving" => active
    BY <1>7 DEF StopRunning, StopSaves, RemoveController, FireMacro, MacroReturns, Handler, TapeInv,
       recording
  <2>2. (Taping' <=> Taping) /\ snap' = snap /\ \A k : Since(k)' = Since(k)
    BY <2>1 DEF thread, Taping, Since
  <2> QED BY <2>1, <2>2 DEF TapeInv
<1>8. CASE UNCHANGED <<active, tape, taken, snap, taping, busy, main>> /\ (Taping' <=> Taping)
  BY <1>8, TapeUnchanged
<1>9. \/ LoopBuild \/ LoopTape
      \/ StartRecording \/ RecordingStarts \/ StopRecording \/ RecordingSaved \/ RecordingCleared
      \/ StopRunning \/ StopSaves \/ RemoveController \/ FireMacro \/ MacroReturns
      \/ UNCHANGED <<active, tape, taken, snap, taping, busy, main>> /\ (Taping' <=> Taping)
  BY DEF Next, vars, Loop, EventLoop, Write, ApplyPacket, ApplyButtonSet, ApplyStick,
     WindowCloses, SetRecordingPath, LoopSend, LoopNotify, LoopSleep, LoopEnds,
     Subscribe, Disconnect, Enqueue, Deliver, SendFails, Exited, recording, thread, Taping
<1> QED BY <1>1, <1>2, <1>3, <1>4, <1>5, <1>6, <1>7, <1>8, <1>9

LEMMA TapeInit == Init => TapeInv
BY DEF Init, TapeInv

\* What is written is what was built, but for the two frames the race allows.
LEMMA SaveIsFaithful ==
  ASSUME TypeOK, TapeInv, NEW p \in Paths, SaveRecording, files'[p] # files[p],
         active \/ busy = "saving"
  PROVE  \E k \in 0..1 :
           LET saved == SubSeq(files'[p], k + 1, Len(files'[p]))
           IN saved = taken \/ (taken # <<>> /\ saved = Front(taken))
<1>1. tape # <<>> /\ files'[p] = tape
  BY DEF SaveRecording, TypeOK, RecordingOK
<1>2. CASE ~Taping
  BY <1>1, <1>2 DEF TapeInv, Since
<1>3. CASE Taping
  <2>1. PICK k \in 0..1 : k <= Len(tape) /\ taken = Append(Since(k), snap)
    BY <1>1, <1>3 DEF TapeInv
  <2>2. snap \in Frames /\ Since(k) \in Seq(Frames)
    BY <1>3 DEF Taping, TypeOK, ThreadOK, RecordingOK, Since
  <2>3. taken # <<>> /\ Front(taken) = Since(k)
    BY <2>1, <2>2, FrontOfAppend
  <2> QED BY <1>1, <2>3 DEF Since
<1> QED BY <1>2, <1>3

\* A recording is saved with every frame built while it was on, in order, however
\* the unlocked toggle falls between building and taping a frame.
THEOREM RecordingIsFaithful == Spec => SavedFaithfully
<1>1. TypeOK /\ TapeInv /\ [Next]_vars =>
        [\A p \in Paths : files'[p] # files[p] =>
           \E k \in 0..1 :
             LET saved == SubSeq(files'[p], k + 1, Len(files'[p]))
             IN saved = taken \/ (taken # <<>> /\ saved = Front(taken))]_vars
  <2> SUFFICES ASSUME TypeOK, TapeInv, [Next]_vars, NEW p \in Paths, files'[p] # files[p]
               PROVE  \E k \in 0..1 :
                        LET saved == SubSeq(files'[p], k + 1, Len(files'[p]))
                        IN saved = taken \/ (taken # <<>> /\ saved = Front(taken))
    OBVIOUS
  <2>1. RecordingSaved \/ StopSaves
    BY DEF Next, vars, Loop, EventLoop, Write, ApplyPacket, ApplyButtonSet, ApplyStick,
       WindowCloses, FireMacro, MacroReturns, SetRecordingPath, StartRecording,
       RecordingStarts, StopRecording, RecordingCleared, LoopBuild,
       LoopTape, LoopSend, LoopNotify, LoopSleep, LoopEnds, Subscribe, Disconnect,
       Enqueue, Deliver, SendFails, StopRunning, RemoveController, Exited, recording
  <2>2. SaveRecording /\ (active \/ busy = "saving")
    BY <2>1 DEF RecordingSaved, StopSaves, TapeInv
  <2> QED BY <2>2, SaveIsFaithful
<1>2. Init => TapeInv
  BY TapeInit
<1>3. TypeOK /\ TapeInv /\ [Next]_vars => TapeInv'
  BY TapeStep
<1> QED BY <1>1, <1>2, <1>3, OrchestratorTypeOK, PTL DEF Spec, SavedFaithfully
=============================================================================
