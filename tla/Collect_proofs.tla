--------------------------- MODULE Collect_proofs ---------------------------
(***************************************************************************)
(* Proofs about Collect and the capture threads beneath it, for any queue, *)
(* any age limit, any number of frames and either writer. QueueInv follows *)
(* the newest frame through the capture thread, FilesInv the files through *)
(* the ways an episode can end.                                            *)
(***************************************************************************)
EXTENDS Collect, SequenceTheorems, TLAPS

\* A frame that was read and not queued yet is the newest one.
QueueInv ==
  /\ NewestFrameKept
  /\ cam \in {"putting", "full"} => fresh.newest

\* Everything of the episode but its manifest is on disk.
Written ==
  /\ rows > 0 /\ encoded >= rows /\ table = "whole"
  /\ Encodes => video = "whole"

\* Each point of the way out knows which files are final.
FilesInv ==
  /\ manifest # "absent" => Written /\ pc \in {"stamp", "stamping"} \cup Ended
  /\ pc = "rows" => rows > 0 /\ (Encodes => video = "whole")
  /\ pc = "manifest" => Written
  /\ pc \in {"stamp", "stamping"} => manifest # "absent"
  /\ pc = "done" => IF rows = 0 THEN manifest = "absent" ELSE manifest = "stamped"

\* Until an append fails there is a row for every encoded frame.
RowsInv == pc \in {"ui", "enter", "first", "frames"} => encoded = rows /\ rows < MaxFrames

-----------------------------------------------------------------------------
(* Types                                                                   *)

\* The thread's queue rewritten entry by entry keeps its length.
LEMMA QueueRewritten ==
  ASSUME NEW q \in Seq(Frames), NEW r,
         DOMAIN r = DOMAIN q, r = [i \in DOMAIN q |-> r[i]], \A i \in DOMAIN q : r[i] \in Frames
  PROVE  r \in Seq(Frames) /\ Len(r) = Len(q)
<1>1. DOMAIN q = 1..Len(q) /\ Len(q) \in Nat
  BY LenProperties
<1>2. r \in [1..Len(q) -> Frames]
  BY <1>1
<1>3. r \in Seq(Frames)
  BY <1>1, <1>2, SeqDef
<1>4. Len(r) = Len(q)
  BY <1>1, <1>2, <1>3, LenProperties
<1> QED BY <1>3, <1>4

CamOK ==
  /\ cam \in {"unborn", "opening", "reading", "putting", "full", "ended"}
  /\ fresh \in Frames
  /\ queue \in Seq(Frames) /\ Len(queue) <= QueueSize
  /\ held \in Ages \cup {None}
  /\ taken \in BOOLEAN /\ camStop \in BOOLEAN /\ camera \in BOOLEAN

SubOK ==
  /\ orch \in BOOLEAN /\ due \in BOOLEAN /\ subStop \in BOOLEAN
  /\ conn \in {"unborn", "connecting", "open", "backoff", "ended"}
  /\ snap \in Ages \cup {None}

LEMMA ZeroAge == 0 \in Ages
BY CaptureAssumption DEF Ages

\* The capture thread and the consumer of its queue.
LEMMA CamTypeStep ==
  ASSUME CamOK, SubOK,
         CaptureLoop \/ Unplugged \/ Get \/ Skip \/ Release
  PROVE  CamOK' /\ SubOK'
<1> USE CaptureAssumption
<1>1. UNCHANGED subVars
  BY DEF CaptureLoop, CameraOpens, ReadFrame, PutFrame, DropOldest, CaptureEnds, Unplugged,
     Get, Skip, Release
<1>2. SubOK'
  BY <1>1 DEF SubOK, subVars
<1>3. CASE CameraOpens \/ CaptureEnds \/ Unplugged \/ Skip \/ Release
  BY <1>2, <1>3 DEF CameraOpens, CaptureEnds, Unplugged, Skip, Release, CamOK, None
<1>4. CASE ReadFrame
  <2>1. AgeAtCapture \in Ages
    BY DEF AgeAtCapture, SubOK, Ages, Stale
  <2>2. fresh' \in Frames
    BY <1>4, <2>1 DEF ReadFrame, Frames
  <2>3. queue' = [i \in DOMAIN queue |-> Older(queue[i])] /\ queue \in Seq(Frames)
    BY <1>4 DEF ReadFrame, CamOK
  <2>4. ASSUME NEW i \in DOMAIN queue PROVE queue'[i] \in Frames
    <3>1. queue[i] \in Frames
      BY <2>3, LenProperties
    <3> QED BY <2>3, <3>1 DEF Older, Frames
  <2>5. queue' \in Seq(Frames) /\ Len(queue') = Len(queue)
    BY <2>3, <2>4, QueueRewritten
  <2> QED BY <1>2, <1>4, <2>2, <2>5 DEF ReadFrame, CamOK
<1>5. Forget(fresh) \in Frames
  BY ZeroAge DEF Forget, CamOK, Frames
<1>6. CASE PutFrame
  <2>1. queue' \in Seq(Frames) /\ Len(queue') <= QueueSize
    BY <1>6 DEF PutFrame, CamOK
  <2> QED BY <1>2, <1>5, <1>6, <2>1 DEF PutFrame, CamOK
<1>7. CASE DropOldest
  <2>1. queue' \in Seq(Frames) /\ Len(queue') <= QueueSize
    <3>1. CASE queue = <<>>
      <4>1. queue' = Append(<<>>, fresh) /\ fresh \in Frames
        BY <1>7, <3>1 DEF DropOldest, CamOK
      <4> QED BY <4>1, EmptySeq, AppendProperties
    <3>2. CASE queue # <<>>
      <4>1. queue' = Append(Tail(queue), fresh) /\ fresh \in Frames /\ queue \in Seq(Frames)
        BY <1>7, <3>2 DEF DropOldest, CamOK
      <4>2. Tail(queue) \in Seq(Frames) /\ Len(Tail(queue)) = Len(queue) - 1 /\ Len(queue) \in Nat
        BY <3>2, <4>1, HeadTailProperties, LenProperties
      <4> QED BY <4>1, <4>2, AppendProperties DEF CamOK
    <3> QED BY <3>1, <3>2
  <2> QED BY <1>2, <1>5, <1>7, <2>1 DEF DropOldest, CamOK
<1>8. CASE Get
  <2>1. Head(queue) \in Frames /\ Tail(queue) \in Seq(Frames) /\ Len(Tail(queue)) = Len(queue) - 1
        /\ Len(queue) \in Nat
    BY <1>8, HeadTailProperties, LenProperties DEF Get, CamOK
  <2>2. Head(queue).age \in Ages /\ Head(queue).newest \in BOOLEAN
    BY <2>1 DEF Frames
  <2> QED BY <1>2, <1>8, <2>1, <2>2 DEF Get, CamOK
<1> QED BY <1>2, <1>3, <1>4, <1>6, <1>7, <1>8 DEF CaptureLoop

\* The subscription and what is outside the process.
LEMMA SubTypeStep ==
  ASSUME CamOK, SubOK,
         Subscription \/ OrchestratorComesOrGoes \/ Tick
  PROVE  CamOK' /\ SubOK'
<1> USE CaptureAssumption
<1>1. CASE Ingest
  <2>1. fresh' \in Frames /\ held' \in Ages \cup {None}
    BY <1>1, ZeroAge DEF Ingest, CamOK, Frames
  <2>2. queue' = [i \in DOMAIN queue |-> [queue[i] EXCEPT !.age = 0]] /\ queue \in Seq(Frames)
    BY <1>1 DEF Ingest, CamOK
  <2>3. ASSUME NEW i \in DOMAIN queue PROVE queue'[i] \in Frames
    <3>1. queue[i] \in Frames
      BY <2>2, LenProperties
    <3> QED BY <2>2, <3>1, ZeroAge DEF Frames
  <2>4. queue' \in Seq(Frames) /\ Len(queue') = Len(queue)
    BY <2>2, <2>3, QueueRewritten
  <2>5. CamOK'
    BY <1>1, <2>1, <2>4 DEF Ingest, CamOK
  <2>6. SubOK'
    BY <1>1, ZeroAge DEF Ingest, SubOK
  <2> QED BY <2>5, <2>6
<1>2. CASE Connect \/ ConnectionLost \/ BackoffOver \/ SubscriptionEnds \/ OrchestratorComesOrGoes
  <2>1. CamOK'
    BY <1>2 DEF Connect, ConnectionLost, BackoffOver, SubscriptionEnds, OrchestratorComesOrGoes,
       CamOK, camVars
  <2> QED BY <1>2, <2>1 DEF Connect, ConnectionLost, BackoffOver, SubscriptionEnds,
          OrchestratorComesOrGoes, SubOK
<1>3. CASE Tick
  <2>1. CamOK'
    BY <1>3 DEF Tick, CamOK, camVars
  <2> QED BY <1>3, <2>1 DEF Tick, SubOK, Ages
<1> QED BY <1>1, <1>2, <1>3 DEF Subscription

\* What the recorder itself keeps: its place and the files.
RecorderOK ==
  /\ pc \in Ended \cup {"ui", "enter", "first", "frames", "source", "controller", "page",
                       "close", "rows", "manifest", "stamp", "stamping"}
  /\ writer \in {"video_parquet", "npz"} /\ ui \in {"off", "serving", "ended"}
  /\ stopFlag \in BOOLEAN /\ raised \in BOOLEAN
  /\ rows \in 0 .. MaxFrames /\ encoded \in rows .. rows + 1
  /\ video \in {"absent", "open", "whole"} /\ table \in {"absent", "whole"}
  /\ manifest \in {"absent", "torn", "whole", "stamped"}

LEMMA TypeParts ==
  /\ TypeOK <=> CamOK /\ SubOK /\ RecorderOK
  /\ TypeOK' <=> CamOK' /\ SubOK' /\ RecorderOK'
BY DEF TypeOK, CaptureTypeOK, CamOK, SubOK, RecorderOK

\* What the recorder's steps do to the threads it starts and stops.
LEMMA ThreadsStep ==
  ASSUME CamOK, SubOK, Recorder \/ Signal \/ Killed
  PROVE  CamOK' /\ SubOK'
<1>1. CASE NextFrame \/ AppendRow \/ AppendRaises
  BY <1>1, CamTypeStep DEF NextFrame, AppendRow, AppendRaises
<1>2. CASE StartPage \/ Enter \/ StopSource \/ StopController \/ Killed
  <2>1. CamOK'
    BY <1>2 DEF StartPage, Enter, StopSource, StopController, Killed, CamOK, SourceStarted,
       camVars, subVars
  <2>2. SubOK'
    BY <1>2 DEF StartPage, Enter, StopSource, StopController, Killed, SubOK, SubscriptionStarted,
       camVars, subVars
  <2> QED BY <2>1, <2>2
<1>3. CASE UNCHANGED captureVars
  BY <1>3 DEF captureVars, camVars, subVars, CamOK, SubOK
<1> QED BY <1>1, <1>2, <1>3 DEF Recorder, FirstSnapshot, FirstTimesOut, StopPage, CloseEmpty,
        CloseVideo, WriteRows, WriteManifest, StampTruncates, Stamped, CloseRaises, Signal

\* The recorder's own variables.
LEMMA RecorderTypeStep ==
  ASSUME RecorderOK, RowsInv, Recorder \/ Signal \/ Killed
  PROVE  RecorderOK' /\ RowsInv'
<1> USE CollectAssumption DEF RecorderOK, RowsInv, At, Leave, Ended
<1>1. CASE AppendRow
  BY <1>1 DEF AppendRow, Encodes
<1>2. CASE AppendRaises
  BY <1>2 DEF AppendRaises, Encodes
<1>3. CASE StartPage \/ Enter \/ FirstSnapshot \/ FirstTimesOut \/ NextFrame
  <2>1. UNCHANGED <<writer, ui, stopFlag, rows, encoded, video, table, manifest>>
        /\ (raised' = raised \/ raised' = TRUE)
    BY <1>3 DEF StartPage, Enter, FirstSnapshot, FirstTimesOut, NextFrame, fileVars
  <2>2. pc' \in {"enter", "first", "frames", "source"}
        /\ pc \in {"ui", "enter", "first", "frames"}
    BY <1>3 DEF StartPage, Enter, FirstSnapshot, FirstTimesOut, NextFrame
  <2> QED BY <2>1, <2>2
<1>4. CASE StopSource \/ StopController \/ StopPage \/ CloseEmpty \/ CloseVideo
  BY <1>4 DEF StopSource, StopController, StopPage, CloseEmpty, CloseVideo, fileVars
<1>5. CASE WriteRows \/ WriteManifest \/ StampTruncates \/ Stamped \/ CloseRaises
  BY <1>5 DEF WriteRows, WriteManifest, StampTruncates, Stamped, CloseRaises, fileVars
<1>6. CASE Signal \/ Killed
  <2>1. UNCHANGED <<writer, rows, encoded, video, table, manifest, raised>>
        /\ ui' \in {ui, "ended"} /\ (stopFlag' = stopFlag \/ stopFlag' = TRUE)
        /\ pc' \in {pc, "killed"}
    BY <1>6 DEF Signal, Killed, fileVars
  <2>2. RowsInv' /\ rows' \in 0..MaxFrames /\ encoded' \in rows'..rows' + 1
    BY <2>1
  <2>3. stopFlag' \in BOOLEAN /\ raised' \in BOOLEAN
    BY <2>1
  <2> QED BY <2>1, <2>2, <2>3
<1> QED BY <1>1, <1>2, <1>3, <1>4, <1>5, <1>6 DEF Recorder

\* Steps of the threads and of the world leave the recorder alone.
LEMMA OutsideStep ==
  ASSUME Background \/ World \/ UNCHANGED vars
  PROVE  UNCHANGED recorderVars
BY DEF Background, World, vars, recorderVars

LEMMA TypeStep == TypeOK /\ RowsInv /\ [Next]_vars => TypeOK' /\ RowsInv'
<1> SUFFICES ASSUME TypeOK, RowsInv, [Next]_vars PROVE TypeOK' /\ RowsInv'
  OBVIOUS
<1>0. CamOK /\ SubOK /\ RecorderOK
  BY TypeParts
<1>1. CASE Recorder \/ Signal \/ Killed
  BY <1>0, <1>1, ThreadsStep, RecorderTypeStep, TypeParts
<1>2. CASE Background \/ World \/ UNCHANGED vars
  <2>1. RecorderOK' /\ RowsInv'
    BY <1>0, <1>2, OutsideStep DEF recorderVars, fileVars, RecorderOK, RowsInv
  <2>2. CamOK' /\ SubOK'
    <3>1. CASE UNCHANGED vars
      BY <1>0, <3>1 DEF vars, captureVars, camVars, subVars, CamOK, SubOK
    <3> QED BY <1>0, <1>2, <3>1, CamTypeStep, SubTypeStep DEF Background, World
  <2> QED BY <2>1, <2>2, TypeParts
<1> QED BY <1>1, <1>2 DEF Next

LEMMA TypeInit == Init => TypeOK /\ RowsInv
<1> SUFFICES ASSUME Init PROVE TypeOK /\ RowsInv
  OBVIOUS
<1> USE CaptureAssumption, CollectAssumption DEF Init, CaptureInit
<1>1. CamOK
  <2>1. fresh \in Frames
    BY ZeroAge DEF Frames
  <2>2. queue \in Seq(Frames) /\ Len(queue) <= QueueSize
    BY EmptySeq
  <2> QED BY <2>1, <2>2 DEF CamOK
<1>2. SubOK
  BY DEF SubOK
<1>3. PICK s \in Setups : writer = s[1] /\ ui = s[2]
  OBVIOUS
<1>4. writer \in {"video_parquet", "npz"} /\ ui \in {"off", "serving"}
  BY <1>3
<1>5. rows \in 0..MaxFrames /\ encoded \in rows..rows + 1 /\ RowsInv
  BY DEF RowsInv
<1>6. RecorderOK
  BY <1>4, <1>5 DEF RecorderOK, Ended
<1> QED BY <1>1, <1>2, <1>5, <1>6, TypeParts

LEMMA TypesAlways == Spec => [](TypeOK /\ RowsInv)
BY TypeInit, TypeStep, PTL DEF Spec

\* Every variable keeps its type in every reachable state.
THEOREM CollectTypeOK == Spec => []TypeOK
BY TypesAlways, PTL

-----------------------------------------------------------------------------
(* The newest frame                                                        *)

\* An append makes the frame the last of the queue.
LEMMA AppendIsLast ==
  ASSUME NEW q \in Seq(Frames), NEW f \in Frames
  PROVE  Append(q, f) # <<>> /\ Append(q, f)[Len(Append(q, f))] = f
BY AppendProperties

LEMMA QueueStep == TypeOK /\ QueueInv /\ [Next]_vars => QueueInv'
<1> SUFFICES ASSUME TypeOK, QueueInv, [Next]_vars PROVE QueueInv'
  OBVIOUS
<1>0. CamOK /\ queue \in Seq(Frames) /\ fresh \in Frames
  BY TypeParts DEF CamOK
<1>1. CASE ReadFrame
  BY <1>1 DEF ReadFrame, QueueInv, NewestFrameKept
<1>2. CASE PutFrame
  <2>1. fresh.newest
    BY <1>2 DEF PutFrame, QueueInv
  <2>2. CASE Len(queue) < QueueSize
    <3>1. queue' = Append(queue, fresh) /\ cam' = "reading"
      BY <1>2, <2>2 DEF PutFrame
    <3>2. queue' # <<>> /\ queue'[Len(queue')] = fresh
      BY <1>0, <3>1, AppendIsLast
    <3> QED BY <2>1, <3>1, <3>2 DEF QueueInv, NewestFrameKept
  <2>3. CASE ~(Len(queue) < QueueSize)
    BY <1>2, <2>1, <2>3 DEF PutFrame, QueueInv, NewestFrameKept
  <2> QED BY <2>2, <2>3
<1>3. CASE DropOldest
  <2>1. fresh.newest /\ cam' = "reading"
    BY <1>3 DEF DropOldest, QueueInv
  <2>2. \E q \in Seq(Frames) : queue' = Append(q, fresh)
    <3>1. queue # <<>> => Tail(queue) \in Seq(Frames)
      BY <1>0, HeadTailProperties
    <3> QED BY <1>0, <1>3, <3>1 DEF DropOldest
  <2>3. queue' # <<>> /\ queue'[Len(queue')] = fresh
    BY <1>0, <2>2, AppendIsLast
  <2> QED BY <2>1, <2>3 DEF QueueInv, NewestFrameKept
<1>4. CASE Get
  <2>1. queue # <<>> /\ queue' = Tail(queue) /\ taken' = (taken \/ Head(queue).newest)
        /\ UNCHANGED <<cam, fresh>>
    BY <1>4 DEF Get
  <2>2. CASE taken \/ fresh.newest
    BY <2>1, <2>2 DEF QueueInv, NewestFrameKept
  <2>3. CASE ~taken /\ queue[Len(queue)].newest
    <3>1. PICK n \in Nat : n = Len(queue) /\ n # 0
      BY <1>0, <2>1, EmptySeq
    <3>2. CASE n = 1
      <4>1. Head(queue) = queue[n]
        BY <1>0, <3>1, <3>2
      <4> QED BY <2>1, <2>3, <3>1, <4>1 DEF QueueInv, NewestFrameKept
    <3>3. CASE n # 1
      <4>1. /\ Len(queue') = n - 1 /\ \A i \in 1..Len(queue') : queue'[i] = queue[i + 1]
            /\ queue' \in Seq(Frames)
        BY <1>0, <2>1, <3>1, HeadTailProperties
      <4>2. queue'[n - 1] = queue[n] /\ queue' # <<>>
        BY <3>1, <3>3, <4>1, EmptySeq
      <4> QED BY <2>1, <2>3, <3>1, <4>1, <4>2 DEF QueueInv, NewestFrameKept
    <3> QED BY <3>2, <3>3
  <2> QED BY <2>2, <2>3 DEF QueueInv, NewestFrameKept
<1>5. CASE Ingest
  <2>1. /\ fresh' = [fresh EXCEPT !.age = 0] /\ UNCHANGED <<cam, taken>>
        /\ queue' = [i \in DOMAIN queue |-> [queue[i] EXCEPT !.age = 0]]
    BY <1>5 DEF Ingest
  <2>2. fresh'.newest = fresh.newest
    BY <1>0, <2>1 DEF Frames
  <2>3. ASSUME NEW i \in DOMAIN queue
        PROVE  queue'[i] \in Frames /\ queue'[i].newest = queue[i].newest
    <3>1. queue[i] \in Frames
      BY <1>0, LenProperties
    <3> QED BY <2>1, <3>1, ZeroAge DEF Frames
  <2>4. Len(queue') = Len(queue) /\ queue' \in Seq(Frames)
    BY <1>0, <2>1, <2>3, QueueRewritten
  <2>5. queue # <<>> => queue' # <<>> /\ Len(queue) \in DOMAIN queue
    BY <1>0, <2>4, EmptySeq, LenProperties
  <2> QED BY <2>1, <2>2, <2>3, <2>4, <2>5 DEF QueueInv, NewestFrameKept
<1>6. CASE UNCHANGED <<fresh, queue, taken>> /\ (cam' = cam \/ cam' \notin {"putting", "full"})
  BY <1>6 DEF QueueInv, NewestFrameKept
<1>7. \/ ReadFrame \/ PutFrame \/ DropOldest \/ Get \/ Ingest
      \/ UNCHANGED <<fresh, queue, taken>> /\ (cam' = cam \/ cam' \notin {"putting", "full"})
  <2>1. CASE Background \/ World \/ UNCHANGED vars
    BY <2>1 DEF Background, World, CaptureLoop, CameraOpens, CaptureEnds, Subscription, Connect,
       ConnectionLost, BackoffOver, SubscriptionEnds, Unplugged, OrchestratorComesOrGoes, Tick,
       vars, captureVars, camVars
  <2>2. CASE NextFrame \/ AppendRow \/ AppendRaises
    BY <2>2 DEF NextFrame, AppendRow, AppendRaises, Skip, Release
  <2>3. CASE StartPage \/ Enter \/ StopSource \/ StopController \/ Killed
    BY <2>3 DEF StartPage, Enter, StopSource, StopController, Killed, SourceStarted, camVars
  <2>4. CASE UNCHANGED captureVars
    BY <2>4 DEF captureVars, camVars
  <2> QED BY <2>1, <2>2, <2>3, <2>4 DEF Next, Recorder, FirstSnapshot, FirstTimesOut, StopPage,
        CloseEmpty, CloseVideo, WriteRows, WriteManifest, StampTruncates, Stamped, CloseRaises, Signal
<1> QED BY <1>1, <1>2, <1>3, <1>4, <1>5, <1>6, <1>7

\* However slow the recorder is, the queue never costs it the newest frame.
THEOREM NewestFrameIsKept == Spec => []NewestFrameKept
<1>1. Init => QueueInv
  BY DEF Init, CaptureInit, QueueInv, NewestFrameKept
<1>2. QueueInv => NewestFrameKept
  BY DEF QueueInv
<1> QED BY <1>1, <1>2, QueueStep, CollectTypeOK, PTL DEF Spec

-----------------------------------------------------------------------------
(* The files                                                               *)

LEMMA FilesStep == TypeOK /\ RowsInv /\ FilesInv /\ [Next]_vars => FilesInv'
<1> SUFFICES ASSUME TypeOK, RowsInv, FilesInv, [Next]_vars PROVE FilesInv'
  OBVIOUS
<1>0. RecorderOK
  BY TypeParts
<1> USE DEF FilesInv, Written, Encodes, At, Leave, Ended
<1>1. CASE StartPage \/ Enter \/ FirstSnapshot \/ FirstTimesOut \/ NextFrame
  BY <1>1 DEF StartPage, Enter, FirstSnapshot, FirstTimesOut, NextFrame, fileVars
<1>2. CASE AppendRow \/ AppendRaises
  BY <1>2 DEF AppendRow, AppendRaises
<1>3. CASE StopSource \/ StopController \/ StopPage
  BY <1>3 DEF StopSource, StopController, StopPage, fileVars
<1>4. CASE CloseEmpty \/ CloseVideo
  BY <1>0, <1>4 DEF CloseEmpty, CloseVideo, RecorderOK
<1>5. CASE WriteRows
  BY <1>0, <1>5, CollectAssumption DEF WriteRows, RecorderOK
<1>6. CASE WriteManifest \/ StampTruncates
  BY <1>6 DEF WriteManifest, StampTruncates
<1>7. CASE Stamped
  BY <1>7 DEF Stamped
<1>8. CASE CloseRaises \/ Signal \/ Killed
  BY <1>8 DEF CloseRaises, Signal, Killed, fileVars
<1>9. CASE Background \/ World \/ UNCHANGED vars
  BY <1>9, OutsideStep DEF recorderVars, fileVars
<1> QED BY <1>1, <1>2, <1>3, <1>4, <1>5, <1>6, <1>7, <1>8, <1>9 DEF Next, Recorder

LEMMA FilesAlways == Spec => [](TypeOK /\ RowsInv /\ FilesInv)
<1>1. Init => FilesInv
  BY DEF Init, FilesInv, Ended
<1> QED BY <1>1, FilesStep, TypesAlways, PTL DEF Spec

\* A manifest announces a whole episode, however the recorder ended, and a
\* recording that ends by itself loses no row.
THEOREM EpisodesAreWhole == Spec => []EpisodeWhole
<1>1. FilesInv => EpisodeWhole
  BY DEF FilesInv, Written, EpisodeWhole
<1> QED BY <1>1, FilesAlways, PTL

\* Once the manifest is there, no step touches the data files or takes it away.
THEOREM AnnouncedStaysFinal == Spec => AnnouncedIsFinal
<1>1. TypeOK /\ FilesInv /\ [Next]_vars =>
        [manifest # "absent" => manifest' # "absent" /\ UNCHANGED <<video, table, rows>>]_vars
  <2> SUFFICES ASSUME TypeOK, FilesInv, [Next]_vars, manifest # "absent"
               PROVE  manifest' # "absent" /\ UNCHANGED <<video, table, rows>>
    OBVIOUS
  <2>1. pc \in {"stamp", "stamping", "done", "raised", "killed"} /\ rows > 0
    BY DEF FilesInv, Written, Ended
  <2>2. CASE StampTruncates \/ Stamped \/ CloseRaises \/ Signal \/ Killed
    BY <2>2 DEF StampTruncates, Stamped, CloseRaises, Signal, Killed, fileVars
  <2>3. CASE Background \/ World \/ UNCHANGED vars
    BY <2>3, OutsideStep DEF recorderVars, fileVars
  <2> QED BY <2>1, <2>2, <2>3 DEF Next, Recorder, At, StartPage, Enter, FirstSnapshot,
        FirstTimesOut, NextFrame, AppendRow, AppendRaises, StopSource, StopController, StopPage,
        CloseEmpty, CloseVideo, WriteRows, WriteManifest
<1> QED BY <1>1, FilesAlways, PTL DEF Spec, AnnouncedIsFinal
=============================================================================
