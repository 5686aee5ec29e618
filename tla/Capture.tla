------------------------------- MODULE Capture -------------------------------
(***************************************************************************)
(* The two background threads of a recording: the capture loop of          *)
(* V4L2Source, which fills a small queue of frames, and the subscription   *)
(* to the orchestrator's state stream, which keeps the newest action; and  *)
(* the pairing of the two (nxml-capture).                                  *)
(*                                                                         *)
(* A frame is what the recording can tell of it: the age its action would  *)
(* have if it were paired now, and whether it is the newest one captured.  *)
(* Time is the age of the newest snapshot in units that matter to          *)
(* max_action_age; a frame's own age never counts, as both timestamps are  *)
(* fixed once taken.                                                       *)
(***************************************************************************)
EXTENDS Naturals, Sequences

CONSTANTS QueueSize, \* frames the queue of the source holds
          MaxAge     \* max_action_age

ASSUME CaptureAssumption == QueueSize \in Nat \ {0} /\ MaxAge \in Nat

VARIABLES
  camera,   \* the device delivers; once unplugged it stays so
  cam,      \* the capture thread
  fresh,    \* the frame the capture thread is about to queue
  queue,    \* V4L2Source._queue
  held,     \* age of the action of the frame the synchronizer holds, or None
  taken,    \* history: the newest frame captured has been handed to the consumer
  camStop,  \* the source's _stop_event
  orch,     \* the orchestrator serves /ws/state
  conn,     \* the subscription's thread
  snap,     \* age of the newest snapshot, or None
  due,      \* the open stream owes a message before time passes
  subStop   \* the subscription's _stop_event

camVars == <<camera, cam, fresh, queue, held, taken, camStop>>
subVars == <<orch, conn, snap, due, subStop>>
captureVars == <<camVars, subVars>>

Ages == 0 .. MaxAge + 1      \* MaxAge + 1 stands for anything older than the limit
Stale == MaxAge + 1
None == MaxAge + 2           \* no snapshot, no frame in hand
Frames == [age : Ages, newest : BOOLEAN]

CaptureTypeOK ==
  /\ camera \in BOOLEAN /\ orch \in BOOLEAN /\ due \in BOOLEAN
  /\ cam \in {"unborn", "opening", "reading", "putting", "full", "ended"}
  /\ fresh \in Frames
  /\ queue \in Seq(Frames) /\ Len(queue) <= QueueSize
  /\ held \in Ages \cup {None}
  /\ taken \in BOOLEAN /\ camStop \in BOOLEAN /\ subStop \in BOOLEAN
  /\ conn \in {"unborn", "connecting", "open", "backoff", "ended"}
  /\ snap \in Ages \cup {None}

CaptureInit ==
  /\ camera \in BOOLEAN /\ orch \in BOOLEAN
  /\ cam = "unborn" /\ fresh = [age |-> 0, newest |-> FALSE] /\ queue = <<>>
  /\ held = None /\ taken = TRUE /\ camStop = FALSE
  /\ conn = "unborn" /\ snap = None /\ due = FALSE /\ subStop = FALSE

-----------------------------------------------------------------------------
(* V4L2Source: start and stop are called by the recorder.                  *)

SourceStarted(c) == IF c = "unborn" THEN "opening" ELSE c

CameraOpens ==
  /\ cam = "opening"
  /\ cam' = IF camera THEN "reading" ELSE "ended"
  /\ UNCHANGED <<camera, fresh, queue, held, taken, camStop, subVars>>

AgeAtCapture == IF snap = None THEN Stale ELSE snap

Older(f) == [f EXCEPT !.newest = FALSE]

(* cap.read() succeeds: the frame becomes the newest, the ones queued do   *)
(* not stay so.                                                            *)
ReadFrame ==
  /\ cam = "reading" /\ ~camStop /\ camera
  /\ fresh' = [age |-> AgeAtCapture, newest |-> TRUE]
  /\ queue' = [i \in DOMAIN queue |-> Older(queue[i])]
  /\ taken' = FALSE
  /\ cam' = "putting"
  /\ UNCHANGED <<camera, held, camStop, subVars>>

Forget(f) == [f EXCEPT !.age = 0, !.newest = FALSE]  \* the thread no longer holds it

PutFrame ==
  /\ cam = "putting"
  /\ IF Len(queue) < QueueSize
     THEN queue' = Append(queue, fresh) /\ fresh' = Forget(fresh) /\ cam' = "reading"
     ELSE UNCHANGED <<queue, fresh>> /\ cam' = "full"
  /\ UNCHANGED <<camera, held, taken, camStop, subVars>>

(* Fault: the frame that finds no room is the one dropped. *)
DropNewest ==
  /\ cam = "full"
  /\ queue' = queue
  /\ fresh' = Forget(fresh) /\ cam' = "reading"
  /\ UNCHANGED <<camera, held, taken, camStop, subVars>>

(* Full: the oldest goes, then the new one is put. The consumer may have    *)
(* emptied the queue in between; nobody else puts.                          *)
DropOldest ==
  /\ cam = "full"
  /\ LET rest == IF queue = <<>> THEN queue ELSE Tail(queue)
     IN queue' = Append(rest, fresh)
  /\ fresh' = Forget(fresh) /\ cam' = "reading"
  /\ UNCHANGED <<camera, held, taken, camStop, subVars>>

CaptureEnds ==
  /\ cam = "reading" /\ camStop
  /\ cam' = "ended"
  /\ UNCHANGED <<camera, fresh, queue, held, taken, camStop, subVars>>

Unplugged ==
  /\ camera /\ camera' = FALSE
  /\ UNCHANGED <<cam, fresh, queue, held, taken, camStop, subVars>>

(* frames() of the source hands the oldest queued frame to the             *)
(* synchronizer.                                                           *)
Get ==
  /\ held = None /\ queue # <<>>
  /\ held' = Head(queue).age
  /\ taken' = (taken \/ Head(queue).newest)
  /\ queue' = Tail(queue)
  /\ UNCHANGED <<camera, cam, fresh, camStop, subVars>>

(* _pair: a frame whose action is too old is not worth emitting.            *)
Paired == held <= MaxAge

Skip ==
  /\ held = Stale
  /\ held' = None
  /\ UNCHANGED <<camera, cam, fresh, queue, taken, camStop, subVars>>

CaptureLoop == CameraOpens \/ ReadFrame \/ PutFrame \/ DropOldest \/ CaptureEnds

-----------------------------------------------------------------------------
(* ControllerSubscription._consume.                                        *)

SubscriptionStarted(c) == IF c = "unborn" THEN "connecting" ELSE c

Connect ==
  /\ conn = "connecting" /\ ~subStop
  /\ conn' = IF orch THEN "open" ELSE "backoff"
  /\ due' = FALSE
  /\ UNCHANGED <<orch, snap, subStop, camVars>>

(* Fault: the snapshot keeps the time of the one before it. *)
IngestKeepsTime ==
  /\ conn = "open" /\ orch /\ ~subStop
  /\ snap' = IF snap = None THEN 0 ELSE snap
  /\ due' = FALSE
  /\ UNCHANGED <<orch, conn, subStop, camVars>>

(* A message arrives. Whatever frame waits, in the queue or in a thread's  *)
(* hands, would now be paired with an action no older than itself:         *)
(* max(0, ...) makes its age zero. A message that does not parse is        *)
(* ignored, which is no step.                                              *)
Ingest ==
  /\ conn = "open" /\ orch /\ ~subStop
  /\ snap' = 0 /\ due' = FALSE
  /\ queue' = [i \in DOMAIN queue |-> [queue[i] EXCEPT !.age = 0]]
  /\ fresh' = [fresh EXCEPT !.age = 0]
  /\ held' = IF held = None THEN None ELSE 0
  /\ UNCHANGED <<orch, conn, subStop, camera, cam, taken, camStop>>

(* The orchestrator went away: an error leads to the backoff, a normal      *)
(* close straight back to connect.                                          *)
ConnectionLost ==
  /\ conn = "open" /\ ~orch /\ ~subStop
  /\ conn' \in {"backoff", "connecting"}
  /\ due' = FALSE
  /\ UNCHANGED <<orch, snap, subStop, camVars>>

BackoffOver ==
  /\ conn = "backoff" /\ ~subStop
  /\ conn' = "connecting"
  /\ UNCHANGED <<orch, snap, due, subStop, camVars>>

(* stop() sets the event and cancels the task, wherever it waits.          *)
SubscriptionEnds ==
  /\ subStop /\ conn \notin {"unborn", "ended"}
  /\ conn' = "ended" /\ due' = FALSE
  /\ UNCHANGED <<orch, snap, subStop, camVars>>

OrchestratorComesOrGoes ==
  /\ orch' = ~orch
  /\ UNCHANGED <<conn, snap, due, subStop, camVars>>

(* Time passes for the snapshot. An open stream sends many messages in the *)
(* time the age limit measures, so it never owes one for long.             *)
Tick ==
  /\ snap \in 0 .. MaxAge
  /\ ~(due /\ conn = "open" /\ orch)
  /\ snap' = snap + 1 /\ due' = (conn = "open")
  /\ UNCHANGED <<orch, conn, subStop, camVars>>

Subscription == Connect \/ Ingest \/ ConnectionLost \/ BackoffOver \/ SubscriptionEnds
=============================================================================
