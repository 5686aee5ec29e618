------------------------------- MODULE Collect -------------------------------
(***************************************************************************)
(* nxml-collect records one episode per process: run_recorder drives the   *)
(* capture threads of Capture, appends every pair to an episode writer and *)
(* closes it, whatever ended the loop. The files the writer leaves are     *)
(* what nxml-spool ships; their manifest announces them.                    *)
(***************************************************************************)
EXTENDS Capture

CONSTANTS MaxFrames,    \* --max-frames
          Setups        \* the writers and pages tried, in pairs

ASSUME CollectAssumption ==
  /\ MaxFrames \in Nat \ {0}
  /\ Setups \subseteq {"video_parquet", "npz"} \X {"off", "serving"}

VARIABLES
  pc,        \* where run_recorder stands
  writer,    \* config.writer
  ui,        \* the teleop page's server thread
  stopFlag,  \* stop_flag["stop"]
  encoded,   \* frames in the video, as long as it can be encoded to
  rows,      \* len(writer)
  video, table, manifest,   \* the files: absent, open or torn, whole
  raised     \* an exception is on its way out of the loop

fileVars == <<encoded, video, table, manifest>>
vars == <<captureVars, pc, writer, ui, stopFlag, rows, raised, fileVars>>

Ended == {"done", "raised", "killed"}

TypeOK ==
  /\ CaptureTypeOK
  /\ pc \in Ended \cup {"ui", "enter", "first", "frames", "source", "controller", "page",
                       "close", "rows", "manifest", "stamp", "stamping"}
  /\ writer \in {"video_parquet", "npz"} /\ ui \in {"off", "serving", "ended"}
  /\ stopFlag \in BOOLEAN /\ raised \in BOOLEAN
  /\ rows \in 0 .. MaxFrames /\ encoded \in rows .. rows + 1
  /\ video \in {"absent", "open", "whole"} /\ table \in {"absent", "whole"}
  /\ manifest \in {"absent", "torn", "whole", "stamped"}

Init ==
  /\ CaptureInit
  /\ \E s \in Setups : writer = s[1] /\ ui = s[2]
  /\ pc = IF ui = "off" THEN "enter" ELSE "ui"
  /\ stopFlag = FALSE /\ raised = FALSE
  /\ rows = 0 /\ encoded = 0
  /\ video = "absent" /\ table = "absent" /\ manifest = "absent"

-----------------------------------------------------------------------------
(* The loop.                                                               *)

At(here, next) == pc = here /\ pc' = next

(* With a page, the source starts before the synchronizer enters, so that  *)
(* the page has frames at once.                                            *)
StartPage ==
  /\ At("ui", "enter")
  /\ cam' = SourceStarted(cam)
  /\ UNCHANGED <<camera, fresh, queue, held, taken, camStop, subVars,
                 writer, ui, stopFlag, rows, raised, fileVars>>

Enter ==
  /\ At("enter", "first")
  /\ cam' = SourceStarted(cam) /\ conn' = SubscriptionStarted(conn)
  /\ UNCHANGED <<camera, fresh, queue, held, taken, camStop, orch, snap, due, subStop,
                 writer, ui, stopFlag, rows, raised, fileVars>>

FirstSnapshot ==
  /\ At("first", "frames") /\ snap # None
  /\ UNCHANGED <<captureVars, writer, ui, stopFlag, rows, raised, fileVars>>

FirstTimesOut ==
  /\ At("first", "source") /\ snap = None
  /\ raised' = TRUE
  /\ UNCHANGED <<captureVars, writer, ui, stopFlag, rows, fileVars>>

NextFrame ==
  /\ pc = "frames" /\ (Get \/ Skip)
  /\ UNCHANGED <<pc, writer, ui, stopFlag, rows, raised, fileVars>>

(* writer.append encodes a frame before it notes the row; npz keeps both   *)
(* in memory. An append that raises leaves the loop.                        *)
Encodes == writer = "video_parquet"

Release ==
  /\ Paired /\ held' = None
  /\ UNCHANGED <<camera, cam, fresh, queue, taken, camStop, subVars>>

AppendRow ==
  /\ pc = "frames" /\ Release
  /\ rows' = rows + 1 /\ encoded' = encoded + 1
  /\ video' = IF Encodes THEN "open" ELSE video
  /\ pc' = IF stopFlag \/ rows' >= MaxFrames THEN "source" ELSE "frames"
  /\ UNCHANGED <<writer, ui, stopFlag, raised, table, manifest>>

AppendRaises ==
  /\ pc = "frames" /\ Release /\ Encodes
  /\ raised' = TRUE
  /\ \/ UNCHANGED <<video, encoded>>                        \* the file cannot be opened
     \/ video' = "open" /\ encoded' \in {encoded, encoded + 1}
  /\ pc' = "source"
  /\ UNCHANGED <<writer, ui, stopFlag, rows, table, manifest>>

-----------------------------------------------------------------------------
(* The way out: the synchronizer stops both threads, the page stops, the   *)
(* writer closes. Every join has a timeout, so each may be left running.   *)

StopSource ==
  /\ At("source", "controller")
  /\ camStop' = TRUE
  /\ UNCHANGED <<camera, cam, fresh, queue, held, taken, subVars,
                 writer, ui, stopFlag, rows, raised, fileVars>>

StopController ==
  /\ At("controller", "page")
  /\ subStop' = TRUE
  /\ UNCHANGED <<camVars, orch, conn, snap, due,
                 writer, ui, stopFlag, rows, raised, fileVars>>

StopPage ==
  /\ At("page", "close")
  /\ ui' = IF ui = "serving" THEN "ended" ELSE ui
  /\ UNCHANGED <<captureVars, writer, stopFlag, rows, raised, fileVars>>

Leave == IF raised THEN "raised" ELSE "done"

CloseEmpty ==
  /\ At("close", Leave) /\ rows = 0
  /\ video' = IF video = "open" THEN "whole" ELSE video
  /\ UNCHANGED <<captureVars, writer, ui, stopFlag, rows, raised, encoded, table, manifest>>

CloseVideo ==
  /\ At("close", "rows") /\ rows > 0
  /\ video' = IF Encodes THEN "whole" ELSE video
  /\ UNCHANGED <<captureVars, writer, ui, stopFlag, rows, raised, encoded, table, manifest>>

(* Fault: the manifest goes first, the rows after it. *)
WriteManifestFirst ==
  /\ At("rows", "manifest")
  /\ manifest' = "whole"
  /\ UNCHANGED <<captureVars, writer, ui, stopFlag, rows, raised, encoded, video, table>>

(* The rows: the parquet table, or all of it in one npz.                    *)
WriteRows ==
  /\ At("rows", "manifest")
  /\ table' = "whole"
  /\ UNCHANGED <<captureVars, writer, ui, stopFlag, rows, raised, encoded, video, manifest>>

WriteManifest ==
  /\ At("manifest", "stamp")
  /\ manifest' = "whole"
  /\ UNCHANGED <<captureVars, writer, ui, stopFlag, rows, raised, encoded, video, table>>

(* Fault: the old manifest is removed before the new one is written. *)
StampRemoves ==
  /\ At("stamp", "stamping") /\ manifest # "absent"
  /\ manifest' = "absent"
  /\ UNCHANGED <<captureVars, writer, ui, stopFlag, rows, raised, encoded, video, table>>

(* _stamp_metadata reads the manifest and writes it again in place.         *)
StampTruncates ==
  /\ At("stamp", "stamping") /\ manifest # "absent"
  /\ manifest' = "torn"
  /\ UNCHANGED <<captureVars, writer, ui, stopFlag, rows, raised, encoded, video, table>>

Stamped ==
  /\ At("stamping", Leave)
  /\ manifest' = "stamped"
  /\ UNCHANGED <<captureVars, writer, ui, stopFlag, rows, raised, encoded, video, table>>

(* A close that fails, on a full disk say, raises out of the finally; it is *)
(* never tried again.                                                       *)
CloseRaises ==
  /\ pc \in {"close", "rows", "manifest", "stamp", "stamping"} /\ rows > 0
  /\ pc' = "raised"
  /\ UNCHANGED <<captureVars, writer, ui, stopFlag, rows, raised, fileVars>>

(* A signal handler only sets the flag; a kill ends the process and with   *)
(* it the daemon threads.                                                  *)
Signal ==
  /\ ~stopFlag /\ pc \notin Ended
  /\ stopFlag' = TRUE
  /\ UNCHANGED <<captureVars, pc, writer, ui, rows, raised, fileVars>>

Killed ==
  /\ pc \notin Ended
  /\ pc' = "killed" /\ cam' = "ended" /\ conn' = "ended"
  /\ ui' = IF ui = "serving" THEN "ended" ELSE ui
  /\ UNCHANGED <<camera, fresh, queue, held, taken, camStop, orch, snap, due, subStop,
                 writer, stopFlag, rows, raised, fileVars>>

Recorder ==
  \/ StartPage \/ Enter \/ FirstSnapshot \/ FirstTimesOut \/ NextFrame
  \/ AppendRow \/ AppendRaises
  \/ StopSource \/ StopController \/ StopPage
  \/ CloseEmpty \/ CloseVideo \/ WriteRows \/ WriteManifest \/ StampTruncates \/ Stamped
  \/ CloseRaises

recorderVars == <<pc, writer, ui, stopFlag, rows, raised, fileVars>>

(* The capture thread and the subscription; and what is outside the        *)
(* process, until it is told to stop. The age of the snapshot matters       *)
(* while frames are paired.                                                 *)
Capturing == {"ui", "enter", "first", "frames", "source", "controller"}

Background ==
  /\ CaptureLoop \/ Subscription
  /\ UNCHANGED recorderVars

World ==
  /\ \/ pc \in Capturing /\ (Unplugged \/ OrchestratorComesOrGoes)
     \/ pc \in {"first", "frames"} /\ Tick
  /\ UNCHANGED recorderVars

Next == Recorder \/ Background \/ World \/ Signal \/ Killed

Spec == Init /\ [][Next]_vars

(* The threads of a live process run; the orchestrator, the device, time,  *)
(* signals and kills owe nothing.                                          *)
FairSpec ==
  /\ Spec
  /\ WF_vars(Recorder)
  /\ WF_vars(CaptureLoop /\ UNCHANGED recorderVars)
  /\ WF_vars(Subscription /\ UNCHANGED recorderVars)

-----------------------------------------------------------------------------
(* Properties.                                                             *)

(* Whoever finds a manifest finds an episode: the video and the rows are   *)
(* written out and there is a video frame for every row, however the       *)
(* recorder ended and whatever failed on the way; nxml-spool ships and     *)
(* deletes on the strength of that. And a recording that ends by itself    *)
(* loses no row it took: either there were none, or it is announced with   *)
(* all its metadata.                                                       *)
EpisodeWhole ==
  /\ manifest # "absent" =>
       /\ rows > 0 /\ encoded >= rows /\ table = "whole"
       /\ Encodes => video = "whole"
  /\ pc = "done" => IF rows = 0 THEN manifest = "absent" ELSE manifest = "stamped"

(* Once the manifest is there the data files are final, so a reader that   *)
(* comes between close and the metadata stamp misses nothing.              *)
AnnouncedIsFinal ==
  [][manifest # "absent" => manifest' # "absent" /\ UNCHANGED <<video, table, rows>>]_vars

(* A recorder that is too slow loses old frames, never the newest: it is   *)
(* last in the queue, or about to be put, or was already handed over.      *)
NewestFrameKept ==
  \/ taken
  \/ fresh.newest
  \/ queue # <<>> /\ queue[Len(queue)].newest

Fed == orch /\ camera

(* Ctrl-C ends a recording that is being fed, and its threads: with a      *)
(* camera that delivers and an orchestrator that serves, however often it  *)
(* was restarted before, the loop comes back to the flag.                  *)
StopEndsWhenFed ==
  /\ <>[]Fed => (stopFlag ~> pc \in Ended)
  /\ pc \in Ended ~> cam = "ended" /\ conn \in {"unborn", "ended"}
=============================================================================
