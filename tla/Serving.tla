------------------------------- MODULE Serving -------------------------------
(***************************************************************************)
(* A session of the autopilot with its slow neighbours: the policy it asks *)
(* for actions (Policy) and the episode it records. The action loop posts  *)
(* every tick and appends what it posted while a recording is active; the  *)
(* recording is started and stopped by the page, or spans the session when *)
(* the input is a local device; the shutdown closes what is open.          *)
(***************************************************************************)
EXTENDS Policy

CONSTANT Inputs       \* config.input_source: "web", "evdev"

ASSUME ServingAssumption == Inputs \subseteq {"web", "evdev"}

VARIABLES
  input,     \* the input source of the session
  acting,    \* the action loop: "tick", "append", then the steps of shutdown, "gone"
  writer,    \* RecordingController._writer: none, open, or closed by a close that raised
  page,      \* the page's server answers
  stopReq,   \* _stop_flag
  failed     \* history: a write or a close of the episode raised

recVars == <<input, acting, writer, page, stopReq, failed>>
servingVars == <<policyVars, recVars>>

ServingTypeOK ==
  /\ PolicyTypeOK
  /\ input \in Inputs
  /\ acting \in {"tick", "append", "ai", "page", "recorder", "gone"}
  /\ writer \in {"none", "open", "closed"}
  /\ page \in BOOLEAN /\ stopReq \in BOOLEAN /\ failed \in BOOLEAN

ServingInit ==
  /\ PolicyInit
  /\ input \in Inputs
  /\ acting = "tick"
  /\ writer \in IF input = "evdev" THEN {"open", "none"} ELSE {"none"}
  /\ page = (input = "web")
  /\ stopReq = FALSE /\ failed = FALSE

-----------------------------------------------------------------------------
(* The page. RecordingController holds one lock around each call, so each   *)
(* is one step.                                                            *)

StartRecording ==
  /\ page /\ writer = "none"                  \* otherwise RuntimeError, answered 409
  /\ writer' = "open"
  /\ UNCHANGED <<policyVars, input, acting, page, stopReq, failed>>

(* stop(): the writer is forgotten once its close returned. A close that    *)
(* raises leaves it in place, closed; a second one returns and lets it go.   *)
StopRecorder ==
  \/ writer # "none" /\ writer' = "none" /\ UNCHANGED failed
  \/ writer = "open" /\ writer' = "closed" /\ failed' = TRUE

StopRecording ==
  /\ page /\ StopRecorder
  /\ UNCHANGED <<policyVars, input, acting, page, stopReq>>

-----------------------------------------------------------------------------
(* The action loop.                                                        *)

(* One tick: post, then ask whether a recording is active.                  *)
Tick ==
  /\ acting = "tick" /\ ~stopReq
  /\ acting' = IF writer # "none" THEN "append" ELSE "tick"
  /\ UNCHANGED <<policyVars, input, writer, page, stopReq, failed>>

(* append(): a recording stopped in between makes it return; a closed       *)
(* writer raises, and so does a write that fails, which ends the loop.       *)
AppendFrame ==
  /\ acting = "append"
  /\ \/ writer # "closed" /\ acting' = "tick" /\ UNCHANGED failed
     \/ writer = "closed" /\ acting' = "ai" /\ UNCHANGED failed
     \/ writer = "open" /\ acting' = "ai" /\ failed' = TRUE
  /\ UNCHANGED <<policyVars, input, writer, page, stopReq>>

StopRequested ==
  /\ ~stopReq /\ stopReq' = TRUE
  /\ UNCHANGED <<policyVars, input, acting, writer, page, failed>>

LoopStops ==
  /\ acting = "tick" /\ stopReq
  /\ acting' = "ai"
  /\ UNCHANGED <<policyVars, input, writer, page, stopReq, failed>>

-----------------------------------------------------------------------------
(* shutdown(). The inference thread is told to stop and waited for at most  *)
(* two seconds, which a pending request outlasts.                           *)

StopAi ==
  /\ acting = "ai" /\ acting' = "page"
  /\ aiStop' = TRUE
  /\ UNCHANGED <<serverVars, wire, kind, sock, ai, seen, have, cache,
                 input, writer, page, stopReq, failed>>

(* Fault: the page's server outlives the recorder. *)
StopPageNot ==
  /\ acting = "page" /\ acting' = "recorder"
  /\ UNCHANGED <<policyVars, input, writer, page, stopReq, failed>>

StopPage ==
  /\ acting = "page" /\ acting' = "recorder"
  /\ page' = FALSE
  /\ UNCHANGED <<policyVars, input, writer, stopReq, failed>>

CloseRecorder ==
  /\ acting = "recorder" /\ acting' = "gone"
  /\ StopRecorder \/ (writer = "none" /\ UNCHANGED <<writer, failed>>)
  /\ UNCHANGED <<policyVars, input, page, stopReq>>

Loop == Tick \/ AppendFrame \/ LoopStops \/ StopAi \/ StopPage \/ CloseRecorder

(* The policy's threads and its environment, until the session is over.     *)
Around ==
  /\ UNCHANGED recVars
  /\ \/ Server \/ Inference
     \/ acting # "gone" /\ (Timeout \/ Reload \/ ServerDies \/ ServerRestarts \/ NewFrame)

ServingNext == Loop \/ Around \/ StartRecording \/ StopRecording \/ StopRequested

ServingSpec == ServingInit /\ [][ServingNext]_servingVars

(* The three threads run, and a request is not waited for longer than its   *)
(* timeout. The camera, the operator and the server's process owe nothing.   *)
ServingFairSpec ==
  /\ ServingSpec
  /\ WF_servingVars(Loop)
  /\ WF_servingVars((Inference \/ Timeout) /\ UNCHANGED recVars)
  /\ WF_servingVars(Server /\ UNCHANGED recVars)

-----------------------------------------------------------------------------
(* Properties.                                                             *)

(* While the client waits, all there is on the wire belongs to the request  *)
(* it waits for: an answer that comes after its timeout is never taken for  *)
(* the answer to a later window. And every action comes from a window of    *)
(* exactly the length the policy that made it was trained on, across        *)
(* reloads and restarts.                                                    *)
AnswersFit ==
  /\ ai = "receive" => \A i \in DOMAIN wire : wire[i].pending
  /\ cache # NoAction => cache.from = SeqLen[cache.by]
  /\ \A i \in DOMAIN wire :
        wire[i].type = "action" => wire[i].action.from = SeqLen[wire[i].action.by]

(* Whatever the page was doing, no episode is open when the session is over, *)
(* and a session ends because it was asked to or because a write or a close *)
(* really failed: starting and stopping recordings beside the loop is no     *)
(* reason.                                                                   *)
EpisodeClosed ==
  /\ acting = "gone" => writer # "open"
  /\ acting \notin {"tick", "append"} => stopReq \/ failed

(* Inference goes on: with frames, a server that stays up and is no longer   *)
(* reloaded, the sequence length the client knows, and no request that ever  *)
(* timed out, actions keep arriving.                                        *)
Served == up /\ ~aiStop /\ sock # "stuck" /\ (kind = "frames" \/ SeqLen[policy] = Known)
Settled == <>[][policy' = policy /\ window'.held >= window.held]_servingVars
Stored == Receive /\ Head(wire).type = "action"
InferenceContinues ==
  (kind # "inprocess" /\ <>[]Served /\ Settled /\ []<>seen) => []<><<Stored>>_servingVars
=============================================================================
