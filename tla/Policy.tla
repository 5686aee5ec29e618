-------------------------------- MODULE Policy --------------------------------
(***************************************************************************)
(* The policy behind the autopilot (nxrl serve and its clients): a server  *)
(* that answers one request at a time over a REQ/REP pair, or an object in *)
(* the process; and the inference thread that feeds it frames and keeps    *)
(* the last action.                                                        *)
(*                                                                         *)
(* A frame, a latent and an action carry no content. What matters of a     *)
(* window is how many latents it holds, of an action which policy made it  *)
(* from a window of which length, of a message whether it belongs to the   *)
(* request the client is waiting for.                                      *)
(***************************************************************************)
EXTENDS Naturals, Sequences

CONSTANTS Policies,    \* checkpoints a server can be told to load
          SeqLen,      \* SeqLen[p]: the sequence length of policy p
          Kinds        \* clients tried: "latents", "frames", "inprocess"

ASSUME PolicyAssumption ==
  /\ SeqLen \in [Policies -> Nat \ {0}]
  /\ Kinds \subseteq {"latents", "frames", "inprocess"}

VARIABLES
  kind,     \* the client build_client made
  up,       \* the server runs
  policy,   \* the policy it has loaded
  window,   \* latents in its sliding window, and the window's maxlen
  first,    \* the policy it is started with
  wire,     \* external: the messages between the two sockets
  sock,     \* the REQ socket: "idle", "awaiting" a reply, "stuck" after a timeout
  ai,       \* where the inference thread stands
  seen,     \* the camera has a frame it has not looked at
  have,     \* latents in the thread's own window
  cache,    \* who made the action latest_action() returns
  aiStop    \* the thread's _stop event

policyVars == <<kind, up, policy, window, first, wire, sock, ai, seen, have, cache, aiStop>>
clientVars == <<kind, sock, ai, seen, have, cache, aiStop>>
serverVars == <<up, policy, window, first>>

NoAction == [by |-> "none", from |-> 0]
Lens == {SeqLen[p] : p \in Policies}
Actions == [by : Policies, from : Lens]
Known == SeqLen[first]     \* info()["sequence_length"], read once at construction

Request(n) == [type |-> "request", pending |-> TRUE, length |-> n]
Reply(t, a) == [type |-> t, pending |-> TRUE, action |-> a]

Requests == [type : {"request"}, pending : BOOLEAN, length : Nat]
Replies == [type : {"action", "error", "warming"}, pending : BOOLEAN,
            action : Actions \cup {NoAction}]

PolicyInit ==
  /\ kind \in Kinds
  /\ up = TRUE /\ first \in Policies /\ policy = first
  /\ window = [held |-> 0, max |-> SeqLen[first]]
  /\ wire = <<>> /\ sock = "idle"
  /\ ai = "look" /\ seen = FALSE /\ have = 0 /\ cache = NoAction /\ aiStop = FALSE

PolicyTypeOK ==
  /\ kind \in Kinds /\ up \in BOOLEAN /\ policy \in Policies /\ first \in Policies
  /\ window \in [held : Nat, max : Lens] /\ window.held <= window.max
  /\ sock \in {"idle", "awaiting", "stuck"}
  /\ ai \in {"look", "send", "receive", "ended"}
  /\ seen \in BOOLEAN /\ have \in 0 .. Known /\ aiStop \in BOOLEAN
  /\ cache \in Actions \cup {NoAction}
  /\ wire \in Seq(Requests \cup Replies) /\ Len(wire) <= 1

-----------------------------------------------------------------------------
(* The server.                                                             *)

(* MODE_PREDICT: a window of the wrong length is refused.                  *)
Predict(n) ==
  IF n = SeqLen[policy] THEN Reply("action", [by |-> policy, from |-> n])
                        ELSE Reply("error", NoAction)

(* MODE_PREDICT_FRAME: the frame joins the window, a deque of bounded       *)
(* length; a window that is not yet full answers nothing. The model takes  *)
(* a window of any length.                                                 *)
WithFrame == [window EXCEPT !.held = IF @ < window.max THEN @ + 1 ELSE @]

PredictFrame ==
  IF WithFrame.held < SeqLen[policy]
  THEN Reply("warming", NoAction)
  ELSE Reply("action", [by |-> policy, from |-> WithFrame.held])

(* ZMQTransport.run: receive, handle, reply; an exception of the handler is *)
(* an error reply. A reply that belongs to no pending request stays so.     *)
Answer ==
  /\ up /\ wire # <<>> /\ Head(wire).type = "request"
  /\ LET r == Head(wire)
         answer == IF kind = "frames" THEN PredictFrame ELSE Predict(r.length)
     IN wire' = <<[answer EXCEPT !.pending = r.pending]>> \o Tail(wire)
  /\ window' = IF kind = "frames" THEN WithFrame ELSE window
  /\ UNCHANGED <<up, policy, first, clientVars>>

(* Fault: the window keeps the length it was made with. *)
ReloadKeepsWindow ==
  /\ up /\ kind # "inprocess"
  /\ policy' \in Policies
  /\ UNCHANGED <<up, window, first, wire, clientVars>>

(* MODE_RELOAD, from another client, between two requests: the policy is    *)
(* replaced, the window is emptied and takes the new length. A path that    *)
(* does not load leaves everything as it was and is no step; each of the    *)
(* registered policies has the shape and length asked for after the load.   *)
Reload ==
  /\ up /\ kind # "inprocess"
  /\ policy' \in Policies
  /\ window' = [held |-> 0, max |-> SeqLen[policy']]
  /\ UNCHANGED <<up, first, wire, clientVars>>

(* The server dies, perhaps with the request or the reply under way, and is *)
(* started again with the policy of its command line.                       *)
ServerDies ==
  /\ up /\ kind # "inprocess"
  /\ up' = FALSE /\ wire' \in {wire, <<>>}
  /\ UNCHANGED <<policy, window, first, clientVars>>

ServerRestarts ==
  /\ ~up
  /\ up' = TRUE /\ policy' = first
  /\ window' = [held |-> 0, max |-> SeqLen[first]]
  /\ UNCHANGED <<first, wire, clientVars>>

Server == Answer

-----------------------------------------------------------------------------
(* The inference thread.                                                   *)

NewFrame ==
  /\ ~seen /\ seen' = TRUE /\ ai # "ended"
  /\ UNCHANGED <<serverVars, wire, kind, sock, ai, have, cache, aiStop>>

(* A frame is looked at once. With its own window the thread asks only when *)
(* it is full; a frame client asks for every frame.                         *)
Look ==
  /\ ai = "look" /\ ~aiStop /\ seen
  /\ seen' = FALSE
  /\ have' = IF kind = "frames" \/ have = Known THEN have ELSE have + 1
  /\ ai' = IF kind = "frames" \/ have' = Known THEN "send" ELSE "look"
  /\ UNCHANGED <<serverVars, wire, kind, sock, cache, aiStop>>

InProcess ==
  /\ ai = "send" /\ kind = "inprocess"
  /\ ai' = "look" /\ cache' = Predict(have).action
  /\ UNCHANGED <<serverVars, wire, kind, sock, seen, have, aiStop>>

(* Whatever is still on the wire belongs to an earlier request.             *)
Send ==
  /\ ai = "send" /\ kind # "inprocess" /\ sock = "idle"
  /\ wire' = [i \in DOMAIN wire |-> [wire[i] EXCEPT !.pending = FALSE]] \o <<Request(have)>>
  /\ sock' = "awaiting" /\ ai' = "receive"
  /\ UNCHANGED <<serverVars, kind, seen, have, cache, aiStop>>

(* External: a REQ socket that still owes a recv refuses to send. The loop  *)
(* prints the error and looks at the next frame.                            *)
SendRefused ==
  /\ ai = "send" /\ sock = "stuck"
  /\ ai' = "look"
  /\ UNCHANGED <<serverVars, wire, kind, sock, seen, have, cache, aiStop>>

Answered == wire # <<>> /\ Head(wire).type # "request"

(* An action is cached; warming and errors are not.                         *)
Receive ==
  /\ ai = "receive" /\ Answered
  /\ cache' = IF Head(wire).type = "action" THEN Head(wire).action ELSE cache
  /\ wire' = Tail(wire) /\ sock' = "idle" /\ ai' = "look"
  /\ UNCHANGED <<serverVars, kind, seen, have, aiStop>>

(* Fault: after a timeout the socket may send again, as with ZMQ_REQ_RELAXED *)
(* and no correlation.                                                      *)
TimeoutRelaxed ==
  /\ ai = "receive" /\ ~Answered
  /\ sock' = "idle" /\ ai' = "look"
  /\ UNCHANGED <<serverVars, wire, kind, seen, have, cache, aiStop>>

(* RCVTIMEO: recv raises and the request stays unanswered on the socket.    *)
Timeout ==
  /\ ai = "receive" /\ ~Answered
  /\ sock' = "stuck" /\ ai' = "look"
  /\ UNCHANGED <<serverVars, wire, kind, seen, have, cache, aiStop>>

InferenceEnds ==
  /\ ai = "look" /\ aiStop
  /\ ai' = "ended"
  /\ UNCHANGED <<serverVars, wire, kind, sock, seen, have, cache, aiStop>>

Inference == Look \/ InProcess \/ Send \/ SendRefused \/ Receive \/ InferenceEnds
=============================================================================
