------------------------------ MODULE WorldModel ------------------------------
(***************************************************************************)
(* nxwm serve over HTTP: one world model on one device, a session per      *)
(* WebSocket whose rollout state the model made, a lock around everything  *)
(* that runs the model, and a hot reload that replaces the model under     *)
(* live sessions; with the blocking client (RemoteHTTPClient) that sends a *)
(* request and reads its one or two reply frames, each with a timeout.     *)
(*                                                                         *)
(* Of a rollout state only the model that made it is kept, of a reply      *)
(* frame its type and how many requests were sent since its own.           *)
(***************************************************************************)
EXTENDS Naturals, Sequences

CONSTANTS Clients, Models,
          NoState,      \* a session that was never seeded, or was invalidated
          Reloader,       \* the holder of the lock that is no client: the reload
          Hasty,          \* bound: the clients that may give up a read
          MaxUnread     \* bound: replies a client may leave unread

ASSUME WorldModelAssumption ==
  /\ NoState \notin Models /\ Reloader \notin Clients
  /\ MaxUnread \in Nat \ {0}

VARIABLES
  model,      \* WorldModelServer.model
  state,      \* Session.state of each client's session
  handler,    \* where session_ws stands for each client
  grabbed,    \* the model an auto-seed has read and not yet stored from
  lock,       \* torch_lock: its holder first, then who waits, in order
  reload,     \* where reload() stands
  left,       \* the sessions it has still to invalidate
  overlap,    \* history: a session was opened while a reload was under way
  inbox,      \* replies the client has not read
  client,     \* where each client stands
  told,       \* the age of the telemetry a step has read, until it has its image
  behind      \* history: the client gave up a read on this connection

sessionVars == <<model, state, handler, grabbed, lock, reload, left, overlap>>
connVars == <<client, told, behind>>
worldVars == <<sessionVars, inbox, connVars>>

Open(c) == handler[c] # "none"

ReplyFrames == [type : {"ready", "text", "jpeg", "error"}, late : Nat]

InboxOK ==
  /\ inbox \in [Clients -> Seq(ReplyFrames)]
  /\ \A c \in Clients : Len(inbox[c]) <= MaxUnread + 2

LockOK ==
  /\ lock \in Seq(Clients \cup {Reloader})
  /\ \A i, j \in 1 .. Len(lock) : lock[i] = lock[j] => i = j

WorldTypeOK ==
  /\ model \in Models
  /\ state \in [Clients -> Models \cup {NoState}]
  /\ grabbed \in [Clients -> Models \cup {NoState}]
  /\ handler \in [Clients -> {"none", "accepted", "reading", "storing", "idle",
                              "step", "image", "seed"}]
  /\ reload \in {"idle", "loading", "listing", "invalidating"}
  /\ left \subseteq Clients /\ overlap \in BOOLEAN
  /\ client \in [Clients -> {"away", "connecting", "idle", "seed", "text", "jpeg"}]
  /\ told \in [Clients -> Nat] /\ behind \in [Clients -> BOOLEAN]
  /\ InboxOK /\ LockOK

WorldInit ==
  /\ model \in Models
  /\ state = [c \in Clients |-> NoState] /\ grabbed = state
  /\ handler = [c \in Clients |-> "none"]
  /\ lock = <<>> /\ reload = "idle" /\ left = {} /\ overlap = FALSE
  /\ inbox = [c \in Clients |-> <<>>]
  /\ client = [c \in Clients |-> "away"] /\ told = [c \in Clients |-> 0]
  /\ behind = [c \in Clients |-> FALSE]

Holds(p) == lock # <<>> /\ Head(lock) = p
Frame(t) == [type |-> t, late |-> 0]
Older(f) == [f EXCEPT !.late = @ + 1]
Sent(c, t) == inbox' = [inbox EXCEPT ![c] = Append(@, Frame(t))]

-----------------------------------------------------------------------------
(* A session on the server.                                                *)

Accept(c) ==
  /\ client[c] = "connecting" /\ handler[c] = "none"
  /\ handler' = [handler EXCEPT ![c] = "accepted"]
  /\ state' = [state EXCEPT ![c] = NoState]
  /\ overlap' = (overlap \/ reload # "idle")
  /\ UNCHANGED <<model, grabbed, lock, reload, left, inbox, connVars>>

(* The automatic seed runs in a thread and does not take the lock: the      *)
(* model is read, the state made from it is stored later. It may also fail, *)
(* which leaves the session without a state.                                *)
SeedReads(c) ==
  /\ handler[c] = "accepted"
  /\ \/ grabbed' = [grabbed EXCEPT ![c] = model] /\ handler' = [handler EXCEPT ![c] = "storing"]
     \/ handler' = [handler EXCEPT ![c] = "reading"] /\ UNCHANGED grabbed
  /\ UNCHANGED <<model, state, lock, reload, left, overlap, inbox, connVars>>

SeedStores(c) ==
  /\ handler[c] \in {"storing", "reading"}
  /\ state' = [state EXCEPT ![c] = IF handler[c] = "storing" THEN grabbed[c] ELSE @]
  /\ grabbed' = [grabbed EXCEPT ![c] = NoState]
  /\ handler' = [handler EXCEPT ![c] = "idle"]
  /\ overlap' = (overlap \/ reload # "idle")
  /\ Sent(c, "ready")
  /\ UNCHANGED <<model, lock, reload, left, connVars>>

(* Fault: the image is sent before the telemetry. *)
ImageFirst == <<"jpeg", "text">>

(* The two frames of a reply to an action, in the order they are sent.       *)
ActionReply == <<"text", "jpeg">>

(* A step replies with telemetry and an image, or with an error, always so  *)
(* when the session has no state. Both are sent without the lock, each in an *)
(* await of its own.                                                        *)
Step(c) ==
  /\ handler[c] = "step" /\ Holds(c)
  /\ \/ state[c] # NoState /\ Sent(c, ActionReply[1]) /\ handler' = [handler EXCEPT ![c] = "image"]
     \/ Sent(c, "error") /\ handler' = [handler EXCEPT ![c] = "idle"]
  /\ lock' = Tail(lock)
  /\ UNCHANGED <<model, state, grabbed, reload, left, overlap, connVars>>

SendImage(c) ==
  /\ handler[c] = "image" /\ handler' = [handler EXCEPT ![c] = "idle"]
  /\ Sent(c, ActionReply[2])
  /\ UNCHANGED <<model, state, grabbed, lock, reload, left, overlap, connVars>>

(* Fault: an error returns before the lock is released. *)
SeedFailsHolding(c) ==
  /\ handler[c] = "seed" /\ Holds(c)
  /\ \/ state' = [state EXCEPT ![c] = model] /\ Sent(c, "text") /\ lock' = Tail(lock)
     \/ Sent(c, "error") /\ UNCHANGED <<state, lock>>
  /\ handler' = [handler EXCEPT ![c] = "idle"]
  /\ UNCHANGED <<model, grabbed, reload, left, overlap, connVars>>

(* MODE_INIT and reseed make a state with the model of the moment.          *)
Seed(c) ==
  /\ handler[c] = "seed" /\ Holds(c)
  /\ \/ state' = [state EXCEPT ![c] = model] /\ Sent(c, "text")
     \/ UNCHANGED state /\ Sent(c, "error")
  /\ lock' = Tail(lock)
  /\ handler' = [handler EXCEPT ![c] = "idle"]
  /\ UNCHANGED <<model, grabbed, reload, left, overlap, connVars>>

Session(c) == SeedReads(c) \/ SeedStores(c) \/ Step(c) \/ SendImage(c) \/ Seed(c)

-----------------------------------------------------------------------------
(* POST /v1/reload.                                                        *)

ReloadAsked ==
  /\ reload = "idle" /\ reload' = "loading"
  /\ lock' = Append(lock, Reloader)
  /\ overlap' = (overlap \/ \E c \in Clients : handler[c] \in {"accepted", "reading", "storing"})
  /\ UNCHANGED <<model, state, handler, grabbed, left, inbox, connVars>>

(* The new model is in place before any session is invalidated. A          *)
(* checkpoint that does not load changes nothing.                          *)
ReloadLoads ==
  /\ reload = "loading" /\ Holds(Reloader)
  /\ \/ model' \in Models /\ reload' = "listing" /\ UNCHANGED lock
     \/ UNCHANGED model /\ reload' = "idle" /\ lock' = Tail(lock)
  /\ UNCHANGED <<state, handler, grabbed, left, overlap, inbox, connVars>>

(* list(self._sessions): a session that joins the set while it is walked    *)
(* raises, and nothing is invalidated.                                      *)
ReloadLists ==
  /\ reload = "listing"
  /\ \/ left' = {c \in Clients : Open(c)} /\ reload' = "invalidating" /\ UNCHANGED lock
     \/ overlap /\ left' = {} /\ reload' = "idle" /\ lock' = Tail(lock)
  /\ UNCHANGED <<model, state, handler, grabbed, overlap, inbox, connVars>>

(* Fault: the first session only. *)
ReloadInvalidatesOne ==
  /\ reload = "invalidating"
  /\ \/ \E c \in left : state' = [state EXCEPT ![c] = NoState]
     \/ left = {} /\ UNCHANGED state
  /\ left' = {} /\ reload' = "idle" /\ lock' = Tail(lock)
  /\ UNCHANGED <<model, handler, grabbed, overlap, inbox, connVars>>

ReloadInvalidates ==
  /\ reload = "invalidating"
  /\ IF left = {}
     THEN reload' = "idle" /\ lock' = Tail(lock) /\ UNCHANGED <<left, state>>
     ELSE \E c \in left :
            /\ state' = [state EXCEPT ![c] = NoState] /\ left' = left \ {c}
            /\ UNCHANGED <<reload, lock>>
  /\ UNCHANGED <<model, handler, grabbed, overlap, inbox, connVars>>

Reloads == ReloadLoads \/ ReloadLists \/ ReloadInvalidates

-----------------------------------------------------------------------------
(* RemoteHTTPClient.                                                       *)

(* The first operation opens the socket and drains the ready frame.         *)
Connect(c) ==
  /\ client[c] = "away" /\ handler[c] = "none"
  /\ client' = [client EXCEPT ![c] = "connecting"]
  /\ UNCHANGED <<sessionVars, inbox, told, behind>>

Connected(c) ==
  /\ client[c] = "connecting" /\ inbox[c] # <<>>
  /\ client' = [client EXCEPT ![c] = "idle"]
  /\ inbox' = [inbox EXCEPT ![c] = Tail(@)]
  /\ UNCHANGED <<sessionVars, told, behind>>

(* The server takes a request up when it is done with the one before; what  *)
(* is unread then answers an earlier one.                                   *)
Ask(c, op) ==
  /\ client[c] = "idle" /\ handler[c] = "idle" /\ Len(inbox[c]) <= MaxUnread
  /\ client' = [client EXCEPT ![c] = IF op = "step" THEN "text" ELSE "seed"]
  /\ handler' = [handler EXCEPT ![c] = op]
  /\ lock' = Append(lock, c)
  /\ inbox' = [inbox EXCEPT ![c] = [i \in DOMAIN @ |-> Older(@[i])]]
  /\ UNCHANGED <<model, state, grabbed, reload, left, overlap, told, behind>>

(* A step reads its telemetry, ...                                          *)
ReadTelemetry(c) ==
  /\ client[c] = "text" /\ inbox[c] # <<>> /\ Head(inbox[c]).type = "text"
  /\ client' = [client EXCEPT ![c] = "jpeg"]
  /\ told' = [told EXCEPT ![c] = Head(inbox[c]).late]
  /\ inbox' = [inbox EXCEPT ![c] = Tail(@)]
  /\ UNCHANGED <<sessionVars, behind>>

(* ... then its image. Any other frame raises, as an error does, and a seed  *)
(* has one frame to read: the call is over and the connection is kept.       *)
Read(c) ==
  /\ client[c] \in {"seed", "text", "jpeg"} /\ inbox[c] # <<>>
  /\ client[c] = "text" => Head(inbox[c]).type # "text"
  /\ client' = [client EXCEPT ![c] = "idle"]
  /\ told' = [told EXCEPT ![c] = 0]
  /\ inbox' = [inbox EXCEPT ![c] = Tail(@)]
  /\ UNCHANGED <<sessionVars, behind>>

(* recv times out: the exception goes to the caller, the reply will stay    *)
(* in the socket.                                                          *)
GiveUp(c) ==
  /\ c \in Hasty
  /\ client[c] \in {"seed", "text", "jpeg"} /\ inbox[c] = <<>>
  /\ client' = [client EXCEPT ![c] = "idle"]
  /\ told' = [told EXCEPT ![c] = 0]
  /\ behind' = [behind EXCEPT ![c] = TRUE]
  /\ UNCHANGED <<sessionVars, inbox>>

(* close(), also after the client's own reload: the next operation opens    *)
(* another session. The server notices when it is done with the request.    *)
Close(c) ==
  /\ client[c] = "idle"
  /\ client' = [client EXCEPT ![c] = "away"]
  /\ inbox' = [inbox EXCEPT ![c] = <<>>] /\ behind' = [behind EXCEPT ![c] = FALSE]
  /\ UNCHANGED <<sessionVars, told>>

Disconnected(c) ==
  /\ client[c] = "away" /\ handler[c] = "idle"
  /\ handler' = [handler EXCEPT ![c] = "none"]
  /\ state' = [state EXCEPT ![c] = NoState]
  /\ left' = left \ {c} /\ inbox' = [inbox EXCEPT ![c] = <<>>]
  /\ UNCHANGED <<model, grabbed, lock, reload, overlap, connVars>>

WorldNext ==
  \/ \E c \in Clients :
       \/ Accept(c) \/ Session(c) \/ Disconnected(c)
       \/ Connect(c) \/ Connected(c) \/ ReadTelemetry(c) \/ Read(c) \/ GiveUp(c) \/ Close(c)
       \/ \E op \in {"step", "seed"} : Ask(c, op)
  \/ ReloadAsked \/ Reloads

WorldSpec == WorldInit /\ [][WorldNext]_worldVars

(* The server's threads run; clients and operators owe nothing.             *)
WorldFairSpec ==
  /\ WorldSpec
  /\ WF_worldVars(Reloads)
  /\ \A c \in Clients : WF_worldVars(Session(c)) /\ WF_worldVars(Accept(c))

-----------------------------------------------------------------------------
(* Properties.                                                             *)

(* A step never runs a model on the rollout state another model made,       *)
(* unless a session was being opened while a reload was under way.          *)
StepsOnItsModel ==
  \A c \in Clients :
    handler[c] = "step" /\ Holds(c) /\ ~overlap => state[c] \in {model, NoState}

(* A step never returns the telemetry of one request with the image of      *)
(* another, whatever reads its client gave up before and however late the   *)
(* answers came: an image it would accept answers the request that the      *)
(* telemetry it has read answers (http.py: the order lets a naive client     *)
(* read without any framing logic). And as long as no read was given up on   *)
(* a connection, all that is unread on it answers the request sent last.     *)
AnswersInStep ==
  \A c \in Clients :
    /\ client[c] = "jpeg" /\ inbox[c] # <<>> /\ Head(inbox[c]).type = "jpeg" =>
         Head(inbox[c]).late = told[c]
    /\ ~behind[c] => \A i \in DOMAIN inbox[c] : inbox[c][i].late = 0

(* Every request that waits for the device gets its turn, reloads included, *)
(* whatever the other clients do.                                           *)
EveryRequestIsServed ==
  /\ \A c \in Clients : handler[c] \in {"step", "image", "seed"} ~> handler[c] = "idle"
  /\ reload # "idle" ~> reload = "idle"
=============================================================================
