--------------------------- MODULE Servers_proofs ---------------------------
(***************************************************************************)
(* Proofs about the two servers that run a network on request.             *)
(*                                                                         *)
(* The policy server in a session of the autopilot (Serving and Policy     *)
(* beneath it), for any policies, any sequence lengths and every kind of   *)
(* client: WireInv ties the one message on the wire to the socket and the  *)
(* thread, EpisodeInv the recording's writer to the shutdown.              *)
(*                                                                         *)
(* The world-model server (WorldModel), for any number of clients and      *)
(* models: LineInv says who stands in line for the device, StateInv which  *)
(* model made the rollout states around a reload, ClientInv what a         *)
(* connection can hold.                                                    *)
(***************************************************************************)
EXTENDS Serving, WorldModel, SequenceTheorems, TLAPS

\* An action comes from a window of the length its policy was trained on.
Fits(a) == a.from = SeqLen[a.by]

\* A socket that may send has nothing on the wire, one that waits has only what
\* it waits for; the server's window has the length of its policy.
WireInv ==
  /\ sock = "idle" => wire = <<>>
  /\ ai = "receive" => sock = "awaiting" /\ \A i \in 1..Len(wire) : wire[i].pending
  /\ window.max = SeqLen[policy]
  /\ cache # NoAction => Fits(cache)
  /\ \A i \in 1..Len(wire) : wire[i].type = "action" => Fits(wire[i].action)

\* A closed writer that stays is the trace of a failure; the page is silent by
\* the time the recorder is closed.
EpisodeInv ==
  /\ EpisodeClosed
  /\ writer = "closed" => failed
  /\ acting \in {"recorder", "gone"} => ~page

-----------------------------------------------------------------------------
(* Types                                                                   *)

Messages == Requests \cup Replies

LEMMA SeqLenType ==
  ASSUME NEW p \in Policies
  PROVE  SeqLen[p] \in Nat \ {0} /\ SeqLen[p] \in Lens
BY PolicyAssumption DEF Lens

\* At most one message: what a step puts there replaces what was there.
LEMMA OneMessage ==
  ASSUME NEW m \in Messages
  PROVE  <<m>> \in Seq(Messages) /\ Len(<<m>>) = 1 /\ <<m>>[1] = m
OBVIOUS

LEMMA WireHead ==
  ASSUME PolicyTypeOK, wire # <<>>
  PROVE  Len(wire) = 1 /\ Head(wire) = wire[1] /\ Head(wire) \in Messages /\ Tail(wire) = <<>>
<1>1. wire \in Seq(Messages) /\ Len(wire) <= 1
  BY DEF PolicyTypeOK, Messages
<1>2. PICK n \in Nat : n = Len(wire) /\ n # 0
  BY <1>1, EmptySeq
<1>3. n = 1
  BY <1>1, <1>2
<1>4. Head(wire) \in Messages /\ Tail(wire) \in Seq(Messages) /\ Len(Tail(wire)) = 0
  <2>1. wire # <<>> /\ wire \in Seq(Messages)
    BY <1>1
  <2>2. Head(wire) \in Messages /\ Tail(wire) \in Seq(Messages) /\ Len(Tail(wire)) = Len(wire) - 1
    BY <2>1, HeadTailProperties
  <2> QED BY <1>2, <1>3, <2>2
<1>5. Tail(wire) = <<>>
  BY <1>4, EmptySeq
<1> QED BY <1>1, <1>2, <1>3, <1>4, <1>5

\* What the server makes of a window.
LEMMA PredictType ==
  ASSUME PolicyTypeOK, NEW n \in Nat
  PROVE  /\ Predict(n) \in Replies
         /\ Predict(n).type = "action" => Fits(Predict(n).action)
         /\ Predict(n).action # NoAction => Fits(Predict(n).action)
<1>1. policy \in Policies /\ SeqLen[policy] \in Lens
  BY SeqLenType DEF PolicyTypeOK
<1>2. CASE n = SeqLen[policy]
  BY <1>1, <1>2 DEF Predict, Reply, Replies, Actions, Fits
<1>3. CASE n # SeqLen[policy]
  BY <1>3 DEF Predict, Reply, Replies, Fits
<1> QED BY <1>2, <1>3

LEMMA JoinedType ==
  ASSUME PolicyTypeOK
  PROVE  WithFrame \in [held : Nat, max : Lens] /\ WithFrame.max = window.max /\ WithFrame.held <= window.max
<1>1. window \in [held : Nat, max : Lens] /\ window.max \in Nat /\ window.held <= window.max
  BY PolicyAssumption DEF PolicyTypeOK, Lens
<1>2. WithFrame = [held |-> IF window.held < window.max THEN window.held + 1 ELSE window.held,
                max |-> window.max]
  BY <1>1 DEF WithFrame
<1> QED BY <1>1, <1>2

LEMMA PredictFrameType ==
  ASSUME PolicyTypeOK, window.max = SeqLen[policy]
  PROVE  /\ PredictFrame \in Replies
         /\ PredictFrame.type = "action" => Fits(PredictFrame.action)
<1>1. policy \in Policies /\ SeqLen[policy] \in Lens /\ SeqLen[policy] \in Nat
  BY SeqLenType DEF PolicyTypeOK
<1>2. CASE WithFrame.held < SeqLen[policy]
  BY <1>2 DEF PredictFrame, Reply, Replies
<1>3. CASE ~(WithFrame.held < SeqLen[policy])
  <2>1. WithFrame.held = SeqLen[policy]
    BY <1>1, <1>3, JoinedType
  <2> QED BY <1>1, <1>3, <2>1 DEF PredictFrame, Reply, Replies, Actions, Fits
<1> QED BY <1>2, <1>3

\* The message a step leaves on the wire.
LEMMA AnswerStep ==
  ASSUME PolicyTypeOK, WireInv, Answer
  PROVE  \E m \in Replies :
           /\ wire' = <<m>> /\ wire # <<>> /\ wire[1].type = "request"
           /\ m.pending = wire[1].pending /\ (m.type = "action" => Fits(m.action))
<1> DEFINE r == Head(wire)
           answer == IF kind = "frames" THEN PredictFrame ELSE Predict(r.length)
           m == [answer EXCEPT !.pending = r.pending]
<1>1. wire # <<>> /\ r.type = "request" /\ wire' = <<m>> \o Tail(wire)
  BY DEF Answer
<1>2. r = wire[1] /\ r \in Messages /\ Tail(wire) = <<>>
  BY <1>1, WireHead
<1>3. r \in Requests /\ r.pending \in BOOLEAN /\ r.length \in Nat
  BY <1>1, <1>2 DEF Messages, Requests, Replies
<1>4. answer \in Replies /\ (answer.type = "action" => Fits(answer.action))
  BY <1>3, PredictType, PredictFrameType DEF WireInv
<1> HIDE DEF answer, r
<1>5. m \in Replies /\ m.pending = r.pending /\ m.type = answer.type /\ m.action = answer.action
  BY <1>3, <1>4 DEF Replies
<1> HIDE DEF m
<1>6. wire' = <<m>>
  <2>1. <<m>> \in Seq(Messages)
    BY <1>5, OneMessage DEF Messages
  <2> QED BY <1>1, <1>2, <2>1, ConcatEmptySeq
<1> QED BY <1>1, <1>2, <1>4, <1>5, <1>6 DEF r

LEMMA SendStep ==
  ASSUME PolicyTypeOK, WireInv, Send
  PROVE  \E m \in Requests : wire' = <<m>> /\ m.pending = TRUE
<1> DEFINE old == [i \in DOMAIN wire |-> [wire[i] EXCEPT !.pending = FALSE]]
           m == Request(have)
<1>1. wire = <<>> /\ wire' = old \o <<m>>
  BY DEF Send, WireInv
<1>2. old = <<>>
  <2>1. DOMAIN wire = 1..0
    BY <1>1
  <2>2. old \in [1..0 -> Messages]
    BY <2>1
  <2>3. old \in Seq(Messages)
    BY <2>2, SeqDef
  <2>4. Len(old) = 0
    BY <2>2, <2>3, LenProperties
  <2> QED BY <2>3, <2>4, EmptySeq
<1>3. m \in Requests /\ m.pending = TRUE
  <2>1. have \in Nat
    BY SeqLenType DEF PolicyTypeOK, Known
  <2> QED BY <2>1 DEF Request, Requests
<1> HIDE DEF old, m
<1>4. wire' = <<m>>
  <2>1. <<m>> \in Seq(Messages)
    BY <1>3, OneMessage DEF Messages
  <2> QED BY <1>1, <1>2, <2>1, ConcatEmptySeq
<1> QED BY <1>3, <1>4

LEMMA PolicyStep ==
  ASSUME PolicyTypeOK, WireInv,
         Server \/ Inference \/ Timeout \/ Reload \/ ServerDies \/ ServerRestarts \/ NewFrame
  PROVE  PolicyTypeOK' /\ WireInv'
<1> USE DEF PolicyTypeOK, WireInv, clientVars, serverVars
<1>0. Known \in Nat \ {0} /\ have \in Nat /\ window.max \in Nat
  BY PolicyAssumption, SeqLenType DEF Known, Lens
<1>1. CASE Answer
  <2>1. UNCHANGED <<up, policy, first, clientVars>> /\ window' \in {window, WithFrame}
    BY <1>1 DEF Answer
  <2>2. window' \in [held : Nat, max : Lens] /\ window'.held <= window'.max
        /\ window'.max = window.max
    BY <2>1, JoinedType
  <2>3. PICK m \in Replies :
          /\ wire' = <<m>> /\ wire # <<>> /\ wire[1].type = "request"
          /\ m.pending = wire[1].pending /\ (m.type = "action" => Fits(m.action))
    BY <1>1, AnswerStep
  <2>4. /\ wire' \in Seq(Requests \cup Replies) /\ Len(wire') = 1 /\ wire'[1] = m
        /\ 1 \in 1..Len(wire)
    BY <2>3, OneMessage, WireHead DEF Messages
  <2>5. \A i \in 1..Len(wire') : i = 1
    BY <2>4
  <2>6. PolicyTypeOK'
    BY <2>1, <2>2, <2>4 DEF Known
  <2>7. sock' = "idle" => wire' = <<>>
    BY <2>1, <2>3
  <2>8. WireInv'
    BY <2>1, <2>2, <2>3, <2>4, <2>5, <2>7
  <2> QED BY <2>6, <2>8
<1>2. CASE Reload \/ ServerRestarts
  <2>1. UNCHANGED <<first, wire, clientVars>> /\ policy' \in Policies /\ up' \in BOOLEAN
        /\ window' = [held |-> 0, max |-> SeqLen[policy']]
    BY <1>2 DEF Reload, ServerRestarts
  <2> QED BY <2>1, SeqLenType DEF Known
<1>3. CASE ServerDies
  <2>1. UNCHANGED <<policy, window, first, clientVars>> /\ up' \in BOOLEAN
        /\ wire' \in {wire, <<>>}
    BY <1>3 DEF ServerDies
  <2>2. wire' \in Seq(Requests \cup Replies) /\ Len(wire') <= 1
        /\ (wire' = wire \/ 1..Len(wire') = {})
    <3>1. CASE wire' = wire
      BY <3>1
    <3>2. CASE wire' = <<>>
      BY <3>2
    <3> QED BY <2>1, <3>1, <3>2
  <2> QED BY <2>1, <2>2 DEF Known
<1>4. CASE NewFrame \/ SendRefused \/ InferenceEnds \/ Timeout
  <2>1. UNCHANGED <<up, policy, window, first, wire, kind, have, cache, aiStop>>
        /\ ai' \in {"look", "ended", ai} /\ sock' \in {sock, "stuck"} /\ seen' \in BOOLEAN
        /\ (ai' = "receive" => ai = "receive" /\ sock' = sock)
        /\ (sock' = "idle" => sock = "idle")
    <3>1. CASE NewFrame
      BY <1>4, <3>1 DEF NewFrame
    <3>2. CASE SendRefused
      BY <1>4, <3>2 DEF SendRefused
    <3>3. CASE InferenceEnds
      BY <1>4, <3>3 DEF InferenceEnds
    <3>4. CASE Timeout
      BY <1>4, <3>4 DEF Timeout
    <3> QED BY <1>4, <3>1, <3>2, <3>3, <3>4
  <2>2. PolicyTypeOK'
    BY <2>1 DEF Known
  <2>3. WireInv'
    BY <2>1
  <2> QED BY <2>2, <2>3
<1>5. CASE Look
  <2>1. UNCHANGED <<serverVars, wire, kind, sock, cache, aiStop>>
        /\ seen' \in BOOLEAN /\ ai' \in {"send", "look"} /\ have' \in {have, have + 1}
        /\ (have' = have + 1 => have # Known)
    <3>1. /\ UNCHANGED <<serverVars, wire, kind, sock, cache, aiStop>>
          /\ seen' = FALSE
          /\ have' = IF kind = "frames" \/ have = Known THEN have ELSE have + 1
          /\ ai' = IF kind = "frames" \/ have' = Known THEN "send" ELSE "look"
      BY <1>5 DEF Look
    <3>2. ai' \in {"send", "look"} /\ seen' \in BOOLEAN
      BY <3>1
    <3>3. have' \in {have, have + 1} /\ (have' = have + 1 => have # Known)
      <4>1. CASE kind = "frames" \/ have = Known
        BY <1>0, <3>1, <4>1
      <4>2. CASE ~(kind = "frames" \/ have = Known)
        BY <1>0, <3>1, <4>2
      <4> QED BY <4>1, <4>2
    <3> QED BY <3>1, <3>2, <3>3
  <2>2. have' \in 0 .. Known
    BY <1>0, <2>1
  <2>3. PolicyTypeOK'
    BY <2>1, <2>2 DEF Known
  <2>4. WireInv'
    BY <2>1
  <2> QED BY <2>3, <2>4
<1>6. CASE InProcess
  <2>1. UNCHANGED <<serverVars, wire, kind, sock, seen, have, aiStop>>
        /\ ai' = "look" /\ cache' = Predict(have).action
    BY <1>6 DEF InProcess
  <2>2. cache' \in Actions \cup {NoAction} /\ (cache' # NoAction => Fits(cache'))
    BY <1>0, <2>1, PredictType DEF Replies
  <2> QED BY <2>1, <2>2 DEF Known
<1>7. CASE Send
  <2>1. UNCHANGED <<serverVars, kind, seen, have, cache, aiStop>>
        /\ sock' = "awaiting" /\ ai' = "receive"
    BY <1>7 DEF Send
  <2>2. PICK m \in Requests : wire' = <<m>> /\ m.pending = TRUE
    BY <1>7, SendStep
  <2>3. wire' \in Seq(Requests \cup Replies) /\ Len(wire') = 1 /\ wire'[1] = m
    BY <2>2, OneMessage DEF Messages
  <2>4. m.type # "action" /\ \A i \in 1..Len(wire') : i = 1
    BY <2>3 DEF Requests
  <2> QED BY <2>1, <2>2, <2>3, <2>4 DEF Known
<1>8. CASE Receive
  <2>1. UNCHANGED <<serverVars, kind, seen, have, aiStop>> /\ wire # <<>>
        /\ wire' = Tail(wire) /\ sock' = "idle" /\ ai' = "look"
        /\ cache' = IF Head(wire).type = "action" THEN Head(wire).action ELSE cache
    BY <1>8 DEF Receive, Answered
  <2>2. Len(wire) = 1 /\ Head(wire) = wire[1] /\ Head(wire) \in Messages /\ wire' = <<>>
    BY <2>1, WireHead
  <2>3. cache' \in Actions \cup {NoAction} /\ (cache' # NoAction => Fits(cache'))
    BY <2>1, <2>2 DEF Messages, Requests, Replies
  <2>4. wire' \in Seq(Requests \cup Replies) /\ Len(wire') <= 1 /\ 1..Len(wire') = {}
    BY <2>2, EmptySeq
  <2> QED BY <2>1, <2>2, <2>3, <2>4 DEF Known
<1> QED BY <1>1, <1>2, <1>3, <1>4, <1>5, <1>6, <1>7, <1>8 DEF Server, Inference

-----------------------------------------------------------------------------
(* The session around the policy                                            *)

RecTypeOK ==
  /\ input \in Inputs
  /\ acting \in {"tick", "append", "ai", "page", "recorder", "gone"}
  /\ writer \in {"none", "open", "closed"}
  /\ page \in BOOLEAN /\ stopReq \in BOOLEAN /\ failed \in BOOLEAN

LEMMA TypeParts == ServingTypeOK <=> PolicyTypeOK /\ RecTypeOK
BY DEF ServingTypeOK, RecTypeOK

LEMMA InitHolds ==
  ASSUME ServingInit
  PROVE  ServingTypeOK /\ WireInv /\ EpisodeInv
<1> USE DEF ServingInit, PolicyInit
<1>1. SeqLen[first] \in Nat \ {0} /\ SeqLen[first] \in Lens
  BY SeqLenType
<1>2. wire \in Seq(Requests \cup Replies) /\ Len(wire) = 0
  BY EmptySeq
<1>3. PolicyTypeOK
  <2>1. 0 \in 0 .. Known /\ 0 <= SeqLen[first]
    BY <1>1 DEF Known
  <2>2. window \in [held : Nat, max : Lens] /\ window.held <= window.max
    BY <1>1, <2>1
  <2>3. have \in 0 .. Known /\ Len(wire) <= 1
    BY <1>2, <2>1
  <2> QED BY <1>2, <2>2, <2>3 DEF PolicyTypeOK
<1>4. RecTypeOK
  BY DEF RecTypeOK
<1>5. WireInv
  BY <1>2 DEF WireInv
<1>6. EpisodeInv
  BY DEF EpisodeInv, EpisodeClosed
<1> QED BY <1>3, <1>4, <1>5, <1>6, TypeParts

\* The session's own steps leave the policy alone, but for the event that tells
\* its thread to stop.
LEMMA SessionStep ==
  ASSUME ServingTypeOK, WireInv, Loop \/ StartRecording \/ StopRecording \/ StopRequested
  PROVE  PolicyTypeOK' /\ WireInv'
<1>1. UNCHANGED <<kind, up, policy, window, first, wire, sock, ai, seen, have, cache>>
      /\ aiStop' \in {aiStop, TRUE}
  BY DEF Loop, Tick, AppendFrame, LoopStops, StopAi, StopPage, CloseRecorder,
         StartRecording, StopRecording, StopRequested, policyVars, serverVars
<1>2. PolicyTypeOK'
  BY <1>1, TypeParts DEF PolicyTypeOK, Known
<1>3. WireInv'
  BY <1>1 DEF WireInv
<1> QED BY <1>2, <1>3

\* stop(): the writer is let go of, or was open and is left closed by a failure.
LEMMA StopStep ==
  ASSUME RecTypeOK, EpisodeInv, StopRecorder
  PROVE  /\ writer' \in {"none", "closed"}
         /\ writer' = "closed" => failed'
         /\ failed => failed'
         /\ failed' \in BOOLEAN
BY DEF StopRecorder, RecTypeOK, EpisodeInv

LEMMA RecStep ==
  ASSUME RecTypeOK, EpisodeInv, Loop \/ StartRecording \/ StopRecording \/ StopRequested
  PROVE  RecTypeOK' /\ EpisodeInv'
<1> USE DEF RecTypeOK, EpisodeInv, EpisodeClosed
<1>1. CASE StartRecording
  BY <1>1 DEF StartRecording
<1>2. CASE StopRecording
  <2>1. page /\ StopRecorder /\ UNCHANGED <<input, acting, page, stopReq>>
    BY <1>2 DEF StopRecording
  <2> QED BY <2>1, StopStep
<1>3. CASE StopRequested
  BY <1>3 DEF StopRequested
<1>4. CASE Tick
  BY <1>4 DEF Tick
<1>5. CASE AppendFrame
  BY <1>5 DEF AppendFrame
<1>6. CASE LoopStops
  BY <1>6 DEF LoopStops
<1>7. CASE StopAi
  BY <1>7 DEF StopAi
<1>8. CASE StopPage
  BY <1>8 DEF StopPage
<1>9. CASE CloseRecorder
  <2>1. /\ acting = "recorder" /\ acting' = "gone" /\ UNCHANGED <<input, page, stopReq>>
        /\ StopRecorder \/ (writer = "none" /\ UNCHANGED <<writer, failed>>)
    BY <1>9 DEF CloseRecorder
  <2>2. CASE StopRecorder
    BY <2>1, <2>2, StopStep
  <2>3. CASE writer = "none" /\ UNCHANGED <<writer, failed>>
    BY <2>1, <2>3
  <2> QED BY <2>1, <2>2, <2>3
<1> QED BY <1>1, <1>2, <1>3, <1>4, <1>5, <1>6, <1>7, <1>8, <1>9 DEF Loop

LEMMA NextKeeps ==
  ASSUME ServingTypeOK, WireInv, EpisodeInv, [ServingNext]_servingVars
  PROVE  ServingTypeOK' /\ WireInv' /\ EpisodeInv'
<1>1. PolicyTypeOK /\ RecTypeOK
  BY TypeParts
<1>2. PolicyTypeOK' /\ RecTypeOK' => ServingTypeOK'
  BY DEF ServingTypeOK, RecTypeOK
<1>3. CASE Loop \/ StartRecording \/ StopRecording \/ StopRequested
  BY <1>1, <1>2, <1>3, SessionStep, RecStep
<1>4. CASE Around
  <2>1. PolicyTypeOK' /\ WireInv'
    BY <1>1, <1>4, PolicyStep DEF Around
  <2>2. UNCHANGED recVars
    BY <1>4 DEF Around
  <2>3. RecTypeOK' /\ EpisodeInv'
    BY <1>1, <2>2 DEF recVars, RecTypeOK, EpisodeInv, EpisodeClosed
  <2> QED BY <1>2, <2>1, <2>3
<1>5. CASE UNCHANGED servingVars
  <2>1. PolicyTypeOK'
    BY <1>1, <1>5 DEF servingVars, policyVars, PolicyTypeOK, Known
  <2>2. WireInv'
    BY <1>5 DEF servingVars, policyVars, WireInv
  <2>3. RecTypeOK' /\ EpisodeInv'
    BY <1>1, <1>5 DEF servingVars, recVars, RecTypeOK, EpisodeInv, EpisodeClosed
  <2> QED BY <1>2, <2>1, <2>2, <2>3
<1> QED BY <1>3, <1>4, <1>5 DEF ServingNext

LEMMA Invariants == ServingSpec => [](ServingTypeOK /\ WireInv /\ EpisodeInv)
BY InitHolds, NextKeeps, PTL DEF ServingSpec

-----------------------------------------------------------------------------
(* Theorems                                                                *)

\* Every variable keeps its type: the wire never holds more than one message, a
\* window never more latents than its length.
THEOREM ServingTypeCorrect == ServingSpec => []ServingTypeOK
BY Invariants, PTL

\* For any policies and lengths, whatever is reloaded, killed, restarted or timed
\* out: the answer the inference thread takes belongs to the request it waits for,
\* and every action comes from a window of the length its policy was trained on.
THEOREM ActionsFitTheirPolicy == ServingSpec => []AnswersFit
<1>1. ServingTypeOK /\ WireInv => AnswersFit
  <2> SUFFICES ASSUME ServingTypeOK, WireInv PROVE AnswersFit
    OBVIOUS
  <2>1. DOMAIN wire = 1..Len(wire)
    BY LenProperties DEF ServingTypeOK, PolicyTypeOK
  <2> QED BY <2>1 DEF WireInv, AnswersFit, Fits
<1> QED BY <1>1, Invariants, PTL

\* However the page starts and stops recordings beside the loop: no episode is left
\* open by a session that is over, and a session ends because it was asked to or
\* because a write or a close really failed.
THEOREM NoEpisodeLeftOpen == ServingSpec => []EpisodeClosed
<1>1. EpisodeInv => EpisodeClosed
  BY DEF EpisodeInv
<1> QED BY <1>1, Invariants, PTL

(***************************************************************************)
(* The world-model server                                                  *)
(***************************************************************************)

InLine(p) == \E i \in 1 .. Len(lock) : lock[i] = p

\* A handler stands in line exactly while it has a request, the reload exactly
\* while it is under way; one that has loaded is at the head.
LineInv ==
  /\ \A c \in Clients : InLine(c) <=> handler[c] \in {"step", "seed"}
  /\ InLine(Reloader) <=> reload # "idle"
  /\ reload \in {"listing", "invalidating"} => Holds(Reloader)
  /\ left # {} => reload = "invalidating"

\* A session whose state the reload has still to look at.
Stale(c) == reload = "listing" \/ c \in left

Seeding(c) == handler[c] \in {"accepted", "reading", "storing"}

\* Unless a session is opened beside a reload: a state is the loaded model's, or
\* is about to be invalidated; no automatic seed runs beside the reload.
StateInv ==
  /\ \A c \in Clients : ~Open(c) => state[c] = NoState
  /\ ~overlap => \A c \in Clients :
       /\ state[c] \in {model, NoState} \/ Stale(c)
       /\ Seeding(c) => reload = "idle"
       /\ handler[c] = "storing" => grabbed[c] = model

\* All that is unread answers the request sent last.
Fresh(c) == \A i \in 1 .. Len(inbox[c]) : inbox[c][i].late = 0

\* Where a client stands that reads all it is sent: the reply to its request is
\* on its way, or it is there in full, or its first half is there or was read.
InStep(c) ==
  /\ Fresh(c)
  /\ client[c] = "connecting" /\ handler[c] = "idle" => Len(inbox[c]) = 1
  /\ client[c] = "idle" => handler[c] = "idle" /\ inbox[c] = <<>>
  /\ client[c] = "seed" =>
       \/ handler[c] = "seed" /\ inbox[c] = <<>>
       \/ handler[c] = "idle" /\ Len(inbox[c]) = 1
  /\ client[c] = "text" =>
       \/ handler[c] = "step" /\ inbox[c] = <<>>
       \/ handler[c] = "image" /\ Len(inbox[c]) = 1 /\ inbox[c][1].type = "text"
       \/ handler[c] = "idle" /\ Len(inbox[c]) = 1 /\ inbox[c][1].type = "error"
       \/ handler[c] = "idle" /\ Len(inbox[c]) = 2 /\ inbox[c][1].type = "text"
  /\ client[c] = "jpeg" =>
       \/ handler[c] = "image" /\ inbox[c] = <<>>
       \/ handler[c] = "idle" /\ Len(inbox[c]) = 1

\* What any connection carries, whatever was given up on it: an image comes
\* right after the telemetry of the same request, which may have been read.
Paired(c) ==
  /\ \A i \in 2 .. Len(inbox[c]) :
       inbox[c][i].type = "jpeg" => inbox[c][i].late = inbox[c][i - 1].late
  /\ client[c] = "jpeg" /\ inbox[c] # <<>> =>
       (inbox[c][1].type = "jpeg" => inbox[c][1].late = told[c])
  /\ handler[c] = "image" /\ inbox[c] # <<>> => inbox[c][Len(inbox[c])].late = 0
  /\ handler[c] = "image" /\ inbox[c] = <<>> => (client[c] = "jpeg" => told[c] = 0)

ClientInv(c) ==
  /\ handler[c] = "none" => client[c] \in {"away", "connecting"} /\ inbox[c] = <<>>
  /\ Seeding(c) => client[c] = "connecting" /\ inbox[c] = <<>>
  /\ handler[c] \in {"step", "seed"} => client[c] # "connecting" /\ Len(inbox[c]) <= MaxUnread
  /\ handler[c] = "image" => client[c] # "connecting" /\ Len(inbox[c]) <= MaxUnread + 1
  /\ client[c] \in {"away", "connecting"} => ~behind[c]
  /\ ~behind[c] => InStep(c)
  /\ Paired(c)

-----------------------------------------------------------------------------
(* The line                                                                *)

Standing == Clients \cup {Reloader}

LEMMA HeadOfLine ==
  ASSUME LockOK, NEW p, Holds(p)
  PROVE  lock # <<>> /\ Len(lock) \in Nat \ {0} /\ lock[1] = p /\ InLine(p)
<1>1. lock # <<>> /\ lock \in Seq(Standing)
  BY DEF Holds, LockOK, Standing
<1>2. Len(lock) \in Nat \ {0}
  BY <1>1, EmptySeq
<1>3. lock[1] = p
  BY <1>1 DEF Holds
<1> QED BY <1>1, <1>2, <1>3 DEF InLine

\* Who is done leaves, and nobody else.
LEMMA Leaves ==
  ASSUME LockOK, NEW q, Holds(q), lock' = Tail(lock)
  PROVE  LockOK' /\ \A p \in Standing : InLine(p)' <=> InLine(p) /\ p # q
<1>1. PICK n \in Nat : n = Len(lock) /\ n # 0
  BY HeadOfLine
<1>2. /\ lock' \in Seq(Standing) /\ Len(lock') = n - 1
      /\ \A i \in 1 .. (n - 1) : lock'[i] = lock[i + 1]
  BY <1>1, HeadOfLine, HeadTailProperties DEF LockOK, Standing
<1>3. \A i, j \in 1 .. n : lock[i] = lock[j] => i = j
  BY <1>1 DEF LockOK
<1>4. \A i, j \in 1 .. (n - 1) : lock'[i] = lock'[j] => i = j
  <2> TAKE i, j \in 1 .. (n - 1)
  <2>1. i + 1 \in 1 .. n /\ j + 1 \in 1 .. n
    OBVIOUS
  <2>2. lock'[i] = lock[i + 1] /\ lock'[j] = lock[j + 1]
    BY <1>2
  <2>3. lock[i + 1] = lock[j + 1] => i + 1 = j + 1
    BY <1>3, <2>1
  <2>4. i + 1 = j + 1 => i = j
    OBVIOUS
  <2> QED BY <2>2, <2>3, <2>4
<1>5. LockOK'
  BY <1>2, <1>4 DEF LockOK, Standing
<1>6. lock[1] = q
  BY HeadOfLine
<1>7. ASSUME NEW p \in Standing PROVE InLine(p)' <=> InLine(p) /\ p # q
  <2>1. ASSUME NEW i \in 1 .. (n - 1), lock'[i] = p PROVE InLine(p) /\ p # q
    <3>1. i + 1 \in 1 .. n /\ 1 \in 1 .. n /\ i + 1 # 1
      OBVIOUS
    <3>2. lock[i + 1] = p
      BY <1>2, <2>1
    <3> QED BY <1>1, <1>3, <1>6, <3>1, <3>2 DEF InLine
  <2>2. ASSUME NEW i \in 1 .. n, lock[i] = p, p # q PROVE \E k \in 1 .. (n - 1) : lock'[k] = p
    <3>1. i # 1
      BY <1>6, <2>2
    <3>2. i - 1 \in 1 .. (n - 1) /\ (i - 1) + 1 = i
      BY <3>1
    <3>3. lock'[i - 1] = p
      BY <1>2, <2>2, <3>2
    <3> QED BY <3>2, <3>3
  <2> QED BY <1>1, <1>2, <2>1, <2>2 DEF InLine
<1> QED BY <1>5, <1>7

\* Who is not in line joins it at the end; the head stays.
LEMMA Joins ==
  ASSUME LockOK, NEW q \in Standing, ~InLine(q), lock' = Append(lock, q)
  PROVE  /\ LockOK'
         /\ \A p \in Standing : InLine(p)' <=> InLine(p) \/ p = q
         /\ \A p \in Standing : Holds(p) => Holds(p)'
<1>1. PICK n \in Nat : n = Len(lock)
  BY LenProperties DEF LockOK
<1>2. /\ lock' \in Seq(Standing) /\ Len(lock') = n + 1 /\ lock'[n + 1] = q
      /\ \A i \in 1 .. n : lock'[i] = lock[i]
  BY <1>1, AppendProperties DEF LockOK, Standing
<1>3. \A i, j \in 1 .. n : lock[i] = lock[j] => i = j
  BY <1>1 DEF LockOK
<1>4. \A i \in 1 .. n : lock[i] # q
  BY <1>1 DEF InLine
<1>5. \A i \in 1 .. (n + 1) : i \in 1 .. n \/ i = n + 1
  OBVIOUS
<1>6. \A i, j \in 1 .. (n + 1) : lock'[i] = lock'[j] => i = j
  BY <1>2, <1>3, <1>4, <1>5
<1>7. LockOK'
  BY <1>2, <1>6 DEF LockOK, Standing
<1>8. ASSUME NEW p \in Standing PROVE InLine(p)' <=> InLine(p) \/ p = q
  <2>1. 1 .. n \subseteq 1 .. (n + 1) /\ n + 1 \in 1 .. (n + 1)
    OBVIOUS
  <2> QED BY <1>1, <1>2, <1>5, <2>1 DEF InLine
<1>9. ASSUME NEW p \in Standing, Holds(p) PROVE Holds(p)'
  <2>1. n # 0 /\ lock[1] = p
    BY <1>1, <1>9, HeadOfLine
  <2>2. lock'[1] = p /\ lock' # <<>>
    BY <1>2, <2>1
  <2> QED BY <2>2 DEF Holds
<1> QED BY <1>7, <1>8, <1>9

\* Steps that leave the line alone.
Elsewhere(c) ==
  Accept(c) \/ SeedReads(c) \/ SeedStores(c) \/ Disconnected(c)
    \/ SendImage(c) \/ Connect(c) \/ Connected(c) \/ ReadTelemetry(c) \/ Read(c)
    \/ GiveUp(c) \/ Close(c)

LEMMA LineStep ==
  ASSUME WorldTypeOK, LineInv, [WorldNext]_worldVars
  PROVE  LockOK' /\ LineInv'
<1>0. LockOK /\ handler \in [Clients -> {"none", "accepted", "reading", "storing", "idle",
                                         "step", "image", "seed"}]
      /\ left \subseteq Clients /\ Reloader \notin Clients
  BY WorldModelAssumption DEF WorldTypeOK
<1>1. ASSUME UNCHANGED <<lock, reload>>, left' \subseteq left,
             \A c \in Clients : handler'[c] \in {"step", "seed"} <=> handler[c] \in {"step", "seed"}
      PROVE  LockOK' /\ LineInv'
  BY <1>0, <1>1 DEF LineInv, LockOK, InLine, Holds
<1>2. ASSUME NEW c \in Clients, Elsewhere(c) PROVE LockOK' /\ LineInv'
  <2>1. UNCHANGED <<lock, reload>> /\ left' \subseteq left
    BY <1>2 DEF Elsewhere, Accept, SeedReads, SeedStores, Disconnected, SendImage, Connect,
       Connected, ReadTelemetry, Read, GiveUp, Close, sessionVars
  <2>2. \/ UNCHANGED handler
        \/ handler[c] \notin {"step", "seed"} /\ \E h \in {"none", "accepted", "reading", "storing", "idle"} :
             handler' = [handler EXCEPT ![c] = h]
    BY <1>2 DEF Elsewhere, Accept, SeedReads, SeedStores, Disconnected, SendImage, Connect,
       Connected, ReadTelemetry, Read, GiveUp, Close, sessionVars
  <2>3. \A d \in Clients : handler'[d] \in {"step", "seed"} <=> handler[d] \in {"step", "seed"}
    BY <1>0, <2>2
  <2> QED BY <1>1, <2>1, <2>3
<1>3. ASSUME NEW c \in Clients, Step(c) \/ Seed(c) PROVE LockOK' /\ LineInv'
  <2>1. /\ handler[c] \in {"step", "seed"} /\ Holds(c) /\ lock' = Tail(lock)
        /\ \E h \in {"idle", "image"} : handler' = [handler EXCEPT ![c] = h]
        /\ UNCHANGED <<reload, left>>
    BY <1>3 DEF Step, Seed
  <2>2. LockOK' /\ \A p \in Standing : InLine(p)' <=> InLine(p) /\ p # c
    BY <1>0, <2>1, Leaves
  <2>3. ~Holds(Reloader)
    BY <1>0, <2>1 DEF Holds
  <2>4. \A d \in Clients : handler'[d] \in {"step", "seed"} <=> handler[d] \in {"step", "seed"} /\ d # c
    BY <1>0, <2>1
  <2> QED BY <1>0, <2>1, <2>2, <2>3, <2>4 DEF LineInv, Standing
<1>4. ASSUME NEW c \in Clients, NEW op \in {"step", "seed"}, Ask(c, op) PROVE LockOK' /\ LineInv'
  <2>1. /\ handler[c] = "idle" /\ handler' = [handler EXCEPT ![c] = op]
        /\ lock' = Append(lock, c) /\ UNCHANGED <<reload, left>>
    BY <1>4 DEF Ask
  <2>2. ~InLine(c)
    BY <2>1 DEF LineInv
  <2>3. /\ LockOK' /\ \A p \in Standing : InLine(p)' <=> InLine(p) \/ p = c
        /\ Holds(Reloader) => Holds(Reloader)'
    BY <1>0, <2>1, <2>2, Joins DEF Standing
  <2>4. \A d \in Clients : handler'[d] \in {"step", "seed"} <=> handler[d] \in {"step", "seed"} \/ d = c
    BY <1>0, <2>1
  <2> QED BY <1>0, <2>1, <2>3, <2>4 DEF LineInv, Standing
<1>5. CASE ReloadAsked
  <2>1. /\ reload = "idle" /\ reload' = "loading" /\ lock' = Append(lock, Reloader)
        /\ UNCHANGED <<handler, left>>
    BY <1>5 DEF ReloadAsked
  <2>2. ~InLine(Reloader)
    BY <2>1 DEF LineInv
  <2>3. LockOK' /\ \A p \in Standing : InLine(p)' <=> InLine(p) \/ p = Reloader
    BY <1>0, <2>1, <2>2, Joins DEF Standing
  <2> QED BY <1>0, <2>1, <2>3 DEF LineInv, Standing
<1>6. CASE Reloads
  <2>1. Holds(Reloader) /\ UNCHANGED handler /\ reload # "idle"
    BY <1>6 DEF Reloads, ReloadLoads, ReloadLists, ReloadInvalidates, LineInv
  <2>2. CASE lock' = Tail(lock) /\ reload' = "idle" /\ left' = {}
    <3>1. LockOK' /\ \A p \in Standing : InLine(p)' <=> InLine(p) /\ p # Reloader
      BY <1>0, <2>1, <2>2, Leaves
    <3> QED BY <1>0, <2>1, <2>2, <3>1 DEF LineInv, Standing
  <2>3. CASE lock' = lock /\ reload' \in {"listing", "invalidating"} /\ (left' # {} => reload' = "invalidating")
    BY <1>0, <2>1, <2>3 DEF LineInv, LockOK, InLine, Holds
  <2> QED BY <1>6, <2>2, <2>3 DEF Reloads, ReloadLoads, ReloadLists, ReloadInvalidates, LineInv
<1>7. CASE UNCHANGED worldVars
  BY <1>1, <1>7 DEF worldVars, sessionVars
<1> QED BY <1>2, <1>3, <1>4, <1>5, <1>6, <1>7 DEF WorldNext, Session, Elsewhere

-----------------------------------------------------------------------------
(* The rollout states                                                      *)

Handlers == {"none", "accepted", "reading", "storing", "idle", "step", "image", "seed"}

ServerOK ==
  /\ model \in Models
  /\ state \in [Clients -> Models \cup {NoState}]
  /\ grabbed \in [Clients -> Models \cup {NoState}]
  /\ handler \in [Clients -> Handlers]
  /\ reload \in {"idle", "loading", "listing", "invalidating"}
  /\ left \subseteq Clients /\ overlap \in BOOLEAN

LEMMA StateStep ==
  ASSUME ServerOK, LineInv, LockOK, StateInv, [WorldNext]_worldVars
  PROVE  ServerOK' /\ StateInv'
<1> USE WorldModelAssumption DEF ServerOK, StateInv, Stale, Seeding, Open, Handlers
<1>1. ASSUME NEW c \in Clients, Accept(c) PROVE ServerOK' /\ StateInv'
  BY <1>1 DEF Accept
<1>2. ASSUME NEW c \in Clients, SeedReads(c) PROVE ServerOK' /\ StateInv'
  BY <1>2 DEF SeedReads
<1>3. ASSUME NEW c \in Clients, SeedStores(c) PROVE ServerOK' /\ StateInv'
  BY <1>3 DEF SeedStores, Sent
<1>4. ASSUME NEW c \in Clients, Step(c) PROVE ServerOK' /\ StateInv'
  BY <1>4 DEF Step, Sent
<1>5. ASSUME NEW c \in Clients, Seed(c) PROVE ServerOK' /\ StateInv'
  BY <1>5 DEF Seed, Sent
<1>6. ASSUME NEW c \in Clients, NEW op \in {"step", "seed"}, Ask(c, op)
      PROVE  ServerOK' /\ StateInv'
  BY <1>6 DEF Ask
<1>7. ASSUME NEW c \in Clients, Disconnected(c) PROVE ServerOK' /\ StateInv'
  BY <1>7 DEF Disconnected
<1>8. ASSUME NEW c \in Clients, Connect(c) \/ Connected(c) \/ ReadTelemetry(c) \/ Read(c)
                                  \/ GiveUp(c) \/ Close(c)
      PROVE  ServerOK' /\ StateInv'
  BY <1>8 DEF Connect, Connected, ReadTelemetry, Read, GiveUp, Close, sessionVars
<1>14. ASSUME NEW c \in Clients, SendImage(c) PROVE ServerOK' /\ StateInv'
  BY <1>14 DEF SendImage, Sent
<1>9. CASE ReloadAsked
  BY <1>9 DEF ReloadAsked
<1>10. CASE ReloadLoads
  BY <1>10 DEF ReloadLoads, LineInv
<1>11. CASE ReloadLists
  BY <1>11 DEF ReloadLists, LineInv
<1>12. CASE ReloadInvalidates
  BY <1>12 DEF ReloadInvalidates
<1>13. CASE UNCHANGED worldVars
  BY <1>13 DEF worldVars, sessionVars
<1> QED BY <1>1, <1>2, <1>3, <1>4, <1>5, <1>6, <1>7, <1>8, <1>9, <1>10, <1>11, <1>12, <1>13,
       <1>14 DEF WorldNext, Session, Reloads

-----------------------------------------------------------------------------
(* The connections                                                         *)

ClientOK ==
  /\ client \in [Clients -> {"away", "connecting", "idle", "seed", "text", "jpeg"}]
  /\ told \in [Clients -> Nat] /\ behind \in [Clients -> BOOLEAN]
  /\ InboxOK

Kinds4 == {"ready", "text", "jpeg", "error"}

LEMMA FrameType ==
  ASSUME NEW t \in Kinds4
  PROVE  Frame(t) \in ReplyFrames /\ Frame(t).type = t /\ Frame(t).late = 0
BY DEF Frame, ReplyFrames, Kinds4

\* Nobody but one client and its session move.
Apart(c) ==
  \A d \in Clients \ {c} :
    UNCHANGED <<handler[d], client[d], told[d], behind[d], inbox[d]>>

LEMMA Others ==
  ASSUME \A d \in Clients : ClientInv(d), NEW c \in Clients, Apart(c), ClientInv(c)'
  PROVE  \A d \in Clients : ClientInv(d)'
<1> SUFFICES ASSUME NEW d \in Clients, d # c PROVE ClientInv(d)'
  OBVIOUS
<1>1. handler'[d] = handler[d] /\ client'[d] = client[d] /\ behind'[d] = behind[d]
      /\ told'[d] = told[d] /\ inbox'[d] = inbox[d]
  BY DEF Apart
<1> QED BY <1>1 DEF ClientInv, InStep, Paired, Fresh, Seeding

\* A frame is put at the end.
LEMMA SentStep ==
  ASSUME InboxOK, NEW c \in Clients, NEW t \in Kinds4, Len(inbox[c]) <= MaxUnread + 1, Sent(c, t)
  PROVE  /\ InboxOK'
         /\ Len(inbox'[c]) = Len(inbox[c]) + 1 /\ inbox'[c] # <<>>
         /\ \A i \in 1 .. Len(inbox[c]) : inbox'[c][i] = inbox[c][i]
         /\ inbox'[c][Len(inbox[c]) + 1] = Frame(t)
         /\ \A d \in Clients \ {c} : inbox'[d] = inbox[d]
<1>1. inbox[c] \in Seq(ReplyFrames) /\ MaxUnread \in Nat /\ Frame(t) \in ReplyFrames
  BY WorldModelAssumption, FrameType DEF InboxOK
<1> DEFINE new == Append(inbox[c], Frame(t))
<1>2. PICK n \in Nat : n = Len(inbox[c])
  BY <1>1, LenProperties
<1>3. /\ new \in Seq(ReplyFrames) /\ Len(new) = n + 1 /\ new[n + 1] = Frame(t)
      /\ \A i \in 1 .. n : new[i] = inbox[c][i]
  BY <1>1, <1>2, AppendProperties
<1>4. new # <<>>
  BY <1>2, <1>3, EmptySeq
<1>5. inbox' = [inbox EXCEPT ![c] = new]
  BY DEF Sent
<1> HIDE DEF new
<1>6. n + 1 <= MaxUnread + 2
  BY <1>1, <1>2
<1>7. InboxOK'
  BY <1>3, <1>5, <1>6 DEF InboxOK
<1> QED BY <1>2, <1>3, <1>4, <1>5, <1>7 DEF InboxOK

\* The frame at the head is read.
LEMMA ReadStep ==
  ASSUME InboxOK, NEW c \in Clients, inbox[c] # <<>>, inbox' = [inbox EXCEPT ![c] = Tail(@)]
  PROVE  /\ InboxOK' /\ Len(inbox[c]) \in Nat \ {0} /\ Head(inbox[c]) = inbox[c][1]
         /\ inbox[c][1] \in ReplyFrames
         /\ Len(inbox'[c]) = Len(inbox[c]) - 1
         /\ \A i \in 1 .. (Len(inbox[c]) - 1) : inbox'[c][i] = inbox[c][i + 1]
         /\ inbox'[c] = <<>> <=> Len(inbox[c]) = 1
         /\ \A d \in Clients \ {c} : inbox'[d] = inbox[d]
<1>1. inbox[c] \in Seq(ReplyFrames) /\ Len(inbox[c]) <= MaxUnread + 2 /\ MaxUnread \in Nat
  BY WorldModelAssumption DEF InboxOK
<1>2. PICK n \in Nat : n = Len(inbox[c]) /\ n # 0
  BY <1>1, EmptySeq, LenProperties
<1> DEFINE new == Tail(inbox[c])
<1>3. /\ new \in Seq(ReplyFrames) /\ Len(new) = n - 1 /\ Head(inbox[c]) = inbox[c][1]
      /\ \A i \in 1 .. (n - 1) : new[i] = inbox[c][i + 1]
  BY <1>1, <1>2, HeadTailProperties
<1>4. inbox[c][1] \in ReplyFrames
  BY <1>1, <1>2, ElementOfSeq
<1>6. inbox' = [inbox EXCEPT ![c] = new]
  OBVIOUS
<1> HIDE DEF new
<1>5. new = <<>> <=> n = 1
  <2>1. new = <<>> <=> Len(new) = 0
    BY <1>3, EmptySeq
  <2> QED BY <1>2, <1>3, <2>1
<1>7. InboxOK'
  BY <1>1, <1>2, <1>3, <1>6 DEF InboxOK
<1>8. inbox'[c] = new /\ \A d \in Clients \ {c} : inbox'[d] = inbox[d]
  BY <1>6 DEF InboxOK
<1> QED BY <1>2, <1>3, <1>4, <1>5, <1>7, <1>8

\* What is still unread when a request goes out.
LEMMA AgedType ==
  ASSUME NEW s \in Seq(ReplyFrames)
  PROVE  LET old == [i \in DOMAIN s |-> Older(s[i])]
         IN  /\ old \in Seq(ReplyFrames) /\ Len(old) = Len(s) /\ (s = <<>> => old = <<>>)
             /\ \A i \in 1 .. Len(s) : /\ s[i] \in ReplyFrames
                                       /\ old[i].type = s[i].type /\ old[i].late = s[i].late + 1
<1> DEFINE old == [i \in DOMAIN s |-> Older(s[i])]
<1>1. PICK n \in Nat : n = Len(s) /\ DOMAIN s = 1 .. n
  BY LenProperties
<1>2. \A i \in 1 .. n : s[i] \in ReplyFrames
  BY <1>1, ElementOfSeq
<1>3. \A i \in 1 .. n : old[i] \in ReplyFrames /\ old[i].type = s[i].type
                        /\ old[i].late = s[i].late + 1
  BY <1>1, <1>2 DEF ReplyFrames, Older
<1>4. old \in [1 .. n -> ReplyFrames]
  BY <1>1, <1>3
<1>5. old \in Seq(ReplyFrames)
  BY <1>4, SeqDef
<1>6. Len(old) = n
  BY <1>4, <1>5, LenProperties
<1>7. s = <<>> => old = <<>>
  BY <1>1, <1>5, <1>6, EmptySeq
<1> QED BY <1>1, <1>2, <1>3, <1>5, <1>6, <1>7

\* The session of one client answers: a frame more, of the request sent last.
LEMMA ReplyStep ==
  ASSUME ClientOK, handler \in [Clients -> Handlers], \A c \in Clients : ClientInv(c),
         NEW c \in Clients, NEW t \in Kinds4, NEW h \in {"idle", "image"}, Sent(c, t),
         handler' = [handler EXCEPT ![c] = h], UNCHANGED <<client, told, behind>>,
         \/ handler[c] \in {"reading", "storing"} /\ t = "ready" /\ h = "idle"
         \/ handler[c] = "step" /\ ((t = "text" /\ h = "image") \/ (t = "error" /\ h = "idle"))
         \/ handler[c] = "image" /\ t = "jpeg" /\ h = "idle"
         \/ handler[c] = "seed" /\ t \in {"text", "error"} /\ h = "idle"
  PROVE  ClientOK' /\ ClientInv(c)' /\ Apart(c)
<1>0. /\ ClientInv(c) /\ InboxOK /\ MaxUnread \in Nat /\ inbox[c] \in Seq(ReplyFrames)
      /\ client[c] \in {"away", "connecting", "idle", "seed", "text", "jpeg"}
      /\ behind[c] \in BOOLEAN /\ told[c] \in Nat
  BY WorldModelAssumption DEF ClientOK, InboxOK
<1>1. PICK n \in Nat : n = Len(inbox[c]) /\ (inbox[c] = <<>> <=> n = 0)
  BY <1>0, LenProperties, EmptySeq
<1>2. n <= MaxUnread + 1 /\ (h = "image" => n <= MaxUnread)
  BY <1>0, <1>1 DEF ClientInv, Seeding
<1>3. /\ InboxOK'
      /\ Len(inbox'[c]) = n + 1 /\ inbox'[c] # <<>>
      /\ \A i \in 1 .. n : inbox'[c][i] = inbox[c][i]
      /\ inbox'[c][n + 1] = Frame(t)
      /\ \A d \in Clients \ {c} : inbox'[d] = inbox[d]
  BY <1>0, <1>1, <1>2, SentStep
<1>4. /\ handler'[c] = h /\ client'[c] = client[c] /\ behind'[c] = behind[c] /\ told'[c] = told[c]
  OBVIOUS
<1>5. ClientOK' /\ Apart(c)
  BY <1>3 DEF ClientOK, Apart
<1>6. Frame(t).type = t /\ Frame(t).late = 0
  BY FrameType
<1>7. ASSUME ~behind[c] PROVE InStep(c)'
  <2>1. InStep(c)
    BY <1>0, <1>7 DEF ClientInv
  <2>2. Fresh(c)'
    <3>1. \A i \in 1 .. (n + 1) : i \in 1 .. n \/ i = n + 1
      OBVIOUS
    <3> QED BY <1>1, <1>3, <1>6, <2>1, <3>1 DEF Fresh, InStep
  <2>3. CASE client[c] = "away"
    BY <1>4, <2>2, <2>3 DEF InStep
  <2>4. CASE client[c] = "connecting"
    <3>1. handler[c] \in {"reading", "storing"} /\ n = 0
      BY <1>0, <1>1, <2>4 DEF ClientInv, Seeding
    <3> QED BY <1>3, <1>4, <2>2, <2>4, <3>1 DEF InStep
  <2>5. client[c] # "idle"
    BY <2>1 DEF InStep
  <2>6. CASE client[c] = "seed"
    <3>1. handler[c] = "seed" /\ n = 0 /\ h = "idle"
      BY <1>0, <1>1, <2>1, <2>6 DEF InStep, ClientInv, Seeding
    <3> QED BY <1>3, <1>4, <2>2, <2>6, <3>1 DEF InStep
  <2>7. CASE client[c] = "text"
    <3>1. CASE handler[c] = "step"
      <4>1. n = 0 /\ inbox'[c][1].type = t /\ Len(inbox'[c]) = 1
        BY <1>1, <1>3, <1>6, <2>1, <2>7, <3>1 DEF InStep
      <4> QED BY <1>4, <2>2, <2>7, <3>1, <4>1 DEF InStep
    <3>2. CASE handler[c] = "image"
      <4>1. n = 1 /\ inbox[c][1].type = "text" /\ h = "idle"
        BY <1>1, <2>1, <2>7, <3>2 DEF InStep
      <4>2. Len(inbox'[c]) = 2 /\ inbox'[c][1].type = "text"
        BY <1>3, <4>1
      <4> QED BY <1>4, <2>2, <2>7, <4>1, <4>2 DEF InStep
    <3> QED BY <2>1, <2>7, <3>1, <3>2 DEF InStep
  <2>8. CASE client[c] = "jpeg"
    <3>1. handler[c] = "image" /\ n = 0 /\ h = "idle"
      BY <1>1, <2>1, <2>8 DEF InStep
    <3> QED BY <1>3, <1>4, <2>2, <2>8, <3>1 DEF InStep
  <2> QED BY <1>0, <2>3, <2>4, <2>5, <2>6, <2>7, <2>8
<1>8. Paired(c)'
  <2>1. Paired(c)
    BY <1>0 DEF ClientInv
  <2>2. \A i \in 2 .. (n + 1) : inbox'[c][i].type = "jpeg" => inbox'[c][i].late = inbox'[c][i - 1].late
    <3> SUFFICES ASSUME NEW i \in 2 .. (n + 1), inbox'[c][i].type = "jpeg"
                 PROVE  inbox'[c][i].late = inbox'[c][i - 1].late
      OBVIOUS
    <3>0. i - 1 \in 1 .. n
      OBVIOUS
    <3>1. i - 1 \in 1 .. n /\ inbox'[c][i - 1] = inbox[c][i - 1]
      BY <1>1, <1>3, <3>0
    <3>2. CASE i \in 1 .. n
      <4>1. i \in 2 .. n /\ inbox'[c][i] = inbox[c][i]
        BY <1>3, <3>2
      <4> QED BY <1>1, <2>1, <3>1, <4>1 DEF Paired
    <3>3. CASE i = n + 1
      <4>1. t = "jpeg" /\ handler[c] = "image" /\ n # 0
        BY <1>3, <1>6, <3>1, <3>3
      <4>2. inbox[c][n].late = 0
        BY <1>1, <2>1, <4>1 DEF Paired
      <4> QED BY <1>3, <1>6, <3>1, <3>3, <4>2
    <3> QED BY <3>2, <3>3
  <2>3. client[c] = "jpeg" /\ inbox'[c][1].type = "jpeg" => inbox'[c][1].late = told[c]
    <3>1. CASE n = 0
      <4>1. inbox'[c][1] = Frame(t)
        BY <1>3, <3>1
      <4> QED BY <1>1, <1>6, <2>1, <3>1, <4>1 DEF Paired
    <3>2. CASE n # 0
      BY <1>1, <1>3, <2>1, <3>2 DEF Paired
    <3> QED BY <3>1, <3>2
  <2>4. inbox'[c][Len(inbox'[c])].late = 0
    BY <1>3, <1>6
  <2> QED BY <1>3, <1>4, <2>2, <2>3, <2>4 DEF Paired
<1>9. ClientInv(c)'
  <2>1. handler[c] \in {"step", "image", "seed"} \/ Seeding(c)
    BY DEF Seeding
  <2>2. h = "image" => client[c] # "connecting"
    BY <1>0 DEF ClientInv
  <2>3. h = "image" => Len(inbox'[c]) <= MaxUnread + 1
    BY <1>0, <1>2, <1>3
  <2>4. client[c] \in {"away", "connecting"} => ~behind[c]
    BY <1>0 DEF ClientInv
  <2> QED BY <1>4, <1>7, <1>8, <2>2, <2>3, <2>4 DEF ClientInv, Seeding
<1> QED BY <1>5, <1>9

LEMMA ModelSessionStep ==
  ASSUME ClientOK, handler \in [Clients -> Handlers], \A c \in Clients : ClientInv(c),
         NEW c \in Clients, Accept(c) \/ Session(c) \/ Disconnected(c)
  PROVE  ClientOK' /\ ClientInv(c)' /\ Apart(c)
<1>0. ClientInv(c) /\ InboxOK
  BY DEF ClientOK
<1>1. CASE Accept(c) \/ SeedReads(c)
  <2>1. /\ \/ handler[c] = "none" /\ client[c] = "connecting"
           \/ handler[c] = "accepted"
        /\ \E h \in {"accepted", "storing", "reading"} : handler' = [handler EXCEPT ![c] = h]
        /\ UNCHANGED <<client, inbox, told, behind>>
    BY <1>1 DEF Accept, SeedReads, connVars
  <2>2. ClientOK' /\ Apart(c)
    BY <2>1 DEF ClientOK, InboxOK, Apart
  <2>3. ClientInv(c)'
    BY <1>0, <2>1 DEF ClientInv, InStep, Paired, Fresh, Seeding
  <2> QED BY <2>2, <2>3
<1>2. CASE SeedStores(c)
  <2>1. /\ handler[c] \in {"storing", "reading"} /\ handler' = [handler EXCEPT ![c] = "idle"]
        /\ Sent(c, "ready") /\ UNCHANGED <<client, told, behind>>
    BY <1>2 DEF SeedStores, connVars
  <2> QED BY <2>1, ReplyStep DEF Kinds4
<1>3. CASE Step(c)
  <2>1. /\ handler[c] = "step" /\ UNCHANGED <<client, told, behind>>
        /\ \/ Sent(c, "text") /\ handler' = [handler EXCEPT ![c] = "image"]
           \/ Sent(c, "error") /\ handler' = [handler EXCEPT ![c] = "idle"]
    BY <1>3 DEF Step, ActionReply, connVars
  <2> QED BY <2>1, ReplyStep DEF Kinds4
<1>4. CASE SendImage(c)
  <2>1. /\ handler[c] = "image" /\ UNCHANGED <<client, told, behind>>
        /\ Sent(c, "jpeg") /\ handler' = [handler EXCEPT ![c] = "idle"]
    BY <1>4 DEF SendImage, ActionReply, connVars
  <2> QED BY <2>1, ReplyStep DEF Kinds4
<1>5. CASE Seed(c)
  <2>1. /\ handler[c] = "seed" /\ handler' = [handler EXCEPT ![c] = "idle"]
        /\ Sent(c, "text") \/ Sent(c, "error")
        /\ UNCHANGED <<client, told, behind>>
    BY <1>5 DEF Seed, connVars
  <2> QED BY <2>1, ReplyStep DEF Kinds4
<1>6. CASE Disconnected(c)
  <2>1. /\ client[c] = "away" /\ handler' = [handler EXCEPT ![c] = "none"]
        /\ inbox' = [inbox EXCEPT ![c] = <<>>] /\ UNCHANGED <<client, told, behind>>
    BY <1>6 DEF Disconnected, connVars
  <2>2. <<>> \in Seq(ReplyFrames) /\ Len(<<>>) = 0
    BY EmptySeq
  <2>3. ClientOK' /\ Apart(c)
    BY <2>1, <2>2, WorldModelAssumption DEF ClientOK, InboxOK, Apart
  <2>4. handler'[c] = "none" /\ inbox'[c] = <<>> /\ 1 .. Len(inbox'[c]) = {} /\ 2 .. Len(inbox'[c]) = {}
        /\ client'[c] = "away" /\ behind'[c] = behind[c]
    BY <2>1, <2>2 DEF InboxOK, ClientOK
  <2>5. ClientInv(c)'
    BY <1>0, <2>1, <2>4 DEF ClientInv, InStep, Paired, Fresh, Seeding
  <2> QED BY <2>3, <2>5
<1> QED BY <1>1, <1>2, <1>3, <1>4, <1>5, <1>6 DEF Session

LEMMA TakeStep ==
  ASSUME ClientOK, handler \in [Clients -> Handlers], \A c \in Clients : ClientInv(c),
         NEW c \in Clients, Connected(c) \/ ReadTelemetry(c) \/ Read(c)
  PROVE  ClientOK' /\ ClientInv(c)' /\ Apart(c)
<1>0. /\ ClientInv(c) /\ InboxOK /\ MaxUnread \in Nat
      /\ client[c] \in {"away", "connecting", "idle", "seed", "text", "jpeg"}
      /\ handler[c] \in Handlers /\ told[c] \in Nat
  BY WorldModelAssumption DEF ClientOK
<1>1. /\ client[c] \in {"connecting", "seed", "text", "jpeg"} /\ inbox[c] # <<>>
      /\ inbox' = [inbox EXCEPT ![c] = Tail(@)] /\ UNCHANGED <<handler, behind>>
      /\ \E n \in {"idle", "jpeg"} : client' = [client EXCEPT ![c] = n]
  BY DEF Connected, ReadTelemetry, Read, sessionVars
<1>2. /\ InboxOK' /\ Len(inbox[c]) \in Nat \ {0} /\ Head(inbox[c]) = inbox[c][1]
      /\ inbox[c][1] \in ReplyFrames
      /\ Len(inbox'[c]) = Len(inbox[c]) - 1
      /\ \A i \in 1 .. (Len(inbox[c]) - 1) : inbox'[c][i] = inbox[c][i + 1]
      /\ inbox'[c] = <<>> <=> Len(inbox[c]) = 1
      /\ \A d \in Clients \ {c} : inbox'[d] = inbox[d]
  BY <1>0, <1>1, ReadStep
<1>3. PICK n \in Nat : n = Len(inbox[c]) /\ n # 0
  BY <1>2
<1>4. inbox[c][1].late \in Nat
  BY <1>2 DEF ReplyFrames
<1>5. \E k \in Nat : told' = [told EXCEPT ![c] = k]
  <2>1. CASE Connected(c)
    BY <1>0, <2>1 DEF Connected, ClientOK
  <2>2. CASE ReadTelemetry(c)
    BY <1>2, <1>4, <2>2 DEF ReadTelemetry
  <2>3. CASE Read(c)
    BY <2>3 DEF Read
  <2> QED BY <2>1, <2>2, <2>3
<1>6. ClientOK' /\ Apart(c)
  BY <1>1, <1>2, <1>5 DEF ClientOK, Apart
<1>7. /\ handler'[c] = handler[c] /\ behind'[c] = behind[c] /\ client'[c] \in {"idle", "jpeg"}
      /\ handler[c] \notin {"none", "accepted", "reading", "storing"}
  BY <1>0, <1>1 DEF ClientInv, Seeding, ClientOK
<1>8. CASE ReadTelemetry(c)
  <2>1. client[c] = "text" /\ inbox[c][1].type = "text" /\ client'[c] = "jpeg"
        /\ told'[c] = inbox[c][1].late
    BY <1>2, <1>8 DEF ReadTelemetry, ClientOK
  <2>2. ASSUME ~behind[c] PROVE InStep(c)'
    <3>1. InStep(c)
      BY <1>0, <2>2 DEF ClientInv
    <3>2. Fresh(c)'
      <4>1. \A i \in 1 .. (n - 1) : i + 1 \in 1 .. n
        OBVIOUS
      <4> QED BY <1>2, <1>3, <3>1, <4>1 DEF Fresh, InStep
    <3>3. (handler[c] = "image" /\ n = 1) \/ (handler[c] = "idle" /\ n = 2)
      BY <1>1, <1>3, <2>1, <3>1 DEF InStep
    <3>4. (handler[c] = "image" /\ inbox'[c] = <<>>) \/ (handler[c] = "idle" /\ Len(inbox'[c]) = 1)
      BY <1>2, <1>3, <3>3
    <3> QED BY <1>7, <2>1, <3>2, <3>4 DEF InStep
  <2>3. Paired(c)'
    <3>1. Paired(c)
      BY <1>0 DEF ClientInv
    <3>2. \A i \in 2 .. (n - 1) : inbox'[c][i].type = "jpeg" => inbox'[c][i].late = inbox'[c][i - 1].late
      <4> SUFFICES ASSUME NEW i \in 2 .. (n - 1), inbox'[c][i].type = "jpeg"
                   PROVE  inbox'[c][i].late = inbox'[c][i - 1].late
        OBVIOUS
      <4>1. i + 1 \in 2 .. n /\ i \in 1 .. (n - 1) /\ i - 1 \in 1 .. (n - 1) /\ (i + 1) - 1 = i
            /\ (i - 1) + 1 = i
        OBVIOUS
      <4>2. inbox'[c][i] = inbox[c][i + 1] /\ inbox'[c][i - 1] = inbox[c][i]
        BY <1>2, <1>3, <4>1
      <4> QED BY <1>3, <3>1, <4>1, <4>2 DEF Paired
    <3>3. inbox'[c] # <<>> => (inbox'[c][1].type = "jpeg" => inbox'[c][1].late = told'[c])
      <4> SUFFICES ASSUME n # 1, inbox'[c][1].type = "jpeg" PROVE inbox'[c][1].late = told'[c]
        BY <1>2, <1>3
      <4>0. n \in Nat /\ n # 0 /\ n # 1
        BY <1>3
      <4>1. 1 \in 1 .. (n - 1) /\ 2 \in 2 .. n /\ 2 - 1 = 1 /\ 1 + 1 = 2
        BY <4>0
      <4>2. inbox'[c][1] = inbox[c][2]
        BY <1>2, <1>3, <4>1
      <4> QED BY <1>3, <2>1, <3>1, <4>1, <4>2 DEF Paired
    <3>4. handler[c] = "image" /\ inbox'[c] # <<>> => inbox'[c][n - 1].late = 0
      <4> SUFFICES ASSUME handler[c] = "image", n # 1 PROVE inbox'[c][n - 1].late = 0
        BY <1>2, <1>3
      <4>0. n \in Nat /\ n # 0 /\ n # 1
        BY <1>3
      <4>1. n - 1 \in 1 .. (n - 1) /\ (n - 1) + 1 = n
        BY <4>0
      <4>2. inbox'[c][n - 1] = inbox[c][n]
        BY <1>2, <1>3, <4>1
      <4> QED BY <1>1, <1>3, <3>1, <4>2 DEF Paired
    <3>5. handler[c] = "image" /\ inbox'[c] = <<>> => told'[c] = 0
      BY <1>1, <1>2, <1>3, <2>1, <3>1 DEF Paired
    <3> QED BY <1>2, <1>3, <1>7, <3>2, <3>3, <3>4, <3>5 DEF Paired
  <2>4. ClientInv(c)'
    BY <1>0, <1>2, <1>3, <1>7, <2>1, <2>2, <2>3 DEF ClientInv, Seeding
  <2> QED BY <1>6, <2>4
<1>9. CASE Connected(c) \/ Read(c)
  <2>1. client'[c] = "idle" /\ (client[c] = "text" => inbox[c][1].type # "text")
    BY <1>2, <1>9 DEF Connected, Read, ClientOK
  <2>2. ASSUME ~behind[c] PROVE InStep(c)'
    <3>1. InStep(c)
      BY <1>0, <2>2 DEF ClientInv
    <3>2. handler[c] = "idle" /\ n = 1
      <4>1. CASE client[c] = "connecting"
        BY <1>0, <1>3, <1>7, <3>1, <4>1 DEF InStep, ClientInv, Handlers
      <4>2. CASE client[c] # "connecting"
        BY <1>1, <1>3, <2>1, <3>1, <4>2 DEF InStep
      <4> QED BY <4>1, <4>2
    <3>3. inbox'[c] = <<>> /\ 1 .. Len(inbox'[c]) = {}
      BY <1>2, <1>3, <3>2
    <3> QED BY <1>7, <2>1, <3>2, <3>3 DEF InStep, Fresh
  <2>3. Paired(c)'
    <3>1. Paired(c)
      BY <1>0 DEF ClientInv
    <3>2. \A i \in 2 .. (n - 1) : inbox'[c][i].type = "jpeg" => inbox'[c][i].late = inbox'[c][i - 1].late
      <4> SUFFICES ASSUME NEW i \in 2 .. (n - 1), inbox'[c][i].type = "jpeg"
                   PROVE  inbox'[c][i].late = inbox'[c][i - 1].late
        OBVIOUS
      <4>1. i + 1 \in 2 .. n /\ i \in 1 .. (n - 1) /\ i - 1 \in 1 .. (n - 1) /\ (i + 1) - 1 = i
            /\ (i - 1) + 1 = i
        OBVIOUS
      <4>2. inbox'[c][i] = inbox[c][i + 1] /\ inbox'[c][i - 1] = inbox[c][i]
        BY <1>2, <1>3, <4>1
      <4> QED BY <1>3, <3>1, <4>1, <4>2 DEF Paired
    <3>3. handler[c] = "image" /\ inbox'[c] # <<>> => inbox'[c][n - 1].late = 0
      <4> SUFFICES ASSUME handler[c] = "image", n # 1 PROVE inbox'[c][n - 1].late = 0
        BY <1>2, <1>3
      <4>0. n \in Nat /\ n # 0 /\ n # 1
        BY <1>3
      <4>1. n - 1 \in 1 .. (n - 1) /\ (n - 1) + 1 = n
        BY <4>0
      <4>2. inbox'[c][n - 1] = inbox[c][n]
        BY <1>2, <1>3, <4>1
      <4> QED BY <1>1, <1>3, <3>1, <4>2 DEF Paired
    <3> QED BY <1>2, <1>3, <1>7, <2>1, <3>2, <3>3 DEF Paired
  <2>4. ClientInv(c)'
    BY <1>0, <1>2, <1>3, <1>7, <2>1, <2>2, <2>3 DEF ClientInv, Seeding
  <2> QED BY <1>6, <2>4
<1> QED BY <1>8, <1>9

LEMMA ConnectionStep ==
  ASSUME ClientOK, handler \in [Clients -> Handlers], \A c \in Clients : ClientInv(c),
         NEW c \in Clients,
         Connect(c) \/ GiveUp(c) \/ Close(c) \/ \E op \in {"step", "seed"} : Ask(c, op)
  PROVE  ClientOK' /\ ClientInv(c)' /\ Apart(c)
<1>0. ClientInv(c) /\ InboxOK /\ inbox[c] \in Seq(ReplyFrames) /\ MaxUnread \in Nat
      /\ handler[c] \in Handlers /\ client[c] \in {"away", "connecting", "idle", "seed", "text", "jpeg"}
  BY WorldModelAssumption DEF ClientOK, InboxOK
<1>1. CASE Connect(c)
  <2>1. /\ handler[c] = "none" /\ client[c] = "away"
        /\ client' = [client EXCEPT ![c] = "connecting"] /\ UNCHANGED <<handler, inbox, told, behind>>
    BY <1>1 DEF Connect, sessionVars
  <2>2. ClientOK' /\ Apart(c)
    BY <2>1 DEF ClientOK, InboxOK, Apart
  <2>3. client'[c] = "connecting"
    BY <2>1 DEF ClientOK
  <2>4. ClientInv(c)'
    BY <1>0, <2>1, <2>3 DEF ClientInv, InStep, Fresh, Paired, Seeding
  <2> QED BY <2>2, <2>4
<1>2. CASE GiveUp(c)
  <2>1. /\ client[c] \in {"seed", "text", "jpeg"} /\ client' = [client EXCEPT ![c] = "idle"]
        /\ told' = [told EXCEPT ![c] = 0]
        /\ behind' = [behind EXCEPT ![c] = TRUE] /\ UNCHANGED <<handler, inbox>>
    BY <1>2 DEF GiveUp, sessionVars
  <2>2. ClientOK' /\ Apart(c)
    BY <2>1 DEF ClientOK, InboxOK, Apart
  <2>3. client'[c] = "idle" /\ behind'[c] = TRUE
    BY <2>1 DEF ClientOK
  <2>4. ClientInv(c)'
    BY <1>0, <2>1, <2>3 DEF ClientInv, Paired, Seeding
  <2> QED BY <2>2, <2>4
<1>3. CASE Close(c)
  <2>1. /\ client[c] = "idle" /\ client' = [client EXCEPT ![c] = "away"]
        /\ inbox' = [inbox EXCEPT ![c] = <<>>] /\ behind' = [behind EXCEPT ![c] = FALSE]
        /\ UNCHANGED <<handler, told>>
    BY <1>3 DEF Close, sessionVars
  <2>2. <<>> \in Seq(ReplyFrames) /\ Len(<<>>) = 0
    BY EmptySeq
  <2>3. ClientOK' /\ Apart(c)
    BY <1>0, <2>1, <2>2 DEF ClientOK, InboxOK, Apart
  <2>4. /\ client'[c] = "away" /\ inbox'[c] = <<>> /\ behind'[c] = FALSE
        /\ Len(inbox'[c]) = 0 /\ 1 .. Len(inbox'[c]) = {} /\ 2 .. Len(inbox'[c]) = {}
    BY <2>1, <2>2 DEF ClientOK, InboxOK
  <2>5. ClientInv(c)'
    BY <1>0, <2>1, <2>4 DEF ClientInv, InStep, Fresh, Paired, Seeding
  <2> QED BY <2>3, <2>5
<1>4. ASSUME NEW op \in {"step", "seed"}, Ask(c, op)
      PROVE  ClientOK' /\ ClientInv(c)' /\ Apart(c)
  <2> DEFINE old == [i \in DOMAIN inbox[c] |-> Older(inbox[c][i])]
  <2>1. /\ client[c] = "idle" /\ Len(inbox[c]) <= MaxUnread
        /\ client' = [client EXCEPT ![c] = IF op = "step" THEN "text" ELSE "seed"]
        /\ handler' = [handler EXCEPT ![c] = op]
        /\ inbox' = [inbox EXCEPT ![c] = old] /\ UNCHANGED <<told, behind>>
    BY <1>4 DEF Ask
  <2>2. /\ old \in Seq(ReplyFrames) /\ Len(old) = Len(inbox[c]) /\ (inbox[c] = <<>> => old = <<>>)
        /\ \A i \in 1 .. Len(inbox[c]) :
             /\ inbox[c][i] \in ReplyFrames
             /\ old[i].type = inbox[c][i].type /\ old[i].late = inbox[c][i].late + 1
    BY <1>0, AgedType
  <2> HIDE DEF old
  <2>3. InboxOK'
    BY <1>0, <2>1, <2>2 DEF InboxOK
  <2>4. ClientOK' /\ Apart(c)
    BY <2>1, <2>3 DEF ClientOK, Apart, InboxOK
  <2>5. /\ inbox'[c] = old /\ handler'[c] = op /\ behind'[c] = behind[c]
        /\ client'[c] = IF op = "step" THEN "text" ELSE "seed"
    BY <2>1 DEF ClientOK, InboxOK
  <2>6. ~behind[c] => inbox[c] = <<>>
    BY <1>0, <2>1 DEF ClientInv, InStep
  <2>7. ~behind[c] => InStep(c)'
    <3>1. <<>> \in Seq(ReplyFrames) /\ Len(<<>>) = 0 /\ 1 .. 0 = {}
      BY EmptySeq
    <3> QED BY <2>2, <2>5, <2>6, <3>1 DEF InStep, Fresh
  <2>8. Paired(c)'
    <3>1. Paired(c) /\ client'[c] # "jpeg" /\ handler'[c] # "image"
      BY <1>0, <2>5 DEF ClientInv
    <3>2. PICK n \in Nat : n = Len(inbox[c])
      BY <1>0, LenProperties
    <3>3. \A i \in 2 .. n : i \in 1 .. n /\ i - 1 \in 1 .. n
      OBVIOUS
    <3>4. \A i \in 2 .. n : old[i].type = "jpeg" => old[i].late = old[i - 1].late
      BY <2>2, <3>1, <3>2, <3>3 DEF Paired
    <3> QED BY <2>2, <2>5, <3>1, <3>2, <3>4 DEF Paired
  <2>9. ClientInv(c)'
    BY <2>1, <2>2, <2>5, <2>7, <2>8 DEF ClientInv, Seeding
  <2> QED BY <2>4, <2>9
<1> QED BY <1>1, <1>2, <1>3, <1>4

LEMMA ClientStep ==
  ASSUME ClientOK, handler \in [Clients -> Handlers], \A c \in Clients : ClientInv(c), [WorldNext]_worldVars
  PROVE  ClientOK' /\ \A c \in Clients : ClientInv(c)'
<1>1. ASSUME NEW c \in Clients, Accept(c) \/ Session(c) \/ Disconnected(c)
      PROVE  ClientOK' /\ \A d \in Clients : ClientInv(d)'
  BY <1>1, ModelSessionStep, Others
<1>2. ASSUME NEW c \in Clients,
             Connect(c) \/ GiveUp(c) \/ Close(c) \/ \E op \in {"step", "seed"} : Ask(c, op)
      PROVE  ClientOK' /\ \A d \in Clients : ClientInv(d)'
  BY <1>2, ConnectionStep, Others
<1>3. ASSUME NEW c \in Clients, Connected(c) \/ ReadTelemetry(c) \/ Read(c)
      PROVE  ClientOK' /\ \A d \in Clients : ClientInv(d)'
  BY <1>3, TakeStep, Others
<1>4. CASE ReloadAsked \/ Reloads \/ UNCHANGED worldVars
  <2>1. UNCHANGED <<handler, client, told, inbox, behind>>
    BY <1>4 DEF ReloadAsked, Reloads, ReloadLoads, ReloadLists, ReloadInvalidates, worldVars,
       sessionVars, connVars
  <2> QED BY <2>1 DEF ClientOK, InboxOK, ClientInv, InStep, Paired, Fresh, Seeding
<1> QED BY <1>1, <1>2, <1>3, <1>4 DEF WorldNext

-----------------------------------------------------------------------------
(* Theorems                                                                *)

LEMMA WorldTypeParts == WorldTypeOK <=> ServerOK /\ ClientOK /\ LockOK
BY DEF WorldTypeOK, ServerOK, ClientOK, Handlers

WorldInv == ServerOK /\ ClientOK /\ LockOK /\ LineInv /\ StateInv /\ \A c \in Clients : ClientInv(c)

LEMMA WorldInitHolds == WorldInit => WorldInv
<1> SUFFICES ASSUME WorldInit PROVE WorldInv
  OBVIOUS
<1> USE WorldModelAssumption DEF WorldInit
<1>1. \A S : <<>> \in Seq(S) /\ Len(<<>>) = 0
  BY EmptySeq
<1>2. ServerOK
  BY DEF ServerOK, Handlers
<1>3. ClientOK
  BY <1>1 DEF ClientOK, InboxOK
<1>4. 1 .. Len(lock) = {} /\ \A c \in Clients : 1 .. Len(inbox[c]) = {} /\ 2 .. Len(inbox[c]) = {}
  BY <1>1
<1>5. LockOK /\ LineInv
  BY <1>1, <1>4 DEF LockOK, LineInv, InLine
<1>6. StateInv
  BY DEF StateInv, Seeding
<1>7. \A c \in Clients : ClientInv(c)
  BY <1>4 DEF ClientInv, InStep, Paired, Fresh, Seeding
<1> QED BY <1>2, <1>3, <1>5, <1>6, <1>7 DEF WorldInv

LEMMA WorldNextKeeps == WorldInv /\ [WorldNext]_worldVars => WorldInv'
<1> SUFFICES ASSUME WorldInv, [WorldNext]_worldVars PROVE WorldInv'
  OBVIOUS
<1>1. LockOK' /\ LineInv'
  BY LineStep, WorldTypeParts DEF WorldInv
<1>2. ServerOK' /\ StateInv'
  BY StateStep DEF WorldInv
<1>3. ClientOK' /\ \A c \in Clients : ClientInv(c)'
  BY ClientStep DEF WorldInv, ServerOK
<1> QED BY <1>1, <1>2, <1>3 DEF WorldInv

LEMMA WorldInvariant == WorldSpec => []WorldInv
BY WorldInitHolds, WorldNextKeeps, PTL DEF WorldSpec

\* Every variable keeps its type: nobody stands in line for the device twice, and
\* no connection holds more than what a client may leave unread and one answer.
THEOREM WorldModelTypeOK == WorldSpec => []WorldTypeOK
BY WorldInvariant, WorldTypeParts, PTL DEF WorldInv

\* For any number of sessions and models: as long as no session is opened beside a
\* hot reload, a step runs the loaded model on a rollout state that model made, or
\* on none.
THEOREM StatesBelongToTheModel == WorldSpec => []StepsOnItsModel
<1>1. WorldInv => StepsOnItsModel
  <2> SUFFICES ASSUME WorldInv, NEW c \in Clients, Holds(c), ~overlap
               PROVE  state[c] \in {model, NoState}
    BY DEF StepsOnItsModel
  <2>1. ~Holds(Reloader)
    BY WorldModelAssumption DEF Holds
  <2>2. ~Stale(c)
    BY <2>1 DEF WorldInv, LineInv, Stale
  <2> QED BY <2>2 DEF WorldInv, StateInv
<1> QED BY <1>1, WorldInvariant, PTL

\* For any number of clients and any number of unread replies: no step returns the
\* telemetry of one request with the image of another, however many reads were given
\* up on the connection; and a client that gave none up finds only answers to its
\* last request.
THEOREM AnswersAreToTheLastRequest == WorldSpec => []AnswersInStep
<1>1. WorldInv => AnswersInStep
  <2> SUFFICES ASSUME WorldInv, NEW c \in Clients
               PROVE  /\ client[c] = "jpeg" /\ inbox[c] # <<>> /\ Head(inbox[c]).type = "jpeg" =>
                           Head(inbox[c]).late = told[c]
                      /\ ~behind[c] => \A i \in DOMAIN inbox[c] : inbox[c][i].late = 0
    BY DEF AnswersInStep
  <2>1. inbox[c] \in Seq(ReplyFrames) /\ ClientInv(c)
    BY DEF WorldInv, ClientOK, InboxOK
  <2>2. DOMAIN inbox[c] = 1 .. Len(inbox[c]) /\ (inbox[c] # <<>> => Head(inbox[c]) = inbox[c][1])
    BY <2>1, LenProperties, HeadTailProperties
  <2> QED BY <2>1, <2>2 DEF ClientInv, InStep, Fresh, Paired
<1> QED BY <1>1, WorldInvariant, PTL

=============================================================================
