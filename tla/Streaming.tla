------------------------------ MODULE Streaming ------------------------------
(***************************************************************************)
(* nxwm-mira's latent world model at work: the training forward, the       *)
(* autoregressive evaluation (inference), and the two browser clients of   *)
(* play.py, one showing codec round trips of a recorded episode, one       *)
(* driving the model with live actions through a kv-cache that is rolled   *)
(* one latent per step. The handlers of the page are threads of a pool:    *)
(* the client's lock makes each of them atomic, except the reload of the   *)
(* world model, which releases it between its two halves.                  *)
(*                                                                         *)
(* A latent is its number in the stream, an action the number of the frame *)
(* it was applied at; actions and video share a frame rate, so a latent    *)
(* has as many actions as frames. use_clean_past is on. An action token is *)
(* the set of the actions pooled in it, {} for the initial-action token.   *)
(***************************************************************************)
EXTENDS Naturals, Integers, Sequences, FiniteSets

CONSTANTS
  Sessions,       \* what runs: "train", "evaluate", "codec", "play"
  Strides,        \* frames per latent (temporal_downsampling)
  PlayStrides,    \* those the live session is looked at with
  ContextFrames,  \* the n_context_frames asked for
  Timesteps,      \* frames of a training window (video.timesteps)
  ExtraFrames,    \* viz.extra_rollout_frames: clips are longer by these
  Registers,      \* n_register_tokens
  HistoryCap,     \* 4096 actions are kept
  CodecWindow,    \* frames of a codec window
  EpisodeFrames,  \* frames of the recorded episode
  Rewind,         \* 200: how far a reload walks back
  Weights,        \* checkpoints that can be loaded
  Replicas,       \* ranks of the training, the first of them 0
  Tabs,           \* pages that may ask for a reload
  MaxSteps,       \* bound: network steps of a session
  MaxSeeds        \* bound: reseeds and reloads of a session

ASSUME StreamingAssumption ==
  /\ Strides \subseteq Nat \ {0} /\ PlayStrides \subseteq Strides
  /\ ContextFrames \subseteq Nat /\ Timesteps \in Nat /\ ExtraFrames \in Nat
  /\ \A d \in Strides : Timesteps % d = 0 /\ ExtraFrames % d = 0
  /\ Registers \in Nat /\ HistoryCap \in Nat /\ HistoryCap >= 2 * Timesteps
  /\ CodecWindow \in Nat /\ EpisodeFrames \in Nat /\ Rewind \in Nat
  /\ EpisodeFrames > CodecWindow /\ EpisodeFrames > Timesteps + 1
  /\ 0 \in Replicas

VARIABLES
  session,    \* [kind, stride, context, psd]
  weights,    \* the checkpoint in self.wm / self.codec
  window,     \* self._z: the latents in sight, each with the weights it is of
  cache,      \* the kv-cache after its registers; <<>> stands for None
  history,    \* self._actions_history
  views,      \* what the network saw for the latents of the last step
  buffer,     \* decoded frames ready to serve
  shown,      \* the last frame served since the stream was seeded
  cursor,     \* position in the recorded episode
  reloading,  \* tabs whose reload has swapped the weights, not seeded yet
  sown,       \* what is in sight: "fresh", from before the weights were
              \* "swapped", or for good as their reseed has "failed"
  passes,     \* network passes of a rank in this training step
  made, seeds \* bounds

streamingVars == <<session, weights, window, cache, history, views, buffer,
                   shown, cursor, reloading, sown, passes, made, seeds>>

Bos == -1
Stride == session.stride
Latent(n, w) == [latent |-> n, weights |-> w]
Recorded(n) == [i \in 1..n |-> i - 1]

\* encode_video() of n frames, decode_to_video() of one latent.
EncodeVideo(n) == [i \in 1..n \div Stride |-> Latent(i - 1, weights)]
DecodeToVideo(z) == [i \in 1..Stride |-> z.latent * Stride + i - 1]

\* set_inference_context(): whole latents, and room for one more.
Settable(d) == {n \in ContextFrames : n % d = 0 /\ n >= 1 /\ n < Timesteps}

ClipFrames == Timesteps + ExtraFrames
ContextLatents == session.context \div Stride

\* One session of the configurations that load: PSD matters in training only.
Configured ==
  UNION {{[kind |-> k, stride |-> d, context |-> n, psd |-> p] :
            n \in Settable(d),
            p \in IF k = "train" THEN {"off", "weighted", "stochastic"} ELSE {"off"}} :
         k \in Sessions, d \in Strides}
\* Of those a kind of session runs with.
Shapes(kind) ==
  {s \in Configured : s.kind = kind /\ (kind = "play" => s.stride \in PlayStrides)}

-----------------------------------------------------------------------------
(* Actions.                                                                *)

\* slice_time(first, last) of the actions, bounds as in Python.
SliceTime(actions, first, last) == SubSeq(actions, first + 1, last)

Off == Stride - 1

\* forward(): the window of n_action_steps that starts one before a latent.
TrainingActions(actions) ==
  LET steps == (Timesteps \div Stride - 1) * Stride
  IN SliceTime(actions, Off, steps + Off)

\* inference(): the same window, for the latents from `start`.
EvaluationActions(actions, start) ==
  SliceTime(actions, start * Stride + Off,
            (start + ContextLatents) * Stride + Off)

\* Fault: "a naive one action per latent slice".
LiveActionsNaive(actions, n) ==
  SliceTime(actions, Len(actions) - (n - 1) * Stride, Len(actions))
\* streaming_inference_step(): the window counted from the newest action.
LiveActions(actions, n) ==
  SliceTime(actions, Len(actions) - (n - 1) * Stride - Off, Len(actions) - Off)

\* ActionEncoder: one token per latent, the learned initial token first.
ActionTokens(actions) ==
  <<{}>> \o [i \in 1..Len(actions) \div Stride |->
               {actions[j] : j \in (i - 1) * Stride + 1..i * Stride}]

-----------------------------------------------------------------------------
(* The network.                                                            *)

\* The tokens of consecutive latents; the past of the first is `past`.
Tokens(latents, actions, past) ==
  [i \in 1..Len(latents) |->
     [latent |-> latents[i].latent, weights |-> latents[i].weights,
      actions |-> actions[i],
      past |-> IF i = 1 THEN past ELSE latents[i - 1].latent]]

\* Causal temporal attention: a token sees the cached ones, those before it
\* and itself, at the positions they have in that order (the cache holds keys
\* before their rotation).
Attended(tokens, cached, i) == cached \o SubSeq(tokens, 1, i)

\* The transformer: register tokens go first, in the sequence or in the cache.
Views(tokens, cached) ==
  {[seen |-> Attended(tokens, cached, i),
    position |-> Registers + Len(cached) + i - 1] : i \in 1..Len(tokens)}

\* denoise_streaming(): the context is cached by its first call; the last
\* latent is integrated from noise against the cache, then a pass over it
\* (the last integration step, or one more at noise_level) yields its entry.
Context0(latents, actions, cached) ==
  IF cached # <<>> THEN cached
  ELSE Tokens(SubSeq(latents, 1, Len(latents) - 1), actions, Bos)
Denoised(latents, actions) ==
  LET n == Len(latents)
  IN Tokens(<<latents[n]>>, <<actions[Len(actions)]>>, latents[n - 1].latent)

\* The registers stay, the oldest latent leaves, the newest is appended.
Roll(cached, tokens) == Tail(cached) \o tokens

\* The effect of one call on the cache and on what was seen.
Denoise(latents, actions, cached) ==
  LET old == Context0(latents, actions, cached)
      new == Denoised(latents, actions)
  IN /\ views' = Views(new, old)
     /\ cache' = Roll(old, new)

-----------------------------------------------------------------------------
(* Training and evaluation.                                                *)

\* forward(): every latent of the clip at once.
ForwardClip ==
  LET tokens == Tokens(EncodeVideo(Timesteps),
                       ActionTokens(TrainingActions(Recorded(ClipFrames))), Bos)
  IN views' = Views(tokens, <<>>)

\* _compute_psdm_loss(): the student's hop from s to t, the teacher's two.
Hops == {"s to t", "s to u", "u to t"}

\* diffusion_loss(): the passes of a rank; the self-distillation is always
\* done, never, or as rank 0's broadcast coin says.
Passes(coin) ==
  [r \in Replicas |->
     IF session.psd = "weighted" \/ (session.psd = "stochastic" /\ coin[0])
     THEN {"diagonal"} \union Hops ELSE {"diagonal"}]

TrainStep ==
  /\ session.kind = "train" /\ made < MaxSteps /\ \A r \in Replicas : passes[r] = {}
  /\ ForwardClip
  /\ \E coin \in [Replicas -> BOOLEAN] : passes' = Passes(coin)
  /\ made' = made + 1
  /\ UNCHANGED <<session, weights, window, cache, history, buffer, shown, cursor,
                 reloading, sown, seeds>>

\* backward(): the gradients of every pass are reduced over the ranks.
ReduceGradients ==
  /\ session.kind = "train"
  /\ \A r \in Replicas : passes[r] # {} /\ passes[r] = passes[0]
  /\ passes' = [r \in Replicas |-> {}]
  /\ UNCHANGED <<session, weights, window, cache, history, views, buffer, shown,
                 cursor, reloading, sown, made, seeds>>

\* inference(): one latent past the window, the window one further each time.
Evaluate ==
  /\ session.kind = "evaluate" /\ made + ContextLatents < ClipFrames \div Stride
  /\ LET latents == [i \in 1..ContextLatents + 1 |-> Latent(made + i - 1, weights)]
         actions == ActionTokens(EvaluationActions(Recorded(ClipFrames), made))
     IN Denoise(latents, actions, cache)
  /\ made' = made + 1
  /\ UNCHANGED <<session, weights, window, history, buffer, shown, cursor, reloading,
                 sown, passes, seeds>>

-----------------------------------------------------------------------------
(* The play clients.                                                       *)

\* Frames that JPEG encoding lost are missing; pop(0) of nothing raises.
ServeFrom(frames) ==
  IF frames = <<>> THEN buffer' = <<>> /\ UNCHANGED shown
  ELSE buffer' = Tail(frames) /\ shown' = Head(frames)

\* _jpeg_frames(): those of the frames that could be encoded, in their order.
Picks(n, among) ==
  {pick \in [1..n -> 1..among] : \A i \in 2..n : pick[i - 1] < pick[i]}
JpegFrames(frames) ==
  UNION {{[i \in 1..n |-> frames[pick[i]]] : pick \in Picks(n, Len(frames))} :
         n \in 0..Len(frames)}

\* CodecPlayClient._advance(): the next codec window, round to the start.
Advance ==
  LET from == IF cursor + CodecWindow >= EpisodeFrames THEN 0 ELSE cursor
  IN /\ cursor' = from + CodecWindow
     /\ \E frames \in JpegFrames([i \in 1..CodecWindow |-> from + i - 1]) :
          IF frames = <<>> THEN buffer' = <<>> /\ shown' = from - 1
          ELSE ServeFrom(frames)

\* A /api/step with frames in the buffer.
ServeBuffered ==
  /\ session.kind \in {"codec", "play"} /\ buffer # <<>>
  /\ ServeFrom(buffer)
  /\ UNCHANGED <<session, weights, window, cache, history, views, cursor, reloading,
                 sown, passes, made, seeds>>

\* CodecPlayClient.step_with_telemetry() on an empty buffer.
CodecStep ==
  /\ session.kind = "codec" /\ buffer = <<>> /\ made < MaxSteps
  /\ Advance
  /\ made' = made + 1
  /\ UNCHANGED <<session, weights, window, cache, history, views, reloading, sown,
                 passes, seeds>>

\* _latent_step(): the held control is appended once per frame of the latent.
Held ==
  LET next == history[Len(history)] + 1
      all == history \o [i \in 1..Stride |-> next + i - 1]
  IN SubSeq(all, IF Len(all) > HistoryCap THEN Len(all) - HistoryCap + 1 ELSE 1,
            Len(all))

\* streaming_inference_step(): the oldest latent makes room for noise.
Slid == Append(Tail(window), Latent(window[Len(window)].latent + 1, weights))

\* A /api/step on an empty buffer: one latent is made and decoded. Without
\* context (one latent in sight) the call raises, the action is kept.
LatentStep ==
  /\ session.kind = "play" /\ buffer = <<>> /\ made < MaxSteps /\ sown = "fresh"
  /\ made' = made + 1
  /\ history' = Held
  /\ \/ /\ Len(window) > 1
        /\ Denoise(Slid, ActionTokens(LiveActions(history', Len(window))), cache)
        /\ window' = Slid
        /\ \E frames \in JpegFrames(DecodeToVideo(Slid[Len(Slid)])) :
             ServeFrom(frames)
     \/ /\ Len(window) = 1
        /\ UNCHANGED <<views, cache, window, buffer, shown>>
  /\ UNCHANGED <<session, weights, cursor, reloading, sown, passes, seeds>>

\* The same with a context that is not of the checkpoint: a call that fits
\* its shape goes on from it, another raises. Which actions it pools is not
\* followed.
StaleStep ==
  LET unknown == [i \in 1..Len(window) |-> {}]
  IN /\ session.kind = "play" /\ buffer = <<>> /\ made < MaxSteps /\ sown # "fresh"
     /\ made' = made + 1 /\ history' = Held /\ views' = {}
     /\ \/ /\ Len(window) > 1
           /\ cache' = Roll(Context0(Slid, unknown, cache), Denoised(Slid, unknown))
           /\ window' = Slid
           /\ \E frames \in JpegFrames(DecodeToVideo(Slid[Len(Slid)])) :
                ServeFrom(frames)
        \/ UNCHANGED <<cache, window, buffer, shown>>
     /\ UNCHANGED <<session, weights, cursor, reloading, sown, passes, seeds>>

\* WorldModelPlayClient.reseed(): encode the context, forget the cache.
SeedFrom(start) ==
  LET from == IF start + session.context + 1 > EpisodeFrames
              THEN EpisodeFrames - session.context - 1 ELSE start
  IN /\ window' = EncodeVideo(session.context)
     /\ history' = Recorded(session.context)
     /\ cache' = <<>> /\ buffer' = <<>> /\ shown' = -1
     /\ cursor' = from + session.context /\ sown' = "fresh"

ReseedModel ==
  /\ session.kind = "play" /\ seeds < MaxSeeds
  /\ \E start \in {0, EpisodeFrames} : SeedFrom(start)
  /\ seeds' = seeds + 1
  /\ UNCHANGED <<session, weights, views, reloading, passes, made>>

\* CodecPlayClient.reseed() and reload(): neither shows an old frame again.
CodecReseed ==
  /\ session.kind = "codec" /\ seeds < MaxSeeds
  /\ \E start \in {0, EpisodeFrames} :
       cursor' = IF start > EpisodeFrames - CodecWindow
                 THEN EpisodeFrames - CodecWindow ELSE start
  /\ buffer' = <<>> /\ shown' = -1 /\ seeds' = seeds + 1
  /\ UNCHANGED <<session, weights, window, cache, history, views, reloading, sown,
                 passes, made>>

\* load_from_checkpoint() of a path that resolves to some checkpoint.
LoadFromCheckpoint == weights' \in Weights

CodecReload ==
  /\ session.kind = "codec" /\ seeds < MaxSeeds
  /\ LoadFromCheckpoint
  /\ buffer' = <<>> /\ seeds' = seeds + 1
  /\ UNCHANGED <<session, window, cache, history, views, shown, cursor, reloading,
                 sown, passes, made>>

\* WorldModelPlayClient.reload(): the weights under the lock, of a model with
\* a context and a stride of its own, ...
Reload(tab) ==
  /\ session.kind = "play" /\ seeds < MaxSeeds /\ tab \notin reloading
  /\ LoadFromCheckpoint /\ session' \in Shapes("play")
  /\ reloading' = reloading \union {tab} /\ seeds' = seeds + 1
  /\ sown' = "swapped" /\ views' = {}
  /\ UNCHANGED <<window, cache, history, buffer, shown, cursor, passes, made>>

\* ... the context after it was released; decoding and encoding may raise
\* before any of it is assigned.
ReloadSeeds(tab) ==
  /\ tab \in reloading
  /\ SeedFrom(IF cursor > Rewind THEN cursor - Rewind ELSE 0)
  /\ reloading' = reloading \ {tab}
  /\ UNCHANGED <<session, weights, views, passes, made, seeds>>
ReseedRaises(tab) ==
  /\ tab \in reloading
  /\ reloading' = reloading \ {tab}
  /\ sown' = IF sown = "swapped" THEN "failed" ELSE sown
  /\ UNCHANGED <<session, weights, window, cache, history, views, buffer, shown, cursor,
                 passes, made, seeds>>

-----------------------------------------------------------------------------

StreamingInit ==
  /\ \E kind \in Sessions : session \in Shapes(kind)
  /\ weights \in Weights
  /\ window = EncodeVideo(session.context)
  /\ history = Recorded(session.context)
  /\ cache = <<>> /\ views = {} /\ buffer = <<>> /\ shown = -1
  /\ cursor = IF session.kind = "play" THEN session.context ELSE 0
  /\ reloading = {} /\ sown = "fresh" /\ passes = [r \in Replicas |-> {}]
  /\ made = 0 /\ seeds = 0

StreamingNext ==
  \/ TrainStep \/ ReduceGradients \/ Evaluate
  \/ ServeBuffered \/ CodecStep \/ CodecReseed \/ CodecReload
  \/ LatentStep \/ StaleStep \/ ReseedModel
  \/ \E tab \in Tabs : Reload(tab) \/ ReloadSeeds(tab) \/ ReseedRaises(tab)

StreamingDone ==
  CASE session.kind = "train" -> made = MaxSteps /\ passes[0] = {}
    [] session.kind = "evaluate" -> made + ContextLatents = ClipFrames \div Stride
    [] session.kind \in {"codec", "play"} -> made = MaxSteps /\ reloading = {}

StreamingTypeOK ==
  /\ session \in Configured /\ weights \in Weights
  /\ buffer \in Seq(Nat) /\ shown \in Nat \union {-1} /\ cursor \in Nat
  /\ reloading \subseteq Tabs /\ sown \in {"fresh", "swapped", "failed"}
  /\ passes \in [Replicas -> SUBSET ({"diagonal"} \union Hops)]

-----------------------------------------------------------------------------

\* "The actions that generated z_k are a_{td*k-1} .. a_{td*k+td-2}."
Controls(k) == Stride * k - 1..Stride * k + Stride - 2

\* Consecutive latents, each with the actions that led to it and the latent
\* before it; the first may have the initial-action token and bos instead.
AsTrained(tokens) ==
  \A i \in 1..Len(tokens) :
    LET token == tokens[i]
    IN /\ token.latent = tokens[1].latent + i - 1
       /\ token.actions = Controls(token.latent) \/ (i = 1 /\ token.actions = {})
       /\ token.past = token.latent - 1 \/ (i = 1 /\ token.past = Bos)

\* Whatever computes a latent, the network sees what it was trained on:
\* consecutive latents ending in the one it predicts, each with the actions
\* that led to it and the latent before it (the first of a window has the
\* initial-action token and bos instead), at positions of a training window.
\* The seams are the rolled kv-cache, the action offset counted from either
\* end of the history, and the reseed that must drop every trace of the old
\* context (latent_world_model.py:468, play.py:330). Nothing is said of what
\* a step makes of a context that is not of its checkpoint.
ConditionedAsTrained ==
  \A v \in views :
    /\ v.position = Registers + Len(v.seen) - 1
    /\ Len(v.seen) <= Timesteps \div Stride
    /\ AsTrained(v.seen)

\* The frames waiting to be served follow the one on the screen, in order and
\* without repetition, across refills, lost frames, reseeds and reloads.
FramesInOrder ==
  sown = "fresh" =>
    \A i \in 1..Len(buffer) : buffer[i] > IF i = 1 THEN shown ELSE buffer[i - 1]

\* A reload that is over has seeded, unless its reseed raised, and whatever
\* other tabs load in between, what was seeded then is of one checkpoint.
FreshAfterReload ==
  session.kind = "play" =>
    /\ reloading = {} => sown # "swapped"
    /\ sown = "fresh" =>
         /\ \A i \in 1..Len(window) : window[i].weights = weights
         /\ \A i \in 1..Len(cache) : cache[i].weights = weights

PlaysAsTrained == ConditionedAsTrained /\ FramesInOrder /\ FreshAfterReload
=============================================================================
