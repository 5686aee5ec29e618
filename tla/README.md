# A TLA+ verification of nxml

nxml records, plays and trains agents for a game console: a Bluetooth bridge
presses the buttons, a capture card shows the screen, and a set of daemons
connects them to people, policies and a dataset. This directory holds the models
of its concurrent parts, the TLC configurations that check them on small
instances and the TLAPS proofs of what matters most. Paths of the code are
relative to `src/`.

## The system

| component | state | operations | talks to |
|---|---|---|---|
| `apps/nxml-spool` | the pass (pending list, group), `journal.json`, `staging/` | scan, plan, pack, upload and verify, record, unlink; restarted by systemd | capture disk (files of the writers), dataset repository |
| `packages/nxml-capture`, `apps/nxml-collect` | newest frame, newest controller snapshot, the open episode | pair frame and action, append, close (video, parquet, manifest in that order) | orchestrator's state stream, disk |
| `packages/nx-macros` | player: stop event, thread, name; recorder: active, frames; store: one file per macro | `play`, `play_async`, `stop`; `start`, `append`, `stop`, `cancel` | posts frames to the orchestrator |
| `packages/nxml-mux` | web reader: vector, button latch, time stamp; evdev reader: vector, thread; strategies are pure | `push_action`, `latest`, `merge`; events | web handlers or the kernel write, the action loop reads |
| `apps/nxml-autopilot` | AI cache, switches, armed triggers, mash window, runner flags | action tick, trigger pass, web handlers, shutdown | all of the above, in five threads |
| `packages/nxbt-orchestrator` | controller state, override time, recording, subscribers | apply packet, update loop, toggle recording, stream | console (nxbt), HTTP/WebSocket clients |
| `packages/nxrl` serve | model, frame window; one REQ or REP socket per side | predict, reload, info | autopilot |
| `packages/nxwm` serve | sessions (context, frame), model, pool | reset, step, reload over HTTP/WebSocket/ZMQ | browser UI, remote environments |
| `packages/nxrl`, `packages/nxwm` training | ranks, run directory, best scores | turns, collectives, checkpoints, resumption | disk |
| `packages/nxwm` architectures and loops | history of latents, actions, goal, noise | predict a frame, slide | policies, servers, evaluation |
| `packages/nxwm-mira` | checkpoint directories; rolling cache and action history of a session | save, retain, resume; step, re-seed, reload | disk, browser pages |
| `packages/nxml-games` | counters, latches and histories of the reward | reward per frame | rollouts of nxrl |
| `nx-packets`, `nxml-core`, configs, pages | none that persists between steps | conversion, files | |

What makes the parts correct, and what is hard about them:

* **Spool.** Nothing captured may be lost, nothing shipped twice, and the journal
  may not lie, wherever the process dies between pack, upload, journal and
  unlink, while recorders keep closing episodes.
* **Player.** One playback at a time and a stop that works, although `stop()`
  waits without the lock, gives up after two seconds and one event serves all
  playbacks.
* **Input.** Taps shorter than a tick must arrive, the AI must not overrule the
  human, a silent page must let go; handlers, the inference thread and the tick
  run concurrently.
* **Arbitration.** Mash, macro and merged actions compete for one console; the
  watcher works on snapshots; the mash window has no lock; shutdown has an order.
* **Orchestrator.** The override window is checked before the lock is taken; the
  recording is toggled beside the update loop; slow clients have bounded queues.
* **Capture and collect.** Pairing uses the newest action, reconnects lose
  snapshots, and the stop flag is only read after a frame.
* **Servers.** Timeouts against late answers, reloads against running requests.
* **Gamepads.** The kernel's queue overflows; mapper files extend each other.
* **Training.** Ranks meet in collectives that some calls contain and others do not;
  a kill comes between the files of a checkpoint, or inside one; weights are swapped
  for their average and back; rewards keep counters that must not reach the next
  rollout.
* **World models.** A dozen loops feed a model its own predictions; each must pair
  frames, actions, goals and noise the way training did.

`PROJECT.json` lists every component with its status, and every hazard with its
line and the properties that watch it.

## Modules

| module | models | role |
|---|---|---|
| `EpisodeShipping` | what the spooler promises: capture, ship a set at once, discard only what is durable | abstract specification |
| `Spool` | `run_spooler`, discovery, planning, journal, writers beside it, crashes | detailed specification |
| `EpisodeIds` | `_episode_id` | pure operator |
| `Spool_proofs` | inductive invariants and theorems of `Spool` | proofs |
| `MacroPlayer` | the player, its callers and its threads | detailed specification, reused by `Autopilot` |
| `Strategies` | `HumanPriority.merge`, `HumanTakeover.merge` | pure operators |
| `HumanInput` | web reader, AI cache, switches, the tick's reads, merge, post and tape | detailed specification |
| `HumanInput_proofs` | theorems of `HumanInput` and `DeviceInput` | proofs |
| `Devices` | mapper files and their choice, the kernel's event queue, the evdev reader thread | component, instantiated by `DeviceInput` |
| `DeviceInput` | the action loop of `HumanInput` with either human source, and the packet of nx-packets | composition |
| `Autopilot` | action loop, trigger watcher, mash window, handlers, shutdown, composed with `MacroPlayer` | composition |
| `Autopilot_proofs` | theorems of `MacroPlayer` and of `Autopilot` | proofs |
| `Orchestrator` | packets and their override window, update loop, recording toggle, state stream | detailed specification |
| `Orchestrator_proofs` | theorems of `Orchestrator` | proofs |
| `Capture` | the V4L2 thread with its queue, the state-stream subscription, pairing | component of `Collect` |
| `Collect` | `run_recorder`: loop, ways out, the files of an episode and its manifest | composition |
| `Collect_proofs` | theorems of `Capture` and `Collect` | proofs |
| `Policy` | nxrl's server and clients, the autopilot's inference thread | component of `Serving` |
| `Serving` | a session of the autopilot with its policy and its episode recording | composition |
| `WorldModel` | nxwm's sessions, device lock and reload, and the remote environment | detailed specification |
| `Servers_proofs` | theorems of `Policy` and `Serving`, and of `WorldModel` | proofs |
| `Rewards` | the composite reward over a rollout and the closure around it | component of `Training` |
| `Trainers` | the spawned launchers of nxrl and nxwm: ranks, collectives, turns, files, kills | component of `Training` |
| `ResumableRun` | what nxwm-mira promises of a training run that is killed and submitted again | abstract specification |
| `Checkpoints` | nxwm-mira's training run: launch modes, loop, EMA swap, atomic saves, retention, kills | component of `Training` |
| `Imagination` | what each loop around nxwm's models asks a frame to be predicted from | component of `Training` |
| `Streaming` | what each path through nxwm-mira's world model conditions on, and the sessions of `play.py` | component of `Training` |
| `Training` | one command of the learning tools: it decides which of the five moves | composition |
| `Rewards_proofs` | theorems of `Rewards` as a component of `Training` | proofs |
| `Training_proofs` | theorems of the other components of `Training`, and its types | proofs |
| `MC*` | instances for TLC | |

Some modules also define *fault* operators, commented `Fault:`. No action uses
them. They are variants of an action with a plausible mistake; replacing the
action by the variant makes TLC report the property they are paired with in
`PROJECT.json` ("mutants"), which shows that the property depends on the code.

### Spool

`stage`, `files` and `mtime` are the capture disk: an episode is opened, its
video closed and its parquet written, then its manifest; after that two clocks
run (`settle_seconds`, `flush_partial_after_s`). `pc` is the line of
`run_spooler` the process has reached: `scan` (top of the loop), `plan` (the
`for` over the groups), `packed`, `tarUp`, `metaUp`, `recorded`, `deleting`.
`queue` is the part of the pending list no group holds yet, so the groups of
`plan_shards` are taken off one at a time; `group` is the one being shipped.
`flags` is the command line of the process (`--once`, `--no-delete`), chosen at
each start. `Crash` is possible at every `pc`; `VerifyFails` leaves a remote file
of the wrong size and kills the process with the exception. `remote` and `meta`
are the repository: an upload replaces what is there. A tar is the set of
episodes that can be read from it.

The refinement mapping into `EpisodeShipping` is
`local` = episodes with all three files, `dataset` = contents of the shards the
journal has recorded. One `RecordShard` is one `Ship`; the first unlink of an
episode is its `Discard`; everything else stutters.

### MacroPlayer

Each critical section of the player is one step, so `stop()` is four: set the
event, read `_thread`, wait (join or give up), forget. A playback thread is at
`top` (the loop test), `frame` (the wait before a frame), `post` or `end` (the
`finally` block). `Blocking` callers use `play`. `SlowPoster` says whether a
post may outlast the two-second join; without it a join only gives up on a
thread that does not see the event set.

### HumanInput

Button values and stick deflections are integers in tenths. `PushAction` cleans
the sticks, latches the presses and replaces the vector. A tick is four steps,
`ReadHuman`, `ReadAi`, `Post`, `Tape`, and everything else happens between any
two of them. A POST may fail, which the loop prints and forgets (`sent` says
whether this tick's action arrived). The history variables `owed`, `due` and
`late` record what the page pushed and what the loop owes it. A tick on which a
mash or a macro drives the console reads nothing and is a stuttering step.

### Autopilot

Extends `MacroPlayer` with three callers: the web handlers, the watcher and the
main thread. The tick is `LoopMash` (with the two steps of `is_active`, which is
not locked), `LoopGate` (the `is_playing` test) and `LoopPostMerged`. A trigger
pass is `WatchTop` (snapshot), `WatchGates`, one of `WatchSame`, `WatchQuiet` or
`WatchFires` for the frame, the fire itself and `StartCooldown`. The verdict of
the detectors is an arbitrary set per frame (`Screens`), whether a match is as
old as the debounce time is an arbitrary choice, and a cooldown ends at an
arbitrary time. `armed` keeps the order of the dictionary; entries are objects,
so re-arming a name gives it a fresh entry while the pass may still hold the old
one. `Buttons` says which of the page's other functions are used.

### Devices and DeviceInput

A raw mapper file extends at most one other; `Registry` is what is left when a
later file takes an id over, `Pick` the choice of `_pick_device_and_mapper`. The
kernel's queue holds `QueueSize` events; one more replaces the queue by
`SYN_DROPPED` and the event, which the reader ignores and handles. `Handled` has
one case per kind of mapping. `heard` are the controls whose newest event was
queued and not lost since. Of the others the reader's picture can be wrong: it does
not ask where the controls stand when it opens the device, nor after an overflow, so
a release lost there leaves its button pressed until the button moves again.
`PadReachesConsole` is about the controls in `heard` and says nothing of the others. In `DeviceInput` the tick polls the gamepad
(`ReadPad`) where the page's tick takes a latched snapshot; the rest of the tick
is that of `HumanInput`.

### Orchestrator

Handlers and callbacks of the event loop exclude each other (`busy`), and
interleave with the update thread, whose iteration is `LoopBuild` (state and
recording flag under the lock), `LoopTape`, `LoopSend`, one `LoopNotify` per
subscriber and `LoopSleep`. A subscription is its scheduled callbacks (`pending`)
and its queue. `StartRecording`/`StopRecording` and `SaveRecording` take several
steps because they hold no lock. Frames are numbered up to `MaxFrames`; the
update thread then idles. `held` and `taken` are histories of what the human set
in this window and of what was built during this recording.

### Capture and Collect

The capture thread reads, puts, and on a full queue drops the oldest in a step of
its own. A frame is known by the age its action would have and by being the newest;
an arriving snapshot rejuvenates every waiting frame, as the pairing takes the
newest action. `Collect` is the recorder: `pc` names the calls from the page's
start to the stamp of the manifest, an exception keeps going through the `finally`
blocks in order (`raised`), `CloseRaises` fails in any of the steps of `close`, and
`Killed` ends the process anywhere. `video`, `table` and `manifest` are the files
`Spool` later looks for.

### Policy and Serving

`wire` holds the messages between a REQ and a REP socket; each knows whether it
belongs to the request the client is waiting for. A timeout leaves the socket
`stuck`: a REQ socket accepts no second request. The window is its length and its
limit; the thread keeps its own (`have`) for a client that sends latents. `Reload`
replaces the policy and, for frames, the window. The action loop of `Serving`
posts, then appends if a recording is active; `StartRecording` and `StopRecording`
may come between. A close that raises leaves the writer in place and closed.

### WorldModel

A session is a handler of the server (`handler`) and a client. `lock` is the queue
of the device lock, `reload` and `left` the steps of the hot reload: the lock, the
new model, the list of sessions, one invalidation after the other. An auto-seed
reads the model and stores its state in two steps, without the lock (`grabbed`).
A reply is a text and then a JPEG frame, sent in two steps (`Step`, `SendImage`).
Of a frame in a client's `inbox` its age is kept, the number of requests sent since
its own; `told` is the age of the telemetry a step has read. Either read of a `Hasty`
client may time out, and any frame it does not expect raises: the call is over, the
connection stays, and later answers arrive behind (`behind`).

### Trainers, Rewards, Checkpoints, Imagination, Streaming, Training

* `Trainers`: `at` is where each rank stands; `Exchange` is a collective that all
  ranks must reach. The main node alone judges a turn and writes the files `todo`,
  each first torn, then whole, while the others run ahead. A kill takes all ranks;
  a launch starts anew or resumes.
* `Rewards`: one step per predicted frame, the components in the order of the
  code; a frame shows a target, a place, an attack, a stick. One closure serves
  two rollouts, `seen` and `earned` are the history of the one under way, `alone` a
  shaper that was made for it. A seed may lack the frame `start_frame_idx` (`origin`
  is then `NoPlace`): `RewardFn` keeps the start latent it has, as the code does.
* `Checkpoints`: a directory is the set of its entries, removed one at a time. The
  weights carry the number of steps, the schedule and the average they come from,
  so what is saved and restored can be told apart. The refinement mapping into
  `ResumableRun` is `Durable` = the steps a new launch would begin with (those of the
  newest checkpoint when it resumes), `Trained` = the steps in memory, or `Durable` while
  the processes are down, and `over` = they have ended by themselves. The rename
  of a finished save is its `Save`; loading, swapping, retention and the other file
  operations stutter.
* `Imagination`: latents, actions and goals are known by the frame they stand
  for, with the scale applied, the noise in them and the predictions their gradient
  reaches. Every loop that drives a model is a caller: training, validation, the
  evaluation GIFs, PPO, its evaluation and debug rollouts, server sessions,
  `nxwm rollout`; and the windows behaviour cloning is trained on (`Clone`), with
  `align_starts` a chain of files (`Chained`: the end of one, the beginning of the
  next, wherever the cut is). A server has a history length and a goal offset of its
  own (`HistoryLengths`, `ServedOffset`), which nothing compares with the model's.
* `Streaming`: the same for nxwm-mira, where a latent covers several frames and
  actions, and the cache rolls. A step notes what the network saw (`views`). A
  reload may bring a model of another context and stride; it swaps the weights first
  (`Reload`) and re-seeds later (`ReloadSeeds`), or fails to (`ReseedRaises`). `sown`
  says whether the context is of the weights; a step while it is not is `StaleStep`.
* `Training` lets one command run at a time, as a shell does; the five share
  no state, so the run is the union of their behaviours.

## Runs

| run | question | result |
|---|---|---|
| `spool` | three recordings, a death anywhere or a failed verification, daemon or `--once --no-delete` | holds: `NoEpisodeLost`, `JournalHonest`, `RecordedShardsFrozen`, `EventuallyShipped`, refinement of `EpisodeShipping` (`ShippingSpec`) |
| `human_input` | page or gamepad, AI, switches, loop with POSTs that fail, recorder | holds: `NoTapLost`, `HumanNeverOverruled`, `AiOffPromptly`, `PadReachesConsole`, `PageSilenceReleases` |
| `human_tape` | what a macro recording holds | violated, see below: `TapeIsMerged` |
| `autopilot_duty` | loop, watcher, playback, shutdown, arming at any time; and the player alone, with one caller and prompt posts, or a `play_async` beside a `play` caller with slow ones | holds: `MacroDisplacesTick`, `OneScript`, `QuietAfterShutdown`, `ShutdownEnds`, `ScreenIsAnswered`, `StopWorks` (which contains `OnePlayback` for the one caller) |
| `autopilot_stop` | the stop button beside the watcher | violated, see below: `MacroDisplacesTick` |
| `orchestrator` | a human and an inference client, recording, a slow stream client, shutdown | holds: `HumanHolds`, `StreamInOrder`, `SavedFaithfully`, `ClientsKeepUp` |
| `collect` | a recording with a camera and an orchestrator that may go away, both writers, failures, signal and kill | holds: `EpisodeWhole`, `NewestFrameKept`, `AnnouncedIsFinal`, `StopEndsWhenFed` |
| `services` | every button of the autopilot's page | holds: `DisarmHolds` |
| | policy: late answers, reloads to another window length, restarts, recordings beside the loop | holds: `AnswersFit`, `EpisodeClosed`, `InferenceContinues` |
| | world model: two sessions, steps, seeds, a reload at any time, reads that time out | holds: `StepsOnItsModel`, `AnswersInStep`, `EveryRequestIsServed` |
| `training` | each command of the learning tools, killed and resumed | holds: `PaidByThisRollout`, `TurnsAreSound`, `LatestIsWhole`, `ResumesExactly`, `AskedAsTrained`, `PlaysAsTrained`, `TrainingFinishes`, refinement of `ResumableRun` (`ResumableSpec`) |
| `training_noise` | fa_dit's noise labels | violated, see below: `NoiseIsLabelled` |
| `training_escape` | where the escape bonus is paid | violated, see below: `EscapePaysForLeaving` |
| `training_served` | the goal and the scale a served model is asked with | violated, see below: `ServedAsTrained` |

`autopilot_duty`, `services` and `training` hold several instances that share no
state. In each behaviour one of them moves (`use`, `running`, `Programs`) and the
others keep an initial state, so a run is the union of its instances.

### Bounds

* Spool: three episodes of 4, 6 and 9 units with a shard of 10: two that share a
  shard exactly, one that fills 90 % alone, and (after a crash) every split
  between. `MaxShard = 2` gives each episode a shard of its own; `MaxCrashes = 1`
  lets any step be interrupted once. The theorems have no such bound.
* Player: a macro as the recorder writes it (first dt zero, then positive ones), one
  of a single frame and an empty one, two thread objects. A thread object nobody refers
  to is used again, so the number of playbacks is not bounded.
* HumanInput: two buttons and one stick; the page's vectors are at rest, with values
  below the thresholds, or press a button and the stick; an AI vector that disagrees
  with each in every dimension. Two
  gamepads, one with a key and a trigger, one with a hat, beside a keyboard and a
  device that does not open; a mapper file extends another and takes its id over.
  The kernel's queue holds two events, so it overflows. Any POST may fail.
* Autopilot: a trigger with a macro and one with a mash; two entry objects, used
  again when dropped, so a name can be re-armed during a pass. `mixed` saturates
  at 2, which is what the property distinguishes. The page's part of `services` has
  one trigger, because all buttons multiply the states; both kinds of fire are
  covered by `autopilot_duty`.
* Orchestrator: three frames, one client, a queue of one, so that a
  frame is dropped while another is pending; two button values and one stick.
* Collect: a queue of two, two frames per recording, ages up to one beyond the
  limit. The page goes with one writer and its absence with the other.
* Serving: two policies with window lengths 1 and 2, all three kinds of client.
* WorldModel: two clients, two models, at most one frame unread when a client asks
  again; one client is `Hasty` and may give up its reads, so that it stands beside one
  that does not.
* Training: two ranks, three turns, one kill, smoothing over two; seven reward
  mixes over rollouts of five frames, so that a lock, a loss and a second lock fit;
  eight steps of nxwm-mira with two deaths, a permanent checkpoint at four and one
  temporary one kept; episodes of eleven frames, an unroll of four with truncation
  at two and evaluation long enough to reach the end of the episode; a server with
  the trained history length and goal offset and with a longer history; context
  lengths that are and are not whole latents, strides 1 and 2 (live play at 2).

### Fairness

* Spool: weak fairness of the spooler as a whole (the service file restarts it on
  failure) and of the clocks. Writers owe nothing; crashes are bounded.
* Player: weak fairness of a running `stop()` and of each thread: the HTTP client
  that posts has a timeout. Nobody has to call anything.
* HumanInput: the tick, the staleness clock and the reader thread.
* Autopilot: the main thread, the watcher, the playback, the clocks. Strong
  fairness of a new frame being seen and of a lasting match becoming due: the
  watcher can miss a frame or come too early once, not at every pass, because the
  camera is faster than the watcher and the debounce time is finite.
  No screen has to appear; `ScreenIsAnswered` quantifies over triggers whose image
  every frame shows.
* Orchestrator: the update thread, saving once begun, removal; strong fairness of
  a client's callback and of its delivery, because they share the event loop with
  handlers that may run again and again. The console and the clients owe nothing.
* Collect: the recorder, the capture thread, the subscription. Camera and
  orchestrator owe nothing; `StopEndsWhenFed` assumes them in its premise.
* Serving: the loop, the inference thread (a request waits no longer than its
  timeout) and the server while it is up.
* WorldModel: a reload once begun, and each session's handler.
* Training: the running command. Kills are bounded.

`Exited` in `Autopilot` and `Orchestrator` is the stuttering of an ended process,
so that TLC's deadlock check stays on there; the other runs end where the program
does.

## Disagreements between code and documents

* `autopilot_stop`: the last section of `MacroPlayer.stop()` forgets a playback
  that began during its unlocked wait. `is_playing` is then false, and the loop
  posts merged actions between the frames of the macro, against
  `apps/nxml-autopilot/README.md` ("the AI/human mux yields").
* `training_noise`: `fa_dit/model.py` says that in training a label of 1 is noise.
  `fa_dit_flow_match_loss` labels its target the other way round, while the past
  frames beside it and the sampler follow the comment.
* `human_tape`: `apps/nxml-autopilot/README.md` says a recording "captures every
  merged 26-dim action", and `nx_macros/recorder.py` that it takes "the action that was
  just dispatched". The loop tapes the human's part of the tick, with zero in every
  dimension the human leaves to the AI.
* `training_escape`: `composite.py` says the escape reward "Pays `bonus` the first time
  the current latent diverges from the rollout start latent". `_frame_distance` returns
  a similarity for the cosine, and `_escape_reward` compares it as a distance: the bonus
  goes to a frame at the start place after an opening elsewhere. `EscapeEarned` in
  `PaidByThisRollout` is about when it is paid (once, after the grace period), not where.
* `training_served`: `eval_gif.py` says its goals match "what `nxwm rollout` produces",
  and `episode_seed.py` that latents are "pre-scaled to match the training-time
  convention". `EpisodeSeed` takes a goal one frame nearer than training and evaluation
  do, and multiplies what `nxwm encode` has already scaled by `LATENT_SCALE` once more.
  `AskedAsTrained` leaves the goal and the scale of sessions and of `nxwm rollout` out and
  holds them to the rest: the frames, the actions and the noise.

Noted while modelling, and not checked by a run:

* The spooler's README says a crash between pack and verify "re-packs into a
  fresh shard". The index only advances in `record_uploaded_shard`, so it re-packs
  under the same one. This is why `NoDuplicateEpisodes` holds even for shards the
  journal has not recorded, and the proof uses it.
* `OnePlayback` needs one caller and prompt posts. With a slow post `stop()`
  returns while the thread goes on, and the next `play_async` starts a second one;
  with two callers the race of `autopilot_stop` does the same.
* `is_active` can close a mash window the watcher has just opened, when the tick
  is suspended between its test and its assignment for a whole watcher pass.
* The page's play button looks at the player and not at the mash window, so a
  macro started by hand can overlap a mash; `OneScript` is stated for scripts the
  watcher starts. A handler that runs after the player's `stop()` of the shutdown
  can still start a playback.
* A POST of the action loop that fails is printed and forgotten, and the latch was
  cleared when the tick took its snapshot: its taps are lost (`NoTapLost` is about the
  ticks whose POST succeeds).
* A process that dies between the journal write and the last unlink leaves its
  episodes on disk, hidden by the journal from every later pass; the README of the
  spooler calls the disk "a sliding buffer". `episodes.py` calls ids "unique within
  the spool run", but they drop the watch root (`UniqueIds` is an assumption of the
  proofs that need it).
* A stale `latest()` returns before it clears the latch, so taps from before a
  silence are pressed when the page comes back. A match that began before a mash or
  a macro counts as continuous (`triggers.py` says "continuously").
* Gamepad: `evdev_reader.py` says that `latest()` exposes "the current state". The
  reader ignores `SYN_DROPPED` and never asks the device for its state, so a release that
  an overflow dropped leaves the button pressed, and what is held when the device is
  opened is not seen, until the control moves again. Unplugged, its last state stays
  pressed. There is no latch; of two controls on one button the last event wins; a child mapper
  without an id takes its parent's place in the registry; the mask begins at 0.5,
  the packet's button above it.
* Orchestrator: `/buttons` and `/stick` are not gated by the window for the
  inference source, though its README says inference is ignored; `PartSources` is
  the human alone.
* Recording: after a `close()` that raised, the writer stays set and the next append
  ends the action loop; two recordings of one second share a path. The stop flag of
  `nxml-collect` is read after a paired frame only (`recorder.py` says Ctrl-C closes
  cleanly), hence the premise of `StopEndsWhenFed`. The manifest is stamped in place.
* A REQ socket that timed out is never replaced, so inference is over. The remote
  environment keeps its connection after a timeout, or after a frame of the wrong type,
  and reads earlier answers from then on, further behind with every timeout; `http.py`
  says the order of the two frames lets "a naive client" do without any framing.
  `AnswersInStep` says what that order does achieve: the two frames a step returns
  belong together. An auto-seed runs without the device lock and can store a state of the old
  model behind the invalidation of a reload (`overlap` in `StepsOnItsModel`).
* Rewards: with a `start_frame_idx` the seed does not have, `factory.py` leaves the start
  latent of the rollout before in place, although its docstring says that on
  `info.step == 0` it "resets shaper state and pulls `start_latent`": escape and the first-lock gate of `unique_acquisition` then compare
  with another scene. The configs of the repository use 0. What `_frame_distance` returns
  for the cosine is a similarity, so the gates on movement and stagnation ("barely
  moved", `min_latent_move`) are inverted like escape. `locked_attack` and `stuck_turn`
  run before `target_ui`, although `composite.py` says that one "must run AFTER
  target_ui" and that the streak the other reads was updated "earlier in this same step".
  A deferred acquisition sees an unlocked count of zero.
* Trainers: `latest.pt` is written in place; best scores start over on resumption;
  PPO restores only the weights though it reports "full PPO state"; an empty
  validation set gives a loss of zero (world model) or nan (cloning); the main
  node's share alone is validated.
* Checkpoints: when the last step of the loop is one it saves at (three steps saved every
  two, as the smoke test of the repository configures it), the final save finds its
  directory there and removes it, file by file, before the rename. A process that dies in
  between leaves a partial directory, and it is the newest one, although
  `checkpoint_manager.py` says that a crash in mid-save never does. `LatestIsWhole` is
  checked and proved for the other intervals (`NoResave`); with `TotalSteps = 3` and
  `SaveEvery = 2` in `Training.cfg` TLC reports it.
* Checkpoints: a fine-tuning run that is killed and resubmitted starts over, and
  retention then removes what it has just written; data order and statistics do
  not resume "exactly".
* Cloning: with `align_starts` the dataset chains files in the order of their names
  until there are enough frames, although its docstring speaks of "consecutive episode
  parts": `part10` comes before `part2`, and the next recording after the last part. A
  cloned policy learns the action recorded with the last frame it sees, while the loops
  let its answer lead to the next one.
* Imagination: the server always runs with the default history length and goal offset
  (the command line passes neither), and nothing compares them with the model's; dit_v1 predicts a frame from the actions before it, so
  the reward of an action is that of a frame it did not influence; `fa_dit` cannot be
  served (the server calls it with dit_v1's signature); the last window of an
  episode is dropped.
* Streaming: the actions of a latent are the ones the comment names only at the
  stride the models use, two. `play.py` re-seeds after a reload "so the new model gets
  fresh context"; a step between the two, or after a re-seed that raised, runs the new
  weights on the old context (`StaleStep`). Each reload walks the episode back.

## Proofs

TLC checks the instances above. The theorems hold for every value of the constants
that satisfies the `ASSUME` of the modules they extend (`SpoolAssumption`,
`PlayerAssumption`, `HumanInputAssumption` and so on; each states the types and the
ranges the code itself insists on, and that what a config counts in frames is a
natural number). A theorem that needs more says so in its own
hypotheses, which are named below.

* **`Spool_proofs`.** An invariant such as `NoEpisodeLost` is not inductive: that a
  file may be unlinked depends on what the pass remembers. `DiskInv` adds what
  does: `FilesFollowStage` (the files of an unfinished episode are those its writer has
  produced), `PassInv` (what is queued or in flight is whole on disk and not durable,
  what is being deleted is durable, and after the upload the remote tar is the group)
  and `HubInv` (remote tars hold captured episodes, recorded ones only journaled ids).
  It needs no assumption on ids, so nothing is lost even when ids collide. `IdInv` adds,
  under `UniqueIds`, that what is queued, in flight or in a tar that is not recorded is
  not journaled, and that a recorded episode is journaled under its own shard; it gives
  `NoDuplicateEpisodes`, `SkippedMeansShipped` and `PackedFilesExist`, which are
  proved and not also run. `SpoolImplementsShipping` proves
  the refinement step by step.
* **`HumanInput_proofs`.** `InputInv` adds to the invariants that the latch covers the
  debt to the page (`owed` is contained in `latched`), that the due buttons are in
  the mask of this tick's snapshot, that only a tick past its POST has sent anything, that a switched-off AI gets no second sample, and
  that only the reader's snapshot claims to be human. The lemma `Merging` shows that
  both strategies return a vector and keep the human's part. For the gamepad, `MirrorInv`
  says that the last queued event of a control tells where it stands, and that where none
  is queued the vector does; `PadTypeOK` that the mapper the runner picked sends keys and
  axes to buttons and sticks to sticks (`LoadedOK`, from what `load_mapper` accepts, through
  `extends` and the registry), so that `HandledOK` holds: an event writes the targets of
  its control, and what it leaves there does not depend on what was there. They give
  `PadReachesConsole`, for any files, devices and queue size, and `EitherSource` carries
  the results about the page's loop over to it.
* **`Autopilot_proofs`**, the player. `RangeInv` holds for any callers. `SerialInv`
  (inside `stop()` the event stays set, so the join ends with the thread and only
  `_thread` can be alive) holds under `SerialUse`: one caller, no blocking `play`, posts
  that end within the join timeout, and gives `OnePlayback` and `NameTracksPlayback`;
  in `autopilot_duty` the instance called serial is of that kind.
* **`Autopilot_proofs`**, the composition. Every step of the autopilot is a step of the player or
  leaves it alone (`PlayerIsUsedAsSpecified`), so `RangeInv` carries over. `StrayInv`
  proves `DisarmHolds` for every use of the page: a pass is taken from the armed
  names, and one fire ends it. `MacroDisplacesAi` assumes `NoStopButton`, that the page's
  stop button is not used; the run `autopilot_stop` says what it breaks. The play button
  may be: `TurnInv` says that a tick past the gate has seen no playback, that only a
  start posted since can have put one beside it, that a `play_async` starts its
  thread with none alive, and that until the watcher is dead nobody forgets a running one.
  The other two assume `HandsOff`, that neither button is used; the notes above say
  why. Then nobody but the watcher starts a script, and it looks at the player and at the
  mash before it does (`OwnInv`; `ScriptInv` is `TurnInv` with it). `QuietInv` adds that
  the stop event set by the shutdown stays set, which with prompt posts (`~SlowPoster`)
  makes the join end with the playback.
* **`Orchestrator_proofs`.** `HoldInv` adds to `HumanHolds` that a window which is closed
  has nothing to hold; it needs `PartsByHuman`, that single buttons and sticks come from
  the human, because these handlers ignore the window (see above). `StreamInv` is what
  `StreamInOrder` stands on: what is scheduled for a client is younger than what its queue
  holds, which is younger than what it has received, and nothing is younger than the
  frame handed over last; so dropping the oldest entry keeps the order for any queue.
  `TapeInv` follows the tape through the four steps of the toggle and gives
  `SavedFaithfully`, with the one frame of an earlier recording the code lets through.
* **`Collect_proofs`.** `QueueInv`: a frame the capture thread has read and not yet queued is
  the newest one, so `NewestFrameKept` survives the drop and the put being two calls.
  `FilesInv` says at each point of the way out, exceptional or not, which of the three
  files are final, and `RowsInv` that rows and encoded frames agree until an append
  fails. They give `EpisodeWhole` and the action property `AnnouncedIsFinal`.
* **`Servers_proofs`, the policy.** `WireInv`: a socket that may send has nothing on the wire, one that
  waits has only the answer it waits for, and the server's window has the length of its
  policy; this is why a late answer, a restart or a reload cannot break `AnswersFit`.
  `EpisodeInv`: a closed writer that is still set is the trace of a failure, and the page
  is silent by the time the recorder is closed; it gives `EpisodeClosed`.
* **`Servers_proofs`, the world model.** `LineInv` says who stands in line for the device lock, `StateInv`
  that a session's state is of the loaded model or about to be invalidated by the reload
  under way (unless a session was opened beside it), `ClientInv` what can be on a
  connection. Its part `Paired` is about every client, whatever reads it gave up: an
  image at the head of the inbox of a client that waits for one is as old as the
  telemetry it has read, because the two are sent in a row and any other frame ends the
  call. `InStep` is about a connection without timeouts.
* **`Training_proofs`.** `LoopInv` says where the two kinds of process stand and that a save
  in the loop is one that is due, `ContentInv` what is in memory and in each file after so
  many steps; they give `ResumesExactly` for any intervals, start modes and deaths.
  `DiskInv` says which directories there are: the newest is whole, all are behind the step
  being trained, and the temporary one holds what has been written so far. It gives
  `LatestIsWhole` under two hypotheses. `NoResave`: the loop does not save at its last step,
  because a second save of that step breaks the property (see above).
  `KeepRecent # 0`: with none to keep, retention removes the directory just saved.
  Under the same two, `RunsAsIfResumable` shows the run to implement `ResumableRun`: a
  launch begins with `Durable` (`StartResumes`), which moves only when a save is renamed
  into place (`ReplaceSaves`), to the step just trained; no removal, finished or cut short by
  a kill, moves it (`RemovesNoProgress`); and the processes end by themselves only with
  all steps trained.
* **`Training_proofs`, the trainers.** `TrainersInv` gives `TurnsAreSound`. `BestInv`: the
  main node's record is the value of the first best turn, and that turn's file is saved or
  still on the list; it needs `Writing` (a list is only there between judging and the next
  turn) and the type of the rolling mean, whose recursive sum is shown to exist and to be a
  natural number by a least counterexample. `SeedsInv`: at the gather every rank holds its
  own share of rollouts, and the shares in a row are those of one GPU. `SamplesInv`: the
  ranks have all taken the same number of batches, a rank ahead of the main node works on
  the next epoch, and at the end each holds its whole share of one epoch; the shares cover
  the samples. That there is a best score among `Scores` is an assumption on the constant.
* **`Training_proofs`, streaming.** `StreamInv` gives `PlaysAsTrained`. While the context
  is of the weights (`Sown`), `InSight` ties the
  three things the live session carries from call to call: the latents in sight, the
  history of actions, which ends with the last frame of the newest latent, and the kv-cache,
  which holds the latents in sight but the oldest. `Evaluated` says the same for the
  evaluation, whose actions are counted from the beginning. `DenoiseIsTrained` is the lemma
  behind both: a call whose cache is empty or of that kind shows the network a run of
  consecutive tokens and leaves such a cache. The theorem assumes `PlayStrides \subseteq {2}`;
  training, evaluation and the codec page are covered at every stride.
* **`Training_proofs`, imagination.** `ImagInv` gives `AskedAsTrained`. `HistoryInv`: whoever
  drives the model holds the `Past` frames before the next one, each with the action that
  belongs to it, and the gradient that reaches a prediction is that of its window. `AimInv`:
  a goal moves on with every prediction, or stays at the distance training has. `AnchorInv`:
  the anchor of a fa_dit window stays where the window began, and what a frame is told of
  its noise is the noise it has. `WatchInv` is about the frames the policy looks at. The lemmas
  `AsksDit` and `AsksFaDit` turn the four into what a call presents. Of a session and of
  `nxwm rollout` the goal and the scale are not claimed. The theorem assumes
  `EpisodeHolds`: an episode has the frames of a policy's context and of one trainer window;
  a shorter one has neither, and the slices the code takes of it come out short.
* **`Training_proofs`, types.** `TrainingTypeCorrect` puts together the type theorems of the
  five components, whose bounds need invariants of their own. `TurnsBounded`: a launch at work
  has a turn left to record, so what a kill leaves in the files is a turn of the launches so
  far (`TrainerTypes`). `WithinEpisode` and `FramesPast`: a loop that runs has predictions
  left, and its history keeps the model's length when a frame slides in (`ImaginationTypes`,
  under `EpisodeHolds`). `StreamTypes` holds at every stride, so `StreamingTypes` does not
  need the hypothesis of `PlaysAsTrained`. `RolloutsTyped` in `Rewards_proofs`: a rollout under
  way has a frame left, and a frame raises each counter by one at most (`RewardsTypes`).
* **`Rewards_proofs`.** `PaidByThisRollout` compares the closure with one made for the
  rollout, which `Reset` makes equal to it at the first frame, provided there is a start
  frame to take the start latent from. And it speaks of the frames of a rollout, the
  shaper of counters, latches and bounded histories; `RewardsInv` says what each of these
  tells about the frames since the reset. `SeesInv`: the detector's streak is the row of
  frames with a target. `TallyInv`: the bits of the attack history mark the newest frames in
  which a target was attacked, and there are as many set bits as such frames. `PushInv` and
  `SweepInv`: the turn counter counts unpaid turning frames, begun when the push was long
  enough or while a latch holds whose evidence lies in this rollout. `UniqueInv`,
  `EscapeInv`, `PinnedInv`, `UnstuckInv` and `PngInv` are about one component each. Each
  component has a lemma that its step keeps its part and pays what the frames earn;
  `StagesAlter` says which fields and payments a component may touch, so that the eleven
  steps of `ComputeReward` do not disturb each other, and `ResetForgets` starts it all
  from a shaper in any state. The theorem assumes `TurnsTakeTime`: being stuck and turning
  take a frame at least (with a threshold of none the code pays for a turn while nothing
  was stuck). Components whose configs have a window or a number of hits of their own share
  one in the model.

Only model-checked: liveness under fairness (`EventuallyShipped`, `StopWorks`,
`PageSilenceReleases`, `ShutdownEnds`, `ScreenIsAnswered`, `ClientsKeepUp`,
`StopEndsWhenFed`, `InferenceContinues`, `EveryRequestIsServed`, `TrainingFinishes`),
because the prover handles neither `ENABLED` nor fairness; what the autopilot does
while the stop button is in use, beyond its types and `DisarmHolds`.

## Not modelled

Contents of frames, tars and JSON files; the wording of logs and status reports;
real time (clocks are steps that may happen at any moment after they are started,
join and HTTP timeouts are choices); detectors; networks, losses, advantages and the
magnitudes of rewards, which are arithmetic on tensors; the console's Bluetooth
protocol; the terminal and browser front ends; the death state machine, which no
code in the repository drives; the bundled macros and triggers; a reload of a policy
that fails between the new model and the shape of its latents
(`nxrl/serve/server.py`): every policy the repository registers has such a shape;
everything marked so in `PROJECT.json`.

## Plan

Modelled: the way from the page, the gamepad and the policy to the console, from
the camera to the dataset, and the learning tools, and every safety property the runs
check is proved, as are the types of every component. What is left is to prove more of it:

* the autopilot while the page's stop button is in use: what remains of `OneScript`
  and `MacroDisplacesTick`.
