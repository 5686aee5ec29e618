------------------------------- MODULE Spool -------------------------------
(***************************************************************************)
(* nxml-spool: one process that scans the capture directories, packs       *)
(* settled episodes into tar shards, uploads and verifies every shard,     *)
(* records it in the journal and deletes the local files.  The episode     *)
(* writers (nxml-capture, nxml-collect) run beside it.  The process may    *)
(* die between any two steps and systemd starts it again; the disk, the    *)
(* journal, the staging directory and the remote repository survive.       *)
(***************************************************************************)
EXTENDS Integers, FiniteSets, Functions

CONSTANTS
  Episodes,           \* recordings: one video/parquet/manifest triple each
  Ids,                \* episode ids (journal keys, tar member names)
  IdOf,               \* the id _episode_id derives from each episode's path
  Size,               \* bytes of each episode's three files
  ShardSize,          \* --shard-size-mb
  Flags,              \* command lines in use: --once, and not --no-delete
  MaxShard,           \* bound: the highest shard index that is ever packed
  MaxCrashes          \* bound: how often the process may die

ASSUME SpoolAssumption ==
  /\ IsFiniteSet(Episodes)
  /\ IdOf \in [Episodes -> Ids]
  /\ Size \in [Episodes -> Nat \ {0}]
  /\ ShardSize \in Nat \ {0}
  /\ Flags \subseteq [once : BOOLEAN, delete : BOOLEAN]
  /\ MaxShard \in Nat
  /\ MaxCrashes \in Nat

VARIABLES
  \* the capture disk
  stage,      \* how far each episode's writer and its settle/flush clocks are
  files,      \* the files of each episode that exist
  mtime,      \* order in which the videos were closed; 0 before that
  \* the spooler process
  pc,         \* where the process is; "down" when it does not run
  queue,      \* pending episodes of this pass that no group holds yet
  group,      \* the group being packed, shipped or deleted
  flags,      \* the command line of this process, or of the last one
  crashes,    \* how often the process has died
  \* journal.json, staging/ and the remote repository
  nextIndex,  \* journal: next_shard_index
  shippedIn,  \* journal: shipped_episodes, the shard of each id
  staging,    \* indices whose tar and sidecar lie in staging/
  remote,     \* shards/: the episodes readable in each remote tar
  meta        \* meta/: the episodes each remote sidecar lists

disk    == <<stage, files, mtime>>
process == <<pc, queue, group, flags, crashes>>
journal == <<nextIndex, shippedIn>>
hub     == <<remote, meta>>
vars    == <<disk, process, journal, staging, hub>>

Shards   == 0..MaxShard
NotYet   == -1          \* id absent from shipped_episodes
AllFiles == {"video", "parquet", "manifest"}

\* "opened": being written.  The two clocks only start once the manifest is
\* on disk: "settled" after settle_seconds, "old" after flush_partial_after_s.
Complete == {"fresh", "settled", "old"}
Stages   == {"absent", "opened", "closing"} \cup Complete

Busy == {"scan", "plan", "packed", "tarUp", "metaUp", "recorded", "deleting"}

TypeOK ==
  /\ stage \in [Episodes -> Stages]
  /\ files \in [Episodes -> SUBSET AllFiles]
  /\ mtime \in [Episodes -> Nat]
  /\ pc \in Busy \cup {"down"}
  /\ queue \subseteq Episodes
  /\ group \subseteq Episodes
  /\ flags \in Flags
  /\ crashes \in Nat
  /\ nextIndex \in Nat
  /\ shippedIn \in [Ids -> Shards \cup {NotYet}]
  /\ staging \subseteq Shards
  /\ remote \in [Shards -> SUBSET Episodes]
  /\ meta \in [Shards -> SUBSET Episodes]

Init ==
  /\ stage = [e \in Episodes |-> "absent"]
  /\ files = [e \in Episodes |-> {}]
  /\ mtime = [e \in Episodes |-> 0]
  /\ pc = "down"
  /\ queue = {}
  /\ group = {}
  /\ flags \in Flags
  /\ crashes = 0
  /\ nextIndex = 0
  /\ shippedIn = [i \in Ids |-> NotYet]
  /\ staging = {}
  /\ remote = [n \in Shards |-> {}]
  /\ meta = [n \in Shards |-> {}]

-----------------------------------------------------------------------------
(* Operators of the code *)

Shipped(e) == shippedIn[IdOf[e]] # NotYet

\* discover_episodes, minus what the journal already holds.
Pending ==
  {e \in Episodes : /\ files[e] = AllFiles
                    /\ stage[e] \in {"settled", "old"}
                    /\ ~Shipped(e)}

Bytes(S) == FoldFunctionOnSet(LAMBDA a, b : a + b, 0, Size, S)

\* e was closed first among S: the head of the list sorted by video mtime.
IsOldest(e, S) == e \in S /\ \A f \in S : mtime[e] <= mtime[f]

\* plan_shards, one group at a time: a prefix of the queue by age that fits
\* (or a single oversized episode) and that the next episode would overflow.
IsNextGroup(G) ==
  /\ G # {}
  /\ G \subseteq queue
  /\ \A e \in G, f \in queue \ G : mtime[e] < mtime[f]
  /\ Bytes(G) <= ShardSize \/ Cardinality(G) = 1
  /\ \A f \in queue \ G : IsOldest(f, queue \ G) => Bytes(G \cup {f}) > ShardSize

IsFull(G) == 10 * Bytes(G) >= 9 * ShardSize

\* oldest_age: the group's oldest video has waited flush_partial_after_s.
IsOverdue(G) == \E e \in G : IsOldest(e, G) /\ stage[e] = "old"

Sealable(G) == IsFull(G) \/ IsOverdue(G) \/ flags.once

-----------------------------------------------------------------------------
(* The episode writers and the clock *)

\* First append: the container appears and grows.
OpenVideo(e) ==
  /\ stage[e] = "absent"
  /\ stage' = [stage EXCEPT ![e] = "opened"]
  /\ files' = [files EXCEPT ![e] = {"video"}]
  /\ UNCHANGED <<mtime, process, journal, staging, hub>>

\* close(): the video is flushed for the last time, the parquet follows.
CloseVideo(e) ==
  /\ stage[e] = "opened"
  /\ stage' = [stage EXCEPT ![e] = "closing"]
  /\ files' = [files EXCEPT ![e] = @ \cup {"parquet"}]
  /\ mtime' = [mtime EXCEPT ![e] =
                 1 + Cardinality({f \in Episodes : mtime[f] # 0})]
  /\ UNCHANGED <<process, journal, staging, hub>>

\* close(): the manifest is emitted last.
WriteManifest(e) ==
  /\ stage[e] = "closing"
  /\ stage' = [stage EXCEPT ![e] = "fresh"]
  /\ files' = [files EXCEPT ![e] = @ \cup {"manifest"}]
  /\ UNCHANGED <<mtime, process, journal, staging, hub>>

\* Time passes: settle_seconds, then flush_partial_after_s.
Age(e) ==
  /\ \/ stage[e] = "fresh"   /\ stage' = [stage EXCEPT ![e] = "settled"]
     \/ stage[e] = "settled" /\ stage' = [stage EXCEPT ![e] = "old"]
  /\ UNCHANGED <<files, mtime, process, journal, staging, hub>>

-----------------------------------------------------------------------------
(* run_spooler *)

Goto(from, to) == pc = from /\ pc' = to

Start ==
  /\ Goto("down", "scan")
  /\ flags' \in Flags
  /\ UNCHANGED <<disk, queue, group, crashes, journal, staging, hub>>

Discover ==
  /\ Goto("scan", "plan")
  /\ queue' = Pending
  /\ UNCHANGED <<disk, group, flags, crashes, journal, staging, hub>>

\* A group that is neither full nor overdue waits for more episodes.
SkipGroup(G) ==
  /\ pc = "plan"
  /\ IsNextGroup(G)
  /\ ~Sealable(G)
  /\ queue' = queue \ G
  /\ UNCHANGED <<disk, pc, group, flags, crashes, journal, staging, hub>>

\* pack_shard: tar and sidecar under the journal's next index.
PackGroup(G) ==
  /\ IsNextGroup(G)
  /\ Sealable(G)
  /\ nextIndex \in Shards
  /\ Goto("plan", "packed")
  /\ queue' = queue \ G
  /\ group' = G
  /\ staging' = staging \cup {nextIndex}
  /\ UNCHANGED <<disk, flags, crashes, journal, hub>>

\* Fault: the index of the last recorded shard is used again.
UploadTarOverLast ==
  /\ Goto("packed", "tarUp")
  /\ remote' = [remote EXCEPT ![IF nextIndex = 0 THEN 0 ELSE nextIndex - 1] = group]
  /\ UNCHANGED <<disk, queue, group, flags, crashes, journal, staging, meta>>

\* Fault: the sidecar is not uploaded.
UploadTarOnly ==
  /\ Goto("packed", "metaUp")
  /\ remote' = [remote EXCEPT ![nextIndex] = group]
  /\ UNCHANGED <<disk, queue, group, flags, crashes, journal, staging, meta>>

\* upload_and_verify of the tar: replaces whatever the repository holds
\* under that name.
UploadTar ==
  /\ Goto("packed", "tarUp")
  /\ remote' = [remote EXCEPT ![nextIndex] = group]
  /\ UNCHANGED <<disk, queue, group, flags, crashes, journal, staging, meta>>

UploadMeta ==
  /\ Goto("tarUp", "metaUp")
  /\ meta' = [meta EXCEPT ![nextIndex] = group]
  /\ UNCHANGED <<disk, queue, group, flags, crashes, journal, staging, remote>>

\* record_uploaded_shard: one atomic rewrite of journal.json.
RecordShard ==
  /\ Goto("metaUp", "recorded")
  /\ shippedIn' = [i \in Ids |-> IF \E e \in group : IdOf[e] = i
                                 THEN nextIndex ELSE shippedIn[i]]
  /\ nextIndex' = nextIndex + 1
  /\ UNCHANGED <<disk, queue, group, flags, crashes, staging, hub>>

\* Fault: the whole pass is deleted once one of its shards is recorded.
CleanStagingWholePass ==
  /\ pc = "recorded"
  /\ staging' = staging \ {nextIndex - 1}
  /\ IF flags.delete
     THEN pc' = "deleting" /\ group' = group \cup queue
     ELSE pc' = "plan" /\ group' = {}
  /\ UNCHANGED <<disk, queue, flags, crashes, journal, hub>>

\* The staged tar and sidecar are unlinked; --no-delete stops here.
CleanStaging ==
  /\ pc = "recorded"
  /\ staging' = staging \ {nextIndex - 1}
  /\ IF flags.delete
     THEN pc' = "deleting" /\ UNCHANGED group
     ELSE pc' = "plan" /\ group' = {}
  /\ UNCHANGED <<disk, queue, flags, crashes, journal, hub>>

\* Deletion order inside an episode (Episode.files).
NextFile(S) ==
  IF "video" \in S THEN "video"
  ELSE IF "parquet" \in S THEN "parquet" ELSE "manifest"

\* Fault: only the first file of an episode is unlinked.
DeleteFirstFile(e) ==
  /\ pc = "deleting"
  /\ IsOldest(e, group)
  /\ files' = [files EXCEPT ![e] = @ \ {NextFile(@)}]
  /\ group' = group \ {e}
  /\ pc' = IF group' = {} THEN "plan" ELSE "deleting"
  /\ UNCHANGED <<stage, mtime, queue, flags, crashes, journal, staging, hub>>

\* One unlink; the episode leaves the group with its last file.
DeleteFile(e) ==
  /\ pc = "deleting"
  /\ IsOldest(e, group)
  /\ files' = [files EXCEPT ![e] = @ \ {NextFile(@)}]
  /\ group' = IF files'[e] = {} THEN group \ {e} ELSE group
  /\ pc' = IF group' = {} THEN "plan" ELSE "deleting"
  /\ UNCHANGED <<stage, mtime, queue, flags, crashes, journal, staging, hub>>

\* All groups seen: --once returns, else the daemon sleeps and scans again.
EndPass ==
  /\ pc = "plan"
  /\ queue = {}
  /\ pc' = IF flags.once THEN "down" ELSE "scan"
  /\ UNCHANGED <<disk, queue, group, flags, crashes, journal, staging, hub>>

Halt ==
  /\ crashes < MaxCrashes
  /\ crashes' = crashes + 1
  /\ pc' = "down"
  /\ queue' = {}
  /\ group' = {}
  /\ UNCHANGED flags

\* The process is killed, or an upload raises before it commits.
Crash ==
  /\ pc # "down"
  /\ Halt
  /\ UNCHANGED <<disk, journal, staging, hub>>

\* Fault: the size check is skipped and the pass goes on.
VerifyIgnored ==
  /\ Goto("packed", "tarUp")
  /\ remote' = [remote EXCEPT ![nextIndex] = {}]
  /\ UNCHANGED <<disk, queue, group, flags, crashes, journal, staging, meta>>

\* The repository keeps a file of another size: the check raises, nothing
\* catches it.  A torn tar holds no readable episode.
VerifyFails ==
  /\ \/ pc = "packed" /\ remote' = [remote EXCEPT ![nextIndex] = {}]
                      /\ UNCHANGED meta
     \/ pc = "tarUp"  /\ meta' = [meta EXCEPT ![nextIndex] = {}]
                      /\ UNCHANGED remote
  /\ Halt
  /\ UNCHANGED <<disk, journal, staging>>

-----------------------------------------------------------------------------
Writer == \E e \in Episodes :
            OpenVideo(e) \/ CloseVideo(e) \/ WriteManifest(e) \/ Age(e)

Spooler ==
  \/ Start \/ Discover \/ UploadTar \/ UploadMeta \/ RecordShard
  \/ CleanStaging \/ EndPass
  \/ \E G \in SUBSET queue : SkipGroup(G) \/ PackGroup(G)
  \/ \E e \in group : DeleteFile(e)

Next == Writer \/ Spooler \/ Crash \/ VerifyFails

Spec == Init /\ [][Next]_vars

\* The process keeps running and is restarted (systemd), and time passes.
\* Nothing obliges a writer to finish, and crashes are bounded by Halt.
Fairness ==
  /\ WF_vars(Spooler)
  /\ \A e \in Episodes : WF_vars(Age(e))

FairSpec == Spec /\ Fairness

-----------------------------------------------------------------------------
(* Correctness *)

IsDurable(n) == n < nextIndex

Dataset == UNION {remote[n] : n \in {m \in Shards : IsDurable(m)}}

\* No captured episode is ever lost: from the moment its manifest exists it
\* is whole on the local disk or inside a shard the journal has recorded
\* (journal.py: recorded only after the upload is verified; spooler.py:
\* deletion is gated on verification), whatever the process does and
\* wherever it dies.
NoEpisodeLost ==
  \A e \in Episodes :
    stage[e] \in Complete => files[e] = AllFiles \/ e \in Dataset

\* The remote dataset never holds an episode twice, not even in the shard
\* a crash left behind unrecorded (journal.py: "duplicate episodes inside the
\* dataset are not" possible).
NoDuplicateEpisodes ==
  \A m, n \in Shards : m # n =>
    {IdOf[e] : e \in remote[m]} \cap {IdOf[e] : e \in remote[n]} = {}

\* The journal tells the truth: a shipped id is in the recorded shard it
\* points at, and that shard's sidecar lists exactly the tar's content.
JournalHonest ==
  /\ \A i \in Ids : shippedIn[i] # NotYet =>
       IsDurable(shippedIn[i]) /\ \E e \in remote[shippedIn[i]] : IdOf[e] = i
  /\ \A n \in Shards : IsDurable(n) => remote[n] # {} /\ meta[n] = remote[n]

\* Whenever an id is in the journal, every captured episode that carries the
\* id is in the dataset: skipping by id never leaves an episode behind.
SkippedMeansShipped ==
  \A e \in Episodes : stage[e] \in Complete /\ Shipped(e) => e \in Dataset

\* pack_shard finds the files of every episode it was handed: the pending
\* list computed at the start of a pass is still true when its last group is
\* packed.
PackedFilesExist ==
  \A e \in queue \cup (IF pc \in {"packed", "tarUp", "metaUp"} THEN group ELSE {}) :
    files[e] = AllFiles /\ ~Shipped(e)

\* A recorded shard and its sidecar are immutable from then on.
RecordedShardsFrozen ==
  [][\A n \in Shards : IsDurable(n) =>
       remote'[n] = remote[n] /\ meta'[n] = meta[n]]_vars

\* The daemon finishes what it starts: every captured episode becomes durable,
\* however short the session, and unless the process dies the files of a
\* group it has recorded leave the disk (README.md: "then deletes the local
\* files").
EventuallyShipped ==
  \A e \in Episodes :
    /\ (stage[e] \in Complete) ~> (e \in Dataset \/ flags.once)
    /\ (flags.delete /\ e \in group \cap Dataset) ~> (files[e] = {} \/ crashes > 0)

\* The spooler refines the promise of EpisodeShipping.
Shipping == INSTANCE EpisodeShipping
              WITH local <- {e \in Episodes : files[e] = AllFiles},
                   dataset <- Dataset
ShippingSpec == Shipping!Spec
=============================================================================
