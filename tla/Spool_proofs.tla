---------------------------- MODULE Spool_proofs ----------------------------
(***************************************************************************)
(* Proofs about Spool, for any set of episodes, any sizes and any number   *)
(* of crashes.  DiskInv is the inductive invariant behind every result;    *)
(* IdInv adds what only holds when episode ids are unique.                 *)
(***************************************************************************)
EXTENDS Spool, FiniteSetTheorems, TLAPS

InFlight == {"packed", "tarUp", "metaUp"}

\* The files on disk are those the writer has produced so far.
FilesFollowStage ==
  \A e \in Episodes :
    /\ stage[e] = "absent" => files[e] = {}
    /\ stage[e] = "opened" => files[e] = {"video"}
    /\ stage[e] = "closing" => files[e] = {"video", "parquet"}

\* Whatever is still to be shipped is whole on disk and not yet durable.
Unshipped(S) ==
  \A e \in S : files[e] = AllFiles /\ stage[e] \in Complete /\ e \notin Dataset

PassInv ==
  /\ Unshipped(queue)
  /\ queue \cap group = {}
  /\ pc \in {"down", "scan", "plan"} => group = {}
  /\ pc \in InFlight => Unshipped(group) /\ group # {} /\ nextIndex \in Shards
  /\ pc \in {"recorded", "deleting"} =>
       \A e \in group : e \in Dataset /\ stage[e] \in Complete
  /\ pc \in {"tarUp", "metaUp"} => remote[nextIndex] = group
  /\ pc = "metaUp" => meta[nextIndex] = group

\* Remote shards hold captured episodes; recorded ones hold shipped ids.
HubInv ==
  \A n \in Shards : \A e \in remote[n] :
    stage[e] \in Complete /\ (IsDurable(n) => Shipped(e))

DiskInv ==
  /\ TypeOK
  /\ FilesFollowStage
  /\ PassInv
  /\ HubInv
  /\ JournalHonest
  /\ NoEpisodeLost

-----------------------------------------------------------------------------
LEMMA InDataset ==
  ASSUME NEW e
  PROVE  e \in Dataset <=> \E n \in Shards : n < nextIndex /\ e \in remote[n]
BY DEF Dataset, IsDurable

LEMMA InDatasetNext ==
  ASSUME NEW e
  PROVE  e \in Dataset' <=> \E n \in Shards : n < nextIndex' /\ e \in remote'[n]
BY DEF Dataset, IsDurable

\* Steps that leave the journal and the repository alone keep the dataset.
LEMMA DatasetUnchanged ==
  ASSUME UNCHANGED <<nextIndex, remote>>
  PROVE  Dataset' = Dataset
BY DEF Dataset, IsDurable

\* The types are kept by every step.
LEMMA TypeStep == TypeOK /\ PassInv /\ [Next]_vars => TypeOK'
<1> SUFFICES ASSUME TypeOK, PassInv, [Next]_vars PROVE TypeOK'
  OBVIOUS
<1> USE SpoolAssumption DEF TypeOK, Stages, Complete, AllFiles, Busy, Goto,
        disk, process, journal, hub, Shards, NotYet
<1>1. ASSUME NEW e \in Episodes, OpenVideo(e) PROVE TypeOK'
  BY <1>1 DEF OpenVideo
<1>2. ASSUME NEW e \in Episodes, CloseVideo(e) PROVE TypeOK'
  <2>1. Cardinality({f \in Episodes : mtime[f] # 0}) \in Nat
    BY FS_Subset, FS_CardinalityType
  <2> QED BY <1>2, <2>1 DEF CloseVideo
<1>3. ASSUME NEW e \in Episodes, WriteManifest(e) PROVE TypeOK'
  BY <1>3 DEF WriteManifest
<1>4. ASSUME NEW e \in Episodes, Age(e) PROVE TypeOK'
  BY <1>4 DEF Age
<1>5. CASE Start BY <1>5 DEF Start
<1>6. CASE Discover BY <1>6 DEF Discover, Pending
<1>7. CASE UploadTar BY <1>7 DEF UploadTar
<1>8. CASE UploadMeta BY <1>8 DEF UploadMeta
<1>9. CASE RecordShard BY <1>9 DEF RecordShard, PassInv, InFlight
<1>10. CASE CleanStaging BY <1>10 DEF CleanStaging
<1>11. CASE EndPass BY <1>11 DEF EndPass
<1>12. ASSUME NEW G \in SUBSET queue, SkipGroup(G) PROVE TypeOK'
  BY <1>12 DEF SkipGroup
<1>13. ASSUME NEW G \in SUBSET queue, PackGroup(G) PROVE TypeOK'
  BY <1>13 DEF PackGroup
<1>14. ASSUME NEW e \in group, DeleteFile(e) PROVE TypeOK'
  BY <1>14 DEF DeleteFile
<1>15. CASE Crash BY <1>15 DEF Crash, Halt
<1>16. CASE VerifyFails
  <2>1. remote' \in [Shards -> SUBSET Episodes]
    BY <1>16 DEF VerifyFails
  <2>2. meta' \in [Shards -> SUBSET Episodes]
    BY <1>16 DEF VerifyFails
  <2> QED BY <1>16, <2>1, <2>2 DEF VerifyFails, Halt
<1>17. CASE UNCHANGED vars BY <1>17 DEF vars
<1> QED
  BY <1>1, <1>2, <1>3, <1>4, <1>5, <1>6, <1>7, <1>8, <1>9, <1>10, <1>11,
     <1>12, <1>13, <1>14, <1>15, <1>16, <1>17 DEF Next, Writer, Spooler

-----------------------------------------------------------------------------
\* Steps of a writer or of the clock.
LEMMA WriterStep ==
  ASSUME DiskInv, TypeOK', Writer
  PROVE  DiskInv'
<1> USE DEF DiskInv, TypeOK, Stages, Complete, AllFiles
<1>0. PICK e \in Episodes : OpenVideo(e) \/ CloseVideo(e) \/ WriteManifest(e) \/ Age(e)
  BY DEF Writer
<1>1. UNCHANGED <<process, journal, staging, hub>>
  BY <1>0 DEF OpenVideo, CloseVideo, WriteManifest, Age
<1>2. Dataset' = Dataset
  BY <1>1, DatasetUnchanged DEF journal, hub
<1>3. \A f \in Episodes : f # e => stage'[f] = stage[f] /\ files'[f] = files[f]
  BY <1>0 DEF OpenVideo, CloseVideo, WriteManifest, Age
<1>4. stage[e] \in Complete => stage'[e] \in Complete /\ files'[e] = files[e]
  BY <1>0 DEF OpenVideo, CloseVideo, WriteManifest, Age
<1>5. stage[e] \notin Complete /\ stage'[e] \in Complete => files'[e] = AllFiles
  BY <1>0 DEF OpenVideo, CloseVideo, WriteManifest, Age, FilesFollowStage
<1>6. FilesFollowStage'
  BY <1>0, <1>3 DEF OpenVideo, CloseVideo, WriteManifest, Age, FilesFollowStage
<1>7. PassInv'
  BY <1>1, <1>2, <1>3, <1>4 DEF PassInv, Unshipped, InFlight, process, journal, hub, Shards
<1>8. HubInv'
  BY <1>1, <1>3, <1>4 DEF HubInv, Shipped, IsDurable, journal, hub
<1>9. JournalHonest'
  BY <1>1 DEF JournalHonest, IsDurable, journal, hub
<1>10. NoEpisodeLost'
  BY <1>2, <1>3, <1>4, <1>5 DEF NoEpisodeLost
<1> QED BY <1>6, <1>7, <1>8, <1>9, <1>10

\* Steps of the spooler that touch neither the files nor the journal nor the
\* repository.
LEMMA PlanStep ==
  ASSUME DiskInv, TypeOK',
         \/ Start \/ Discover \/ CleanStaging \/ EndPass \/ Crash
         \/ \E G \in SUBSET queue : SkipGroup(G) \/ PackGroup(G)
  PROVE  DiskInv'
<1> USE DEF DiskInv
<1>1. UNCHANGED <<disk, journal, hub>>
  BY DEF Start, Discover, CleanStaging, EndPass, Crash, SkipGroup, PackGroup
<1>2. Dataset' = Dataset
  BY <1>1, DatasetUnchanged DEF journal, hub
<1>3. FilesFollowStage' /\ HubInv' /\ JournalHonest' /\ NoEpisodeLost'
  BY <1>1, <1>2 DEF disk, journal, hub, FilesFollowStage, HubInv, Shipped,
     JournalHonest, IsDurable, NoEpisodeLost
<1>4. PassInv'
  <2> USE DEF PassInv, InFlight, Goto, disk, journal, hub
  <2>1. CASE Start \/ EndPass
    BY <1>1, <1>2, <2>1 DEF Start, EndPass, Unshipped
  <2>2. CASE Discover
    <3>1. \A e \in Pending : e \notin Dataset
      BY DEF Pending, HubInv, InDataset, IsDurable, Dataset
    <3>2. Unshipped(Pending)
      BY <3>1 DEF Unshipped, Pending, Complete
    <3> QED BY <1>1, <1>2, <2>2, <3>2 DEF Discover, Unshipped
  <2>3. CASE CleanStaging
    BY <1>1, <1>2, <2>3 DEF CleanStaging, Unshipped
  <2>4. CASE Crash
    BY <2>4 DEF Crash, Halt, Unshipped
  <2>5. ASSUME NEW G \in SUBSET queue, SkipGroup(G) \/ PackGroup(G)
        PROVE  PassInv'
    <3>1. Unshipped(G) /\ Unshipped(queue \ G)
      BY DEF Unshipped
    <3>2. CASE SkipGroup(G)
      BY <1>1, <1>2, <3>1, <3>2 DEF SkipGroup, Unshipped
    <3>3. CASE PackGroup(G)
      BY <1>1, <1>2, <3>1, <3>3 DEF PackGroup, IsNextGroup, Unshipped
    <3> QED BY <2>5, <3>2, <3>3
  <2> QED BY <2>1, <2>2, <2>3, <2>4, <2>5
<1> QED BY <1>3, <1>4

\* Uploads write under the next index only.
LEMMA UploadKeepsRecorded ==
  ASSUME TypeOK, UploadTar \/ UploadMeta \/ VerifyFails, NEW n \in Shards, n < nextIndex
  PROVE  remote'[n] = remote[n] /\ meta'[n] = meta[n]
<1>1. n # nextIndex
  BY DEF TypeOK, Shards
<1>2. CASE UploadTar
  BY <1>1, <1>2 DEF UploadTar, TypeOK
<1>3. CASE UploadMeta
  BY <1>1, <1>3 DEF UploadMeta, TypeOK
<1>4. CASE VerifyFails
  BY <1>1, <1>4 DEF VerifyFails, TypeOK
<1> QED BY <1>2, <1>3, <1>4

\* Uploads touch the one shard that is not recorded yet.
LEMMA UploadStep ==
  ASSUME DiskInv, TypeOK', UploadTar \/ UploadMeta \/ VerifyFails
  PROVE  DiskInv'
<1> USE DEF DiskInv, InFlight, Goto, disk, journal, hub
<1>1. UNCHANGED <<disk, journal>> /\ pc \in InFlight
  BY DEF UploadTar, UploadMeta, VerifyFails
<1>2. nextIndex \in Shards /\ Unshipped(group)
  BY <1>1 DEF PassInv
<1>3. \A n \in Shards : n < nextIndex => remote'[n] = remote[n] /\ meta'[n] = meta[n]
  BY UploadKeepsRecorded
<1>4. \A n \in Shards : \A e : e \in remote'[n] => e \in remote[n] \/ (n = nextIndex /\ e \in group)
  BY DEF UploadTar, UploadMeta, VerifyFails, TypeOK
<1>5. Dataset' = Dataset
  BY <1>1, <1>3 DEF Dataset, IsDurable
<1>6. FilesFollowStage' /\ NoEpisodeLost'
  BY <1>1, <1>5 DEF FilesFollowStage, NoEpisodeLost
<1>7. JournalHonest'
  BY <1>1, <1>3 DEF JournalHonest, IsDurable, TypeOK, NotYet
<1>8. HubInv'
  BY <1>1, <1>2, <1>4 DEF HubInv, Shipped, IsDurable, Unshipped, Shards, TypeOK
<1>9. PassInv'
  <2>1. CASE UploadTar
    BY <1>1, <1>2, <1>5, <2>1 DEF UploadTar, PassInv, Unshipped, TypeOK
  <2>2. CASE UploadMeta
    BY <1>1, <1>2, <1>5, <2>2 DEF UploadMeta, PassInv, Unshipped, TypeOK
  <2>3. CASE VerifyFails
    BY <2>3 DEF VerifyFails, Halt, PassInv, Unshipped
  <2> QED BY <2>1, <2>2, <2>3
<1> QED BY <1>6, <1>7, <1>8, <1>9

\* Recording makes exactly the uploaded group durable.
LEMMA RecordStep ==
  ASSUME DiskInv, TypeOK', RecordShard
  PROVE  DiskInv' /\ Dataset' = Dataset \cup group
<1> USE DEF DiskInv, InFlight, Goto, disk, journal, hub
<1>1. /\ UNCHANGED <<disk, queue, group, remote, meta>>
      /\ pc = "metaUp" /\ pc' = "recorded" /\ nextIndex' = nextIndex + 1
  BY DEF RecordShard
<1>2. nextIndex \in Shards /\ remote[nextIndex] = group /\ meta[nextIndex] = group
      /\ group # {} /\ Unshipped(group)
  BY <1>1 DEF PassInv
<1>3. \A n \in Shards : n < nextIndex' <=> n < nextIndex \/ n = nextIndex
  BY <1>1 DEF TypeOK, Shards
<1>4. Dataset' = Dataset \cup group
  BY <1>1, <1>2, <1>3 DEF Dataset, IsDurable
<1>5. \A i \in Ids : shippedIn'[i] = IF \E e \in group : IdOf[e] = i THEN nextIndex ELSE shippedIn[i]
  BY DEF RecordShard, TypeOK
<1>6. nextIndex # NotYet
  BY DEF TypeOK, NotYet
<1>7. \A e \in Episodes : Shipped(e) \/ e \in group => Shipped(e)'
  BY <1>5, <1>6, SpoolAssumption DEF Shipped, TypeOK
<1>8. FilesFollowStage' /\ NoEpisodeLost'
  BY <1>1, <1>4 DEF FilesFollowStage, NoEpisodeLost
<1>9. HubInv'
  BY <1>1, <1>2, <1>3, <1>7 DEF HubInv, IsDurable, TypeOK
<1>10. JournalHonest'
  <2>1. ASSUME NEW i \in Ids, shippedIn'[i] # NotYet
        PROVE  shippedIn'[i] < nextIndex' /\ \E e \in remote'[shippedIn'[i]] : IdOf[e] = i
    <3>1. CASE \E e \in group : IdOf[e] = i
      BY <1>1, <1>2, <1>5, <3>1 DEF TypeOK
    <3>2. CASE ~ \E e \in group : IdOf[e] = i
      BY <1>1, <1>5, <2>1, <3>2 DEF JournalHonest, IsDurable, TypeOK, Shards, NotYet
    <3> QED BY <3>1, <3>2
  <2>2. \A n \in Shards : n < nextIndex' => remote'[n] # {} /\ meta'[n] = remote'[n]
    BY <1>1, <1>2, <1>3 DEF JournalHonest, IsDurable
  <2> QED BY <2>1, <2>2 DEF JournalHonest, IsDurable
<1>11. PassInv'
  BY <1>1, <1>2, <1>4 DEF PassInv, Unshipped
<1> QED BY <1>4, <1>8, <1>9, <1>10, <1>11

\* Deletion only meets episodes of the shard just recorded.
LEMMA DeleteStep ==
  ASSUME DiskInv, TypeOK', NEW e \in group, DeleteFile(e)
  PROVE  DiskInv' /\ e \in Dataset
<1> USE DEF DiskInv, InFlight, disk, journal, hub
<1>1. /\ UNCHANGED <<stage, queue, nextIndex, shippedIn, remote, meta>>
      /\ pc = "deleting" /\ group' \subseteq group
      /\ pc' \in {"plan", "deleting"} /\ (pc' = "plan" => group' = {})
  BY DEF DeleteFile
<1>2. \A f \in Episodes : f # e => files'[f] = files[f]
  BY DEF DeleteFile, TypeOK
<1>3. e \in Dataset /\ stage[e] \in Complete /\ e \notin queue
  BY <1>1 DEF PassInv
<1>4. Dataset' = Dataset
  BY <1>1, DatasetUnchanged
<1>5. FilesFollowStage'
  BY <1>1, <1>2, <1>3 DEF FilesFollowStage, Complete
<1>6. PassInv'
  BY <1>1, <1>2, <1>3, <1>4 DEF PassInv, Unshipped, TypeOK
<1>7. HubInv' /\ JournalHonest'
  BY <1>1 DEF HubInv, JournalHonest, IsDurable, Shipped
<1>8. NoEpisodeLost'
  BY <1>1, <1>2, <1>3, <1>4 DEF NoEpisodeLost
<1> QED BY <1>3, <1>5, <1>6, <1>7, <1>8

LEMMA DiskInvInit == Init => DiskInv
<1> SUFFICES ASSUME Init PROVE DiskInv
  OBVIOUS
<1>1. TypeOK
  BY SpoolAssumption DEF Init, TypeOK, Stages, Busy, Shards, NotYet
<1>2. \A e : e \notin Dataset
  BY DEF Init, Dataset, IsDurable, Shards
<1>3. FilesFollowStage /\ PassInv /\ HubInv /\ NoEpisodeLost
  BY DEF Init, FilesFollowStage, PassInv, Unshipped, HubInv, NoEpisodeLost,
         Complete, InFlight, Shards
<1>4. JournalHonest
  BY DEF Init, JournalHonest, IsDurable, Shards
<1> QED BY <1>1, <1>3, <1>4 DEF DiskInv

LEMMA DiskInvStep == DiskInv /\ [Next]_vars => DiskInv'
<1> SUFFICES ASSUME DiskInv, [Next]_vars PROVE DiskInv'
  OBVIOUS
<1>1. TypeOK'
  BY TypeStep DEF DiskInv
<1>2. CASE Writer BY <1>1, <1>2, WriterStep
<1>3. CASE Start \/ Discover \/ CleanStaging \/ EndPass \/ Crash
           \/ \E G \in SUBSET queue : SkipGroup(G) \/ PackGroup(G)
  BY <1>1, <1>3, PlanStep
<1>4. CASE UploadTar \/ UploadMeta \/ VerifyFails
  BY <1>1, <1>4, UploadStep
<1>5. CASE RecordShard
  BY <1>1, <1>5, RecordStep
<1>6. CASE \E e \in group : DeleteFile(e)
  BY <1>1, <1>6, DeleteStep
<1>7. CASE UNCHANGED vars
  <2>1. Dataset' = Dataset
    BY <1>7, DatasetUnchanged DEF vars, journal, hub
  <2> QED
    BY <1>1, <1>7, <2>1 DEF vars, disk, process, journal, hub, DiskInv,
       FilesFollowStage, PassInv, Unshipped, InFlight, HubInv, Shipped,
       JournalHonest, IsDurable, NoEpisodeLost
<1> QED BY <1>2, <1>3, <1>4, <1>5, <1>6, <1>7 DEF Next, Spooler

-----------------------------------------------------------------------------
\* The whole invariant: types, whole files until durable, an honest journal.
THEOREM DiskInvariant == Spec => []DiskInv
BY DiskInvInit, DiskInvStep, PTL DEF Spec

\* Every variable keeps its type in every reachable state.
THEOREM SpoolTypeOK == Spec => []TypeOK
<1>1. DiskInv => TypeOK
  BY DEF DiskInv
<1> QED BY <1>1, DiskInvariant, PTL

\* No crash, failed upload or deletion ever loses a captured episode, whatever
\* ids the episodes carry (spooler.py: deletion only after verification and
\* journaling).
THEOREM SpoolLosesNothing == Spec => []NoEpisodeLost
<1>1. DiskInv => NoEpisodeLost
  BY DEF DiskInv
<1> QED BY <1>1, DiskInvariant, PTL

\* The journal never points at a shard that lacks the episode, and a recorded
\* shard always has its own sidecar (journal.py).
THEOREM SpoolJournalHonest == Spec => []JournalHonest
<1>1. DiskInv => JournalHonest
  BY DEF DiskInv
<1> QED BY <1>1, DiskInvariant, PTL

\* Recorded shards and sidecars are immutable: the spooler only ever writes
\* under the journal's next index.
THEOREM SpoolShardsFrozen == Spec => RecordedShardsFrozen
<1>1. DiskInv /\ [Next]_vars =>
        [\A n \in Shards : IsDurable(n) =>
           remote'[n] = remote[n] /\ meta'[n] = meta[n]]_vars
  <2> SUFFICES ASSUME DiskInv, Next, NEW n \in Shards, n < nextIndex
               PROVE  remote'[n] = remote[n] /\ meta'[n] = meta[n]
    BY DEF IsDurable
  <2> USE DEF hub
  <2>1. CASE UploadTar \/ UploadMeta \/ VerifyFails
    BY <2>1, UploadKeepsRecorded DEF DiskInv
  <2>2. CASE Writer
    BY <2>2 DEF Writer, OpenVideo, CloseVideo, WriteManifest, Age
  <2>3. CASE Start \/ Discover \/ CleanStaging \/ EndPass \/ Crash \/ RecordShard
             \/ \E G \in SUBSET queue : SkipGroup(G) \/ PackGroup(G)
             \/ \E e \in group : DeleteFile(e)
    BY <2>3 DEF Start, Discover, CleanStaging, EndPass, Crash, SkipGroup,
       PackGroup, RecordShard, DeleteFile
  <2> QED BY <2>1, <2>2, <2>3 DEF Next, Spooler
<1> QED BY <1>1, DiskInvariant, PTL DEF Spec, RecordedShardsFrozen

-----------------------------------------------------------------------------
(* What needs unique ids *)

UniqueIds == \A e, f \in Episodes : IdOf[e] = IdOf[f] => e = f

IdInv ==
  /\ \A e \in queue : ~Shipped(e)
  /\ pc \in InFlight => \A e \in group : ~Shipped(e)
  /\ \A n \in Shards : \A e \in remote[n] :
       /\ n <= nextIndex
       /\ IF n < nextIndex THEN shippedIn[IdOf[e]] = n ELSE ~Shipped(e)

LEMMA IdInvInit == Init => IdInv
BY DEF Init, IdInv, InFlight

LEMMA IdInvStep ==
  ASSUME UniqueIds, DiskInv, DiskInv', IdInv, [Next]_vars
  PROVE  IdInv'
<1> USE DEF IdInv, disk, process, journal, hub, InFlight, Goto
<1>0. TypeOK /\ TypeOK' /\ PassInv
  BY DEF DiskInv
<1>1. CASE Writer
  BY <1>1 DEF Writer, OpenVideo, CloseVideo, WriteManifest, Age, Shipped
<1>2. CASE Start \/ EndPass \/ CleanStaging \/ Crash
  BY <1>2 DEF Start, EndPass, CleanStaging, Crash, Halt, Shipped
<1>3. CASE Discover
  BY <1>3 DEF Discover, Pending, Shipped
<1>4. CASE \E G \in SUBSET queue : SkipGroup(G) \/ PackGroup(G)
  BY <1>4 DEF SkipGroup, PackGroup, Shipped
<1>5. CASE UploadTar \/ UploadMeta \/ VerifyFails
  <2>1. UNCHANGED <<nextIndex, shippedIn>> /\ pc \in InFlight
    BY <1>5 DEF UploadTar, UploadMeta, VerifyFails
  <2>2. \A n \in Shards : \A e : e \in remote'[n] =>
          e \in remote[n] \/ (n = nextIndex /\ e \in group)
    BY <1>0, <1>5 DEF UploadTar, UploadMeta, VerifyFails, TypeOK
  <2>3. queue' \subseteq queue /\ group' \subseteq group
    BY <1>5 DEF UploadTar, UploadMeta, VerifyFails, Halt
  <2> QED BY <1>0, <2>1, <2>2, <2>3 DEF Shipped, TypeOK
<1>6. CASE RecordShard
  <2>1. /\ UNCHANGED <<queue, group, remote>>
        /\ pc = "metaUp" /\ pc' = "recorded" /\ nextIndex' = nextIndex + 1
    BY <1>6 DEF RecordShard
  <2>2. nextIndex \in Shards /\ remote[nextIndex] = group /\ queue \cap group = {}
    BY <1>0, <2>1 DEF PassInv
  <2>3. \A e \in Episodes : shippedIn'[IdOf[e]] =
          IF e \in group THEN nextIndex ELSE shippedIn[IdOf[e]]
    BY <1>0, <1>6, UniqueIds, SpoolAssumption DEF RecordShard, TypeOK, UniqueIds
  <2>4. \A e \in queue' : ~Shipped(e)'
    BY <1>0, <2>1, <2>2, <2>3 DEF Shipped, TypeOK
  <2>5. ASSUME NEW n \in Shards, NEW e \in remote'[n]
        PROVE  n < nextIndex' /\ shippedIn'[IdOf[e]] = n
    <3>1. e \in Episodes /\ e \in remote[n] /\ n <= nextIndex
      BY <1>0, <2>1, <2>5 DEF TypeOK
    <3>2. CASE n < nextIndex
      <4>1. shippedIn[IdOf[e]] = n /\ n # NotYet
        BY <3>1, <3>2 DEF Shards, NotYet
      <4>2. e \notin group
        BY <2>1, <4>1 DEF Shipped
      <4> QED BY <1>0, <2>1, <2>3, <3>1, <3>2, <4>1, <4>2 DEF TypeOK, Shards
    <3>3. CASE n = nextIndex
      BY <1>0, <2>1, <2>2, <2>3, <3>1, <3>3 DEF TypeOK, Shards
    <3> QED BY <1>0, <3>1, <3>2, <3>3 DEF TypeOK, Shards
  <2> QED BY <2>1, <2>4, <2>5, <1>0 DEF TypeOK, Shards
<1>7. CASE \E e \in group : DeleteFile(e)
  BY <1>7 DEF DeleteFile, Shipped
<1>8. CASE UNCHANGED vars
  BY <1>8 DEF vars, Shipped
<1> QED BY <1>1, <1>2, <1>3, <1>4, <1>5, <1>6, <1>7, <1>8 DEF Next, Spooler

LEMMA IdInvariant == ASSUME UniqueIds PROVE Spec => []IdInv
<1>1. DiskInv /\ DiskInv' /\ IdInv /\ [Next]_vars => IdInv'
  BY UniqueIds, IdInvStep
<1> QED BY <1>1, IdInvInit, DiskInvariant, PTL DEF Spec

\* With unique ids no two remote shards, recorded or left behind by a crash,
\* share an episode (journal.py's "duplicate episodes ... are not" possible).
THEOREM SpoolNoDuplicates == ASSUME UniqueIds PROVE Spec => []NoDuplicateEpisodes
<1>1. TypeOK /\ IdInv => NoDuplicateEpisodes
  <2> SUFFICES ASSUME TypeOK, IdInv, NEW m \in Shards, NEW n \in Shards,
                      NEW e \in remote[m], NEW f \in remote[n], IdOf[e] = IdOf[f]
               PROVE  m = n
    BY DEF NoDuplicateEpisodes
  <2>1. m <= nextIndex /\ n <= nextIndex /\ m # NotYet /\ n # NotYet
    BY DEF IdInv, Shards, NotYet
  <2>2. CASE m < nextIndex /\ n < nextIndex
    BY <2>2 DEF IdInv
  <2>3. CASE ~(m < nextIndex) /\ ~(n < nextIndex)
    BY <2>1, <2>3 DEF TypeOK, Shards
  <2>4. CASE m < nextIndex /\ ~(n < nextIndex)
    BY <2>1, <2>4 DEF IdInv, Shipped
  <2>5. CASE ~(m < nextIndex) /\ n < nextIndex
    BY <2>1, <2>5 DEF IdInv, Shipped
  <2> QED BY <2>2, <2>3, <2>4, <2>5
<1> QED BY <1>1, SpoolTypeOK, IdInvariant, PTL

\* With unique ids the journal's skip-by-id never leaves an episode behind.
THEOREM SpoolSkipsOnlyShipped == ASSUME UniqueIds PROVE Spec => []SkippedMeansShipped
<1>1. TypeOK /\ JournalHonest => SkippedMeansShipped
  <2> SUFFICES ASSUME TypeOK, JournalHonest, NEW e \in Episodes, Shipped(e)
               PROVE  e \in Dataset
    BY DEF SkippedMeansShipped
  <2> DEFINE n == shippedIn[IdOf[e]]
  <2>1. n \in Shards /\ n < nextIndex /\ \E f \in remote[n] : IdOf[f] = IdOf[e]
    BY SpoolAssumption DEF TypeOK, Shipped, JournalHonest, IsDurable
  <2>2. e \in remote[n]
    BY <2>1, UniqueIds DEF UniqueIds, TypeOK
  <2> QED BY <2>1, <2>2, InDataset
<1> QED BY <1>1, SpoolTypeOK, SpoolJournalHonest, PTL

\* With unique ids the pending list of a pass stays true until its last group
\* is packed: pack_shard finds every file.
THEOREM SpoolPacksExistingFiles == ASSUME UniqueIds PROVE Spec => []PackedFilesExist
<1>1. DiskInv /\ IdInv => PackedFilesExist
  BY DEF DiskInv, PassInv, Unshipped, IdInv, PackedFilesExist, InFlight
<1> QED BY <1>1, DiskInvariant, IdInvariant, PTL

-----------------------------------------------------------------------------
\* The spooler implements EpisodeShipping: an episode leaves the disk only
\* after a whole shard of local episodes became durable.
THEOREM SpoolImplementsShipping == Spec => ShippingSpec
<1> DEFINE Local == {e \in Episodes : files[e] = AllFiles}
<1>1. Init => Shipping!Init
  BY DEF Init, Shipping!Init, Dataset, IsDurable, Shards, AllFiles
<1>2. DiskInv /\ DiskInv' /\ [Next]_vars => [Shipping!Next]_(Shipping!vars)
  <2> SUFFICES ASSUME DiskInv, DiskInv', [Next]_vars
               PROVE  \/ Shipping!Next
                      \/ Local' = Local /\ Dataset' = Dataset
    BY DEF Shipping!vars
  <2> USE DEF disk, journal, hub, Shipping!Next
  <2>0. TypeOK
    BY DEF DiskInv
  <2>1. ASSUME NEW e \in Episodes, OpenVideo(e) \/ CloseVideo(e) \/ WriteManifest(e) \/ Age(e)
        PROVE  \/ Shipping!Next
               \/ Local' = Local /\ Dataset' = Dataset
    <3>1. Dataset' = Dataset
      BY <2>1, DatasetUnchanged DEF OpenVideo, CloseVideo, WriteManifest, Age
    <3>2. CASE WriteManifest(e)
      <4>1. e \notin Local /\ e \notin Dataset
        BY <3>2 DEF WriteManifest, DiskInv, FilesFollowStage, HubInv, Dataset, Complete, AllFiles
      <4>2. Local' = Local \cup {e}
        BY <2>0, <3>2 DEF WriteManifest, DiskInv, FilesFollowStage, AllFiles, TypeOK
      <4> QED BY <3>1, <4>1, <4>2 DEF Shipping!Capture
    <3>3. CASE OpenVideo(e) \/ CloseVideo(e) \/ Age(e)
      <4>1. Local' = Local
        <5>1. CASE OpenVideo(e)
          BY <2>0, <5>1 DEF OpenVideo, DiskInv, FilesFollowStage, AllFiles, TypeOK
        <5>2. CASE CloseVideo(e)
          BY <2>0, <5>2 DEF CloseVideo, DiskInv, FilesFollowStage, AllFiles, TypeOK
        <5>3. CASE Age(e)
          BY <5>3 DEF Age
        <5> QED BY <3>3, <5>1, <5>2, <5>3
      <4> QED BY <3>1, <4>1
    <3> QED BY <2>1, <3>2, <3>3
  <2>2. CASE RecordShard
    <3>1. group # {} /\ group \subseteq Local /\ group \cap Dataset = {}
      BY <2>2, <2>0 DEF RecordShard, Goto, DiskInv, PassInv, InFlight, Unshipped, TypeOK
    <3>2. Dataset' = Dataset \cup group
      BY <2>2, RecordStep DEF DiskInv
    <3>3. Local' = Local
      BY <2>2 DEF RecordShard
    <3> QED BY <2>0, <3>1, <3>2, <3>3 DEF Shipping!Ship, TypeOK
  <2>3. ASSUME NEW e \in group, DeleteFile(e)
        PROVE  \/ Shipping!Next
               \/ Local' = Local /\ Dataset' = Dataset
    <3>1. e \in Dataset /\ e \in Episodes
      BY <2>0, <2>3, DeleteStep DEF TypeOK, DiskInv
    <3>2. Dataset' = Dataset
      BY <2>3, DatasetUnchanged DEF DeleteFile
    <3>3. Local' = Local \ {e}
      BY <2>0, <2>3 DEF DeleteFile, TypeOK, NextFile, AllFiles
    <3> QED BY <3>1, <3>2, <3>3 DEF Shipping!Discard
  <2>4. CASE UploadTar \/ UploadMeta \/ VerifyFails
    <3>1. Local' = Local
      BY <2>4 DEF UploadTar, UploadMeta, VerifyFails
    <3>2. \A n \in Shards : n < nextIndex => remote'[n] = remote[n]
      BY <2>0, <2>4, UploadKeepsRecorded
    <3> QED BY <2>4, <3>1, <3>2 DEF UploadTar, UploadMeta, VerifyFails, Dataset, IsDurable
  <2>5. CASE Start \/ Discover \/ CleanStaging \/ EndPass \/ Crash \/ UNCHANGED vars
             \/ \E G \in SUBSET queue : SkipGroup(G) \/ PackGroup(G)
    <3>1. UNCHANGED <<files, nextIndex, remote>>
      BY <2>5 DEF Start, Discover, CleanStaging, EndPass, Crash, SkipGroup, PackGroup, vars
    <3> QED BY <3>1, DatasetUnchanged
  <2> QED BY <2>1, <2>2, <2>3, <2>4, <2>5 DEF Next, Writer, Spooler
<1> QED BY <1>1, <1>2, DiskInvariant, PTL DEF Spec, ShippingSpec, Shipping!Spec
=============================================================================
