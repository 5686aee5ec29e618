--------------------------- MODULE Training_proofs ---------------------------
(***************************************************************************)
(* Proofs about four components of Training. The checkpoints of an         *)
(* nxwm-mira run, for any number of steps, any save, retention and log     *)
(* intervals and any number of deaths: LoopInv says where the processes    *)
(* stand, ContentInv what the weights and the files hold, DiskInv which    *)
(* directories there are. And the trainers of nxrl and nxwm, for any       *)
(* number of ranks, samples and turns: BestInv is about the record and     *)
(* its files, SeedsInv about PPO's rollouts, SamplesInv about the samples  *)
(* of an epoch. The network of nxwm-mira at work: StreamInv, for any       *)
(* strides, contexts and window sizes. And the loops around nxwm's models: *)
(* ImagInv, for any window, offset, unroll and place of the seed. The type *)
(* theorems of all five components are put together at the end.            *)
(***************************************************************************)
EXTENDS Rewards_proofs

Running == pc \notin {"down", "done", "failed"}
Saving == pc \in {"save", "model", "state", "replace", "remove"}

\* A save within the loop is due, the one behind the loop is the final one.
LoopInv ==
  /\ Running => iter \in Steps
  /\ final => pc \in {"save", "model", "state", "replace", "remove", "done", "failed"}
  /\ Running /\ final => iter = TotalSteps - 1
  /\ (Saving /\ ~final) \/ pc = "barrier" => Due("save", iter)
  /\ Running /\ ~final => peer.iter = iter
  /\ pc = "train" => peer.at = "train"

\* The components after n steps of this command, all but the swap.
Given == IF mode = "finetune" THEN SourceStep + 1 ELSE 0
Like(m, n) == m.steps = n + Given /\ m.schedule = n /\ m.average = n

\* What a file in the directory of step s holds.
Fits(f, s) ==
  \/ f = Here
  \/ Like(f.holds, s + 1) /\ f.holds.averaged = (f.name = "checkpoint.pth")

\* The W&B run of the first launch.
FirstRun == IF mode = "continue" THEN SourceRun ELSE OwnRuns

InMemory ==
  Running => /\ Like(model, IF pc = "train" THEN iter ELSE iter + 1)
             /\ model.averaged => pc \in {"viz", "validate", "model"}
             /\ report = FirstRun

Reported ==
  /\ sidecar = NoRun => deaths = 0 /\ pc = "down"
  /\ sidecar # NoRun => sidecar = FirstRun

OnDisk == \A s \in Steps : \A f \in kept[s] \cup temp[s] : Fits(f, s)

ContentInv == InMemory /\ Reported /\ OnDisk

\* Below what is being trained, or just saved and not the last.
Behind(s) ==
  \/ s < iter
  \/ s = iter /\ pc \in {"remove", "barrier"}
  \/ s = iter /\ pc = "meet" /\ iter < TotalSteps - 1

Top(s) == Whole(s) /\ \A t \in Found : t <= s

NewestWhole == Found # {} => \E s \in Steps : Top(s)

AllBehind ==
  Running => /\ \A s \in Found : Behind(s)
             /\ \A i \in 1 .. Len(recent) : Behind(recent[i])

\* What is in the temporary directory before it is moved.
InTemp ==
  /\ pc = "model" => FileNames(temp[iter]) = {"."}
  /\ pc = "state" => FileNames(temp[iter]) = {".", "checkpoint.pth"}
  /\ pc = "replace" => FileNames(temp[iter]) = Entries

SavedOnTop ==
  /\ pc = "remove" => Top(iter) /\ \A i \in 1 .. Len(doomed) : doomed[i] # iter
  /\ saved # NoStep => /\ saved \in Steps /\ Top(saved)
                       /\ pc \notin {"model", "state", "replace", "remove"}

DiskInv == NewestWhole /\ AllBehind /\ InTemp /\ SavedOnTop

\* The last step of the loop is not one at which the loop saves: a step saved
\* twice has its directory removed while it is the newest one.
NoResave == ~Due("save", TotalSteps - 1)

-----------------------------------------------------------------------------
(* Numbers and lists                                                       *)

\* The last one of finitely many.
LEMMA GreatestExists ==
  ASSUME NEW n \in Nat, NEW S, S \subseteq 0 .. n, S # {}
  PROVE  \E j \in S : \A l \in S : l <= j
<1> DEFINE T == {n - s : s \in S}
<1>1. T \subseteq Nat /\ T # {}
  <2>1. \A s \in S : n - s \in Nat
    OBVIOUS
  <2>2. T \subseteq Nat
    BY <2>1
  <2>3. PICK s \in S : TRUE
    OBVIOUS
  <2>4. n - s \in T
    BY <2>3
  <2> QED BY <2>2, <2>4
<1>2. PICK t \in T : \A u \in T : t <= u
  BY <1>1, LeastExists
<1>3. PICK j \in S : t = n - j
  OBVIOUS
<1>4. ASSUME NEW l \in S PROVE l <= j
  <2>1. n - l \in T
    OBVIOUS
  <2>2. n - j <= n - l /\ l \in Nat /\ j \in Nat
    BY <1>2, <1>3, <2>1
  <2> QED BY <2>2
<1> QED BY <1>4

\* The steps from zero on of any set of them are listed one by one.
LEMMA Listed ==
  ASSUME NEW T, NEW S, S \subseteq T, IsFiniteSet(S), NEW q \in InOrder(S)
  PROVE  q \in Seq(T) /\ \A i \in 1 .. Len(q) : q[i] \in S
<1>1. PICK n \in Nat : n = Cardinality(S)
  BY FS_CardinalityType
<1>2. q \in [1 .. n -> S]
  BY <1>1 DEF InOrder
<1>3. q \in Seq(S) /\ Len(q) = n
  BY <1>1, <1>2, SeqDef, LenProperties
<1>4. q \in [1 .. n -> T]
  BY <1>2
<1> QED BY <1>1, <1>2, <1>3, <1>4, SeqDef

LEMMA FoundIsFinite == IsFiniteSet(Found) /\ Found \subseteq Steps
<1>1. TotalSteps \in Nat \ {0} /\ 0 \in Int /\ TotalSteps - 1 \in Int
  BY CheckpointsAssumption
<1>2. IsFiniteSet(Steps)
  BY <1>1, FS_Interval DEF Steps
<1>3. Found \in SUBSET Steps
  BY DEF Found
<1> QED BY <1>2, <1>3, FS_Subset

\* The newest directory.
LEMMA NewestIsThere ==
  ASSUME Found # {}
  PROVE  Newest \in Found /\ Newest \in Steps /\ \A t \in Found : t <= Newest
<1>1. TotalSteps \in Nat \ {0} /\ TotalSteps - 1 \in Nat
  BY CheckpointsAssumption
<1>2. Found \subseteq 0 .. TotalSteps - 1
  BY DEF Found, Steps
<1>3. \E s \in Found : \A t \in Found : t <= s
  BY <1>1, <1>2, GreatestExists
<1> QED BY <1>2, <1>3 DEF Newest, Steps

-----------------------------------------------------------------------------
(* The stops of an iteration                                               *)

LEMMA MainStops ==
  ASSUME NEW stop \in {"train", "log", "viz", "validate", "save", "barrier"}, NEW i
  PROVE  /\ StopAfter(Stops, stop, i) \in {"log", "viz", "validate", "save", "barrier", "meet"}
         /\ Due(StopAfter(Stops, stop, i), i)
         /\ stop = "barrier" => StopAfter(Stops, stop, i) = "meet"
<1> DEFINE z == CHOOSE m \in DOMAIN Stops : Stops[m] = stop
           later == {m \in DOMAIN Stops : m > z /\ Due(Stops[m], i)}
<1>1. DOMAIN Stops = 1 .. 7
  BY DEF Stops
<1>2. /\ Stops[1] = "train" /\ Stops[2] = "log" /\ Stops[3] = "viz"
      /\ Stops[4] = "validate" /\ Stops[5] = "save" /\ Stops[6] = "barrier"
      /\ Stops[7] = "meet"
  BY DEF Stops
<1> HIDE DEF z
<1>3. \E m \in 1 .. 7 : Stops[m] = stop
  BY <1>2
<1>4. z \in 1 .. 7 /\ Stops[z] = stop
  BY <1>1, <1>3 DEF z
<1>5. z \in 1 .. 6 /\ (stop = "barrier" => z = 6)
  BY <1>2, <1>4
<1>6. 7 \in later
  <2>1. Due("meet", i)
    BY DEF Due
  <2> QED BY <1>1, <1>2, <1>5, <2>1
<1>7. later \subseteq Nat /\ \A m \in later : m \in 2 .. 7 /\ m > z /\ Due(Stops[m], i)
  BY <1>1, <1>5
<1> DEFINE j == CHOOSE m \in later : \A l \in later : m <= l
<1>8. StopAfter(Stops, stop, i) = Stops[j]
  BY DEF StopAfter, z
<1> HIDE DEF later
<1>9. j \in later
  BY <1>6, <1>7, LeastExists
<1> HIDE DEF j
<1> QED BY <1>2, <1>5, <1>7, <1>8, <1>9

LEMMA OtherStops ==
  ASSUME NEW stop \in {"train", "log", "validate", "barrier"}, NEW i
  PROVE  StopAfter(PeerStops, stop, i) \in {"log", "validate", "barrier", "meet"}
<1> DEFINE z == CHOOSE m \in DOMAIN PeerStops : PeerStops[m] = stop
           later == {m \in DOMAIN PeerStops : m > z /\ Due(PeerStops[m], i)}
<1>1. DOMAIN PeerStops = 1 .. 5
  BY DEF PeerStops
<1>2. /\ PeerStops[1] = "train" /\ PeerStops[2] = "log" /\ PeerStops[3] = "validate"
      /\ PeerStops[4] = "barrier" /\ PeerStops[5] = "meet"
  BY DEF PeerStops
<1> HIDE DEF z
<1>3. z \in 1 .. 5 /\ PeerStops[z] = stop
  <2>1. \E m \in 1 .. 5 : PeerStops[m] = stop
    BY <1>2
  <2> QED BY <1>1, <2>1 DEF z
<1>4. z \in 1 .. 4
  BY <1>2, <1>3
<1>5. 5 \in later
  <2>1. Due("meet", i)
    BY DEF Due
  <2> QED BY <1>1, <1>2, <1>4, <2>1
<1>6. later \subseteq Nat /\ \A m \in later : m \in 2 .. 5
  BY <1>1, <1>4
<1> DEFINE j == CHOOSE m \in later : \A l \in later : m <= l
<1>7. StopAfter(PeerStops, stop, i) = PeerStops[j]
  BY DEF StopAfter, z
<1> HIDE DEF later
<1>8. j \in later
  BY <1>5, <1>6, LeastExists
<1> HIDE DEF j
<1> QED BY <1>2, <1>6, <1>7, <1>8

\* Processes that leave a collective together go each to its next stop.
LEMMA LeavesTo ==
  ASSUME NEW stop \in {"train", "log", "validate", "barrier"}, Leaves(stop),
         CheckpointsTypeOK
  PROVE  /\ pc = stop /\ peer.at = stop
         /\ pc' \in {"log", "viz", "validate", "save", "barrier", "meet"} /\ Due(pc', iter)
         /\ stop = "barrier" => pc' = "meet"
         /\ peer'.at \in {"log", "validate", "barrier", "meet"} /\ peer'.iter = peer.iter
         /\ peer' \in [at : {"down", "train", "log", "validate", "barrier", "meet",
                             "done", "failed"}, iter : Nat]
<1>1. pc' = StopAfter(Stops, stop, iter) /\ pc = stop /\ peer.at = stop
  BY DEF Leaves
<1>2. peer' = [peer EXCEPT !.at = StopAfter(PeerStops, stop, peer.iter)]
  BY DEF Leaves
<1>3. StopAfter(PeerStops, stop, peer.iter) \in {"log", "validate", "barrier", "meet"}
  BY OtherStops
<1>4. peer \in [at : {"down", "train", "log", "validate", "barrier", "meet", "done",
                      "failed"}, iter : Nat]
  BY DEF CheckpointsTypeOK
<1>5. /\ peer'.at = StopAfter(PeerStops, stop, peer.iter) /\ peer'.iter = peer.iter
      /\ peer' \in [at : {"down", "train", "log", "validate", "barrier", "meet",
                          "done", "failed"}, iter : Nat]
  BY <1>2, <1>3, <1>4
<1> QED BY <1>1, <1>3, <1>5, MainStops

-----------------------------------------------------------------------------
(* Retention                                                               *)

\* One checkpoint at most goes, and with KeepRecent never the last in the list.
LEMMA RetainTakes ==
  ASSUME NEW q \in Seq(Steps), NEW r \in Retain(q)
  PROVE  /\ r.remove \in Seq(Steps) /\ r.keep \in Seq(Steps)
         /\ \A i \in 1 .. Len(r.keep) : \E j \in 1 .. Len(q) : r.keep[i] = q[j]
         /\ KeepRecent # 0 =>
              \A i \in 1 .. Len(r.remove) : \E j \in 1 .. Len(q) - 1 : r.remove[i] = q[j]
<1>1. PICK n \in Nat : n = Len(q)
  BY LenProperties
<1>2. DOMAIN q = 1 .. n /\ \A i \in 1 .. n : q[i] \in Steps
  BY <1>1, ElementOfSeq, LenProperties
<1> DEFINE temps == Temporary(q)
           oldest == CHOOSE i \in temps : \A j \in temps : i <= j
<1>3. temps \subseteq 1 .. n
  BY <1>2 DEF Temporary
<1>4. IsFiniteSet(temps) /\ Cardinality(temps) \in Nat
  <2>1. IsFiniteSet(1 .. n)
    <3>1. 1 \in Int /\ n \in Int
      OBVIOUS
    <3> QED BY <3>1, FS_Interval
  <2> QED BY <1>3, <2>1, FS_Subset, FS_CardinalityType
<1>5. KeepRecent \in Nat
  BY CheckpointsAssumption
<1>6. CASE Cardinality(temps) > KeepRecent
  <2>1. r = [remove |-> <<q[oldest]>>, keep |-> DropAt(q, oldest)]
    BY <1>6 DEF Retain
  <2> HIDE DEF temps
  <2>2. temps # {} /\ temps \subseteq Nat
    <3>1. Cardinality({}) = 0
      BY FS_EmptySet
    <3>2. temps # {}
      <4> SUFFICES ASSUME temps = {} PROVE FALSE
        OBVIOUS
      <4>1. Cardinality(temps) = 0
        BY <3>1
      <4> QED BY <1>5, <1>6, <4>1
    <3>3. temps \subseteq Nat
      BY <1>1, <1>3
    <3> QED BY <3>2, <3>3
  <2>3. oldest \in temps /\ \A j \in temps : oldest <= j
    BY <2>2, LeastExists
  <2> HIDE DEF oldest
  <2>4. oldest \in 1 .. n /\ q[oldest] \in Steps
    BY <1>2, <1>3, <2>3
  <2>5. KeepRecent # 0 => oldest # n
    <3> SUFFICES ASSUME KeepRecent # 0, oldest = n PROVE FALSE
      OBVIOUS
    <3>1. \A j \in temps : j = n
      BY <1>3, <2>3
    <3>2. temps = {n}
      BY <2>3, <3>1
    <3>3. Cardinality(temps) = 1
      BY <3>2, FS_Singleton
    <3> QED BY <1>5, <1>6, <3>3
  <2>6. DropAt(q, oldest) \in [1 .. n - 1 -> Steps]
    <3>1. \A j \in 1 .. n - 1 : j \in 1 .. n /\ j + 1 \in 1 .. n
      OBVIOUS
    <3> QED BY <1>1, <1>2, <3>1 DEF DropAt
  <2>7. n - 1 \in Nat
    BY <2>4
  <2> DEFINE rest == DropAt(q, oldest)
  <2>8. \A i \in 1 .. n - 1 : \E j \in 1 .. n : rest[i] = q[j]
    <3> TAKE i \in 1 .. n - 1
    <3>1. i \in 1 .. n /\ i + 1 \in 1 .. n
      OBVIOUS
    <3>2. rest[i] = IF i < oldest THEN q[i] ELSE q[i + 1]
      BY <1>1 DEF DropAt
    <3> QED BY <3>1, <3>2
  <2>9. r.keep = rest /\ r.remove = <<q[oldest]>>
    BY <2>1
  <2> HIDE DEF rest
  <2>10. rest \in Seq(Steps) /\ Len(rest) = n - 1
    BY <2>6, <2>7, SeqDef, LenProperties DEF rest
  <2>11. r.remove \in Seq(Steps) /\ Len(r.remove) = 1 /\ r.remove[1] = q[oldest]
    BY <2>4, <2>9
  <2>12. KeepRecent # 0 => oldest \in 1 .. n - 1
    BY <2>4, <2>5
  <2> QED BY <1>1, <2>8, <2>9, <2>10, <2>11, <2>12
<1>7. CASE ~(Cardinality(temps) > KeepRecent)
  <2>1. r = [remove |-> <<>>, keep |-> q]
    BY <1>7 DEF Retain
  <2>2. r.remove = <<>> /\ r.keep = q
    BY <2>1
  <2>3. r.remove \in Seq(Steps) /\ Len(r.remove) = 0
    BY <2>2, EmptySeq
  <2> QED BY <2>2, <2>3
<1> QED BY <1>6, <1>7

\* At the end none goes that is at the step just saved.
LEMMA RetainFinalTakes ==
  ASSUME NEW q \in Seq(Steps), NEW r \in RetainFinal(q)
  PROVE  /\ r.remove \in Seq(Steps) /\ r.keep = q
         /\ \A i \in 1 .. Len(r.remove) : r.remove[i] # iter
<1> DEFINE S == {i \in Temporary(q) : q[i] # iter}
<1>1. PICK n \in Nat : n = Len(q)
  BY LenProperties
<1>2. DOMAIN q = 1 .. n /\ \A i \in 1 .. n : q[i] \in Steps
  BY <1>1, ElementOfSeq, LenProperties
<1>3. S \subseteq 1 .. n /\ \A i \in S : q[i] # iter
  BY <1>2 DEF Temporary
<1>4. IsFiniteSet(S)
  <2>1. 1 \in Int /\ n \in Int
    OBVIOUS
  <2>2. IsFiniteSet(1 .. n)
    BY <2>1, FS_Interval
  <2> QED BY <1>3, <2>2, FS_Subset
<1>5. PICK others \in InOrder(S) :
        r = [remove |-> [z \in DOMAIN others |-> q[others[z]]], keep |-> q]
  BY DEF RetainFinal
<1> HIDE DEF S
<1>6. others \in Seq(1 .. n) /\ \A i \in 1 .. Len(others) : others[i] \in S
  BY <1>3, <1>4, Listed
<1>7. PICK m \in Nat : m = Len(others) /\ DOMAIN others = 1 .. m
  BY <1>6, LenProperties
<1>8. \A z \in 1 .. m : q[others[z]] \in Steps /\ q[others[z]] # iter
  BY <1>2, <1>3, <1>6, <1>7
<1> DEFINE gone == [z \in 1 .. m |-> q[others[z]]]
<1>9. gone \in [1 .. m -> Steps] /\ \A z \in 1 .. m : gone[z] # iter
  BY <1>8
<1>10. r.remove = gone /\ r.keep = q
  BY <1>5, <1>7
<1> HIDE DEF gone
<1>11. gone \in Seq(Steps) /\ Len(gone) = m
  BY <1>9, SeqDef, LenProperties
<1> QED BY <1>9, <1>10, <1>11

-----------------------------------------------------------------------------
(* What the steps keep, whatever the constants                             *)

\* Of Training only the steps of the nxwm-mira run move these variables.
LEMMA OnlyCheckpointSteps ==
  /\ Init => CheckpointsInit
  /\ [Next]_trainingVars => [CheckpointsNext]_checkpointVars
<1>1. Init => CheckpointsInit
  BY DEF Init
<1>2. ASSUME Next PROVE [CheckpointsNext]_checkpointVars
  <2>1. CASE Rolls
    BY <2>1 DEF Rolls
  <2>2. CASE Trains
    BY <2>2 DEF Trains
  <2>3. CASE Iterates
    BY <2>3 DEF Iterates, CheckpointsNext
  <2>4. CASE Imagines
    BY <2>4 DEF Imagines
  <2>5. CASE Streams
    BY <2>5 DEF Streams
  <2>6. CASE Crashes
    BY <2>6 DEF Crashes, CheckpointsNext
  <2> QED BY <1>2, <2>1, <2>2, <2>3, <2>4, <2>5, <2>6 DEF Next, Runs
<1>3. UNCHANGED trainingVars => UNCHANGED checkpointVars
  BY DEF trainingVars
<1> QED BY <1>1, <1>2, <1>3

\* A whole directory gives back what it holds of the components.
LEMMA StateIsThere ==
  ASSUME NEW s, "training_state.pth" \in FileNames(kept[s])
  PROVE  \E f \in kept[s] : f.name = "training_state.pth" /\ StateOf(s) = f.holds
BY DEF FileNames, StateOf

LEMMA StartTypes ==
  ASSUME CheckpointsTypeOK, Start
  PROVE  /\ model' \in Models /\ iter' \in Nat /\ pc' \in {"train", "done", "failed"}
         /\ peer' = [at |-> pc', iter |-> iter'] /\ (pc' = "train" => iter' \in Steps)
         /\ recent' \in Seq(Steps) /\ \A i \in 1 .. Len(recent') : recent'[i] \in Found
         /\ report' = ReportTo /\ ReportTo \in Nat /\ saved' = NoStep
<1> DEFINE resumes == mode = "auto" /\ Found # {}
           broken == resumes /\ "training_state.pth" \notin FileNames(kept[Newest])
           from == IF mode = "continue" THEN SourceStep + 1
                   ELSE IF resumes THEN Newest + 1 ELSE 0
<1>1. /\ iter' = from /\ pc' = IF broken THEN "failed" ELSE Enter(from)
      /\ peer' = [at |-> pc', iter |-> from]
      /\ model' = IF mode = "continue" THEN ContinueFrom(After(from))
                  ELSE IF mode = "finetune" THEN FinetuneFrom(SourceStep)
                  ELSE IF resumes /\ ~broken THEN ContinueFrom(StateOf(Newest)) ELSE Nothing
      /\ recent' \in InOrder(Found) /\ report' = ReportTo /\ saved' = NoStep
  BY DEF Start
<1>2. SourceStep \in Nat /\ TotalSteps \in Nat \ {0}
  BY CheckpointsAssumption
<1>3. resumes => Newest \in Steps
  BY NewestIsThere
<1>4. from \in Nat
  BY <1>2, <1>3 DEF Steps
<1>5. resumes /\ ~broken => StateOf(Newest) \in Models
  <2>1. SUFFICES ASSUME resumes, ~broken PROVE StateOf(Newest) \in Models
    OBVIOUS
  <2>2. PICK f \in kept[Newest] : StateOf(Newest) = f.holds
    BY <2>1, StateIsThere
  <2>3. kept[Newest] \subseteq Files
    BY <1>3, <2>1 DEF CheckpointsTypeOK
  <2> QED BY <2>2, <2>3 DEF Files
<1>6. After(from) \in Models /\ FinetuneFrom(SourceStep) \in Models /\ Nothing \in Models
  <2>1. \A n \in Nat : After(n) \in Models
    BY DEF After, Models
  <2>2. \A m \in Models, n \in Nat : [m EXCEPT !.steps = n] \in Models
    BY DEF Models
  <2>3. SourceStep + 1 \in Nat
    BY <1>2
  <2>4. FinetuneFrom(SourceStep) \in Models
    BY <2>1, <2>2, <2>3 DEF FinetuneFrom
  <2> QED BY <1>4, <2>1, <2>4 DEF Nothing
<1>7. recent' \in Seq(Steps) /\ \A i \in 1 .. Len(recent') : recent'[i] \in Found
  BY <1>1, FoundIsFinite, Listed
<1>8. ReportTo \in Nat
  BY DEF ReportTo, SourceRun, OwnRuns, NoRun, CheckpointsTypeOK
<1> HIDE DEF resumes, broken, from
<1>9. model' \in Models
  BY <1>1, <1>5, <1>6 DEF ContinueFrom
<1>10. pc' \in {"train", "done", "failed"} /\ (pc' = "train" => iter' \in Steps)
  BY <1>1, <1>2, <1>4 DEF Enter, Steps
<1> QED BY <1>1, <1>4, <1>7, <1>8, <1>9, <1>10

LEMMA RemoveTypes ==
  ASSUME NEW s \in Steps, kept \in [Steps -> SUBSET Files], RemoveEntry(s)
  PROVE  /\ kept' \in [Steps -> SUBSET Files]
         /\ kept'[s] \subseteq kept[s] /\ \A t \in Steps : t # s => kept'[t] = kept[t]
         /\ kept[s] # {}
BY DEF RemoveEntry

LEMMA FilesAreTyped ==
  /\ Here \in Files
  /\ \A m \in Models, n \in Entries : File(n, m) \in Files
  /\ Nothing \in Models
BY DEF Here, File, Files, Entries, Nothing, After, Models

TypedLoop == CheckpointsTypeOK /\ LoopInv

LEMMA InitTypes ==
  ASSUME CheckpointsInit
  PROVE  TypedLoop
<1>1. TotalSteps \in Nat \ {0} /\ MaxDeaths \in Nat
  BY CheckpointsAssumption
<1>2. kept \in [Steps -> SUBSET Files] /\ temp \in [Steps -> SUBSET Files]
  BY DEF CheckpointsInit
<1>3. recent \in Seq(Steps) /\ doomed \in Seq(Steps)
  BY DEF CheckpointsInit
<1>4. model \in Models
  BY FilesAreTyped DEF CheckpointsInit
<1>5. peer \in [at : {"down", "train", "log", "validate", "barrier", "meet", "done", "failed"},
                iter : Nat]
  BY DEF CheckpointsInit
<1>6. /\ mode \in Modes /\ sidecar \in Nat /\ report \in Nat /\ iter \in Nat
      /\ saved \in Steps \cup {NoStep} /\ deaths \in 0 .. MaxDeaths
  BY <1>1 DEF CheckpointsInit, NoRun
<1>7. pc = "down" /\ final = FALSE
  BY DEF CheckpointsInit
<1>8. CheckpointsTypeOK
  BY <1>2, <1>3, <1>4, <1>5, <1>6, <1>7 DEF CheckpointsTypeOK
<1> QED BY <1>7, <1>8 DEF TypedLoop, LoopInv, Running, Saving

\* From one stop of an iteration to another.
LEMMA StopToStop ==
  ASSUME TypedLoop, pc \in {"train", "log", "viz", "validate", "barrier"},
         pc' \in {"log", "viz", "validate", "save", "barrier", "meet"}, Due(pc', iter),
         peer'.iter = peer.iter, iter' = iter, final' = final
  PROVE  LoopInv'
<1>1. Due("barrier", iter) <=> Due("save", iter)
  BY DEF Due
<1>2. iter \in Steps /\ ~final
  BY DEF TypedLoop, LoopInv, Running
<1>3. peer.iter = iter
  BY DEF TypedLoop, LoopInv, Running
<1>4. (Saving /\ ~final)' \/ pc' = "barrier" => Due("save", iter)
  <2>1. CASE pc' = "save"
    BY <2>1
  <2>2. CASE pc' = "barrier"
    BY <1>1, <2>2
  <2> QED BY <2>1, <2>2 DEF Saving
<1> QED BY <1>2, <1>3, <1>4 DEF LoopInv, Running, Saving

\* From one point of a save to another.
LEMMA SaveToSave ==
  ASSUME TypedLoop, pc \in {"save", "model", "state", "replace"},
         pc' \in {"model", "state", "replace", "remove"},
         peer' = peer, iter' = iter, final' = final
  PROVE  LoopInv'
<1>1. iter \in Steps /\ (final => iter = TotalSteps - 1)
      /\ (~final => Due("save", iter) /\ peer.iter = iter)
  BY DEF TypedLoop, LoopInv, Running, Saving
<1> QED BY <1>1 DEF LoopInv, Running, Saving

LEMMA StepTypes ==
  ASSUME TypedLoop, [CheckpointsNext]_checkpointVars
  PROVE  TypedLoop'
<1> USE DEF launch, disk
<1> SUFFICES CheckpointsTypeOK' /\ LoopInv'
  BY DEF TypedLoop
<1>0. CheckpointsTypeOK /\ LoopInv
  BY DEF TypedLoop
<1>1. \A m \in Models : /\ AverageStep(m) \in Models
                        /\ [m EXCEPT !.averaged = TRUE] \in Models
                        /\ [m EXCEPT !.averaged = FALSE] \in Models
                        /\ [m EXCEPT !.steps = @ + 1, !.schedule = @ + 1] \in Models
  <2> TAKE m \in Models
  <2>1. m.steps + 1 \in Nat /\ m.schedule + 1 \in Nat /\ m.average + 1 \in Nat
    BY DEF Models
  <2>2. [m EXCEPT !.average = m.average + 1] \in Models
    BY <2>1 DEF Models
  <2>3. [m EXCEPT !.steps = m.steps + 1, !.schedule = m.schedule + 1] \in Models
    BY <2>1 DEF Models
  <2>4. [m EXCEPT !.averaged = TRUE] \in Models /\ [m EXCEPT !.averaged = FALSE] \in Models
    BY DEF Models
  <2> QED BY <2>2, <2>3, <2>4 DEF AverageStep
<1>2. Running => iter \in Steps
  BY <1>0 DEF LoopInv
<1>3. TotalSteps \in Nat \ {0} /\ MaxDeaths \in Nat
  BY CheckpointsAssumption
<1>4. CASE Start
  <2>1. /\ model' \in Models /\ iter' \in Nat /\ pc' \in {"train", "done", "failed"}
        /\ peer' = [at |-> pc', iter |-> iter'] /\ (pc' = "train" => iter' \in Steps)
        /\ recent' \in Seq(Steps) /\ report' = ReportTo /\ ReportTo \in Nat /\ saved' = NoStep
    BY <1>0, <1>4, StartTypes
  <2>2. /\ UNCHANGED <<mode, kept, temp, final, doomed, deaths>>
        /\ pc = "down" /\ sidecar' = ReportTo
    BY <1>4 DEF Start
  <2>3. peer' \in [at : {"down", "train", "log", "validate", "barrier", "meet",
                         "done", "failed"}, iter : Nat]
    BY <2>1
  <2>4. CheckpointsTypeOK'
    BY <1>0, <2>1, <2>2, <2>3 DEF CheckpointsTypeOK
  <2>5. ~final
    BY <1>0, <2>2 DEF LoopInv
  <2>6. peer'.iter = iter' /\ peer'.at = pc'
    BY <2>1
  <2>7. LoopInv'
    BY <2>1, <2>2, <2>5, <2>6 DEF LoopInv, Running, Saving
  <2> QED BY <2>4, <2>7
<1>5. CASE Train
  <2>1. Leaves("train")
    BY <1>5 DEF Train
  <2>2. model' \in Models
    <3> DEFINE m == [model EXCEPT !.steps = @ + 1, !.schedule = @ + 1]
    <3>1. m \in Models
      BY <1>0, <1>1 DEF CheckpointsTypeOK
    <3>2. model' = AverageStep(m)
      BY <1>5 DEF Train
    <3> HIDE DEF m
    <3> QED BY <1>1, <3>1, <3>2
  <2>3. /\ UNCHANGED <<mode, report, deaths, kept, temp, sidecar, iter, final, recent, doomed>>
        /\ saved' = NoStep
    BY <1>5 DEF Train
  <2>4. CheckpointsTypeOK'
    BY <1>0, <2>1, <2>2, <2>3, LeavesTo DEF CheckpointsTypeOK
  <2>5. LoopInv'
    BY <1>0, <2>1, <2>3, LeavesTo, StopToStop
  <2> QED BY <2>4, <2>5
<1>6. CASE Log
  <2>1. Leaves("log")
        /\ UNCHANGED <<mode, report, deaths, kept, temp, sidecar, iter, model, final,
                       recent, doomed, saved>>
    BY <1>6 DEF Log
  <2>2. CheckpointsTypeOK'
    BY <1>0, <2>1, LeavesTo DEF CheckpointsTypeOK
  <2>3. LoopInv'
    BY <1>0, <2>1, LeavesTo, StopToStop
  <2> QED BY <2>2, <2>3
<1>7. CASE SwapIn
  <2>1. model' = [model EXCEPT !.averaged = TRUE]
        /\ UNCHANGED <<mode, report, deaths, kept, temp, sidecar, pc, iter, peer, final,
                       recent, doomed, saved>>
    BY <1>7 DEF SwapIn
  <2>2. model' \in Models
    BY <1>0, <1>1, <2>1 DEF CheckpointsTypeOK
  <2>3. CheckpointsTypeOK'
    BY <1>0, <2>1, <2>2 DEF CheckpointsTypeOK
  <2>4. LoopInv'
    BY <1>0, <2>1 DEF LoopInv, Running, Saving
  <2> QED BY <2>3, <2>4
<1>8. CASE Visualize
  <2>1. pc = "viz" /\ pc' = StopAfter(Stops, "viz", iter)
        /\ model' = [model EXCEPT !.averaged = FALSE]
        /\ UNCHANGED <<mode, report, deaths, kept, temp, sidecar, iter, peer, final,
                       recent, doomed, saved>>
    BY <1>8 DEF Visualize, SwapOut
  <2>2. pc' \in {"log", "viz", "validate", "save", "barrier", "meet"} /\ Due(pc', iter)
    BY <2>1, MainStops
  <2>3. model' \in Models
    BY <1>0, <1>1, <2>1 DEF CheckpointsTypeOK
  <2>4. CheckpointsTypeOK'
    BY <1>0, <2>1, <2>2, <2>3 DEF CheckpointsTypeOK
  <2>5. LoopInv'
    BY <2>1, <2>2, StopToStop
  <2> QED BY <2>4, <2>5
<1>9. CASE RunValidation
  <2>1. Leaves("validate") /\ model' = [model EXCEPT !.averaged = FALSE]
        /\ UNCHANGED <<mode, report, deaths, kept, temp, sidecar, iter, final, recent,
                       doomed, saved>>
    BY <1>9 DEF RunValidation, SwapOut
  <2>2. model' \in Models
    BY <1>0, <1>1, <2>1 DEF CheckpointsTypeOK
  <2>3. CheckpointsTypeOK'
    BY <1>0, <2>1, <2>2, LeavesTo DEF CheckpointsTypeOK
  <2>4. LoopInv'
    BY <1>0, <2>1, LeavesTo, StopToStop
  <2> QED BY <2>3, <2>4
<1>10. CASE Barrier
  <2>1. Leaves("barrier")
        /\ UNCHANGED <<mode, report, deaths, kept, temp, sidecar, iter, model, final,
                       recent, doomed, saved>>
    BY <1>10 DEF Barrier
  <2>2. CheckpointsTypeOK'
    BY <1>0, <2>1, LeavesTo DEF CheckpointsTypeOK
  <2>3. LoopInv'
    BY <1>0, <2>1, LeavesTo, StopToStop
  <2> QED BY <2>2, <2>3
<1>11. CASE Meet
  <2>1. /\ pc = "meet" /\ peer.at = "meet"
        /\ iter' = IF iter = TotalSteps - 1 THEN iter ELSE iter + 1
        /\ final' = (iter = TotalSteps - 1) /\ pc' = IF final' THEN "save" ELSE "train"
        /\ peer' = [at |-> Enter(peer.iter + 1), iter |-> peer.iter + 1]
        /\ UNCHANGED <<mode, report, deaths, kept, temp, sidecar, model, recent, doomed, saved>>
    BY <1>11 DEF Meet
  <2>2. iter \in Steps /\ peer.iter = iter /\ iter \in Nat
    BY <1>0, <2>1 DEF LoopInv, Running, CheckpointsTypeOK
  <2>3. Enter(peer.iter + 1) \in {"train", "done"}
        /\ (iter # TotalSteps - 1 => Enter(peer.iter + 1) = "train" /\ iter + 1 \in Steps)
    BY <1>3, <2>2 DEF Enter, Steps
  <2>4. peer'.at = Enter(peer.iter + 1) /\ peer'.iter = iter + 1
        /\ peer' \in [at : {"down", "train", "log", "validate", "barrier", "meet",
                            "done", "failed"}, iter : Nat]
    BY <2>1, <2>2, <2>3
  <2>5. CASE iter = TotalSteps - 1
    <3>1. final' = TRUE /\ pc' = "save" /\ iter' = iter
      BY <2>1, <2>5
    <3>2. CheckpointsTypeOK'
      BY <1>0, <2>1, <2>4, <3>1 DEF CheckpointsTypeOK
    <3>3. LoopInv'
      BY <2>2, <2>5, <3>1 DEF LoopInv, Running, Saving
    <3> QED BY <3>2, <3>3
  <2>6. CASE iter # TotalSteps - 1
    <3>1. final' = FALSE /\ pc' = "train" /\ iter' = iter + 1 /\ iter' \in Nat
      <4>1. final' = FALSE
        BY <2>1, <2>6, Zenon
      <4> QED BY <2>1, <2>2, <2>6, <4>1
    <3>2. CheckpointsTypeOK'
      BY <1>0, <2>1, <2>4, <3>1 DEF CheckpointsTypeOK
    <3>3. LoopInv'
      BY <2>3, <2>4, <2>6, <3>1 DEF LoopInv, Running, Saving
    <3> QED BY <3>2, <3>3
  <2> QED BY <2>5, <2>6
<1>12. CASE OpenTemp
  <2>1. /\ pc = "save" /\ pc' = "model" /\ saved' = NoStep
        /\ temp' = [temp EXCEPT ![iter] = {Here}]
        /\ UNCHANGED <<mode, report, deaths, kept, sidecar, iter, peer, model, final,
                       recent, doomed>>
    BY <1>12 DEF OpenTemp
  <2>2. temp' \in [Steps -> SUBSET Files]
    BY <1>0, <2>1, FilesAreTyped DEF CheckpointsTypeOK
  <2>3. CheckpointsTypeOK'
    BY <1>0, <2>1, <2>2 DEF CheckpointsTypeOK
  <2>4. LoopInv'
    BY <2>1, SaveToSave
  <2> QED BY <2>3, <2>4
<1>13. CASE WriteModel
  <2>1. /\ pc = "model" /\ pc' = "state" /\ model' = [model EXCEPT !.averaged = FALSE]
        /\ temp' = [temp EXCEPT ![iter] = @ \cup {File("checkpoint.pth", model)}]
        /\ UNCHANGED <<mode, report, deaths, kept, sidecar, iter, peer, final,
                       recent, doomed, saved>>
    BY <1>13 DEF WriteModel, SwapOut
  <2>2. model \in Models /\ model' \in Models
    BY <1>0, <1>1, <2>1 DEF CheckpointsTypeOK
  <2>3. File("checkpoint.pth", model) \in Files
    BY <2>2, FilesAreTyped DEF Entries
  <2>4. temp' \in [Steps -> SUBSET Files]
    BY <1>0, <2>1, <2>3 DEF CheckpointsTypeOK
  <2>5. CheckpointsTypeOK'
    BY <1>0, <2>1, <2>2, <2>4 DEF CheckpointsTypeOK
  <2>6. LoopInv'
    BY <2>1, SaveToSave
  <2> QED BY <2>5, <2>6
<1>14. CASE WriteState
  <2>1. /\ pc = "state" /\ pc' = "replace"
        /\ temp' = [temp EXCEPT ![iter] = @ \cup {File("training_state.pth", model)}]
        /\ UNCHANGED <<mode, report, deaths, kept, sidecar, iter, peer, model, final,
                       recent, doomed, saved>>
    BY <1>14 DEF WriteState
  <2>2. File("training_state.pth", model) \in Files
    BY <1>0, FilesAreTyped DEF Entries, CheckpointsTypeOK
  <2>3. temp' \in [Steps -> SUBSET Files]
    BY <1>0, <2>1, <2>2 DEF CheckpointsTypeOK
  <2>4. CheckpointsTypeOK'
    BY <1>0, <2>1, <2>3 DEF CheckpointsTypeOK
  <2>5. LoopInv'
    BY <2>1, SaveToSave
  <2> QED BY <2>4, <2>5
<1>15. CASE RemoveOld
  <2>1. /\ pc = "replace" /\ RemoveEntry(iter)
        /\ UNCHANGED <<mode, report, deaths, temp, sidecar, pc, iter, peer, model, final,
                       recent, doomed, saved>>
    BY <1>15 DEF RemoveOld
  <2>2. iter \in Steps
    BY <1>2, <2>1 DEF Running
  <2>3. kept' \in [Steps -> SUBSET Files]
    BY <1>0, <2>1, <2>2, RemoveTypes DEF CheckpointsTypeOK
  <2>4. CheckpointsTypeOK'
    BY <1>0, <2>1, <2>3 DEF CheckpointsTypeOK
  <2>5. LoopInv'
    BY <1>0, <2>1 DEF LoopInv, Running, Saving
  <2> QED BY <2>4, <2>5
<1>16. CASE Replace
  <2> DEFINE q == Append(recent, iter)
  <2>1. /\ pc = "replace" /\ pc' = "remove"
        /\ kept' = [kept EXCEPT ![iter] = temp[iter]] /\ temp' = [temp EXCEPT ![iter] = {}]
        /\ UNCHANGED <<mode, report, deaths, sidecar, iter, peer, model, final, saved>>
    BY <1>16 DEF Replace
  <2>2. PICK r \in IF final THEN RetainFinal(q) ELSE Retain(q) :
          doomed' = r.remove /\ recent' = r.keep
    BY <1>16 DEF Replace
  <2>3. q \in Seq(Steps)
    BY <1>0, <1>2, <2>1, AppendProperties DEF CheckpointsTypeOK, Running
  <2> HIDE DEF q
  <2>4. doomed' \in Seq(Steps) /\ recent' \in Seq(Steps)
    <3>1. CASE final
      BY <2>2, <2>3, <3>1, RetainFinalTakes
    <3>2. CASE ~final
      BY <2>2, <2>3, <3>2, RetainTakes
    <3> QED BY <3>1, <3>2
  <2>5. kept' \in [Steps -> SUBSET Files] /\ temp' \in [Steps -> SUBSET Files]
    BY <1>0, <1>2, <2>1 DEF CheckpointsTypeOK, Running
  <2>6. CheckpointsTypeOK'
    BY <1>0, <2>1, <2>4, <2>5 DEF CheckpointsTypeOK
  <2>7. LoopInv'
    BY <2>1, SaveToSave
  <2> QED BY <2>6, <2>7
<1>17. CASE RemoveSurplus
  <2>1. /\ pc = "remove" /\ doomed # <<>> /\ RemoveEntry(Head(doomed))
        /\ doomed' = IF kept'[Head(doomed)] # {} THEN doomed ELSE Tail(doomed)
        /\ UNCHANGED <<mode, report, deaths, temp, sidecar, pc, iter, peer, model, final,
                       recent, saved>>
    BY <1>17 DEF RemoveSurplus
  <2>2. Head(doomed) \in Steps /\ Tail(doomed) \in Seq(Steps)
    BY <1>0, <2>1, HeadTailProperties DEF CheckpointsTypeOK
  <2>3. kept' \in [Steps -> SUBSET Files] /\ doomed' \in Seq(Steps)
    BY <1>0, <2>1, <2>2, RemoveTypes DEF CheckpointsTypeOK
  <2>4. CheckpointsTypeOK'
    BY <1>0, <2>1, <2>3 DEF CheckpointsTypeOK
  <2>5. LoopInv'
    BY <1>0, <2>1 DEF LoopInv, Running, Saving
  <2> QED BY <2>4, <2>5
<1>18. CASE RemoveFails
  <2>1. /\ pc' = "failed"
        /\ UNCHANGED <<mode, report, deaths, kept, temp, sidecar, iter, peer, model, final,
                       recent, doomed, saved>>
    BY <1>18 DEF RemoveFails
  <2> QED BY <1>0, <2>1 DEF CheckpointsTypeOK, LoopInv, Running, Saving
<1>19. CASE Saved
  <2>1. /\ pc = "remove" /\ saved' = iter /\ pc' = IF final THEN "done" ELSE "barrier"
        /\ UNCHANGED <<mode, report, deaths, kept, temp, sidecar, iter, peer, model, final,
                       recent, doomed>>
    BY <1>19 DEF Saved
  <2>2. iter \in Steps
    BY <1>2, <2>1 DEF Running
  <2>3. CheckpointsTypeOK'
    BY <1>0, <2>1, <2>2 DEF CheckpointsTypeOK
  <2>4. LoopInv'
    BY <1>0, <2>1 DEF LoopInv, Running, Saving
  <2> QED BY <2>3, <2>4
<1>20. CASE Dies
  <2>1. /\ deaths < MaxDeaths /\ deaths' = deaths + 1
        /\ pc' = "down" /\ iter' = 0 /\ peer' = [at |-> "down", iter |-> 0]
        /\ model' = Nothing /\ report' = NoRun /\ final' = FALSE
        /\ recent' = <<>> /\ doomed' = <<>> /\ saved' = NoStep
        /\ UNCHANGED <<mode, kept, temp, sidecar>>
    BY <1>20 DEF Dies
  <2>2. /\ peer' \in [at : {"down", "train", "log", "validate", "barrier", "meet",
                            "done", "failed"}, iter : Nat]
        /\ deaths' \in 0 .. MaxDeaths /\ model' \in Models /\ report' \in Nat
        /\ recent' \in Seq(Steps) /\ doomed' \in Seq(Steps)
    BY <1>0, <1>3, <2>1, FilesAreTyped DEF CheckpointsTypeOK, NoRun
  <2>3. CheckpointsTypeOK'
    BY <1>0, <2>1, <2>2 DEF CheckpointsTypeOK
  <2> QED BY <2>1, <2>3 DEF LoopInv, Running, Saving
<1>21. CASE UNCHANGED checkpointVars
  BY <1>0, <1>21 DEF checkpointVars, CheckpointsTypeOK, LoopInv, Running, Saving
<1> QED BY <1>4, <1>5, <1>6, <1>7, <1>8, <1>9, <1>10, <1>11, <1>12, <1>13, <1>14, <1>15,
           <1>16, <1>17, <1>18, <1>19, <1>20, <1>21 DEF CheckpointsNext, Proceeds

-----------------------------------------------------------------------------
(* A run that is killed and resumed is the run it would have been          *)

\* A launch has its weights, its components and its W&B run from where it left.
LEMMA StartContent ==
  ASSUME TypedLoop, ContentInv, Start
  PROVE  ContentInv'
<1>0. CheckpointsTypeOK /\ InMemory /\ Reported /\ OnDisk
  BY DEF TypedLoop, ContentInv
<1> DEFINE resumes == mode = "auto" /\ Found # {}
           broken == resumes /\ "training_state.pth" \notin FileNames(kept[Newest])
           from == IF mode = "continue" THEN SourceStep + 1
                   ELSE IF resumes THEN Newest + 1 ELSE 0
<1>1. /\ iter' = from /\ pc' = IF broken THEN "failed" ELSE Enter(from)
      /\ model' = IF mode = "continue" THEN ContinueFrom(After(from))
                  ELSE IF mode = "finetune" THEN FinetuneFrom(SourceStep)
                  ELSE IF resumes /\ ~broken THEN ContinueFrom(StateOf(Newest)) ELSE Nothing
      /\ report' = ReportTo /\ sidecar' = ReportTo
      /\ UNCHANGED <<mode, kept, temp, deaths>> /\ pc = "down"
  BY <1>0 DEF Start
<1>2. SourceStep \in Nat
  BY CheckpointsAssumption
<1>3. resumes /\ ~broken => Like(StateOf(Newest), Newest + 1) /\ StateOf(Newest).averaged = FALSE
  <2>1. SUFFICES ASSUME resumes, ~broken
                 PROVE Like(StateOf(Newest), Newest + 1) /\ StateOf(Newest).averaged = FALSE
    OBVIOUS
  <2>2. Newest \in Steps
    BY <2>1, NewestIsThere
  <2>3. PICK f \in kept[Newest] : f.name = "training_state.pth" /\ StateOf(Newest) = f.holds
    BY <2>1, StateIsThere
  <2>4. f # Here
    BY <2>3 DEF Here, File
  <2>5. Fits(f, Newest)
    BY <1>0, <2>2, <2>3 DEF OnDisk
  <2> QED BY <2>3, <2>4, <2>5 DEF Fits
<1>4. ReportTo = FirstRun /\ ReportTo # NoRun
  BY <1>0, <1>1 DEF ReportTo, FirstRun, Reported, SourceRun, OwnRuns, NoRun
<1>5. pc' \in {"train", "done", "failed"}
  BY <1>0, StartTypes
<1>6. ASSUME pc' = "train" PROVE Like(model', iter') /\ model'.averaged = FALSE
  <2>1. ~broken
    BY <1>1, <1>6
  <2>2. CASE mode = "continue"
    BY <1>1, <1>2, <2>2 DEF ContinueFrom, After, Like, Given
  <2>3. CASE mode = "finetune"
    <3>1. model' = FinetuneFrom(SourceStep) /\ from = 0
      BY <1>1, <2>3
    <3>2. /\ FinetuneFrom(SourceStep).steps = SourceStep + 1
          /\ FinetuneFrom(SourceStep).schedule = 0 /\ FinetuneFrom(SourceStep).average = 0
          /\ FinetuneFrom(SourceStep).averaged = FALSE
      BY DEF FinetuneFrom, After
    <3> QED BY <1>1, <1>2, <2>3, <3>1, <3>2 DEF Like, Given
  <2>4. CASE mode \notin {"continue", "finetune"} /\ resumes
    BY <1>1, <1>3, <2>1, <2>4 DEF ContinueFrom, Like, Given
  <2>5. CASE mode \notin {"continue", "finetune"} /\ ~resumes
    BY <1>1, <2>5 DEF Nothing, After, Like, Given
  <2> QED BY <2>2, <2>3, <2>4, <2>5
<1>7. Given' = Given /\ FirstRun' = FirstRun
  BY <1>1 DEF Given, FirstRun
<1>8. InMemory'
  BY <1>1, <1>4, <1>5, <1>6, <1>7 DEF InMemory, Running, Like
<1>9. Reported'
  BY <1>1, <1>4, <1>7 DEF Reported
<1>10. OnDisk'
  BY <1>0, <1>1, <1>7 DEF OnDisk, Fits, Like
<1> QED BY <1>8, <1>9, <1>10 DEF ContentInv

\* A step that leaves the directories and the command alone.
LEMMA SameFiles ==
  ASSUME Reported, OnDisk, pc # "down",
         UNCHANGED <<mode, kept, temp, sidecar, deaths>>
  PROVE  Reported' /\ OnDisk'
<1>1. Given' = Given /\ FirstRun' = FirstRun
  BY DEF Given, FirstRun
<1>2. sidecar # NoRun
  BY DEF Reported
<1>3. Reported'
  BY <1>1, <1>2 DEF Reported
<1>4. OnDisk'
  BY <1>1 DEF OnDisk, Fits, Like
<1> QED BY <1>3, <1>4

\* A step within an iteration that leaves the weights alone, or swaps them.
LEMMA SameSteps ==
  ASSUME InMemory, Running, UNCHANGED <<mode, report, iter>>,
         pc # "train", pc' # "train",
         model'.steps = model.steps, model'.schedule = model.schedule,
         model'.average = model.average,
         model'.averaged => pc' \in {"viz", "validate", "model"}
  PROVE  InMemory'
<1>1. Given' = Given /\ FirstRun' = FirstRun
  BY DEF Given, FirstRun
<1>2. Like(model, iter + 1) /\ report = FirstRun
  BY DEF InMemory
<1>3. Like(model, iter + 1)'
  BY <1>1, <1>2 DEF Like
<1> QED BY <1>1, <1>2, <1>3 DEF InMemory

\* A file added to the temporary directory of the step being saved.
LEMMA FileAdded ==
  ASSUME TypedLoop, OnDisk, iter \in Steps, NEW f, Fits(f, iter),
         temp' = [temp EXCEPT ![iter] = @ \cup {f}], UNCHANGED <<mode, kept>>
  PROVE  OnDisk'
<1>1. Given' = Given
  BY DEF Given
<1>2. temp \in [Steps -> SUBSET Files]
  BY DEF TypedLoop, CheckpointsTypeOK
<1>3. ASSUME NEW s \in Steps, NEW g \in kept'[s] \cup temp'[s] PROVE Fits(g, s)
  <2>1. CASE g \in kept[s] \cup temp[s]
    BY <2>1 DEF OnDisk
  <2>2. CASE g \notin kept[s] \cup temp[s]
    <3>1. s = iter /\ g = f
      BY <1>2, <1>3, <2>2
    <3> QED BY <3>1
  <2> QED BY <2>1, <2>2
<1> QED BY <1>1, <1>3 DEF OnDisk, Fits, Like

\* Files removed, or moved to their place.
LEMMA FilesMoved ==
  ASSUME OnDisk, UNCHANGED mode,
         \A s \in Steps : kept'[s] \cup temp'[s] \subseteq kept[s] \cup temp[s]
  PROVE  OnDisk'
<1>1. Given' = Given
  BY DEF Given
<1> QED BY <1>1 DEF OnDisk, Fits, Like

LEMMA StepContent ==
  ASSUME TypedLoop, ContentInv, [CheckpointsNext]_checkpointVars
  PROVE  ContentInv'
<1> USE DEF launch, disk
<1>0. CheckpointsTypeOK /\ LoopInv /\ InMemory /\ Reported /\ OnDisk
  BY DEF TypedLoop, ContentInv
<1> SUFFICES InMemory' /\ Reported' /\ OnDisk'
  BY DEF ContentInv
<1>1. Running => iter \in Steps /\ iter \in Nat
  BY <1>0 DEF LoopInv, CheckpointsTypeOK
<1>2. model \in Models
  BY <1>0 DEF CheckpointsTypeOK
<1>3. \A b \in BOOLEAN :
        LET m == [model EXCEPT !.averaged = b]
        IN  /\ m.steps = model.steps /\ m.schedule = model.schedule
            /\ m.average = model.average /\ m.averaged = b
  BY <1>2 DEF Models
<1>4. CASE Start
  BY <1>4, StartContent DEF ContentInv
<1>5. CASE Train
  <2>1. pc = "train" /\ pc' \in {"log", "viz", "validate", "save", "barrier", "meet"}
    BY <1>0, <1>5, LeavesTo DEF Train
  <2>2. /\ UNCHANGED <<mode, report, deaths, kept, temp, sidecar, iter>>
        /\ model' = AverageStep([model EXCEPT !.steps = @ + 1, !.schedule = @ + 1])
    BY <1>5 DEF Train
  <2>3. /\ model'.steps = model.steps + 1 /\ model'.schedule = model.schedule + 1
        /\ model'.average = model.average + 1 /\ model'.averaged = model.averaged
    BY <1>2, <2>2 DEF AverageStep, Models
  <2>4. Like(model, iter) /\ ~model.averaged /\ report = FirstRun
    BY <1>0, <2>1 DEF InMemory, Running
  <2>5. Given' = Given /\ FirstRun' = FirstRun /\ Given \in Nat
    BY <2>2, CheckpointsAssumption DEF Given, FirstRun
  <2>6. Like(model, iter + 1)'
    BY <1>1, <2>1, <2>2, <2>3, <2>4, <2>5 DEF Like, Running
  <2>7. InMemory'
    BY <2>1, <2>2, <2>3, <2>4, <2>5, <2>6 DEF InMemory
  <2> QED BY <1>0, <2>1, <2>2, <2>7, SameFiles
<1>6. CASE Log
  <2>1. pc = "log" /\ pc' \in {"log", "viz", "validate", "save", "barrier", "meet"}
    BY <1>0, <1>6, LeavesTo DEF Log
  <2>2. UNCHANGED <<mode, report, deaths, kept, temp, sidecar, iter, model>>
    BY <1>6 DEF Log
  <2>3. ~model.averaged
    BY <1>0, <2>1 DEF InMemory, Running
  <2>4. InMemory'
    BY <1>0, <2>1, <2>2, <2>3, SameSteps DEF Running
  <2> QED BY <1>0, <2>1, <2>2, <2>4, SameFiles
<1>7. CASE SwapIn
  <2>1. /\ pc \in {"viz", "validate", "model"} /\ model' = [model EXCEPT !.averaged = TRUE]
        /\ UNCHANGED <<mode, report, deaths, kept, temp, sidecar, iter, pc>>
    BY <1>7 DEF SwapIn
  <2>2. InMemory'
    BY <1>0, <1>3, <2>1, SameSteps DEF Running
  <2> QED BY <1>0, <2>1, <2>2, SameFiles
<1>8. CASE Visualize
  <2>1. /\ pc = "viz" /\ pc' = StopAfter(Stops, "viz", iter)
        /\ model' = [model EXCEPT !.averaged = FALSE]
        /\ UNCHANGED <<mode, report, deaths, kept, temp, sidecar, iter>>
    BY <1>8 DEF Visualize, SwapOut
  <2>2. pc' # "train"
    BY <2>1, MainStops
  <2>3. InMemory'
    BY <1>0, <1>3, <2>1, <2>2, SameSteps DEF Running
  <2> QED BY <1>0, <2>1, <2>3, SameFiles
<1>9. CASE RunValidation
  <2>1. pc = "validate" /\ pc' \in {"log", "viz", "validate", "save", "barrier", "meet"}
    BY <1>0, <1>9, LeavesTo DEF RunValidation
  <2>2. /\ model' = [model EXCEPT !.averaged = FALSE]
        /\ UNCHANGED <<mode, report, deaths, kept, temp, sidecar, iter>>
    BY <1>9 DEF RunValidation, SwapOut
  <2>3. InMemory'
    BY <1>0, <1>3, <2>1, <2>2, SameSteps DEF Running
  <2> QED BY <1>0, <2>1, <2>2, <2>3, SameFiles
<1>10. CASE Barrier
  <2>1. pc = "barrier" /\ pc' \in {"log", "viz", "validate", "save", "barrier", "meet"}
    BY <1>0, <1>10, LeavesTo DEF Barrier
  <2>2. UNCHANGED <<mode, report, deaths, kept, temp, sidecar, iter, model>>
    BY <1>10 DEF Barrier
  <2>3. ~model.averaged
    BY <1>0, <2>1 DEF InMemory, Running
  <2>4. InMemory'
    BY <1>0, <2>1, <2>2, <2>3, SameSteps DEF Running
  <2> QED BY <1>0, <2>1, <2>2, <2>4, SameFiles
<1>11. CASE Meet
  <2>1. /\ pc = "meet" /\ iter' = IF iter = TotalSteps - 1 THEN iter ELSE iter + 1
        /\ final' = (iter = TotalSteps - 1) /\ pc' = IF final' THEN "save" ELSE "train"
        /\ UNCHANGED <<mode, report, deaths, kept, temp, sidecar, model>>
    BY <1>11 DEF Meet
  <2>2. Like(model, iter + 1) /\ ~model.averaged /\ report = FirstRun
    BY <1>0, <2>1 DEF InMemory, Running
  <2>3. Given' = Given /\ FirstRun' = FirstRun
    BY <2>1 DEF Given, FirstRun
  <2>4. IF pc' = "train" THEN iter' = iter + 1 ELSE iter' = iter
    BY <2>1
  <2>5. InMemory'
    BY <2>1, <2>2, <2>3, <2>4 DEF InMemory, Like
  <2> QED BY <1>0, <2>1, <2>5, SameFiles
<1>12. CASE OpenTemp
  <2>1. /\ pc = "save" /\ pc' = "model" /\ temp' = [temp EXCEPT ![iter] = {Here}]
        /\ UNCHANGED <<mode, report, deaths, kept, sidecar, iter, model>>
    BY <1>12 DEF OpenTemp
  <2>2. ~model.averaged
    BY <1>0, <2>1 DEF InMemory, Running
  <2>3. InMemory'
    BY <1>0, <2>1, <2>2, SameSteps DEF Running
  <2>4. Given' = Given /\ FirstRun' = FirstRun
    BY <2>1 DEF Given, FirstRun
  <2>5. Reported'
    BY <1>0, <2>1, <2>4 DEF Reported
  <2>6. temp \in [Steps -> SUBSET Files]
    BY <1>0 DEF CheckpointsTypeOK
  <2>7. ASSUME NEW s \in Steps, NEW g \in kept'[s] \cup temp'[s] PROVE Fits(g, s)
    <3>1. g \in kept[s] \cup temp[s] \/ g = Here
      <4>1. temp'[s] = temp[s] \/ temp'[s] = {Here}
        BY <2>1, <2>6
      <4> QED BY <2>1, <2>7, <4>1
    <3>2. CASE g \in kept[s] \cup temp[s]
      BY <1>0, <3>2 DEF OnDisk
    <3>3. CASE g = Here
      BY <3>3 DEF Fits
    <3> QED BY <3>1, <3>2, <3>3
  <2>8. OnDisk'
    BY <2>4, <2>7 DEF OnDisk, Fits, Like
  <2> QED BY <2>3, <2>5, <2>8
<1>13. CASE WriteModel
  <2> DEFINE f == File("checkpoint.pth", model)
  <2>1. /\ pc = "model" /\ pc' = "state" /\ model.averaged
        /\ model' = [model EXCEPT !.averaged = FALSE]
        /\ temp' = [temp EXCEPT ![iter] = @ \cup {f}]
        /\ UNCHANGED <<mode, report, deaths, kept, sidecar, iter>>
    BY <1>13 DEF WriteModel, SwapOut
  <2>2. InMemory'
    BY <1>0, <1>3, <2>1, SameSteps DEF Running
  <2>3. Like(model, iter + 1) /\ model.averaged = TRUE
    BY <1>0, <1>2, <2>1 DEF InMemory, Running, Models
  <2>4. Fits(f, iter)
    BY <2>3 DEF Fits, File
  <2> HIDE DEF f
  <2>5. OnDisk'
    BY <1>0, <1>1, <2>1, <2>4, FileAdded DEF Running
  <2>6. Reported'
    BY <1>0, <2>1 DEF Reported, FirstRun
  <2> QED BY <2>2, <2>5, <2>6
<1>14. CASE WriteState
  <2> DEFINE f == File("training_state.pth", model)
  <2>1. /\ pc = "state" /\ pc' = "replace"
        /\ temp' = [temp EXCEPT ![iter] = @ \cup {f}]
        /\ UNCHANGED <<mode, report, deaths, kept, sidecar, iter, model>>
    BY <1>14 DEF WriteState
  <2>2. Like(model, iter + 1) /\ model.averaged = FALSE
    BY <1>0, <1>2, <2>1 DEF InMemory, Running, Models
  <2>3. InMemory'
    BY <1>0, <2>1, <2>2, SameSteps DEF Running
  <2>4. Fits(f, iter)
    BY <2>2 DEF Fits, File
  <2> HIDE DEF f
  <2>5. OnDisk'
    BY <1>0, <1>1, <2>1, <2>4, FileAdded DEF Running
  <2>6. Reported'
    BY <1>0, <2>1 DEF Reported, FirstRun
  <2> QED BY <2>3, <2>5, <2>6
<1>15. CASE RemoveOld
  <2>1. /\ pc = "replace" /\ RemoveEntry(iter)
        /\ UNCHANGED <<mode, report, deaths, temp, sidecar, pc, iter, model>>
    BY <1>15 DEF RemoveOld
  <2>2. \A s \in Steps : kept'[s] \subseteq kept[s]
    BY <1>0, <1>1, <2>1, RemoveTypes DEF CheckpointsTypeOK, Running
  <2>3. OnDisk'
    BY <1>0, <2>1, <2>2, FilesMoved
  <2>4. ~model.averaged
    BY <1>0, <2>1 DEF InMemory, Running
  <2>5. InMemory'
    BY <1>0, <2>1, <2>4, SameSteps DEF Running
  <2>6. Reported'
    BY <1>0, <2>1 DEF Reported, FirstRun
  <2> QED BY <2>3, <2>5, <2>6
<1>16. CASE Replace
  <2>1. /\ pc = "replace" /\ pc' = "remove"
        /\ kept' = [kept EXCEPT ![iter] = temp[iter]] /\ temp' = [temp EXCEPT ![iter] = {}]
        /\ UNCHANGED <<mode, report, deaths, sidecar, iter, model>>
    BY <1>16 DEF Replace
  <2>2. \A s \in Steps : kept'[s] \cup temp'[s] \subseteq kept[s] \cup temp[s]
    BY <1>0, <1>1, <2>1 DEF CheckpointsTypeOK, Running
  <2>3. OnDisk'
    BY <1>0, <2>1, <2>2, FilesMoved
  <2>4. ~model.averaged
    BY <1>0, <2>1 DEF InMemory, Running
  <2>5. InMemory'
    BY <1>0, <2>1, <2>4, SameSteps DEF Running
  <2>6. Reported'
    BY <1>0, <2>1 DEF Reported, FirstRun
  <2> QED BY <2>3, <2>5, <2>6
<1>17. CASE RemoveSurplus
  <2>1. /\ pc = "remove" /\ doomed # <<>> /\ RemoveEntry(Head(doomed))
        /\ UNCHANGED <<mode, report, deaths, temp, sidecar, pc, iter, model>>
    BY <1>17 DEF RemoveSurplus
  <2>2. Head(doomed) \in Steps
    BY <1>0, <2>1, HeadTailProperties DEF CheckpointsTypeOK
  <2>3. \A s \in Steps : kept'[s] \subseteq kept[s]
    BY <1>0, <2>1, <2>2, RemoveTypes DEF CheckpointsTypeOK
  <2>4. OnDisk'
    BY <1>0, <2>1, <2>3, FilesMoved
  <2>5. ~model.averaged
    BY <1>0, <2>1 DEF InMemory, Running
  <2>6. InMemory'
    BY <1>0, <2>1, <2>5, SameSteps DEF Running
  <2>7. Reported'
    BY <1>0, <2>1 DEF Reported, FirstRun
  <2> QED BY <2>4, <2>6, <2>7
<1>18. CASE RemoveFails
  <2>1. /\ pc = "remove" /\ pc' = "failed"
        /\ UNCHANGED <<mode, report, deaths, kept, temp, sidecar, iter, model>>
    BY <1>18 DEF RemoveFails
  <2>2. InMemory'
    BY <2>1 DEF InMemory, Running
  <2> QED BY <1>0, <2>1, <2>2, SameFiles
<1>19. CASE Saved
  <2>1. /\ pc = "remove" /\ pc' = IF final THEN "done" ELSE "barrier"
        /\ UNCHANGED <<mode, report, deaths, kept, temp, sidecar, iter, model>>
    BY <1>19 DEF Saved
  <2>2. ~model.averaged
    BY <1>0, <2>1 DEF InMemory, Running
  <2>3. pc' # "train"
    BY <2>1
  <2>4. InMemory'
    BY <1>0, <2>1, <2>2, <2>3, SameSteps DEF Running
  <2> QED BY <1>0, <2>1, <2>4, SameFiles
<1>20. CASE Dies
  <2>1. /\ pc # "down" /\ pc' = "down" /\ UNCHANGED <<mode, kept, temp, sidecar>>
    BY <1>20 DEF Dies
  <2>2. FirstRun' = FirstRun /\ Given' = Given
    BY <2>1 DEF FirstRun, Given
  <2>3. Reported'
    BY <1>0, <2>1, <2>2 DEF Reported
  <2>4. OnDisk'
    BY <1>0, <2>1, FilesMoved
  <2>5. InMemory'
    BY <2>1 DEF InMemory, Running
  <2> QED BY <2>3, <2>4, <2>5
<1>21. CASE UNCHANGED checkpointVars
  <2>1. UNCHANGED <<mode, kept, temp, sidecar, report, pc, iter, model, deaths>>
    BY <1>21 DEF checkpointVars
  <2>2. Given' = Given /\ FirstRun' = FirstRun
    BY <2>1 DEF Given, FirstRun
  <2> QED BY <1>0, <2>1, <2>2 DEF InMemory, Running, Reported, OnDisk, Fits, Like
<1> QED BY <1>4, <1>5, <1>6, <1>7, <1>8, <1>9, <1>10, <1>11, <1>12, <1>13, <1>14, <1>15,
           <1>16, <1>17, <1>18, <1>19, <1>20, <1>21 DEF CheckpointsNext, Proceeds

LEMMA InitContent ==
  ASSUME CheckpointsInit
  PROVE  ContentInv
<1>1. /\ sidecar = NoRun /\ deaths = 0 /\ pc = "down"
      /\ \A s \in Steps : kept[s] = {} /\ temp[s] = {}
  BY DEF CheckpointsInit
<1> QED BY <1>1 DEF ContentInv, InMemory, Running, Reported, OnDisk

\* What is in memory and on disk is what the property asks for.
LEMMA ContentIsExact ==
  ASSUME TypedLoop, ContentInv
  PROVE  ResumesExactly
<1>0. CheckpointsTypeOK /\ LoopInv /\ InMemory /\ OnDisk
  BY DEF TypedLoop, ContentInv
<1>1. ASSUME pc = "train"
      PROVE  /\ model = [After(iter) EXCEPT
                           !.steps = @ + IF mode = "finetune" THEN SourceStep + 1 ELSE 0]
             /\ peer = [at |-> "train", iter |-> iter]
             /\ report = IF mode = "continue" THEN SourceRun ELSE OwnRuns
  <2>1. /\ Like(model, iter) /\ ~model.averaged /\ report = FirstRun
        /\ ~final /\ peer.iter = iter /\ peer.at = "train"
    BY <1>0, <1>1 DEF InMemory, LoopInv, Running
  <2>2. model \in Models /\ peer = [at |-> peer.at, iter |-> peer.iter]
    BY <1>0 DEF CheckpointsTypeOK
  <2>3. model = [averaged |-> model.averaged, steps |-> model.steps,
                 schedule |-> model.schedule, average |-> model.average]
        /\ model.averaged \in BOOLEAN
    BY <2>2 DEF Models
  <2>4. model = [averaged |-> FALSE, steps |-> iter + Given, schedule |-> iter, average |-> iter]
    BY <2>1, <2>3 DEF Like
  <2>5. [After(iter) EXCEPT !.steps = @ + Given] = model
    <3> DEFINE m == [After(iter) EXCEPT !.steps = @ + Given]
    <3>1. iter \in Nat /\ Given \in Nat
      BY <1>0, CheckpointsAssumption DEF CheckpointsTypeOK, Given
    <3>2. After(iter) \in Models /\ After(iter).steps = iter /\ After(iter).schedule = iter
          /\ After(iter).average = iter /\ After(iter).averaged = FALSE
      BY <3>1 DEF After, Models
    <3>3. m \in Models /\ m.steps = iter + Given /\ m.schedule = iter
          /\ m.average = iter /\ m.averaged = FALSE
      BY <3>1, <3>2 DEF Models
    <3> HIDE DEF m
    <3>4. m = [averaged |-> m.averaged, steps |-> m.steps,
               schedule |-> m.schedule, average |-> m.average]
      BY <3>3 DEF Models
    <3>5. m = model
      BY <2>4, <3>3, <3>4
    <3> QED BY <3>5 DEF m
  <2> QED BY <2>1, <2>2, <2>4, <2>5 DEF Given, FirstRun
<1>2. ASSUME NEW s \in Found, NEW f \in kept[s], f # Here
      PROVE  /\ f.holds.averaged = (f.name = "checkpoint.pth")
             /\ f.holds.schedule = s + 1 /\ f.holds.average = s + 1
  <2>1. Fits(f, s)
    BY <1>0, <1>2, FoundIsFinite DEF OnDisk
  <2> QED BY <1>2, <2>1 DEF Fits, Like
<1> QED BY <1>1, <1>2 DEF ResumesExactly

\* Wherever the processes die, and for any number of steps, intervals and
\* deaths: an iteration trains the weights, optimiser, schedule and average of
\* an uninterrupted run, and every file on disk holds what its name and its
\* step say (maybe_save_checkpoint, _resume, average_parameters).
THEOREM TrainingIsExact == Spec => []ResumesExactly
<1>1. Init => TypedLoop /\ ContentInv
  BY OnlyCheckpointSteps, InitTypes, InitContent
<1>2. TypedLoop /\ ContentInv /\ [Next]_trainingVars => (TypedLoop /\ ContentInv)'
  BY OnlyCheckpointSteps, StepTypes, StepContent
<1>3. TypedLoop /\ ContentInv => ResumesExactly
  BY ContentIsExact
<1> QED BY <1>1, <1>2, <1>3, PTL DEF Spec

\* The variables of an nxwm-mira run keep their types, whatever is run.
THEOREM CheckpointTypes == Spec => []CheckpointsTypeOK
<1>1. Init => TypedLoop
  BY OnlyCheckpointSteps, InitTypes
<1>2. TypedLoop /\ [Next]_trainingVars => TypedLoop'
  BY OnlyCheckpointSteps, StepTypes
<1>3. TypedLoop => CheckpointsTypeOK
  BY DEF TypedLoop
<1> QED BY <1>1, <1>2, <1>3, PTL DEF Spec

-----------------------------------------------------------------------------
(* Auto-resume finds a whole checkpoint                                    *)

\* A step that leaves the checkpoints alone.
LEMMA SameCheckpoints ==
  ASSUME UNCHANGED kept
  PROVE  /\ Found' = Found /\ (NewestWhole' <=> NewestWhole)
         /\ \A s \in Steps : Top(s)' <=> Top(s)
<1>1. Found' = Found
  BY DEF Found, Present
<1>2. \A s \in Steps : Top(s)' <=> Top(s)
  BY <1>1 DEF Top, Whole, FileNames
<1> QED BY <1>1, <1>2 DEF NewestWhole

\* A step that takes none of them out of what is behind.
LEMMA StillBehind ==
  ASSUME TypedLoop, AllBehind, Running, UNCHANGED <<kept, recent>>,
         \A s \in Steps : Behind(s) => Behind(s)'
  PROVE  AllBehind'
<1>1. Found' = Found /\ Found \subseteq Steps
  BY SameCheckpoints, FoundIsFinite
<1>2. \A i \in 1 .. Len(recent) : recent[i] \in Steps
  BY ElementOfSeq DEF TypedLoop, CheckpointsTypeOK
<1>3. \A s \in Found : Behind(s)'
  BY <1>1 DEF AllBehind
<1>4. \A i \in 1 .. Len(recent') : Behind(recent[i])'
  <2> TAKE i \in 1 .. Len(recent')
  <2>1. i \in 1 .. Len(recent) /\ recent[i] \in Steps /\ Behind(recent[i])
    BY <1>2 DEF AllBehind
  <2>2. recent'[i] = recent[i]
    OBVIOUS
  <2> QED BY <2>1, <2>2 DEF Behind
<1> QED BY <1>1, <1>3, <1>4 DEF AllBehind

\* From one stop of an iteration to the next, up to the save.
LEMMA StopsOnDisk ==
  ASSUME TypedLoop, DiskInv, pc \in {"train", "log", "viz", "validate"},
         pc' \in {"log", "viz", "validate", "save", "barrier", "meet"},
         UNCHANGED <<kept, temp, iter, recent, doomed>>, saved' \in {saved, NoStep}
  PROVE  DiskInv'
<1>0. NewestWhole /\ AllBehind /\ InTemp /\ SavedOnTop /\ Running
  BY DEF DiskInv, Running
<1>1. \A s \in Steps : Behind(s) => Behind(s)'
  BY DEF Behind
<1>2. AllBehind'
  BY <1>0, <1>1, StillBehind
<1>3. SavedOnTop'
  <2>1. CASE saved' = NoStep
    BY <2>1 DEF SavedOnTop
  <2>2. CASE saved' = saved /\ saved # NoStep
    BY <1>0, <2>2, SameCheckpoints DEF SavedOnTop, Top, Whole, FileNames, Entries
  <2> QED BY <2>1, <2>2
<1>4. InTemp'
  BY DEF InTemp
<1>5. NewestWhole'
  BY <1>0, SameCheckpoints
<1> QED BY <1>2, <1>3, <1>4, <1>5 DEF DiskInv

\* A launch goes on behind everything it finds.
LEMMA StartOnDisk ==
  ASSUME TypedLoop, DiskInv, mode = "auto", Start
  PROVE  DiskInv'
<1>0. NewestWhole /\ CheckpointsTypeOK
  BY DEF DiskInv, TypedLoop
<1>1. UNCHANGED <<kept, temp>> /\ iter' = IF Found # {} THEN Newest + 1 ELSE 0
  BY DEF Start
<1>2. /\ pc' \in {"train", "done", "failed"} /\ saved' = NoStep
      /\ \A i \in 1 .. Len(recent') : recent'[i] \in Found
  BY <1>0, StartTypes
<1>3. \A s \in Found : s < iter'
  <2> SUFFICES ASSUME NEW s \in Found PROVE s < iter'
    OBVIOUS
  <2>1. s <= Newest /\ s \in Steps /\ Newest \in Steps
    BY NewestIsThere, FoundIsFinite
  <2>2. s \in Nat /\ Newest \in Nat /\ iter' = Newest + 1
    BY <1>1, <2>1, CheckpointsAssumption DEF Steps
  <2> QED BY <2>1, <2>2
<1>4. Found' = Found /\ NewestWhole'
  BY <1>0, <1>1, SameCheckpoints
<1>5. AllBehind'
  BY <1>2, <1>3, <1>4 DEF AllBehind, Behind
<1> QED BY <1>2, <1>4, <1>5 DEF DiskInv, InTemp, SavedOnTop

\* The directory that is moved into place is whole, and the newest.
LEMMA ReplaceOnDisk ==
  ASSUME TypedLoop, DiskInv, KeepRecent # 0, Replace
  PROVE  DiskInv'
<1> DEFINE q == Append(recent, iter)
<1>1. /\ pc = "replace" /\ pc' = "remove"
      /\ kept' = [kept EXCEPT ![iter] = temp[iter]]
      /\ UNCHANGED <<iter, final, saved>>
  BY DEF Replace
<1>2. /\ iter \in Steps /\ iter \in Nat /\ recent \in Seq(Steps) /\ kept \in [Steps -> SUBSET Files]
      /\ \A s \in Steps : s \in Nat
  BY <1>1, CheckpointsAssumption DEF TypedLoop, CheckpointsTypeOK, LoopInv, Running, Steps
<1>3. FileNames(temp[iter]) = Entries /\ saved = NoStep
  BY <1>1 DEF DiskInv, InTemp, SavedOnTop
<1>4. (\A s \in Found : s < iter) /\ \A i \in 1 .. Len(recent) : recent[i] < iter
  BY <1>1 DEF DiskInv, AllBehind, Behind, Running
<1>5. Whole(iter)'
  BY <1>1, <1>2, <1>3 DEF Whole, FileNames, Entries
<1>6. \A t \in Found' : t = iter \/ t \in Found
  BY <1>1, <1>2 DEF Found, Present
<1>7. Top(iter)'
  <2>1. ASSUME NEW t \in Found' PROVE t <= iter
    <3>1. CASE t = iter
      BY <1>2, <3>1
    <3>2. CASE t \in Found
      <4>1. t \in Nat /\ t < iter
        BY <1>2, <1>4, <3>2, FoundIsFinite
      <4> QED BY <1>2, <4>1
    <3> QED BY <1>6, <3>1, <3>2
  <2> QED BY <1>1, <1>5, <2>1 DEF Top
<1>8. PICK n \in Nat : n = Len(recent)
  BY <1>2, LenProperties
<1>9. /\ q \in Seq(Steps) /\ Len(q) = n + 1 /\ q[n + 1] = iter
      /\ \A i \in 1 .. n : q[i] = recent[i] /\ q[i] < iter
  BY <1>2, <1>4, <1>8, AppendProperties
<1>10. \A i \in 1 .. (n + 1) : q[i] = iter \/ q[i] < iter
  <2> TAKE i \in 1 .. (n + 1)
  <2>1. i \in 1 .. n \/ i = n + 1
    BY <1>8
  <2> QED BY <1>9, <2>1
<1>11. PICK r \in IF final THEN RetainFinal(q) ELSE Retain(q) :
         doomed' = r.remove /\ recent' = r.keep
  BY DEF Replace
<1> HIDE DEF q
<1>12. /\ \A i \in 1 .. Len(doomed') : doomed'[i] # iter
       /\ \A i \in 1 .. Len(recent') : \E j \in 1 .. (n + 1) : recent'[i] = q[j]
  <2>1. CASE final
    <3>1. recent' = q /\ \A i \in 1 .. Len(doomed') : doomed'[i] # iter
      BY <1>9, <1>11, <2>1, RetainFinalTakes
    <3> QED BY <1>9, <3>1
  <2>2. CASE ~final
    <3>1. /\ \A i \in 1 .. Len(recent') : \E j \in 1 .. Len(q) : recent'[i] = q[j]
          /\ \A i \in 1 .. Len(doomed') : \E j \in 1 .. Len(q) - 1 : doomed'[i] = q[j]
      BY <1>9, <1>11, <2>2, RetainTakes
    <3>2. Len(q) - 1 = n /\ \A j \in 1 .. n : q[j] # iter
      BY <1>2, <1>9
    <3> QED BY <1>9, <3>1, <3>2
  <2> QED BY <2>1, <2>2
<1>13. AllBehind'
  <2>1. \A s \in Found' : Behind(s)'
    BY <1>1, <1>4, <1>6 DEF Behind
  <2>2. ASSUME NEW i \in 1 .. Len(recent') PROVE recent'[i] = iter \/ recent'[i] < iter
    BY <1>10, <1>12
  <2> QED BY <1>1, <2>1, <2>2 DEF AllBehind, Behind
<1>14. NewestWhole'
  BY <1>1, <1>2, <1>7 DEF NewestWhole
<1>15. InTemp' /\ SavedOnTop'
  BY <1>1, <1>3, <1>7, <1>12 DEF InTemp, SavedOnTop
<1> QED BY <1>13, <1>14, <1>15 DEF DiskInv

\* What goes is not the newest.
LEMMA SurplusOnDisk ==
  ASSUME TypedLoop, DiskInv, RemoveSurplus
  PROVE  DiskInv'
<1> DEFINE h == Head(doomed)
<1>1. /\ pc = "remove" /\ doomed # <<>> /\ RemoveEntry(h)
      /\ doomed' = IF kept'[h] # {} THEN doomed ELSE Tail(doomed)
      /\ UNCHANGED <<temp, pc, iter, recent, saved>>
  BY DEF RemoveSurplus, launch
<1>2. /\ doomed \in Seq(Steps) /\ kept \in [Steps -> SUBSET Files] /\ iter \in Steps
      /\ recent \in Seq(Steps)
  BY <1>1 DEF TypedLoop, CheckpointsTypeOK, LoopInv, Running
<1>3. Top(iter) /\ saved = NoStep /\ \A i \in 1 .. Len(doomed) : doomed[i] # iter
  BY <1>1 DEF DiskInv, SavedOnTop
<1>4. PICK n \in Nat : n = Len(doomed) /\ n # 0
  BY <1>1, <1>2, LenProperties, EmptySeq
<1>5. h \in Steps /\ h = doomed[1] /\ h # iter
  BY <1>1, <1>2, <1>3, <1>4, HeadTailProperties
<1>6. \A i \in 1 .. Len(doomed') : doomed'[i] # iter
  <2>1. /\ Len(Tail(doomed)) = n - 1
        /\ \A i \in 1 .. (n - 1) : Tail(doomed)[i] = doomed[i + 1]
    BY <1>1, <1>2, <1>4, HeadTailProperties
  <2>2. \A i \in 1 .. (n - 1) : Tail(doomed)[i] # iter
    <3> TAKE i \in 1 .. (n - 1)
    <3>1. i + 1 \in 1 .. n
      BY <1>4
    <3> QED BY <1>3, <1>4, <2>1, <3>1
  <2>3. CASE doomed' = doomed
    BY <1>3, <2>3
  <2>4. CASE doomed' = Tail(doomed)
    BY <2>1, <2>2, <2>4
  <2> QED BY <1>1, <2>3, <2>4
<1> HIDE DEF h
<1>7. kept'[iter] = kept[iter] /\ \A t \in Steps : kept'[t] \subseteq kept[t]
  BY <1>1, <1>2, <1>5, RemoveTypes
<1>8. Found' \subseteq Found
  BY <1>7 DEF Found, Present
<1>9. Top(iter)'
  BY <1>1, <1>3, <1>7, <1>8 DEF Top, Whole, FileNames, Entries
<1>10. AllBehind'
  <2>1. /\ \A s \in Found : Behind(s)
        /\ \A i \in 1 .. Len(recent) : Behind(recent[i])
    BY <1>1 DEF DiskInv, AllBehind, Running
  <2>2. \A s \in Found' : Behind(s)'
    BY <1>1, <1>8, <2>1 DEF Behind
  <2>3. \A i \in 1 .. Len(recent') : Behind(recent[i])'
    BY <1>1, <2>1 DEF Behind
  <2> QED BY <2>2, <2>3 DEF AllBehind
<1>11. NewestWhole'
  BY <1>1, <1>2, <1>9 DEF NewestWhole
<1>12. InTemp' /\ SavedOnTop'
  BY <1>1, <1>3, <1>6, <1>9 DEF InTemp, SavedOnTop
<1> QED BY <1>10, <1>11, <1>12 DEF DiskInv

\* Between the moves the checkpoints and the list stay.
LEMMA SaveOnDisk ==
  ASSUME TypedLoop, DiskInv, pc \in {"save", "model", "state"},
         pc' \in {"model", "state", "replace"}, UNCHANGED <<kept, iter, recent>>,
         InTemp', saved' = NoStep
  PROVE  DiskInv'
<1>1. Running /\ AllBehind /\ NewestWhole
  BY DEF DiskInv, Running
<1>2. \A s \in Steps : Behind(s) => Behind(s)'
  BY DEF Behind
<1>3. AllBehind'
  BY <1>1, <1>2, StillBehind
<1>4. NewestWhole'
  BY <1>1, SameCheckpoints
<1>5. SavedOnTop'
  BY DEF SavedOnTop
<1> QED BY <1>3, <1>4, <1>5 DEF DiskInv

\* The end, and the death: nothing runs.
LEMMA StopOnDisk ==
  ASSUME DiskInv, pc' \in {"down", "done", "failed"}, UNCHANGED kept,
         saved' # NoStep => saved' \in Steps /\ Top(saved')
  PROVE  DiskInv'
<1>1. NewestWhole'
  BY SameCheckpoints DEF DiskInv
<1>2. saved' \in Steps => (Top(saved') <=> Top(saved)')
  BY SameCheckpoints DEF Top, Whole, FileNames, Entries
<1> QED BY <1>1, <1>2 DEF DiskInv, AllBehind, Running, InTemp, SavedOnTop

LEMMA StepOnDisk ==
  ASSUME TypedLoop, DiskInv, mode = "auto", NoResave, KeepRecent # 0,
         [CheckpointsNext]_checkpointVars
  PROVE  DiskInv'
<1> USE DEF launch, disk
<1>0. CheckpointsTypeOK /\ LoopInv /\ NewestWhole /\ AllBehind /\ InTemp /\ SavedOnTop
  BY DEF TypedLoop, DiskInv
<1>1. Running => iter \in Steps /\ iter \in Nat
  BY <1>0 DEF LoopInv, CheckpointsTypeOK
<1>2. kept \in [Steps -> SUBSET Files] /\ temp \in [Steps -> SUBSET Files]
      /\ TotalSteps \in Nat \ {0}
  BY <1>0, CheckpointsAssumption DEF CheckpointsTypeOK
<1>3. CASE Start
  BY <1>3, StartOnDisk
<1>4. CASE Train
  BY <1>0, <1>4, LeavesTo, StopsOnDisk DEF Train
<1>5. CASE Log
  BY <1>0, <1>5, LeavesTo, StopsOnDisk DEF Log
<1>6. CASE SwapIn
  <2>1. UNCHANGED <<kept, temp, pc, iter, recent, doomed, saved>>
    BY <1>6 DEF SwapIn
  <2>2. NewestWhole' /\ Found' = Found /\ \A s \in Steps : Behind(s)' <=> Behind(s)
    BY <1>0, <2>1, SameCheckpoints DEF Behind
  <2>3. Running
    BY <1>6 DEF SwapIn, Running
  <2>4. AllBehind'
    BY <1>0, <2>1, <2>2, <2>3, StillBehind
  <2>5. InTemp'
    BY <1>0, <2>1 DEF InTemp
  <2>6. SavedOnTop'
    <3>1. pc # "remove"
      BY <1>6 DEF SwapIn
    <3> QED BY <1>0, <2>1, <3>1, SameCheckpoints DEF SavedOnTop, Top, Whole, FileNames, Entries
  <2> QED BY <2>2, <2>4, <2>5, <2>6 DEF DiskInv
<1>7. CASE Visualize
  <2>1. /\ pc = "viz" /\ pc' = StopAfter(Stops, "viz", iter)
        /\ UNCHANGED <<kept, temp, iter, recent, doomed, saved>>
    BY <1>7 DEF Visualize
  <2>2. pc' \in {"log", "viz", "validate", "save", "barrier", "meet"}
    BY <2>1, MainStops
  <2> QED BY <2>1, <2>2, StopsOnDisk
<1>8. CASE RunValidation
  BY <1>0, <1>8, LeavesTo, StopsOnDisk DEF RunValidation
<1>9. CASE Barrier
  <2>1. /\ pc = "barrier" /\ pc' = "meet"
        /\ UNCHANGED <<kept, temp, iter, recent, doomed, saved>>
    BY <1>0, <1>9, LeavesTo DEF Barrier
  <2>2. Running /\ Due("save", iter)
    BY <1>0, <2>1 DEF LoopInv, Running
  <2>3. iter < TotalSteps - 1
    <3>1. iter # TotalSteps - 1
      BY <2>2 DEF NoResave
    <3> QED BY <1>1, <1>2, <2>2, <3>1 DEF Steps
  <2>4. \A s \in Steps : Behind(s) => Behind(s)'
    BY <2>1, <2>3 DEF Behind
  <2>5. AllBehind'
    BY <1>0, <2>1, <2>2, <2>4, StillBehind
  <2>6. NewestWhole' /\ InTemp'
    BY <1>0, <2>1, SameCheckpoints DEF InTemp
  <2>7. SavedOnTop'
    BY <1>0, <2>1, SameCheckpoints DEF SavedOnTop, Top, Whole, FileNames, Entries
  <2> QED BY <2>5, <2>6, <2>7 DEF DiskInv
<1>10. CASE Meet
  <2>1. /\ pc = "meet" /\ iter' = IF iter = TotalSteps - 1 THEN iter ELSE iter + 1
        /\ pc' \in {"save", "train"}
        /\ UNCHANGED <<kept, temp, recent, doomed, saved>>
    BY <1>10 DEF Meet
  <2>2. Running /\ iter \in Steps /\ iter \in Nat
    BY <1>1, <2>1 DEF Running
  <2>3. \A s \in Steps : Behind(s) => Behind(s)'
    <3>1. CASE iter = TotalSteps - 1
      BY <1>2, <2>1, <2>2, <3>1 DEF Behind, Steps
    <3>2. CASE iter # TotalSteps - 1
      BY <1>2, <2>1, <2>2, <3>2 DEF Behind, Steps
    <3> QED BY <3>1, <3>2
  <2>4. AllBehind'
    BY <1>0, <2>1, <2>2, <2>3, StillBehind
  <2>5. NewestWhole' /\ InTemp'
    BY <1>0, <2>1, SameCheckpoints DEF InTemp
  <2>6. SavedOnTop'
    BY <1>0, <2>1, SameCheckpoints DEF SavedOnTop, Top, Whole, FileNames, Entries
  <2> QED BY <2>4, <2>5, <2>6 DEF DiskInv
<1>11. CASE OpenTemp
  <2>1. /\ pc = "save" /\ pc' = "model" /\ temp' = [temp EXCEPT ![iter] = {Here}]
        /\ UNCHANGED <<kept, iter, recent>> /\ saved' = NoStep
    BY <1>11 DEF OpenTemp
  <2>2. temp'[iter] = {Here} /\ Here.name = "."
    BY <1>1, <1>2, <2>1 DEF Running, Here, File
  <2>3. FileNames(temp'[iter]) = {"."}
    BY <2>2 DEF FileNames
  <2>4. InTemp'
    BY <2>1, <2>3 DEF InTemp
  <2> QED BY <2>1, <2>4, SaveOnDisk
<1>12. CASE WriteModel
  <2> DEFINE f == File("checkpoint.pth", model)
  <2>1. /\ pc = "model" /\ pc' = "state" /\ temp' = [temp EXCEPT ![iter] = @ \cup {f}]
        /\ UNCHANGED <<kept, iter, recent, saved>>
    BY <1>12 DEF WriteModel
  <2>2. f.name = "checkpoint.pth"
    BY DEF File
  <2> HIDE DEF f
  <2>3. temp'[iter] = temp[iter] \cup {f}
    BY <1>1, <1>2, <2>1 DEF Running
  <2>4. FileNames(temp[iter]) = {"."} /\ saved = NoStep
    BY <1>0, <2>1 DEF InTemp, SavedOnTop
  <2>5. FileNames(temp'[iter]) = {".", "checkpoint.pth"}
    BY <2>2, <2>3, <2>4 DEF FileNames
  <2>6. InTemp'
    BY <2>1, <2>5 DEF InTemp
  <2> QED BY <2>1, <2>4, <2>6, SaveOnDisk
<1>13. CASE WriteState
  <2> DEFINE f == File("training_state.pth", model)
  <2>1. /\ pc = "state" /\ pc' = "replace" /\ temp' = [temp EXCEPT ![iter] = @ \cup {f}]
        /\ UNCHANGED <<kept, iter, recent, saved>>
    BY <1>13 DEF WriteState
  <2>2. f.name = "training_state.pth"
    BY DEF File
  <2> HIDE DEF f
  <2>3. temp'[iter] = temp[iter] \cup {f}
    BY <1>1, <1>2, <2>1 DEF Running
  <2>4. FileNames(temp[iter]) = {".", "checkpoint.pth"} /\ saved = NoStep
    BY <1>0, <2>1 DEF InTemp, SavedOnTop
  <2>5. FileNames(temp'[iter]) = Entries
    BY <2>2, <2>3, <2>4 DEF FileNames, Entries
  <2>6. InTemp'
    BY <2>1, <2>5 DEF InTemp
  <2> QED BY <2>1, <2>4, <2>6, SaveOnDisk
<1>14. CASE RemoveOld
  <2>1. pc = "replace" /\ RemoveEntry(iter)
    BY <1>14 DEF RemoveOld
  <2>2. iter \in Steps /\ iter \in Nat /\ kept[iter] # {}
    BY <1>1, <1>2, <2>1, RemoveTypes DEF Running
  <2>3. Behind(iter)
    BY <1>0, <2>1, <2>2 DEF AllBehind, Running, Found, Present
  <2> QED BY <2>1, <2>2, <2>3 DEF Behind
<1>15. CASE Replace
  BY <1>15, ReplaceOnDisk
<1>16. CASE RemoveSurplus
  BY <1>16, SurplusOnDisk
<1>17. CASE RemoveFails
  <2>1. pc = "remove" /\ pc' = "failed" /\ UNCHANGED <<kept, saved>>
    BY <1>17 DEF RemoveFails
  <2>2. saved = NoStep
    BY <1>0, <2>1 DEF SavedOnTop
  <2> QED BY <2>1, <2>2, StopOnDisk
<1>18. CASE Saved
  <2>1. /\ pc = "remove" /\ saved' = iter /\ pc' = IF final THEN "done" ELSE "barrier"
        /\ UNCHANGED <<kept, temp, iter, recent, doomed>>
    BY <1>18 DEF Saved
  <2>2. Running /\ iter \in Steps /\ Top(iter)
    BY <1>0, <1>1, <2>1 DEF SavedOnTop, Running
  <2>3. CASE final
    BY <2>1, <2>2, <2>3, StopOnDisk
  <2>4. CASE ~final
    <3>1. pc' = "barrier"
      BY <2>1, <2>4
    <3>2. \A s \in Steps : Behind(s) => Behind(s)'
      BY <2>1, <3>1 DEF Behind
    <3>3. AllBehind'
      BY <1>0, <2>1, <2>2, <3>2, StillBehind
    <3>4. NewestWhole' /\ InTemp'
      BY <1>0, <2>1, <3>1, SameCheckpoints DEF InTemp
    <3>5. SavedOnTop'
      BY <2>1, <2>2, <3>1, SameCheckpoints DEF SavedOnTop, Top, Whole, FileNames, Entries
    <3> QED BY <3>3, <3>4, <3>5 DEF DiskInv
  <2> QED BY <2>3, <2>4
<1>19. CASE Dies
  BY <1>19, StopOnDisk DEF Dies
<1>20. CASE UNCHANGED checkpointVars
  <2>1. UNCHANGED <<kept, temp, pc, iter, recent, doomed, saved>>
    BY <1>20 DEF checkpointVars
  <2> QED BY <1>0, <2>1 DEF DiskInv, NewestWhole, AllBehind, InTemp, SavedOnTop, Top, Whole,
             Found, Present, Behind, FileNames, Running, Entries
<1> QED BY <1>3, <1>4, <1>5, <1>6, <1>7, <1>8, <1>9, <1>10, <1>11, <1>12, <1>13, <1>14,
           <1>15, <1>16, <1>17, <1>18, <1>19, <1>20 DEF CheckpointsNext, Proceeds

LEMMA DiskIsSafe ==
  ASSUME TypedLoop, mode = "auto" => DiskInv
  PROVE  LatestIsWhole
<1> SUFFICES ASSUME mode = "auto"
             PROVE  /\ Found # {} => Whole(Newest)
                    /\ saved # NoStep => Found # {} /\ Newest = saved
  BY DEF LatestIsWhole
<1>1. \A s \in Steps : s \in Nat
  BY CheckpointsAssumption DEF Steps
<1>2. ASSUME Found # {}, NEW s \in Steps, Top(s) PROVE Newest = s
  <2>1. s \in Found
    BY <1>2 DEF Top, Whole, FileNames, Entries, Found, Present
  <2>2. s <= Newest /\ Newest <= s
    BY <1>2, <2>1, NewestIsThere DEF Top
  <2>3. s \in Nat /\ Newest \in Nat
    BY <1>1, <1>2, NewestIsThere
  <2> QED BY <2>2, <2>3
<1>3. Found # {} => Whole(Newest)
  BY <1>2 DEF DiskInv, NewestWhole, Top
<1>4. ASSUME saved # NoStep PROVE Found # {} /\ Newest = saved
  <2>1. saved \in Steps /\ Top(saved)
    BY <1>4 DEF DiskInv, SavedOnTop
  <2>2. saved \in Found
    BY <2>1 DEF Top, Whole, FileNames, Entries, Found, Present
  <2> QED BY <1>2, <2>1, <2>2
<1> QED BY <1>3, <1>4

LEMMA InitOnDisk ==
  ASSUME CheckpointsInit
  PROVE  DiskInv
<1>1. Found = {} /\ pc = "down" /\ saved = NoStep
  BY DEF CheckpointsInit, Found, Present
<1> QED BY <1>1 DEF DiskInv, NewestWhole, AllBehind, Running, InTemp, SavedOnTop

LEMMA ModeStays ==
  ASSUME [CheckpointsNext]_checkpointVars
  PROVE  mode' = mode
BY DEF CheckpointsNext, Proceeds, checkpointVars, launch, disk, Start, Train, Log, SwapIn,
       Visualize, RunValidation, Barrier, Meet, OpenTemp, WriteModel, WriteState,
       RemoveOld, Replace, RemoveSurplus, RemoveFails, Saved, Dies

\* Whenever and however often the processes die, the newest checkpoint is whole,
\* and the step last saved (maybe_save_checkpoint): for any number of steps and
\* any intervals, where the loop does not save at its last step and retention
\* keeps one. Without the first a second save of the last step removes the
\* newest checkpoint before the rename that replaces it, without the second
\* retention removes what was just saved.
THEOREM ResumesFromAWholeCheckpoint ==
  ASSUME NoResave, KeepRecent # 0
  PROVE  Spec => []LatestIsWhole
<1> DEFINE Inv == TypedLoop /\ (mode = "auto" => DiskInv)
<1>1. Init => Inv
  BY OnlyCheckpointSteps, InitTypes, InitOnDisk
<1>2. Inv /\ [Next]_trainingVars => Inv'
  <2> SUFFICES ASSUME Inv, [Next]_trainingVars PROVE Inv'
    OBVIOUS
  <2>1. [CheckpointsNext]_checkpointVars
    BY OnlyCheckpointSteps
  <2>2. TypedLoop' /\ mode' = mode
    BY <2>1, StepTypes, ModeStays
  <2>3. mode = "auto" => DiskInv'
    BY <2>1, StepOnDisk
  <2> QED BY <2>2, <2>3
<1>3. Inv => LatestIsWhole
  BY DiskIsSafe
<1> HIDE DEF Inv
<1> QED BY <1>1, <1>2, <1>3, PTL DEF Spec

-----------------------------------------------------------------------------
(* A run that dies is a run that resumes                                    *)

\* A step that leaves the directories' names and what is trained alone.
LEMMA NothingTrained ==
  ASSUME mode' = mode, Found' = Found, pc # "down", pc' # "down",
         model'.schedule = model.schedule, pc' = "done" <=> pc = "done"
  PROVE  UNCHANGED Resumable!vars
<1>1. Durable' = Durable
  BY DEF Durable, Newest
<1>2. Trained' = Trained
  BY DEF Trained
<1>3. CheckpointsDone' = CheckpointsDone
  BY DEF CheckpointsDone
<1> QED BY <1>1, <1>2, <1>3 DEF Resumable!vars

LEMMA DurableIsNat == Durable \in Nat
<1>1. Found # {} => Newest \in Nat
  BY NewestIsThere, CheckpointsAssumption DEF Steps
<1> QED BY <1>1, CheckpointsAssumption DEF Durable

\* The newest directory is the one nothing is above.
LEMMA TopIsNewest ==
  ASSUME NEW s \in Found, \A t \in Found : t <= s
  PROVE  Newest = s
<1>1. Newest \in Found /\ s <= Newest /\ Newest <= s
  BY NewestIsThere
<1>2. s \in Nat /\ Newest \in Nat
  BY <1>1, CheckpointsAssumption DEF Found, Steps
<1> QED BY <1>1, <1>2

LEMMA StartResumes ==
  ASSUME TypedLoop, ContentInv, mode = "auto" => DiskInv, Start
  PROVE  Resumable!Next \/ UNCHANGED Resumable!vars
<1> DEFINE resumes == mode = "auto" /\ Found # {}
           broken == resumes /\ "training_state.pth" \notin FileNames(kept[Newest])
           from == IF mode = "continue" THEN SourceStep + 1
                   ELSE IF resumes THEN Newest + 1 ELSE 0
<1>1. /\ pc = "down" /\ mode' = mode /\ kept' = kept
      /\ pc' = IF broken THEN "failed" ELSE Enter(from)
      /\ model' = IF mode = "continue" THEN ContinueFrom(After(from))
                  ELSE IF mode = "finetune" THEN FinetuneFrom(SourceStep)
                  ELSE IF resumes /\ ~broken THEN ContinueFrom(StateOf(Newest)) ELSE Nothing
  BY DEF Start
<1>2. from = Durable /\ Trained = Durable /\ Found' = Found
  BY <1>1 DEF Durable, Trained, Found, Present
<1>3. Durable' = Durable
  BY <1>1, <1>2 DEF Durable, Newest
<1>4. resumes => /\ Newest \in Steps
                 /\ \E f \in kept[Newest] :
                      f.name = "training_state.pth" /\ StateOf(Newest) = f.holds
  <2>1. ASSUME resumes PROVE "training_state.pth" \in FileNames(kept[Newest]) /\ Newest \in Steps
    <3>1. Whole(Newest)
      BY <2>1, DiskIsSafe DEF LatestIsWhole
    <3> QED BY <2>1, <3>1, NewestIsThere DEF Whole, Entries
  <2> QED BY <2>1, StateIsThere
<1>5. ~broken
  BY <1>4 DEF FileNames
<1>6. resumes => StateOf(Newest).schedule = Newest + 1
  <2> SUFFICES ASSUME resumes PROVE StateOf(Newest).schedule = Newest + 1
    OBVIOUS
  <2>1. PICK f \in kept[Newest] : f.name = "training_state.pth" /\ StateOf(Newest) = f.holds
    BY <1>4
  <2>2. f # Here
    BY <2>1 DEF Here, File
  <2>3. Fits(f, Newest)
    BY <1>4 DEF ContentInv, OnDisk
  <2> QED BY <2>1, <2>2, <2>3 DEF Fits, Like
<1>7. mode \in {"auto", "continue", "finetune"}
  BY CheckpointsAssumption DEF TypedLoop, CheckpointsTypeOK
<1>8. model'.schedule = Durable
  <2>1. CASE mode = "continue"
    BY <1>1, <1>2, <2>1 DEF ContinueFrom, After
  <2>2. CASE mode = "finetune"
    BY <1>1, <1>2, <2>2 DEF FinetuneFrom, After
  <2>3. CASE mode = "auto" /\ resumes
    BY <1>1, <1>2, <1>5, <1>6, <2>3 DEF ContinueFrom
  <2>4. CASE mode = "auto" /\ ~resumes
    BY <1>1, <1>2, <2>4 DEF Nothing, After
  <2> QED BY <1>7, <2>1, <2>2, <2>3, <2>4
<1>9. pc' = Enter(Durable) /\ pc' # "down"
  BY <1>1, <1>2, <1>5 DEF Enter
<1>10. Trained' = Trained
  BY <1>2, <1>8, <1>9 DEF Trained
<1>11. ~CheckpointsDone
  BY <1>1 DEF CheckpointsDone
<1>12. CASE Durable < TotalSteps
  <2>1. CheckpointsDone' = CheckpointsDone
    BY <1>9, <1>11, <1>12 DEF Enter, CheckpointsDone
  <2> QED BY <1>3, <1>10, <2>1 DEF Resumable!vars
<1>13. CASE ~(Durable < TotalSteps)
  <2>1. CheckpointsDone'
    BY <1>9, <1>13 DEF Enter, CheckpointsDone
  <2>2. Trained >= TotalSteps
    BY <1>2, <1>13, DurableIsNat, CheckpointsAssumption
  <2> QED BY <1>3, <1>10, <1>11, <2>1, <2>2 DEF Resumable!Next, Resumable!Finish
<1> QED BY <1>12, <1>13

\* A save counts from the rename on.
LEMMA ReplaceSaves ==
  ASSUME TypedLoop, ContentInv, mode = "auto" => DiskInv, Replace
  PROVE  Resumable!Next \/ UNCHANGED Resumable!vars
<1>1. /\ pc = "replace" /\ pc' = "remove" /\ mode' = mode /\ model' = model
      /\ kept' = [kept EXCEPT ![iter] = temp[iter]]
  BY DEF Replace, launch
<1>2. iter \in Steps /\ kept \in [Steps -> SUBSET Files] /\ Running
  BY <1>1 DEF TypedLoop, LoopInv, CheckpointsTypeOK, Running
<1>3. model.schedule = iter + 1 /\ iter \in Nat
  BY <1>1, <1>2, CheckpointsAssumption DEF ContentInv, InMemory, Like, Steps
<1>4. Trained' = Trained /\ Trained = iter + 1 /\ ~CheckpointsDone
  BY <1>1, <1>3 DEF Trained, CheckpointsDone
<1>4a. CheckpointsDone' = CheckpointsDone
  BY <1>1 DEF CheckpointsDone
<1>5. CASE mode # "auto"
  <2>1. Durable' = Durable
    BY <1>1, <1>5 DEF Durable
  <2> QED BY <1>4, <1>4a, <2>1 DEF Resumable!vars
<1>6. CASE mode = "auto"
  <2>1. \A s \in Found : s < iter
    BY <1>1, <1>2, <1>6 DEF DiskInv, AllBehind, Behind
  <2>2. Durable < Trained
    <3>1. Found # {} => Newest \in Nat /\ Newest < iter
      BY <2>1, NewestIsThere, CheckpointsAssumption DEF Steps
    <3> QED BY <1>3, <1>4, <1>6, <3>1 DEF Durable
  <2>3. temp[iter] # {}
    BY <1>1, <1>6 DEF DiskInv, InTemp, FileNames, Entries
  <2>4. Found' = Found \cup {iter}
    BY <1>1, <1>2, <2>3 DEF Found, Present
  <2>5. iter' = iter
    BY DEF Replace
  <2>6. \A t \in Found' : t <= iter
    BY <1>3, <2>1, <2>4, FoundIsFinite, CheckpointsAssumption DEF Steps
  <2>7. \A t \in Found' : t \in Nat
    BY <2>4, <1>3, FoundIsFinite, CheckpointsAssumption DEF Steps
  <2>8. Newest' = iter
    BY <2>4, <2>6, <2>7, <1>3 DEF Newest
  <2>9. Durable' = Trained
    BY <1>1, <1>4, <1>6, <2>4, <2>8 DEF Durable
  <2> QED BY <1>4, <1>4a, <2>2, <2>9 DEF Resumable!Next, Resumable!Save
<1> QED BY <1>5, <1>6

\* What retention removes is not the newest, nor is anything in the way of a save.
LEMMA RemovesNoProgress ==
  ASSUME TypedLoop, ContentInv, mode = "auto" => DiskInv, RemoveOld \/ RemoveSurplus
  PROVE  UNCHANGED Resumable!vars
<1>1. /\ pc \in {"replace", "remove"} /\ pc' = pc /\ mode' = mode /\ model' = model
      /\ iter \in Steps /\ Running
  BY DEF RemoveOld, RemoveSurplus, launch, TypedLoop, LoopInv, Running
<1>2. Trained' = Trained
  BY <1>1 DEF Trained
<1>2a. CheckpointsDone' = CheckpointsDone
  BY <1>1 DEF CheckpointsDone
<1>3. CASE mode # "auto"
  <2>1. Durable' = Durable
    BY <1>1, <1>3 DEF Durable
  <2> QED BY <1>2, <1>2a, <2>1 DEF Resumable!vars
<1>4. CASE mode = "auto"
  <2>1. kept \in [Steps -> SUBSET Files] /\ iter \in Nat
    BY <1>1, CheckpointsAssumption DEF TypedLoop, CheckpointsTypeOK, Steps
  <2>2. ~RemoveOld
    <3> SUFFICES ASSUME RemoveOld PROVE FALSE
      OBVIOUS
    <3>1. iter \in Found /\ pc = "replace"
      BY <1>1 DEF RemoveOld, RemoveEntry, Found, Present
    <3>2. iter < iter
      BY <1>1, <1>4, <3>1 DEF DiskInv, AllBehind, Behind
    <3> QED BY <2>1, <3>2
  <2>3. /\ pc = "remove" /\ doomed # <<>> /\ RemoveEntry(Head(doomed))
    BY <2>2 DEF RemoveSurplus
  <2>4. Top(iter) /\ Head(doomed) # iter
    <3>1. Len(doomed) \in Nat /\ Len(doomed) # 0 /\ Head(doomed) = doomed[1]
      BY <2>3, EmptySeq DEF TypedLoop, CheckpointsTypeOK
    <3> QED BY <1>4, <2>3, <3>1 DEF DiskInv, SavedOnTop
  <2>5. iter \in Found /\ \A t \in Found : t <= iter
    BY <1>1, <2>4 DEF Top, Whole, FileNames, Entries, Found, Present
  <2>6. Found' \subseteq Found /\ iter \in Found'
    <3>1. PICK f : kept' = [kept EXCEPT ![Head(doomed)] = @ \ {f}]
      BY <2>3 DEF RemoveEntry
    <3>2. \A s \in Steps : kept'[s] \subseteq kept[s] /\ kept'[iter] = kept[iter]
      BY <1>1, <2>1, <2>4, <3>1
    <3> QED BY <1>1, <2>5, <3>2 DEF Found, Present
  <2>7. Newest = iter
    BY <2>5, TopIsNewest
  <2>8. Newest' = iter
    <3>1. \A t \in Found' : t <= iter /\ t \in Nat
      BY <2>5, <2>6, FoundIsFinite, CheckpointsAssumption DEF Steps
    <3>2. (Newest \in Found /\ \A t \in Found : t <= Newest)'
      BY <2>6, <3>1 DEF Newest
    <3>3. Newest' <= iter /\ iter <= Newest' /\ Newest' \in Nat
      BY <2>6, <3>1, <3>2
    <3> QED BY <2>1, <3>3
  <2>9. Durable' = Durable
    BY <1>1, <1>4, <2>5, <2>6, <2>7, <2>8 DEF Durable
  <2> QED BY <1>2, <1>2a, <2>9 DEF Resumable!vars
<1> QED BY <1>3, <1>4

LEMMA RunResumes ==
  ASSUME TypedLoop, ContentInv, mode = "auto" => DiskInv, [CheckpointsNext]_checkpointVars
  PROVE  Resumable!Next \/ UNCHANGED Resumable!vars
<1> USE DEF launch, disk
<1>0. LoopInv /\ CheckpointsTypeOK
  BY DEF TypedLoop
<1>1. CASE Start
  BY <1>1, StartResumes
<1>2. CASE Train
  <2>1. /\ pc = "train" /\ pc' # "down" /\ pc' # "done" /\ mode' = mode /\ kept' = kept
        /\ model' = AverageStep([model EXCEPT !.steps = @ + 1, !.schedule = @ + 1])
    BY <1>0, <1>2, LeavesTo DEF Train, Leaves
  <2>2. model.schedule = iter /\ iter \in 0 .. TotalSteps - 1 /\ model \in Models
    BY <1>0, <2>1 DEF ContentInv, InMemory, Running, Like, LoopInv, Steps, CheckpointsTypeOK
  <2>3. model'.schedule = model.schedule + 1
    BY <2>1, <2>2 DEF AverageStep, Models
  <2>4. Trained = iter /\ Trained' = Trained + 1 /\ ~CheckpointsDone
    BY <2>1, <2>2, <2>3 DEF Trained, CheckpointsDone
  <2>4a. CheckpointsDone' = CheckpointsDone
    BY <2>1 DEF CheckpointsDone
  <2>5. Trained < TotalSteps
    BY <2>2, <2>4, CheckpointsAssumption
  <2>6. Durable' = Durable
    BY <2>1 DEF Durable, Newest, Found, Present
  <2> QED BY <2>4, <2>4a, <2>5, <2>6 DEF Resumable!Next, Resumable!Train
<1>3. ASSUME mode' = mode, kept' = kept, model'.schedule = model.schedule,
             pc \notin {"down", "done"}, pc' \notin {"down", "done"}
      PROVE  UNCHANGED Resumable!vars
  <2>1. Found' = Found
    BY <1>3 DEF Found, Present
  <2> QED BY <1>3, <2>1, NothingTrained
<1>4. model \in Models
  BY <1>0 DEF CheckpointsTypeOK
<1>5. ASSUME SwapIn \/ SwapOut PROVE model'.schedule = model.schedule
  BY <1>4, <1>5 DEF SwapIn, SwapOut, Models
<1>6. CASE Log \/ Barrier
  BY <1>0, <1>3, <1>6, LeavesTo DEF Log, Barrier, Leaves
<1>7. CASE RunValidation
  BY <1>0, <1>3, <1>5, <1>7, LeavesTo DEF RunValidation, Leaves
<1>8. CASE SwapIn
  BY <1>3, <1>5, <1>8 DEF SwapIn
<1>9. CASE Visualize
  BY <1>0, <1>3, <1>5, <1>9, MainStops DEF Visualize
<1>10. CASE Meet \/ OpenTemp \/ WriteState
  BY <1>3, <1>10 DEF Meet, OpenTemp, WriteState
<1>11. CASE WriteModel
  BY <1>3, <1>5, <1>11 DEF WriteModel
<1>12. CASE RemoveOld \/ RemoveSurplus
  BY <1>12, RemovesNoProgress
<1>13. CASE RemoveFails
  BY <1>3, <1>13 DEF RemoveFails
<1>14. CASE Replace
  BY <1>14, ReplaceSaves
<1>15. CASE Saved
  <2>1. /\ pc = "remove" /\ pc' = (IF final THEN "done" ELSE "barrier")
        /\ mode' = mode /\ kept' = kept /\ model' = model
    BY <1>15 DEF Saved
  <2>2. CASE ~final
    BY <1>3, <2>1, <2>2
  <2>3. CASE final
    <3>1. iter = TotalSteps - 1 /\ model.schedule = iter + 1
      BY <1>0, <2>1, <2>3 DEF LoopInv, Running, ContentInv, InMemory, Like
    <3>2. /\ Trained >= TotalSteps /\ Trained' = Trained
          /\ ~CheckpointsDone /\ CheckpointsDone'
      BY <2>1, <2>3, <3>1, CheckpointsAssumption DEF Trained, CheckpointsDone
    <3>3. Durable' = Durable
      BY <2>1 DEF Durable, Newest, Found, Present
    <3> QED BY <3>2, <3>3 DEF Resumable!Next, Resumable!Finish
  <2> QED BY <2>2, <2>3
<1>16. CASE Dies
  <2>1. pc \notin {"down", "done", "failed"} /\ pc' = "down" /\ mode' = mode /\ kept' = kept
    BY <1>16 DEF Dies
  <2>2. Durable' = Durable
    BY <2>1 DEF Durable, Newest, Found, Present
  <2>3. Trained' = Durable /\ ~CheckpointsDone
    BY <2>1, <2>2 DEF Trained, CheckpointsDone
  <2>4. CheckpointsDone' = CheckpointsDone
    BY <2>1 DEF CheckpointsDone
  <2> QED BY <2>2, <2>3, <2>4 DEF Resumable!Next, Resumable!Die
<1>17. CASE UNCHANGED checkpointVars
  BY <1>17 DEF checkpointVars, Resumable!vars, Trained, Durable, Newest, Found, Present,
               CheckpointsDone
<1> QED BY <1>1, <1>2, <1>6, <1>7, <1>8, <1>9, <1>10, <1>11, <1>12, <1>13, <1>14, <1>15, <1>16,
           <1>17 DEF CheckpointsNext, Proceeds

\* A run of nxwm-mira that is killed and submitted again loses what it trained
\* since its last save and nothing else, for any number of steps, intervals and
\* deaths, wherever in a save they fall, under the hypotheses of
\* ResumesFromAWholeCheckpoint.
THEOREM RunsAsIfResumable ==
  ASSUME NoResave, KeepRecent # 0
  PROVE  Spec => ResumableSpec
<1> DEFINE Inv == TypedLoop /\ ContentInv /\ (mode = "auto" => DiskInv)
<1>1. Init => Inv
  BY OnlyCheckpointSteps, InitTypes, InitContent, InitOnDisk
<1>2. Inv /\ [Next]_trainingVars => Inv'
  <2> SUFFICES ASSUME Inv, [Next]_trainingVars PROVE Inv'
    OBVIOUS
  <2>1. [CheckpointsNext]_checkpointVars
    BY OnlyCheckpointSteps
  <2>2. TypedLoop' /\ ContentInv' /\ mode' = mode
    BY <2>1, StepTypes, StepContent, ModeStays
  <2>3. mode = "auto" => DiskInv'
    BY <2>1, StepOnDisk
  <2> QED BY <2>2, <2>3
<1>3. Init => Resumable!Init
  <2> SUFFICES ASSUME Init PROVE Resumable!Init
    OBVIOUS
  <2>1. pc = "down" /\ Found = {}
    BY DEF Init, CheckpointsInit, Found, Present
  <2> QED BY <2>1 DEF Resumable!Init, Trained, Durable, CheckpointsDone
<1>4. Inv /\ [Next]_trainingVars => [Resumable!Next]_(Resumable!vars)
  BY OnlyCheckpointSteps, RunResumes
<1> HIDE DEF Inv
<1> QED BY <1>1, <1>2, <1>3, <1>4, PTL DEF Spec, ResumableSpec, Resumable!Spec

-----------------------------------------------------------------------------
(* The trainers: a turn's record, files, rollouts and samples               *)

\* The samples of a rank in an epoch.
Share == (Samples + World - 1) \div World

\* Value n is the first of the greatest of f.
FirstHigh(f, n) ==
  /\ n \in DOMAIN f
  /\ \A m \in DOMAIN f : f[m] <= f[n]
  /\ \A m \in 1 .. n - 1 : f[m] < f[n]

\* What the main node has seen, turn by turn.
Rates == [n \in 1 .. Done |-> Rate(n)]
RatesVal == [n \in 1 .. Done |-> RateVal(n)]
Has(q, x) == \E i \in 1 .. Len(q) : q[i] = x

\* The value on record is the first of the greatest, and its file is saved, or
\* among those still to be written.
Kept(f, d, high, name, q, stored, start) ==
  IF d = 0 THEN high = NaN
  ELSE \E n \in 1 .. d :
         /\ FirstHigh(f, n) /\ high = f[n]
         /\ high # NaN => IF Has(q, name) THEN n = d ELSE stored = start + n - 1

BestKept ==
  /\ Kept(Rates, Done, best.train, "best.pt", todo, files["best.pt"], first)
  /\ kind # "ppo" =>
       Kept(RatesVal, Done, best.val, "best_val.pt", todo, files["best_val.pt"], first)

BestInv == Up => BestKept

\* There are files to write only in between.
Writing ==
  /\ todo # <<>> => at[Main] \in {"write", "flush"}
  /\ at[Main] = "flush" => todo # <<>>
  /\ at[Main] \in {"write", "flush"} => Done > 0

\* What PPO gathers, and what everybody trains on behind it.
SeedsInv ==
  kind = "ppo" =>
    \A r \in Ranks :
      /\ at[r] \notin {"down", "failed"} => Rollouts % World = 0
      /\ at[r] = "gather" => local[r] = RankSeeds(r)
      /\ at[r] = "judge" => batch[r] = [i \in 1 .. Rollouts |-> (i - 1) % SeedCount]

\* A rank of an epoch whose ranks have trained on m samples each.
Keeps(place, samples, m) ==
  /\ place = "work" => Len(samples) = m
  /\ place = "gather" => Len(samples) = Shortest(m + PerBatch, Share)
  /\ place \in {"judge", "write", "flush"} => m = 0

InStep == \E m \in 0 .. Share : \A r \in Ranks : Keeps(at[r], local[r], m)

TrainedOn(samples, r, epoch) ==
  \A i \in 1 .. Len(samples) : samples[i] = RankSamples(r, epoch)[i]

OnItsShare(r) ==
  /\ at[r] \in {"work", "gather"} => TrainedOn(local[r], r, Epoch)
  /\ at[Main] = "judge" /\ at[r] = "judge" =>
       TrainedOn(local[r], r, first + Done) /\ Len(local[r]) = Share
  /\ at[Main] = "down" => at[r] = "down" /\ local[r] = <<>>

SamplesInv == kind # "ppo" => InStep /\ \A r \in Ranks : OnItsShare(r)

Grades == [train : Nat, val : Nat \cup {NaN}]

\* What the scores, files and shares are, without their bounds.
TrainersTyped ==
  /\ at \in [Ranks -> {"down", "failed", "work", "gather", "judge", "write",
                       "flush", "done"}]
  /\ local \in [Ranks -> Seq(Nat)]
  /\ scores \in Seq(Grades) /\ first \in Nat
  /\ best \in [train : Nat \cup {NaN}, val : Nat \cup {NaN}]
  /\ todo \in Seq(Names) /\ files \in [Names -> Int]

-----------------------------------------------------------------------------
(* Quotients, sums and shares                                             *)

LEMMA NatQuotient ==
  ASSUME NEW a \in Nat, NEW b \in Nat \ {0}
  PROVE  /\ a \div b \in Nat /\ a % b \in 0 .. b - 1
         /\ a = (b * (a \div b)) + (a % b)
OBVIOUS

\* A sum of natural numbers is one.
LEMMA TotalIsNat ==
  ASSUME NEW w \in Seq([train : Nat, val : Int])
  PROVE  Total(w) \in Nat
<1> DEFINE Sum(g, n) == g = [i \in 0 .. n |-> IF i = 0 THEN 0 ELSE g[i - 1] + w[i].train]
           Bad == {n \in 0 .. Len(w) : ~ \E g \in [0 .. n -> Nat] : Sum(g, n)}
<1>0. Len(w) \in Nat /\ \A i \in 1 .. Len(w) : w[i].train \in Nat
  <2> DEFINE T == [train : Nat, val : Int]
  <2>1. w \in Seq(T)
    OBVIOUS
  <2>2. Len(w) \in Nat /\ \A i \in 1 .. Len(w) : w[i] \in T
    <3> HIDE DEF T
    <3> QED BY <2>1
  <2> QED BY <2>2
<1>1. Bad = {}
  <2> SUFFICES ASSUME Bad # {} PROVE FALSE
    OBVIOUS
  <2>1. Bad \subseteq Nat
    BY <1>0
  <2>2. PICK n \in Bad : \A m \in Bad : n <= m
    <3> HIDE DEF Bad
    <3> QED BY <2>1, LeastExists
  <2>3. CASE n = 0
    <3>1. Sum([i \in 0 .. 0 |-> 0], 0)
      OBVIOUS
    <3>2. [i \in 0 .. 0 |-> 0] \in [0 .. 0 -> Nat]
      OBVIOUS
    <3> QED BY <3>1, <3>2, <2>2, <2>3
  <2>4. CASE n # 0
    <3>1. n \in 1 .. Len(w) /\ n - 1 \in 0 .. Len(w) /\ n - 1 \notin Bad
      <4>1. n \in 1 .. Len(w) /\ n - 1 \in 0 .. Len(w) /\ ~(n <= n - 1)
        BY <2>4, <1>0
      <4> HIDE DEF Bad
      <4> QED BY <4>1, <2>2
    <3>2. PICK g \in [0 .. n - 1 -> Nat] : Sum(g, n - 1)
      BY <3>1
    <3> DEFINE h == [i \in 0 .. n |-> IF i = n THEN g[n - 1] + w[n].train ELSE g[i]]
    <3>3. h \in [0 .. n -> Nat]
      BY <3>1, <1>0
    <3>4. ASSUME NEW i \in 0 .. n
          PROVE  h[i] = IF i = 0 THEN 0 ELSE h[i - 1] + w[i].train
      <4>1. CASE i = n
        <5>1. h[n] = g[n - 1] + w[n].train /\ h[n - 1] = g[n - 1]
          BY <3>1
        <5> QED BY <5>1, <4>1, <2>4
      <4>2. CASE i # n
        <5>1. i \in 0 .. n - 1 /\ (i # 0 => i - 1 \in 0 .. n - 1 /\ i - 1 # n)
          BY <4>2, <3>1
        <5>2. g[i] = IF i = 0 THEN 0 ELSE g[i - 1] + w[i].train
          BY <3>2, <5>1
        <5>3. h[i] = g[i] /\ (i # 0 => h[i - 1] = g[i - 1])
          BY <5>1, <4>2, <3>1
        <5> QED BY <5>2, <5>3
      <4> QED BY <4>1, <4>2
    <3>5. Sum(h, n)
      <4> HIDE DEF h
      <4> QED BY <3>3, <3>4
    <3> QED BY <3>3, <3>5, <3>1
  <2> QED BY <2>3, <2>4
<1>2. PICK g \in [0 .. Len(w) -> Nat] : Sum(g, Len(w))
  <2>1. Len(w) \in 0 .. Len(w)
    BY <1>0
  <2> QED BY <1>1, <2>1
<1> DEFINE c == CHOOSE f : Sum(f, Len(w))
<1>3. Sum(c, Len(w))
  BY <1>2
<1>4. ASSUME NEW i \in 0 .. Len(w) PROVE c[i] = g[i]
  <2> DEFINE Wrong == {n \in 0 .. Len(w) : c[n] # g[n]}
  <2> SUFFICES ASSUME Wrong # {} PROVE FALSE
    OBVIOUS
  <2>1. Wrong \subseteq Nat
    BY <1>0
  <2>2. PICK n \in Wrong : \A m \in Wrong : n <= m
    <3> HIDE DEF Wrong
    <3> QED BY <2>1, LeastExists
  <2> HIDE DEF c
  <2>3. n # 0 => n - 1 \in 0 .. Len(w) /\ n - 1 \notin Wrong
    BY <2>2, <1>0
  <2>4. n # 0 => c[n - 1] = g[n - 1]
    BY <2>3
  <2> QED BY <2>2, <2>4, <1>2, <1>3
<1>5. Total(w) = c[Len(w)]
  BY DEF Total
<1> QED BY <1>0, <1>4, <1>5

\* The mean over a window of scores.
LEMMA SmoothedIsNat ==
  ASSUME NEW s \in Seq(Grades), NEW n \in 1 .. Len(s)
  PROVE  Smoothed(s, n) \in Nat
<1> DEFINE from == IF n > Smooth THEN n - Smooth + 1 ELSE 1
           w == SubSeq(s, from, n)
<1>0. Len(s) \in Nat /\ n \in Nat /\ n > 0 /\ n <= Len(s) /\ Smooth \in Nat /\ Smooth > 0
  BY TrainersAssumption
<1>1. from \in 1 .. n
  BY <1>0
<1>2. w \in Seq(Grades) /\ Len(w) = n - from + 1
  <2> HIDE DEF from
  <2> QED BY <1>0, <1>1
<1>3. w \in Seq([train : Nat, val : Int])
  <2>1. Grades \subseteq [train : Nat, val : Int]
    BY DEF Grades, NaN
  <2>2. ASSUME NEW i \in 1 .. Len(w) PROVE w[i] \in Grades
    <3> HIDE DEF w
    <3> QED BY <1>2
  <2>3. w = [i \in 1 .. Len(w) |-> w[i]]
    <3> HIDE DEF w
    <3> QED BY <1>2
  <2>4. Len(w) \in Nat
    BY <1>0, <1>1, <1>2
  <2> DEFINE T == [train : Nat, val : Int]
  <2> HIDE DEF w, T
  <2>5. \A i \in 1 .. Len(w) : w[i] \in T
    BY <2>1, <2>2 DEF T
  <2>6. w \in Seq(T)
    BY <2>3, <2>4, <2>5
  <2> QED BY <2>6 DEF T
<1>4. Total(w) \in Nat /\ Len(w) \in Nat \ {0}
  <2> HIDE DEF w, from
  <2> QED BY <1>0, <1>1, <1>2, <1>3, TotalIsNat
<1>5. 60 * Total(w) \in Nat
  <2> HIDE DEF w
  <2> QED BY <1>4
<1>6. (60 * Total(w)) \div Len(w) \in Nat
  <2> HIDE DEF w
  <2> QED BY <1>4, <1>5, NatQuotient
<1> QED BY <1>6 DEF Smoothed

\* A score behind a window leaves it as it is.
LEMMA WindowStays ==
  ASSUME NEW s \in Seq(Grades), NEW x \in Grades, NEW n \in 1 .. Len(s), NEW m \in 1 .. n
  PROVE  SubSeq(Append(s, x), m, n) = SubSeq(s, m, n)
<1>1. Append(s, x) \in Seq(Grades) /\ Len(Append(s, x)) = Len(s) + 1 /\ Len(s) \in Nat
  OBVIOUS
<1>2. \A i \in m .. n : Append(s, x)[i] = s[i]
  OBVIOUS
<1> QED BY <1>1, <1>2

\* A turn judged adds one value behind those before it.
LEMMA RatesGrow ==
  ASSUME TrainersTyped, kind' = kind, NEW x \in Grades, scores' = Append(scores, x)
  PROVE  /\ Done' = Done + 1 /\ Done \in Nat /\ scores' \in Seq(Grades)
         /\ Rates \in [1 .. Done -> Nat] /\ Rates' \in [1 .. Done + 1 -> Nat]
         /\ \A n \in 1 .. Done : Rates'[n] = Rates[n]
         /\ Rates'[Done + 1] = IF kind = "ppo" THEN Smoothed(scores', Done + 1) ELSE x.train
         /\ RatesVal \in [1 .. Done -> Int] /\ RatesVal' \in [1 .. Done + 1 -> Int]
         /\ \A n \in 1 .. Done : RatesVal'[n] = RatesVal[n]
         /\ RatesVal'[Done + 1] = x.val
<1>1. /\ scores \in Seq(Grades) /\ scores' \in Seq(Grades)
      /\ Len(scores) \in Nat /\ Len(scores') = Len(scores) + 1
  BY DEF TrainersTyped
<1>2. /\ \A n \in 1 .. Len(scores) : scores'[n] = scores[n] /\ scores[n] \in Grades
      /\ scores'[Len(scores) + 1] = x
  BY <1>1
<1>3. \A g \in Grades : g.train \in Nat /\ g.val \in Int
  BY DEF Grades, NaN
<1>4. ASSUME NEW n \in 1 .. Len(scores)
      PROVE  Rate(n)' = Rate(n) /\ Rate(n) \in Nat
  <2> DEFINE from == IF n > Smooth THEN n - Smooth + 1 ELSE 1
  <2>1. from \in 1 .. n
    BY <1>1, TrainersAssumption
  <2>2. SubSeq(scores', from, n) = SubSeq(scores, from, n)
    <3> HIDE DEF from
    <3> QED BY <1>1, <2>1, WindowStays
  <2>3. Smoothed(scores, n) \in Nat
    BY <1>1, SmoothedIsNat
  <2>4. Rate(n) = IF kind # "ppo" THEN scores[n].train ELSE Smoothed(scores, n)
    BY DEF Rate, Smoothed
  <2>5. Rate(n)' = IF kind # "ppo" THEN scores'[n].train ELSE Smoothed(scores', n)
    BY DEF Rate, Smoothed
  <2>6. Smoothed(scores', n) = Smoothed(scores, n)
    BY <2>2 DEF Smoothed
  <2> QED BY <1>2, <1>3, <2>3, <2>4, <2>5, <2>6
<1>d. PICK d \in Nat : d = Len(scores)
  BY <1>1
<1>5. Rate(d + 1)' = IF kind = "ppo" THEN Smoothed(scores', d + 1) ELSE x.train
  BY <1>2, <1>d DEF Rate, Smoothed
<1>6. Rate(d + 1)' \in Nat
  <2>1. d + 1 \in 1 .. Len(scores')
    BY <1>1, <1>d
  <2>2. Smoothed(scores', d + 1) \in Nat
    BY <1>1, <2>1, SmoothedIsNat
  <2> QED BY <1>3, <1>5, <2>2
<1> HIDE DEF Rate
<1>7. Done' = d + 1 /\ Done = d
  BY <1>1, <1>d DEF Done
<1>8. /\ Rates \in [1 .. d -> Nat] /\ Rates' \in [1 .. d + 1 -> Nat]
      /\ \A n \in 1 .. d : Rates'[n] = Rates[n]
      /\ Rates'[d + 1] = Rate(d + 1)'
  <2>1. Rates = [n \in 1 .. d |-> Rate(n)]
    BY <1>7 DEF Rates
  <2>2. Rates' = [n \in 1 .. d + 1 |-> Rate(n)']
    BY <1>7 DEF Rates
  <2>3. \A n \in 1 .. d + 1 : n \in 1 .. d \/ n = d + 1
    OBVIOUS
  <2>4. \A n \in 1 .. d : Rate(n)' = Rate(n) /\ Rate(n) \in Nat
    BY <1>4, <1>d
  <2>5. \A n \in 1 .. d + 1 : Rate(n)' \in Nat
    BY <2>3, <2>4, <1>6
  <2> QED BY <2>1, <2>2, <2>4, <2>5
<1>9. /\ RatesVal \in [1 .. d -> Int] /\ RatesVal' \in [1 .. d + 1 -> Int]
      /\ \A n \in 1 .. d : RatesVal'[n] = RatesVal[n]
      /\ RatesVal'[d + 1] = x.val
  BY <1>2, <1>3, <1>7, <1>d DEF RatesVal, RateVal
<1> QED BY <1>1, <1>5, <1>7, <1>8, <1>9

\* One more value is the new first high, or leaves the old one.
LEMMA FirstHighMoves ==
  ASSUME NEW d \in Nat, NEW f \in [1 .. d -> Int], NEW g \in [1 .. d + 1 -> Int],
         \A n \in 1 .. d : g[n] = f[n], NEW n \in 1 .. d, FirstHigh(f, n)
  PROVE  /\ g[d + 1] > f[n] => FirstHigh(g, d + 1)
         /\ ~(g[d + 1] > f[n]) => FirstHigh(g, n) /\ g[n] = f[n]
BY DEF FirstHigh

LEMMA FirstHighOnce ==
  ASSUME NEW d \in Nat, NEW f \in [1 .. d -> Int], NEW m \in 1 .. d, NEW n \in 1 .. d,
         FirstHigh(f, m), FirstHigh(f, n)
  PROVE  m = n
BY DEF FirstHigh

-----------------------------------------------------------------------------
(* The record and its files                                                *)

\* Of Training only the trainers' steps move these variables.
LEMMA OnlyTrainerSteps ==
  /\ Init => TrainersInit
  /\ [Next]_trainingVars => [TrainersNext]_trainerVars
<1>1. Init => TrainersInit
  BY DEF Init
<1>2. ASSUME Next PROVE [TrainersNext]_trainerVars
  <2>1. CASE Rolls
    BY <2>1 DEF Rolls
  <2>2. CASE Trains
    BY <2>2 DEF Trains, TrainersNext
  <2>3. CASE Iterates
    BY <2>3 DEF Iterates
  <2>4. CASE Imagines
    BY <2>4 DEF Imagines
  <2>5. CASE Streams
    BY <2>5 DEF Streams
  <2>6. CASE Crashes
    BY <2>6 DEF Crashes, TrainersNext
  <2> QED BY <1>2, <2>1, <2>2, <2>3, <2>4, <2>5, <2>6 DEF Next, Runs
<1>3. UNCHANGED trainingVars => UNCHANGED trainerVars
  BY DEF trainingVars
<1> QED BY <1>1, <1>2, <1>3

\* Every rank has a share, and all are equally long.
LEMMA Shares ==
  ASSUME NEW r \in Ranks
  PROVE  /\ Main \in Ranks /\ Share \in Nat \ {0} /\ RankSeeds(r) \in Seq(Nat)
         /\ \A epoch \in Nat : /\ RankSamples(r, epoch) \in Seq(Nat)
                               /\ Len(RankSamples(r, epoch)) = Share
         /\ Perfect \in Nat
<1>0. /\ World \in Nat \ {0} /\ Samples \in Nat \ {0} /\ SeedCount \in Nat \ {0}
      /\ Rollouts \in Nat \ {0} /\ r \in Nat
  BY TrainersAssumption DEF Ranks
<1>1. Main \in Ranks
  BY <1>0 DEF Main, Ranks
<1>2. Share \in Nat \ {0}
  <2>1. Samples + World - 1 \in Nat /\ Samples + World - 1 >= World
    BY <1>0
  <2>2. Share \in Nat /\ (Samples + World - 1) % World \in 0 .. World - 1
        /\ Samples + World - 1 = (World * Share) + ((Samples + World - 1) % World)
    BY <1>0, <2>1, NatQuotient DEF Share
  <2>3. Share # 0
    <3> SUFFICES ASSUME Share = 0 PROVE FALSE
      OBVIOUS
    <3>1. World * Share = 0
      BY <1>0
    <3> QED BY <1>0, <2>1, <2>2, <3>1
  <2> QED BY <2>2, <2>3
<1>3. RankSeeds(r) \in Seq(Nat)
  <2> DEFINE n == Rollouts \div World
  <2>1. n \in Nat
    BY <1>0, NatQuotient
  <2> HIDE DEF n
  <2>2. \A i \in 1 .. n : r * n + i - 1 \in Nat
    BY <1>0, <2>1
  <2>3. \A i \in 1 .. n : (r * n + i - 1) % SeedCount \in Nat
    BY <1>0, <2>2, NatQuotient
  <2> QED BY <2>1, <2>3 DEF RankSeeds, n
<1>4. ASSUME NEW epoch \in Nat
      PROVE  RankSamples(r, epoch) \in Seq(Nat) /\ Len(RankSamples(r, epoch)) = Share
  <2>1. Shuffled(epoch) \in [1 .. Samples -> Nat]
    <3>1. \A i \in 1 .. Samples : i - 1 + epoch \in Nat
      BY <1>0
    <3>2. \A i \in 1 .. Samples : (i - 1 + epoch) % Samples \in Nat
      BY <1>0, <3>1, NatQuotient
    <3> QED BY <3>2 DEF Shuffled
  <2>2. \A i \in 1 .. Share : ((World * (i - 1) + r) % Samples) + 1 \in 1 .. Samples
    <3>1. \A i \in 1 .. Share : World * (i - 1) + r \in Nat
      BY <1>0, <1>2
    <3> QED BY <1>0, <3>1, NatQuotient
  <2>3. RankSamples(r, epoch) \in [1 .. Share -> Nat]
    <3>1. \A i \in 1 .. Share : Shuffled(epoch)[((World * (i - 1) + r) % Samples) + 1] \in Nat
      BY <2>1, <2>2
    <3> QED BY <3>1 DEF RankSamples, Share
  <2>4. DOMAIN RankSamples(r, epoch) = 1 .. Share
    BY DEF RankSamples, Share
  <2> QED BY <1>2, <2>3, <2>4
<1>5. Perfect \in Nat
  <2> DEFINE Highest(s) == \A t \in Scores : t <= s
  <2>1. \E s \in Scores : Highest(s)
    BY TrainersAssumption
  <2>2. (CHOOSE s \in Scores : Highest(s)) \in Scores
    BY <2>1
  <2>3. (CHOOSE s \in Scores : Highest(s)) \in Nat
    BY <2>2, TrainersAssumption
  <2> QED BY <2>3 DEF Perfect
<1> QED BY <1>1, <1>2, <1>3, <1>4, <1>5

\* A file is in two lists together when it is in one of them.
LEMMA ConcatHas ==
  ASSUME NEW S, NEW p \in Seq(S), NEW q \in Seq(S), NEW x
  PROVE  p \o q \in Seq(S) /\ (Has(p \o q, x) <=> Has(p, x) \/ Has(q, x))
<1>1. /\ p \o q \in Seq(S) /\ Len(p \o q) = Len(p) + Len(q)
      /\ Len(p) \in Nat /\ Len(q) \in Nat
  OBVIOUS
<1>2. \A i \in 1 .. Len(p) : (p \o q)[i] = p[i] /\ i \in 1 .. Len(p \o q)
  BY <1>1
<1>3. \A i \in 1 .. Len(q) : (p \o q)[Len(p) + i] = q[i] /\ Len(p) + i \in 1 .. Len(p \o q)
  BY <1>1
<1>4. \A i \in 1 .. Len(p \o q) : i \in 1 .. Len(p) \/ i - Len(p) \in 1 .. Len(q)
  BY <1>1
<1>5. \A i \in 1 .. Len(p \o q) : Len(p) + (i - Len(p)) = i
  BY <1>1
<1>6. Has(p \o q, x) => Has(p, x) \/ Has(q, x)
  <2> SUFFICES ASSUME NEW i \in 1 .. Len(p \o q), (p \o q)[i] = x
               PROVE  Has(p, x) \/ Has(q, x)
    BY DEF Has
  <2>1. CASE i \in 1 .. Len(p)
    BY <2>1, <1>2 DEF Has
  <2>2. CASE i - Len(p) \in 1 .. Len(q)
    <3>1. (p \o q)[i] = q[i - Len(p)]
      BY <2>2, <1>3, <1>5
    <3> QED BY <2>2, <3>1 DEF Has
  <2> QED BY <2>1, <2>2, <1>4
<1>7. Has(p, x) => Has(p \o q, x)
  BY <1>2 DEF Has
<1>8. Has(q, x) => Has(p \o q, x)
  BY <1>3 DEF Has
<1> QED BY <1>1, <1>6, <1>7, <1>8

\* One file, or none.
LEMMA OneHas ==
  ASSUME NEW p \in Names, NEW q, q = <<p>> \/ q = <<>>
  PROVE  q \in Seq(Names) /\ \A x : Has(q, x) <=> q = <<p>> /\ x = p
<1>1. CASE q = <<>>
  <2>1. q # <<p>> /\ Len(q) = 0 /\ q \in Seq(Names)
    BY <1>1
  <2> QED BY <2>1 DEF Has
<1>2. CASE q = <<p>>
  <2>1. Len(q) = 1 /\ q[1] = p /\ q \in Seq(Names)
    BY <1>2
  <2>2. \A i \in 1 .. Len(q) : i = 1
    BY <2>1
  <2> QED BY <1>2, <2>1, <2>2 DEF Has
<1> QED BY <1>1, <1>2

\* What the main node may see in a turn.
Verdict(x, high, names) ==
  /\ at[Main] = "judge" /\ x \in Grades
  /\ scores' = Append(scores, x)
  /\ names \in Seq(Names) /\ todo' = names
  /\ at' = [at EXCEPT ![Main] = "write"]
  /\ best' = [train |-> IF high > best.train THEN high ELSE best.train,
              val |-> IF kind # "ppo" /\ x.val > best.val THEN x.val ELSE best.val]
  /\ high = IF kind = "ppo" THEN Smoothed(scores', Len(scores')) ELSE x.train
  /\ Has(names, "best.pt") <=> high > best.train
  /\ kind # "ppo" => (Has(names, "best_val.pt") <=> x.val > best.val)
  /\ UNCHANGED <<setup, local, batch, first, files, kills>>

Judges == JudgeUpdate \/ JudgeEpoch \/ JudgeWorldEpoch

LEMMA JudgedBy ==
  ASSUME TrainersTyped, Judges
  PROVE  \E x \in Grades, high \in Nat, names \in Seq(Names) : Verdict(x, high, names)
<1>0. /\ Scores \subseteq Nat /\ Perfect \in Nat
      /\ best.train \in Int /\ best.val \in Int /\ best = [train |-> best.train, val |-> best.val]
  <2>1. Main \in Ranks
    BY TrainersAssumption DEF Main, Ranks
  <2>2. Perfect \in Nat
    BY <2>1, Shares
  <2> QED BY <2>2, TrainersAssumption DEF TrainersTyped, NaN
<1>1. CASE JudgeUpdate
  <2>1. PICK s \in Scores :
          LET got == Append(scores, [train |-> s, val |-> NaN])
              n == Len(got)
              high == Smoothed(got, n)
          IN /\ scores' = got
             /\ best' = IF high > best.train THEN [best EXCEPT !.train = high] ELSE best
             /\ todo' = (IF high > best.train THEN <<"best.pt">> ELSE <<>>)
                        \o (IF n % LatestEvery = 0 THEN <<"latest.pt">> ELSE <<>>)
                        \o (IF SnapshotEvery > 0 /\ n % SnapshotEvery = 0
                            THEN <<"snapshot">> ELSE <<>>)
                        \o (IF n = Turns THEN <<"final.pt">> ELSE <<>>)
    BY <1>1 DEF JudgeUpdate
  <2> DEFINE x == [train |-> s, val |-> NaN]
             high == Smoothed(scores', Len(scores'))
  <2>2. x \in Grades
    BY <1>0 DEF Grades
  <2>3. scores' = Append(scores, x) /\ scores' \in Seq(Grades) /\ Len(scores') \in 1 .. Len(scores')
    BY <2>1, <2>2 DEF TrainersTyped
  <2>4. high \in Nat
    <3> HIDE DEF x
    <3> QED BY <2>3, SmoothedIsNat
  <2>5. /\ todo' \in Seq(Names)
        /\ Has(todo', "best.pt") <=> high > best.train
    <3> DEFINE a == IF high > best.train THEN <<"best.pt">> ELSE <<>>
               b == IF Len(scores') % LatestEvery = 0 THEN <<"latest.pt">> ELSE <<>>
               c == IF SnapshotEvery > 0 /\ Len(scores') % SnapshotEvery = 0
                    THEN <<"snapshot">> ELSE <<>>
               d == IF Len(scores') = Turns THEN <<"final.pt">> ELSE <<>>
    <3>1. a \in {<<"best.pt">>, <<>>} /\ b \in {<<"latest.pt">>, <<>>}
          /\ c \in {<<"snapshot">>, <<>>} /\ d \in {<<"final.pt">>, <<>>}
      OBVIOUS
    <3>2. todo' = a \o b \o c \o d
      BY <2>1
    <3>3. a = <<"best.pt">> <=> high > best.train
      OBVIOUS
    <3> HIDE DEF a, b, c, d, high
    <3>4. /\ a \in Seq(Names) /\ (Has(a, "best.pt") <=> a = <<"best.pt">>)
          /\ b \in Seq(Names) /\ ~Has(b, "best.pt")
          /\ c \in Seq(Names) /\ ~Has(c, "best.pt")
          /\ d \in Seq(Names) /\ ~Has(d, "best.pt")
      <4>1. {"best.pt", "latest.pt", "snapshot", "final.pt"} \subseteq Names
        BY DEF Names
      <4> QED BY <3>1, <4>1, OneHas
    <3> DEFINE ab == a \o b
               abc == ab \o c
               abcd == abc \o d
    <3>5. ab \in Seq(Names) /\ (Has(ab, "best.pt") <=> Has(a, "best.pt"))
      BY <3>4, ConcatHas
    <3>6. abc \in Seq(Names) /\ (Has(abc, "best.pt") <=> Has(a, "best.pt"))
      <4> HIDE DEF ab
      <4> QED BY <3>4, <3>5, ConcatHas
    <3>7. abcd \in Seq(Names) /\ (Has(abcd, "best.pt") <=> Has(a, "best.pt"))
      <4> HIDE DEF abc
      <4> QED BY <3>4, <3>6, ConcatHas
    <3>8. todo' = abcd
      BY <3>2
    <3> HIDE DEF abcd
    <3> QED BY <3>3, <3>4, <3>7, <3>8
  <2>6. best' = [train |-> IF high > best.train THEN high ELSE best.train, val |-> best.val]
    <3>1. best' = IF high > best.train THEN [best EXCEPT !.train = high] ELSE best
      BY <2>1
    <3> HIDE DEF high
    <3> QED BY <3>1, <1>0
  <2>7. Verdict(x, high, todo')
    <3> HIDE DEF x, high
    <3>1. kind = "ppo" /\ at[Main] = "judge" /\ at' = [at EXCEPT ![Main] = "write"]
          /\ UNCHANGED <<setup, local, batch, first, files, kills>>
      BY <1>1 DEF JudgeUpdate
    <3> QED BY <2>2, <2>3, <2>5, <2>6, <3>1 DEF Verdict, high
  <2> QED BY <2>2, <2>4, <2>5, <2>7
<1>2. ASSUME NEW s \in Scores, NEW v \in Nat \cup {NaN}, kind # "ppo",
             Judge(s, v, NewHigh(v > best.val, "best_val.pt") \o <<"latest.pt">>
                         \o NewHigh(s > best.train, "best.pt"))
      PROVE  \E x \in Grades, high \in Nat, names \in Seq(Names) : Verdict(x, high, names)
  <2> DEFINE x == [train |-> s, val |-> v]
             a == NewHigh(v > best.val, "best_val.pt")
             b == NewHigh(s > best.train, "best.pt")
             names == a \o <<"latest.pt">> \o b
  <2>1. x \in Grades /\ s \in Nat
    BY <1>0 DEF Grades
  <2>2. /\ a \in Seq(Names) /\ ~Has(a, "best.pt")
        /\ Has(a, "best_val.pt") <=> v > best.val
        /\ b \in Seq(Names) /\ ~Has(b, "best_val.pt")
        /\ Has(b, "best.pt") <=> s > best.train
        /\ <<"latest.pt">> \in Seq(Names)
        /\ ~Has(<<"latest.pt">>, "best.pt") /\ ~Has(<<"latest.pt">>, "best_val.pt")
    <3>1. {"best.pt", "best_val.pt", "latest.pt"} \subseteq Names
      BY DEF Names
    <3>2. a = (IF v > best.val THEN <<"best_val.pt">> ELSE <<>>)
          /\ b = (IF s > best.train THEN <<"best.pt">> ELSE <<>>)
      BY DEF NewHigh
    <3>3. (a = <<"best_val.pt">> <=> v > best.val) /\ (b = <<"best.pt">> <=> s > best.train)
      BY <3>2
    <3>4. (a = <<"best_val.pt">> \/ a = <<>>) /\ (b = <<"best.pt">> \/ b = <<>>)
      BY <3>2
    <3> HIDE DEF a, b
    <3> QED BY <3>1, <3>3, <3>4, OneHas
  <2>3. /\ names \in Seq(Names)
        /\ Has(names, "best.pt") <=> s > best.train
        /\ Has(names, "best_val.pt") <=> v > best.val
    <3> HIDE DEF a, b
    <3> DEFINE l == <<"latest.pt">>
               al == a \o l
    <3> HIDE DEF l
    <3>1. /\ al \in Seq(Names) /\ ~Has(al, "best.pt")
          /\ Has(al, "best_val.pt") <=> v > best.val
      BY <2>2, ConcatHas DEF l
    <3>2. names = al \o b
      BY DEF l
    <3> HIDE DEF al, names
    <3> QED BY <2>2, <3>1, <3>2, ConcatHas
  <2>4. Verdict(x, s, names)
    <3>1. x.train = s /\ x.val = v
      OBVIOUS
    <3>2. /\ at[Main] = "judge" /\ scores' = Append(scores, x)
          /\ best' = [train |-> IF s > best.train THEN s ELSE best.train,
                      val |-> IF v > best.val THEN v ELSE best.val]
          /\ todo' = names /\ at' = [at EXCEPT ![Main] = "write"]
          /\ UNCHANGED <<setup, local, batch, first, files, kills>>
      BY <1>2 DEF Judge
    <3> HIDE DEF x, names
    <3> QED BY <1>2, <2>1, <2>3, <3>1, <3>2 DEF Verdict
  <2> QED BY <2>1, <2>3, <2>4
<1>3. CASE JudgeEpoch
  <2>1. kind # "ppo" /\ Validated \subseteq Nat \cup {NaN}
    BY <1>0, <1>3 DEF JudgeEpoch, Validated
  <2>2. PICK s \in Scores, v \in Validated :
           Judge(s, v, NewHigh(v > best.val, "best_val.pt") \o <<"latest.pt">>
                         \o NewHigh(s > best.train, "best.pt"))
    BY <1>3 DEF JudgeEpoch
  <2> QED BY <1>2, <2>1, <2>2
<1>4. CASE JudgeWorldEpoch
  <2>1. kind # "ppo" /\ ValidatedWorld \subseteq Nat \cup {NaN}
    BY <1>0, <1>4 DEF JudgeWorldEpoch, ValidatedWorld
  <2>2. PICK s \in Scores, v \in ValidatedWorld :
           Judge(s, v, NewHigh(v > best.val, "best_val.pt") \o <<"latest.pt">>
                         \o NewHigh(s > best.train, "best.pt"))
    BY <1>4 DEF JudgeWorldEpoch
  <2> QED BY <1>2, <2>1, <2>2
<1> QED BY <1>1, <1>3, <1>4 DEF Judges

LEMMA EpochIsNat ==
  ASSUME TrainersTyped
  PROVE  Epoch \in Nat
<1>1. Len(scores) \in Nat /\ first \in Nat
  BY DEF TrainersTyped
<1> QED BY <1>1 DEF Epoch, Done

\* A batch is the next part of the rank's share.
LEMMA BatchTaken ==
  ASSUME TrainersTyped, NEW r \in Ranks, TakesBatch(r)
  PROVE  /\ at[r] = "work" /\ at' = [at EXCEPT ![r] = "gather"]
         /\ local' \in [Ranks -> Seq(Nat)]
         /\ \A q \in Ranks \ {r} : local'[q] = local[q]
         /\ Len(local[r]) <= Share =>
              /\ Len(local'[r]) = Shortest(Len(local[r]) + PerBatch, Share)
              /\ \A i \in 1 .. Len(local[r]) : local'[r][i] = local[r][i]
              /\ \A i \in Len(local[r]) + 1 .. Len(local'[r]) :
                   local'[r][i] = RankSamples(r, Epoch)[i]
         /\ UNCHANGED <<setup, batch, first, scores, best, todo, files, kills>>
<1> DEFINE l == local[r]
           n == Len(local[r])
           share == RankSamples(r, Epoch)
           to == Shortest(n + 1 + PerBatch - 1, Share)
           part == SubSeq(share, n + 1, to)
<1>0. /\ l \in Seq(Nat) /\ n \in Nat /\ n = Len(l) /\ PerBatch \in Nat /\ PerBatch > 0
      /\ local \in [Ranks -> Seq(Nat)]
  BY TrainersAssumption DEF TrainersTyped
<1>1. share \in Seq(Nat) /\ Len(share) = Share /\ Share \in Nat /\ Share > 0
  BY EpochIsNat, Shares
<1>2. to \in Nat /\ to <= Share /\ to <= n + PerBatch
      /\ to = Shortest(n + PerBatch, Share) /\ (n <= Share => n <= to)
  <2> HIDE DEF n
  <2> QED BY <1>0, <1>1 DEF Shortest
<1>3. local' = [local EXCEPT ![r] = l \o part] /\ at[r] = "work"
      /\ at' = [at EXCEPT ![r] = "gather"]
      /\ UNCHANGED <<setup, batch, first, scores, best, todo, files, kills>>
  BY <1>1 DEF TakesBatch
<1>4. /\ part \in Seq(Nat)
      /\ n <= Share => Len(part) = to - n /\ \A i \in 1 .. to - n : part[i] = share[n + i]
  <2> HIDE DEF share, to, n
  <2>1. CASE n <= to
    <3>1. part = [i \in 1 .. to - n |-> share[n + i]]
      BY <2>1, <1>0, <1>1, <1>2
    <3>2. \A i \in 1 .. to - n : n + i \in 1 .. Len(share)
      BY <1>0, <1>1, <1>2
    <3>3. \A i \in 1 .. to - n : share[n + i] \in Nat
      BY <3>2, <1>1
    <3>4. to - n \in Nat
      BY <2>1, <1>0, <1>2
    <3> HIDE DEF part
    <3>5. part \in [1 .. to - n -> Nat]
      BY <3>1, <3>3
    <3>6. part \in Seq(Nat) /\ DOMAIN part = 1 .. to - n
      BY <3>4, <3>5
    <3>7. Len(part) = to - n
      BY <3>4, <3>6
    <3>8. \A i \in 1 .. to - n : part[i] = share[n + i]
      BY <3>1
    <3> QED BY <3>6, <3>7, <3>8
  <2>2. CASE ~(n <= to)
    <3>1. part = <<>>
      BY <2>2, <1>0, <1>1, <1>2
    <3> HIDE DEF part
    <3>2. part \in Seq(Nat)
      BY <3>1
    <3> QED BY <2>2, <3>2, <1>2
  <2> QED BY <2>1, <2>2
<1>5. l \o part \in Seq(Nat)
  <2> HIDE DEF l, part
  <2> QED BY <1>0, <1>4
<1>6. local'[r] = l \o part
  <2> HIDE DEF l, part
  <2> QED BY <1>0, <1>3
<1>7. ASSUME n <= Share
      PROVE  /\ Len(local'[r]) = to
             /\ \A i \in 1 .. n : local'[r][i] = l[i]
             /\ \A i \in n + 1 .. to : local'[r][i] = share[i]
  <2>1. Len(l \o part) = n + (to - n) /\ Len(part) = to - n
    <3> HIDE DEF part, share, to, l, n
    <3>1. Len(l \o part) = Len(l) + Len(part)
      BY <1>0, <1>4
    <3> QED BY <3>1, <1>0, <1>2, <1>4, <1>7
  <2>2. \A i \in 1 .. n : (l \o part)[i] = l[i]
    <3> HIDE DEF part
    <3> QED BY <1>0, <1>4, <2>1, <1>2
  <2>3. ASSUME NEW i \in n + 1 .. to PROVE (l \o part)[i] = share[i]
    <3>1. i - n \in 1 .. to - n /\ n + (i - n) = i /\ i \in 1 .. n + (to - n) /\ ~(i <= n)
      <4> HIDE DEF n, to
      <4> QED BY <1>0, <1>2
    <3>2. (l \o part)[i] = part[i - n]
      <4> HIDE DEF part, to
      <4> QED BY <1>0, <1>4, <2>1, <3>1
    <3> HIDE DEF part, to, share
    <3> QED BY <3>1, <3>2, <1>4, <1>7
  <2>4. n + (to - n) = to
    <3> HIDE DEF n, to
    <3> QED BY <1>0, <1>2
  <2> HIDE DEF part, to, share, n
  <2> QED BY <1>6, <2>1, <2>2, <2>3, <2>4
<1> HIDE DEF part
<1>8. local' \in [Ranks -> Seq(Nat)] /\ \A q \in Ranks \ {r} : local'[q] = local[q]
  BY <1>0, <1>3, <1>5
<1>9. \A i \in n + 1 .. Len(local'[r]) : n <= Share => i \in n + 1 .. to
  BY <1>7
<1> HIDE DEF to, share
<1> QED BY <1>2, <1>3, <1>7, <1>8, <1>9 DEF share

\* Another rank, or the same one, is somewhere else.
LEMMA Moved ==
  ASSUME NEW S, NEW f \in [Ranks -> S], NEW r \in Ranks, NEW x \in S
  PROVE  /\ [f EXCEPT ![r] = x] \in [Ranks -> S]
         /\ \A q \in Ranks : [f EXCEPT ![r] = x][q] = IF q = r THEN x ELSE f[q]
OBVIOUS

Stands == {"down", "failed", "work", "gather", "judge", "write", "flush", "done"}

LEMMA TrainersStepTyped ==
  ASSUME TrainersTyped, Writing, TrainersNext
  PROVE  TrainersTyped'
<1> USE DEF TrainersTyped
<1>0. /\ at \in [Ranks -> Stands] /\ Main \in Ranks /\ files \in [Names -> Int]
      /\ local \in [Ranks -> Seq(Nat)]
  BY TrainersAssumption DEF Stands, Main, Ranks
<1>1. CASE Launch
  <2>1. files' \in [Names -> Int]
    BY <1>0, <1>1 DEF Launch, RunDirs, NoTurn
  <2>2. PICK resume \in BOOLEAN, refused \in BOOLEAN :
          /\ first' = IF resume /\ kind # "ppo" /\ files["latest.pt"] >= 0
                      THEN files["latest.pt"] + 1 ELSE 0
          /\ at' = [r \in Ranks |-> IF refused THEN "failed" ELSE "work"]
    BY <1>1 DEF Launch
  <2>3. at' \in [Ranks -> Stands]
    BY <2>2 DEF Stands
  <2>4. files["latest.pt"] \in Int
    BY <1>0 DEF Names
  <2>5. first' \in Nat
    BY <2>2, <2>4
  <2>6. UNCHANGED <<local, todo>> /\ scores' = <<>> /\ best' = Unseen
    BY <1>1 DEF Launch
  <2> QED BY <2>1, <2>3, <2>5, <2>6 DEF Stands, Unseen, NaN
<1>2. ASSUME NEW r \in Ranks, Collect(r) PROVE TrainersTyped'
  <2>1. /\ local' = [local EXCEPT ![r] = RankSeeds(r)] /\ at' = [at EXCEPT ![r] = "gather"]
        /\ UNCHANGED <<first, scores, best, todo, files>>
    BY <1>2 DEF Collect
  <2>2. RankSeeds(r) \in Seq(Nat) /\ "gather" \in Stands
    BY Shares DEF Stands
  <2>3. local' \in [Ranks -> Seq(Nat)]
    BY <1>0, <2>1, <2>2
  <2>4. at' \in [Ranks -> Stands]
    BY <1>0, <2>1, <2>2
  <2> QED BY <2>1, <2>3, <2>4 DEF Stands
<1>3. ASSUME NEW r \in Ranks, TakesBatch(r) PROVE TrainersTyped'
  <2>1. /\ local' \in [Ranks -> Seq(Nat)] /\ at' = [at EXCEPT ![r] = "gather"]
        /\ UNCHANGED <<first, scores, best, todo, files>>
    BY <1>3, BatchTaken
  <2>2. at' \in [Ranks -> Stands]
    BY <1>0, <2>1 DEF Stands
  <2> QED BY <2>1, <2>2 DEF Stands
<1>4. CASE Exchange
  <2>1. at' \in [Ranks -> Stands] /\ UNCHANGED <<local, first, scores, best, todo, files>>
    BY <1>4 DEF Exchange, Stands
  <2> QED BY <2>1 DEF Stands
<1>5. ASSUME NEW r \in Ranks, RunAhead(r) PROVE TrainersTyped'
  <2>1. /\ at' \in [Ranks -> Stands] /\ local' = [local EXCEPT ![r] = <<>>]
        /\ UNCHANGED <<first, scores, best, todo, files>>
    BY <1>0, <1>5 DEF RunAhead, NextTurn, Stands
  <2>2. local' \in [Ranks -> Seq(Nat)]
    BY <1>0, <2>1
  <2> QED BY <2>1, <2>2 DEF Stands
<1>6. CASE Judges
  <2>1. PICK x \in Grades, high \in Nat, names \in Seq(Names) : Verdict(x, high, names)
    BY <1>6, JudgedBy
  <2>2. at' \in [Ranks -> Stands]
    BY <1>0, <2>1 DEF Verdict, Stands
  <2>3. scores' \in Seq(Grades)
    BY <2>1 DEF Verdict
  <2>4. best' \in [train : Nat \cup {NaN}, val : Nat \cup {NaN}]
    BY <2>1 DEF Verdict, Grades
  <2>5. todo' \in Seq(Names) /\ UNCHANGED <<local, first, files>>
    BY <2>1 DEF Verdict
  <2> QED BY <2>2, <2>3, <2>4, <2>5 DEF Stands
<1>7. CASE OpenFile
  <2>1. at' \in [Ranks -> Stands] /\ files' \in [Names -> Int]
        /\ UNCHANGED <<local, first, scores, best, todo>>
    BY <1>0, <1>7 DEF OpenFile, Stands, Torn
  <2> QED BY <2>1 DEF Stands
<1>8. CASE CloseFile
  <2>1. at' \in [Ranks -> Stands] /\ UNCHANGED <<local, first, scores, best>>
    BY <1>0, <1>8 DEF CloseFile, Stands
  <2>2. first + Done - 1 \in Int
    BY DEF Done
  <2>3. files' \in [Names -> Int]
    BY <1>0, <1>8, <2>2 DEF CloseFile
  <2>4. todo' \in Seq(Names)
    <3>1. todo \in Seq(Names) /\ todo # <<>> /\ todo' = Tail(todo)
      BY <1>8 DEF CloseFile, Writing
    <3> QED BY <3>1
  <2> QED BY <2>1, <2>3, <2>4 DEF Stands
<1>9. CASE AllWritten
  <2>1. at' \in [Ranks -> Stands] /\ local' = [local EXCEPT ![Main] = <<>>]
        /\ UNCHANGED <<first, scores, best, todo, files>>
    BY <1>0, <1>9 DEF AllWritten, NextTurn, Stands
  <2>2. local' \in [Ranks -> Seq(Nat)]
    BY <1>0, <2>1
  <2> QED BY <2>1, <2>2 DEF Stands
<1>10. CASE Killed
  <2>1. at' \in [Ranks -> Stands] /\ local' \in [Ranks -> Seq(Nat)] /\ todo' \in Seq(Names)
        /\ UNCHANGED <<first, scores, best, files>>
    BY <1>10 DEF Killed, Stands
  <2> QED BY <2>1 DEF Stands
<1> QED BY <1>1, <1>2, <1>3, <1>4, <1>5, <1>6, <1>7, <1>8, <1>9, <1>10
        DEF TrainersNext, TrainersProceed, TrainEpoch, TrainWorldEpoch, Judges

\* A step behind which the main node's record is what it was.
Quiet ==
  \/ \E r \in Ranks : Collect(r) \/ TakesBatch(r) \/ RunAhead(r)
  \/ Exchange \/ AllWritten

LEMMA TrainerSteps ==
  TrainersNext => Launch \/ Quiet \/ Judges \/ OpenFile \/ CloseFile \/ Killed
BY DEF TrainersNext, TrainersProceed, TrainEpoch, TrainWorldEpoch, Judges, Quiet

LEMMA QuietStep ==
  ASSUME TrainersTyped, Quiet
  PROVE  /\ UNCHANGED <<setup, first, scores, best, todo, files>>
         /\ \/ at'[Main] = at[Main]
            \/ at[Main] \in {"work", "gather"} /\ at'[Main] \in {"work", "gather", "judge"}
            \/ at[Main] = "write" /\ todo = <<>> /\ at'[Main] \in {"work", "done"}
<1>0. at \in [Ranks -> Stands] /\ Main \in Ranks
  BY TrainersAssumption DEF TrainersTyped, Stands, Main, Ranks
<1>1. ASSUME NEW r \in Ranks, Collect(r) \/ TakesBatch(r)
      PROVE  /\ UNCHANGED <<setup, first, scores, best, todo, files>>
             /\ at[r] = "work" /\ at' = [at EXCEPT ![r] = "gather"]
  BY <1>1 DEF Collect, TakesBatch
<1>2. ASSUME NEW r \in Ranks, RunAhead(r)
      PROVE  UNCHANGED <<setup, first, scores, best, todo, files>> /\ at'[Main] = at[Main]
  BY <1>0, <1>2 DEF RunAhead
<1>3. CASE Exchange
  BY <1>0, <1>3 DEF Exchange
<1>4. CASE AllWritten
  BY <1>0, <1>4 DEF AllWritten, NextTurn
<1>5. CASE \E r \in Ranks : Collect(r) \/ TakesBatch(r)
  <2>1. PICK r \in Ranks : Collect(r) \/ TakesBatch(r)
    BY <1>5
  <2>2. at'[Main] = IF r = Main THEN "gather" ELSE at[Main]
    BY <1>0, <1>1, <2>1
  <2> QED BY <1>1, <2>1, <2>2
<1>6. CASE \E r \in Ranks : RunAhead(r)
  BY <1>2, <1>6
<1> QED BY <1>3, <1>4, <1>5, <1>6 DEF Quiet

LEMMA WritingStep ==
  ASSUME TrainersTyped, Writing, TrainersNext
  PROVE  Writing'
<1>0. /\ at \in [Ranks -> Stands] /\ Main \in Ranks /\ todo \in Seq(Names)
      /\ Len(scores) \in Nat
  BY TrainersAssumption DEF TrainersTyped, Stands, Main, Ranks
<1>1. CASE Launch
  <2>1. todo = <<>> /\ todo' = todo
    BY <1>1 DEF Launch, Writing
  <2>2. at'[Main] \in {"failed", "work"}
    BY <1>0, <1>1 DEF Launch
  <2> QED BY <2>1, <2>2 DEF Writing
<1>2. CASE Quiet
  <2>1. todo' = todo /\ Done' = Done
    BY <1>2, QuietStep DEF Done
  <2> QED BY <1>2, <2>1, QuietStep DEF Writing
<1>3. CASE Judges
  <2>1. PICK x \in Grades, high \in Nat, names \in Seq(Names) : Verdict(x, high, names)
    BY <1>3, JudgedBy
  <2>2. at'[Main] = "write" /\ scores' = Append(scores, x)
    BY <1>0, <2>1 DEF Verdict
  <2>3. Len(scores') = Len(scores) + 1
    BY <2>1, <2>2 DEF TrainersTyped
  <2> QED BY <1>0, <2>2, <2>3 DEF Writing, Done
<1>4. CASE OpenFile
  <2>1. todo # <<>> /\ todo' = todo /\ Done' = Done /\ at[Main] = "write" /\ at'[Main] = "flush"
    BY <1>0, <1>4 DEF OpenFile, Done
  <2> QED BY <2>1 DEF Writing
<1>5. CASE CloseFile
  <2>1. at'[Main] = "write" /\ at[Main] = "flush" /\ Done' = Done
    BY <1>0, <1>5 DEF CloseFile, Done
  <2> QED BY <2>1 DEF Writing
<1>6. CASE Killed
  <2>1. at'[Main] = "down" /\ todo' = <<>>
    BY <1>0, <1>6 DEF Killed
  <2> QED BY <2>1 DEF Writing
<1> QED BY <1>1, <1>2, <1>3, <1>4, <1>5, <1>6, TrainerSteps

LEMMA SameKept ==
  ASSUME UNCHANGED <<kind, first, scores, best, todo, files>>
  PROVE  BestKept' = BestKept
<1>1. Rates' = Rates /\ RatesVal' = RatesVal /\ Done' = Done
  BY DEF Rates, RatesVal, Rate, RateVal, Done
<1> HIDE DEF Rates, RatesVal
<1> QED BY <1>1 DEF BestKept

\* A turn judged: its value is the new high and its file is to be written, or
\* the record stays.
LEMMA KeptGrows ==
  ASSUME NEW d \in Nat, NEW f \in [1 .. d -> Int], NEW g \in [1 .. d + 1 -> Int],
         \A n \in 1 .. d : g[n] = f[n], g[d + 1] >= NaN,
         NEW high, NEW name, NEW stored, NEW start, NEW new, NEW q,
         new = IF g[d + 1] > high THEN g[d + 1] ELSE high,
         Kept(f, d, high, name, <<>>, stored, start),
         Has(q, name) <=> g[d + 1] > high
  PROVE  Kept(g, d + 1, new, name, q, stored, start)
<1>1. d + 1 \in Nat /\ d + 1 # 0 /\ d + 1 \in 1 .. d + 1 /\ g[d + 1] \in Int
  OBVIOUS
<1>2. CASE d = 0
  <2>1. FirstHigh(g, 1) /\ high = NaN
    BY <1>2 DEF FirstHigh, Kept
  <2>2. new = g[1] /\ (new # NaN => Has(q, name))
    BY <1>2, <2>1, <1>1 DEF NaN
  <2> QED BY <1>1, <1>2, <2>1, <2>2 DEF Kept
<1>3. CASE d # 0
  <2>1. PICK n \in 1 .. d : /\ FirstHigh(f, n) /\ high = f[n]
                            /\ high # NaN => stored = start + n - 1
    <3>1. ~Has(<<>>, name)
      BY DEF Has
    <3> QED BY <1>3, <3>1 DEF Kept
  <2>2. CASE g[d + 1] > high
    <3>1. FirstHigh(g, d + 1)
      BY <2>1, <2>2, FirstHighMoves
    <3> QED BY <1>1, <2>2, <3>1 DEF Kept
  <2>3. CASE ~(g[d + 1] > high)
    <3>1. FirstHigh(g, n) /\ g[n] = f[n] /\ n \in 1 .. d + 1
      BY <2>1, <2>3, FirstHighMoves
    <3> QED BY <1>1, <2>1, <2>3, <3>1 DEF Kept
  <2> QED BY <2>2, <2>3
<1> QED BY <1>2, <1>3

\* A file cut off is one still to be written.
LEMMA KeptOpened ==
  ASSUME NEW f, NEW d, NEW high, NEW name, NEW q, NEW stored, NEW start, NEW other,
         Kept(f, d, high, name, q, stored, start), Has(q, name) \/ other = stored
  PROVE  Kept(f, d, high, name, q, other, start)
BY DEF Kept

\* A file filled holds the turn just judged.
LEMMA KeptClosed ==
  ASSUME NEW f, NEW d \in Nat, NEW high, NEW name, NEW q \in Seq(Names), q # <<>>,
         NEW stored, NEW start, NEW other,
         Kept(f, d, high, name, q, stored, start),
         other = IF name = Head(q) THEN start + d - 1 ELSE stored
  PROVE  Kept(f, d, high, name, Tail(q), other, start)
<1>1. /\ Len(q) \in Nat /\ Len(q) > 0 /\ Head(q) = q[1] /\ Len(Tail(q)) = Len(q) - 1
      /\ \A i \in 1 .. Len(Tail(q)) : Tail(q)[i] = q[i + 1]
  OBVIOUS
<1>2. Has(Tail(q), name) => Has(q, name)
  <2>1. \A i \in 1 .. Len(Tail(q)) : i + 1 \in 1 .. Len(q)
    BY <1>1
  <2> QED BY <1>1, <2>1 DEF Has
<1>3. Has(q, name) => name = Head(q) \/ Has(Tail(q), name)
  <2>1. \A i \in 1 .. Len(q) : i = 1 \/ (i - 1 \in 1 .. Len(Tail(q)) /\ (i - 1) + 1 = i)
    BY <1>1
  <2> QED BY <1>1, <2>1 DEF Has
<1>4. name = Head(q) => Has(q, name)
  <2>1. 1 \in 1 .. Len(q)
    BY <1>1
  <2> QED BY <1>1, <2>1 DEF Has
<1>5. CASE d = 0
  BY <1>5 DEF Kept
<1>6. CASE d # 0
  <2>1. PICK n \in 1 .. d :
         /\ FirstHigh(f, n) /\ high = f[n]
         /\ high # NaN => IF Has(q, name) THEN n = d ELSE stored = start + n - 1
    BY <1>6 DEF Kept
  <2>2. high # NaN => IF Has(Tail(q), name) THEN n = d ELSE other = start + n - 1
    BY <2>1, <1>2, <1>3, <1>4
  <2> QED BY <1>6, <2>1, <2>2 DEF Kept
<1> QED BY <1>5, <1>6

LEMMA BestStep ==
  ASSUME TrainersTyped, Writing, BestInv, TrainersNext
  PROVE  BestInv'
<1>0. /\ at \in [Ranks -> Stands] /\ Main \in Ranks /\ todo \in Seq(Names)
      /\ Done \in Nat /\ files \in [Names -> Int]
      /\ "best.pt" \in Names /\ "best_val.pt" \in Names
  BY TrainersAssumption DEF TrainersTyped, Stands, Main, Ranks, Done, Names
<1>1. CASE Launch
  <2>1. Done' = 0 /\ best'.train = NaN /\ best'.val = NaN
    BY <1>1 DEF Launch, Done, Unseen
  <2> QED BY <2>1 DEF BestInv, BestKept, Kept
<1>2. CASE Quiet
  <2>1. Up' => Up
    BY <1>2, QuietStep DEF Up
  <2>2. BestKept' = BestKept
    <3>1. UNCHANGED <<kind, first, scores, best, todo, files>>
      BY <1>2, QuietStep DEF setup
    <3> QED BY <3>1, SameKept
  <2> QED BY <2>1, <2>2 DEF BestInv
<1>3. CASE Judges
  <2>1. PICK x \in Grades, high \in Nat, names \in Seq(Names) : Verdict(x, high, names)
    BY <1>3, JudgedBy
  <2>2. /\ Up /\ todo = <<>> /\ scores' = Append(scores, x) /\ todo' = names
        /\ UNCHANGED <<kind, first, files>>
        /\ best'.train = IF high > best.train THEN high ELSE best.train
        /\ best'.val = IF kind # "ppo" /\ x.val > best.val THEN x.val ELSE best.val
        /\ Has(names, "best.pt") <=> high > best.train
        /\ kind # "ppo" => (Has(names, "best_val.pt") <=> x.val > best.val)
    BY <2>1 DEF Verdict, Writing, Up, setup
  <2> DEFINE d == Done
  <2>3. /\ Done' = d + 1 /\ d \in Nat
        /\ Rates \in [1 .. d -> Int] /\ Rates' \in [1 .. d + 1 -> Int]
        /\ \A n \in 1 .. d : Rates'[n] = Rates[n]
        /\ Rates'[d + 1] = high /\ high >= NaN
        /\ RatesVal \in [1 .. d -> Int] /\ RatesVal' \in [1 .. d + 1 -> Int]
        /\ \A n \in 1 .. d : RatesVal'[n] = RatesVal[n]
        /\ RatesVal'[d + 1] = x.val /\ x.val >= NaN
    <3>1. /\ Done' = Done + 1 /\ Done \in Nat
          /\ Rates \in [1 .. Done -> Nat] /\ Rates' \in [1 .. Done + 1 -> Nat]
          /\ \A n \in 1 .. Done : Rates'[n] = Rates[n]
          /\ Rates'[Done + 1] = IF kind = "ppo" THEN Smoothed(scores', Done + 1) ELSE x.train
          /\ RatesVal \in [1 .. Done -> Int] /\ RatesVal' \in [1 .. Done + 1 -> Int]
          /\ \A n \in 1 .. Done : RatesVal'[n] = RatesVal[n]
          /\ RatesVal'[Done + 1] = x.val
      BY <2>2, RatesGrow
    <3>2. high = IF kind = "ppo" THEN Smoothed(scores', Done + 1) ELSE x.train
      BY <2>1, <3>1 DEF Verdict, Done
    <3>3. high >= NaN /\ x.val >= NaN
      BY DEF Grades, NaN
    <3> QED BY <3>1, <3>2, <3>3
  <2> HIDE DEF d
  <2>4. BestKept
    BY <2>2 DEF BestInv
  <2>5. Kept(Rates', d + 1, best'.train, "best.pt", names, files["best.pt"], first)
    <3>1. Kept(Rates, d, best.train, "best.pt", <<>>, files["best.pt"], first)
      BY <2>2, <2>4 DEF BestKept, d
    <3> HIDE DEF Rates
    <3> QED BY <2>2, <2>3, <3>1, KeptGrows
  <2>6. ASSUME kind # "ppo"
        PROVE Kept(RatesVal', d + 1, best'.val, "best_val.pt", names, files["best_val.pt"], first)
    <3>1. Kept(RatesVal, d, best.val, "best_val.pt", <<>>, files["best_val.pt"], first)
      BY <2>2, <2>4, <2>6 DEF BestKept, d
    <3> HIDE DEF RatesVal
    <3> QED BY <2>2, <2>3, <2>6, <3>1, KeptGrows
  <2> QED BY <2>2, <2>3, <2>5, <2>6 DEF BestInv, BestKept
<1>4. CASE OpenFile
  <2>1. /\ Up /\ todo # <<>> /\ files' = [files EXCEPT ![Head(todo)] = Torn]
        /\ UNCHANGED <<kind, first, scores, best, todo>>
    BY <1>4 DEF OpenFile, Up, setup
  <2>2. Has(todo, Head(todo))
    <3>1. 1 \in 1 .. Len(todo) /\ Head(todo) = todo[1]
      BY <1>0, <2>1
    <3> QED BY <3>1 DEF Has
  <2>3. \A name \in Names : Has(todo, name) \/ files'[name] = files[name]
    BY <1>0, <2>1, <2>2
  <2>4. Rates' = Rates /\ RatesVal' = RatesVal /\ Done' = Done
    BY <2>1 DEF Rates, RatesVal, Rate, RateVal, Done
  <2>5. BestKept
    BY <2>1 DEF BestInv
  <2>6. Kept(Rates, Done, best.train, "best.pt", todo, files'["best.pt"], first)
    BY <1>0, <2>3, <2>5, KeptOpened DEF BestKept
  <2>7. kind # "ppo" =>
          Kept(RatesVal, Done, best.val, "best_val.pt", todo, files'["best_val.pt"], first)
    BY <1>0, <2>3, <2>5, KeptOpened DEF BestKept
  <2> HIDE DEF Rates, RatesVal, Done, Kept
  <2> QED BY <2>1, <2>4, <2>6, <2>7 DEF BestInv, BestKept
<1>5. CASE CloseFile
  <2>1. /\ Up /\ todo # <<>> /\ files' = [files EXCEPT ![Head(todo)] = first + Done - 1]
        /\ todo' = Tail(todo) /\ UNCHANGED <<kind, first, scores, best>>
    BY <1>5 DEF CloseFile, Up, setup, Writing
  <2>2. \A name \in Names :
          files'[name] = IF name = Head(todo) THEN first + Done - 1 ELSE files[name]
    BY <1>0, <2>1
  <2>3. Rates' = Rates /\ RatesVal' = RatesVal /\ Done' = Done
    BY <2>1 DEF Rates, RatesVal, Rate, RateVal, Done
  <2>4. BestKept
    BY <2>1 DEF BestInv
  <2>5. Kept(Rates, Done, best.train, "best.pt", Tail(todo), files'["best.pt"], first)
    <3>1. Kept(Rates, Done, best.train, "best.pt", todo, files["best.pt"], first)
      BY <2>4 DEF BestKept
    <3>2. files'["best.pt"] = IF "best.pt" = Head(todo) THEN first + Done - 1 ELSE files["best.pt"]
      BY <1>0, <2>2
    <3> HIDE DEF Rates, Done
    <3> QED BY <1>0, <2>1, <3>1, <3>2, KeptClosed
  <2>6. ASSUME kind # "ppo"
        PROVE  Kept(RatesVal, Done, best.val, "best_val.pt", Tail(todo), files'["best_val.pt"], first)
    <3>1. Kept(RatesVal, Done, best.val, "best_val.pt", todo, files["best_val.pt"], first)
      BY <2>4, <2>6 DEF BestKept
    <3>2. files'["best_val.pt"]
            = IF "best_val.pt" = Head(todo) THEN first + Done - 1 ELSE files["best_val.pt"]
      BY <1>0, <2>2
    <3> HIDE DEF RatesVal, Done
    <3> QED BY <1>0, <2>1, <3>1, <3>2, KeptClosed
  <2> HIDE DEF Rates, RatesVal, Done, Kept
  <2> QED BY <2>1, <2>3, <2>5, <2>6 DEF BestInv, BestKept
<1>6. CASE Killed
  <2>1. at'[Main] = "down"
    BY <1>0, <1>6 DEF Killed
  <2> QED BY <2>1 DEF BestInv, Up
<1> QED BY <1>1, <1>2, <1>3, <1>4, <1>5, <1>6, TrainerSteps

LEMMA RatesTyped ==
  ASSUME TrainersTyped
  PROVE  /\ Done \in Nat /\ Rates \in [1 .. Done -> Nat] /\ RatesVal \in [1 .. Done -> Int]
         /\ \A n \in 1 .. Done : Rates[n] = Rate(n) /\ RatesVal[n] = RateVal(n)
<1>1. Done \in Nat /\ scores \in Seq(Grades)
  BY DEF TrainersTyped, Done
<1>2. \A n \in 1 .. Done : scores[n] \in Grades
  BY <1>1 DEF Done
<1>3. \A g \in Grades : g.train \in Nat /\ g.val \in Int
  BY DEF Grades, NaN
<1>4. ASSUME NEW n \in 1 .. Done PROVE Rate(n) \in Nat /\ RateVal(n) \in Int
  <2>1. Smoothed(scores, n) \in Nat
    BY <1>1, SmoothedIsNat DEF Done
  <2>2. Rate(n) = IF kind # "ppo" THEN scores[n].train ELSE Smoothed(scores, n)
    BY DEF Rate, Smoothed
  <2> QED BY <1>2, <1>3, <2>1, <2>2 DEF RateVal
<1> HIDE DEF Rate, RateVal, Done
<1> QED BY <1>1, <1>4 DEF Rates, RatesVal

\* What the first half of the property says.
LEMMA BestIsSaved ==
  ASSUME TrainersTyped, Writing, BestInv, at[Main] \in {"work", "gather", "done"}, Done > 0
  PROVE  /\ files["best.pt"] = first + FirstBest(Rate) - 1
         /\ kind # "ppo" /\ scores[FirstBest(RateVal)].val # NaN =>
              files["best_val.pt"] = first + FirstBest(RateVal) - 1
<1>1. PICK d \in Nat : d = Done
  BY RatesTyped
<1>2. /\ d # 0 /\ todo = <<>> /\ BestKept
      /\ Rates \in [1 .. d -> Nat] /\ RatesVal \in [1 .. d -> Int]
      /\ \A n \in 1 .. d : Rates[n] = Rate(n) /\ RatesVal[n] = RateVal(n)
  <2>1. Up /\ todo = <<>>
    BY DEF Up, Writing
  <2> QED BY <1>1, <2>1, RatesTyped DEF BestInv
<1>3. \A x : ~Has(<<>>, x)
  BY DEF Has
<1>4. PICK n \in 1 .. d : /\ FirstHigh(Rates, n) /\ best.train = Rates[n]
                          /\ best.train # NaN => files["best.pt"] = first + n - 1
  BY <1>1, <1>2, <1>3 DEF BestKept, Kept
<1>5. files["best.pt"] = first + n - 1
  BY <1>2, <1>4 DEF NaN
<1>6. FirstBest(Rate) = n
  <2> DEFINE Is(m) == /\ \A l \in 1 .. d : Rate(l) <= Rate(m)
                      /\ \A l \in 1 .. m - 1 : Rate(l) < Rate(m)
  <2>1. \A m \in 1 .. d : Is(m) <=> FirstHigh(Rates, m)
    <3>1. \A m \in 1 .. d : \A l \in 1 .. m - 1 : l \in 1 .. d
      OBVIOUS
    <3> HIDE DEF Rates
    <3> QED BY <1>2, <3>1 DEF FirstHigh
  <2>2. \A m \in 1 .. d : FirstHigh(Rates, m) => m = n
    <3>1. Rates \in [1 .. d -> Int]
      BY <1>2
    <3> HIDE DEF Rates
    <3> QED BY <3>1, <1>4, FirstHighOnce
  <2>3. FirstBest(Rate) = CHOOSE m \in 1 .. d : Is(m)
    BY <1>1 DEF FirstBest
  <2> HIDE DEF Is
  <2> QED BY <1>4, <2>1, <2>2, <2>3
<1>7. ASSUME kind # "ppo", scores[FirstBest(RateVal)].val # NaN
      PROVE  files["best_val.pt"] = first + FirstBest(RateVal) - 1
  <2>1. PICK m \in 1 .. d : /\ FirstHigh(RatesVal, m) /\ best.val = RatesVal[m]
                            /\ best.val # NaN => files["best_val.pt"] = first + m - 1
    BY <1>1, <1>2, <1>3, <1>7 DEF BestKept, Kept
  <2>2. FirstBest(RateVal) = m
    <3> DEFINE Is(i) == /\ \A l \in 1 .. d : RateVal(l) <= RateVal(i)
                        /\ \A l \in 1 .. i - 1 : RateVal(l) < RateVal(i)
    <3>1. \A i \in 1 .. d : Is(i) <=> FirstHigh(RatesVal, i)
      <4>1. \A i \in 1 .. d : \A l \in 1 .. i - 1 : l \in 1 .. d
        OBVIOUS
      <4> HIDE DEF RatesVal
      <4> QED BY <1>2, <4>1 DEF FirstHigh
    <3>2. \A i \in 1 .. d : FirstHigh(RatesVal, i) => i = m
      <4> HIDE DEF RatesVal
      <4> QED BY <1>2, <2>1, FirstHighOnce
    <3>3. FirstBest(RateVal) = CHOOSE i \in 1 .. d : Is(i)
      BY <1>1 DEF FirstBest
    <3> HIDE DEF Is
    <3> QED BY <2>1, <3>1, <3>2, <3>3
  <2>3. best.val # NaN
    BY <1>2, <1>7, <2>1, <2>2 DEF RateVal
  <2> QED BY <2>1, <2>2, <2>3
<1> QED BY <1>5, <1>6, <1>7

-----------------------------------------------------------------------------
(* The ranks' rollouts and samples                                         *)

\* The ranks' shares, one after the other, are the rollouts of a single GPU.
LEMMA SharesInOrder ==
  ASSUME Rollouts % World = 0, \A r \in Ranks : local[r] = RankSeeds(r)
  PROVE  Gathered = [i \in 1 .. Rollouts |-> (i - 1) % SeedCount]
<1> DEFINE n == Rollouts \div World
<1>0. World \in Nat \ {0} /\ Rollouts \in Nat \ {0} /\ SeedCount \in Nat \ {0}
  BY TrainersAssumption
<1>1. n \in Nat \ {0} /\ n * World = Rollouts
  <2>1. n \in Nat /\ Rollouts = (World * n) + (Rollouts % World)
    BY <1>0, NatQuotient
  <2>2. World * n = n * World
    BY <1>0, <2>1
  <2>3. n * World = Rollouts
    BY <1>0, <2>1, <2>2
  <2>4. n # 0
    <3> SUFFICES ASSUME n = 0 PROVE FALSE
      OBVIOUS
    <3>1. n * World = 0
      BY <1>0
    <3> QED BY <1>0, <2>3, <3>1
  <2> QED BY <2>1, <2>3, <2>4
<1>2. ASSUME NEW i \in 1 .. Rollouts
      PROVE  local[(i - 1) \div n][((i - 1) % n) + 1] = (i - 1) % SeedCount
  <2> DEFINE r == (i - 1) \div n
             j == ((i - 1) % n) + 1
  <2> HIDE DEF n
  <2>1. i - 1 \in Nat /\ i - 1 < Rollouts
    BY <1>0
  <2>2. r \in Nat /\ j \in 1 .. n /\ i - 1 = (n * r) + (j - 1)
    <3>1. /\ r \in Nat /\ (i - 1) % n \in 0 .. n - 1
          /\ i - 1 = (n * r) + ((i - 1) % n)
      BY <1>1, <2>1, NatQuotient
    <3> QED BY <1>1, <3>1
  <2> HIDE DEF r, j
  <2>3. r < World
    <3> SUFFICES ASSUME r >= World PROVE FALSE
      BY <1>0, <2>2
    <3>1. n * r >= n * World
      BY <1>0, <1>1, <2>2
    <3>2. n * r \in Nat
      BY <1>1, <2>2
    <3> QED BY <1>0, <1>1, <2>1, <2>2, <3>1, <3>2
  <2>4. r \in Ranks
    BY <1>0, <2>2, <2>3 DEF Ranks
  <2>5. local[r] = [l \in 1 .. n |-> (r * n + l - 1) % SeedCount]
    BY <2>4 DEF RankSeeds, n
  <2>6. r * n + j - 1 = i - 1
    <3>1. r * n = n * r /\ r * n \in Nat
      BY <1>1, <2>2
    <3> QED BY <1>1, <2>2, <3>1
  <2>7. local[r][j] = (r * n + j - 1) % SeedCount
    BY <2>2, <2>5
  <2> QED BY <2>6, <2>7 DEF r, j
<1>3. Gathered = [i \in 1 .. n * World |-> local[(i - 1) \div n][((i - 1) % n) + 1]]
  BY DEF Gathered
<1> HIDE DEF n
<1> QED BY <1>1, <1>2, <1>3

LEMMA SeedsAreShared ==
  ASSUME TrainersTyped, Writing, SeedsInv, TrainersNext
  PROVE  SeedsInv'
<1>0. /\ at \in [Ranks -> Stands] /\ local \in [Ranks -> Seq(Nat)] /\ Main \in Ranks
  BY TrainersAssumption DEF TrainersTyped, Stands, Main, Ranks
<1> SUFFICES ASSUME kind' = "ppo", NEW r \in Ranks
             PROVE  /\ at'[r] \notin {"down", "failed"} => Rollouts % World = 0
                    /\ at'[r] = "gather" => local'[r] = RankSeeds(r)
                    /\ at'[r] = "judge" =>
                         batch'[r] = [i \in 1 .. Rollouts |-> (i - 1) % SeedCount]
  BY DEF SeedsInv, RankSeeds
<1>k. kind = "ppo"
  BY DEF TrainersNext, TrainersProceed, setup, Launch, Collect, TrainEpoch, TrainWorldEpoch,
         TakesBatch, RunAhead, Exchange, JudgeUpdate, JudgeEpoch, JudgeWorldEpoch, Judge,
         OpenFile, CloseFile, AllWritten, Killed
<1>i. /\ at[r] \notin {"down", "failed"} => Rollouts % World = 0
      /\ at[r] = "gather" => local[r] = RankSeeds(r)
      /\ at[r] = "judge" => batch[r] = [i \in 1 .. Rollouts |-> (i - 1) % SeedCount]
  BY <1>k DEF SeedsInv
<1>1. CASE Launch
  <2>1. at'[r] = "work" => ~(kind = "ppo" /\ Rollouts % World # 0)
    BY <1>1 DEF Launch
  <2>2. at'[r] \in {"work", "failed"}
    BY <1>1 DEF Launch
  <2> QED BY <1>k, <2>1, <2>2
<1>2. ASSUME NEW q \in Ranks, Collect(q)
      PROVE  /\ at'[r] \notin {"down", "failed"} => Rollouts % World = 0
             /\ at'[r] = "gather" => local'[r] = RankSeeds(r)
             /\ at'[r] = "judge" =>
                  batch'[r] = [i \in 1 .. Rollouts |-> (i - 1) % SeedCount]
  <2>1. /\ at[q] = "work" /\ local' = [local EXCEPT ![q] = RankSeeds(q)]
        /\ at' = [at EXCEPT ![q] = "gather"] /\ batch' = batch
    BY <1>2 DEF Collect
  <2>2. CASE q = r
    BY <1>0, <1>i, <2>1, <2>2
  <2>3. CASE q # r
    BY <1>0, <1>i, <2>1, <2>3
  <2> QED BY <2>2, <2>3
<1>3. CASE Exchange
  <2>1. \A q \in Ranks : at[q] = "gather"
    BY <1>3 DEF Exchange
  <2>2. Rollouts % World = 0 /\ \A q \in Ranks : local[q] = RankSeeds(q)
    BY <1>k, <2>1 DEF SeedsInv
  <2>3. batch'[r] = Gathered
    BY <1>3, <1>k DEF Exchange
  <2>4. at'[r] \in {"judge", "work"}
    BY <1>3 DEF Exchange
  <2> QED BY <2>2, <2>3, <2>4, SharesInOrder
<1>4. ASSUME NEW q \in Ranks, RunAhead(q)
      PROVE  /\ at'[r] \notin {"down", "failed"} => Rollouts % World = 0
             /\ at'[r] = "gather" => local'[r] = RankSeeds(r)
             /\ at'[r] = "judge" =>
                  batch'[r] = [i \in 1 .. Rollouts |-> (i - 1) % SeedCount]
  <2>1. PICK n : at' = [at EXCEPT ![q] = NextTurn(n)]
    BY <1>4 DEF RunAhead
  <2>2. NextTurn(n) \in {"work", "done"}
    BY DEF NextTurn
  <2>3. at[q] = "judge" /\ local' = [local EXCEPT ![q] = <<>>] /\ batch' = batch
    BY <1>4 DEF RunAhead
  <2>4. CASE q = r
    BY <1>0, <1>i, <2>1, <2>2, <2>3, <2>4
  <2>5. CASE q # r
    BY <1>0, <1>i, <2>1, <2>3, <2>5
  <2> QED BY <2>4, <2>5
<1>5. ASSUME at[Main] \in {"judge", "write", "flush"}, NEW x \in {"write", "flush", "work", "done"},
             at' = [at EXCEPT ![Main] = x], batch' = batch, r # Main => local'[r] = local[r]
      PROVE  /\ at'[r] \notin {"down", "failed"} => Rollouts % World = 0
             /\ at'[r] = "gather" => local'[r] = RankSeeds(r)
             /\ at'[r] = "judge" =>
                  batch'[r] = [i \in 1 .. Rollouts |-> (i - 1) % SeedCount]
  BY <1>0, <1>i, <1>5
<1>6. CASE Judges
  <2>1. PICK x \in Grades, high \in Nat, names \in Seq(Names) : Verdict(x, high, names)
    BY <1>6, JudgedBy
  <2>2. at[Main] = "judge" /\ at' = [at EXCEPT ![Main] = "write"] /\ UNCHANGED <<local, batch>>
    BY <2>1 DEF Verdict
  <2> QED BY <1>5, <2>2
<1>7. CASE OpenFile
  BY <1>5, <1>7 DEF OpenFile
<1>8. CASE CloseFile
  BY <1>5, <1>8 DEF CloseFile
<1>9. CASE AllWritten
  <2>1. NextTurn(Done) \in {"work", "done"}
    BY DEF NextTurn
  <2>2. r # Main => local'[r] = local[r]
    BY <1>0, <1>9 DEF AllWritten
  <2>3. at[Main] = "write" /\ at' = [at EXCEPT ![Main] = NextTurn(Done)] /\ batch' = batch
    BY <1>9 DEF AllWritten
  <2> QED BY <1>5, <2>1, <2>2, <2>3
<1>10. CASE Killed
  BY <1>10 DEF Killed
<1>11. ASSUME NEW q \in Ranks, TrainEpoch(q) \/ TrainWorldEpoch(q) PROVE FALSE
  BY <1>k, <1>11 DEF TrainEpoch, TrainWorldEpoch
<1> QED BY <1>1, <1>2, <1>3, <1>4, <1>6, <1>7, <1>8, <1>9, <1>10, <1>11
        DEF TrainersNext, TrainersProceed, Judges

LEMMA KindStays ==
  TrainersNext => kind' = kind
BY DEF TrainersNext, TrainersProceed, setup, Launch, Collect, TrainEpoch, TrainWorldEpoch,
       TakesBatch, RunAhead, Exchange, JudgeUpdate, JudgeEpoch, JudgeWorldEpoch, Judge,
       OpenFile, CloseFile, AllWritten, Killed

LEMMA OnItsShareNext ==
  ASSUME NEW r \in Ranks,
         at'[r] \in {"work", "gather"} => TrainedOn(local'[r], r, Epoch'),
         at'[Main] = "judge" /\ at'[r] = "judge" =>
           TrainedOn(local'[r], r, first' + Done') /\ Len(local'[r]) = Share,
         at'[Main] = "down" => at'[r] = "down" /\ local'[r] = <<>>
  PROVE  OnItsShare(r)'
<1>1. /\ TrainedOn(local[r], r, Epoch)' <=> TrainedOn(local'[r], r, Epoch')
      /\ TrainedOn(local[r], r, first + Done)' <=> TrainedOn(local'[r], r, first' + Done')
  BY DEF TrainedOn, RankSamples, Shuffled
<1> HIDE DEF TrainedOn, Epoch, Done
<1> QED BY <1>1 DEF OnItsShare, Share

\* The main node's own part of a turn, between two collectives.
LEMMA MainTurns ==
  ASSUME TrainersTyped, SamplesInv, kind # "ppo", at[Main] \in {"judge", "write", "flush"},
         NEW place \in {"write", "flush", "work", "done"},
         at' = [at EXCEPT ![Main] = place], NEW samples,
         \/ samples = <<>> /\ at[Main] # "judge"
         \/ samples = local[Main] /\ place \in {"write", "flush"},
         local' = [local EXCEPT ![Main] = samples], Epoch' = Epoch
  PROVE  SamplesInv'
<1>0. /\ at \in [Ranks -> Stands] /\ local \in [Ranks -> Seq(Nat)] /\ Main \in Ranks
      /\ Share \in Nat
  <2>1. Main \in Ranks
    BY TrainersAssumption DEF Main, Ranks
  <2> QED BY <2>1, Shares DEF TrainersTyped, Stands
<1>1. /\ \A r \in Ranks : at'[r] = IF r = Main THEN place ELSE at[r]
      /\ \A r \in Ranks : local'[r] = IF r = Main THEN samples ELSE local[r]
  BY <1>0
<1>2. PICK m \in 0 .. Share : \A r \in Ranks : Keeps(at[r], local[r], m)
  BY DEF SamplesInv, InStep
<1>3. m = 0
  BY <1>0, <1>2 DEF Keeps
<1>4. Len(<<>>) = 0
  OBVIOUS
<1>5. \A r \in Ranks : Keeps(at'[r], local'[r], 0)
  <2> TAKE r \in Ranks
  <2>1. CASE r = Main
    <3>1. at'[r] = place /\ local'[r] = samples
      BY <1>1, <2>1
    <3>2. place = "work" => samples = <<>>
      OBVIOUS
    <3> QED BY <1>4, <3>1, <3>2 DEF Keeps
  <2>2. CASE r # Main
    BY <1>1, <1>2, <1>3, <2>2
  <2> QED BY <2>1, <2>2
<1>6. InStep'
  BY <1>0, <1>5 DEF InStep
<1>7. ASSUME NEW r \in Ranks PROVE OnItsShare(r)'
  <2>1. at'[Main] \notin {"judge", "down"}
    BY <1>0, <1>1
  <2>2. ASSUME at'[r] \in {"work", "gather"} PROVE TrainedOn(local'[r], r, Epoch)
    <3>1. CASE r = Main
      <4>1. local'[r] = <<>>
        BY <1>1, <2>2, <3>1
      <4> QED BY <1>4, <4>1 DEF TrainedOn
    <3>2. CASE r # Main
      BY <1>1, <2>2, <3>2 DEF SamplesInv, OnItsShare
    <3> QED BY <3>1, <3>2
  <2> HIDE DEF Epoch, TrainedOn
  <2> QED BY <2>1, <2>2, OnItsShareNext
<1> QED BY <1>6, <1>7 DEF SamplesInv

LEMMA SamplesAreTaken ==
  ASSUME TrainersTyped, Writing, SamplesInv, TrainersNext
  PROVE  SamplesInv'
<1> SUFFICES ASSUME kind # "ppo" PROVE SamplesInv'
  BY KindStays DEF SamplesInv
<1>0. /\ at \in [Ranks -> Stands] /\ local \in [Ranks -> Seq(Nat)] /\ Main \in Ranks
      /\ Share \in Nat /\ Len(scores) \in Nat /\ first \in Nat
      /\ PerBatch \in Nat /\ PerBatch > 0
  <2>1. Main \in Ranks
    BY TrainersAssumption DEF Main, Ranks
  <2> QED BY <2>1, Shares, TrainersAssumption DEF TrainersTyped, Stands
<1>i. PICK m \in 0 .. Share : \A r \in Ranks : Keeps(at[r], local[r], m)
  BY DEF SamplesInv, InStep
<1>s. \A r \in Ranks : OnItsShare(r)
  BY DEF SamplesInv
<1>z. Len(<<>>) = 0
  OBVIOUS
<1>1. CASE Launch
  <2>1. /\ \A r \in Ranks : local[r] = <<>> /\ local' = local
        /\ \A r \in Ranks : at'[r] \in {"work", "failed"}
    BY <1>1, <1>s DEF Launch, OnItsShare
  <2>2. \A r \in Ranks : Keeps(at'[r], local'[r], 0)
    BY <1>z, <2>1 DEF Keeps
  <2>4. ASSUME NEW r \in Ranks PROVE OnItsShare(r)'
    <3>1. local'[r] = <<>> /\ at'[r] \in {"work", "failed"} /\ at'[Main] \in {"work", "failed"}
      BY <1>0, <2>1
    <3>2. TrainedOn(<<>>, r, Epoch')
      BY <1>z DEF TrainedOn
    <3> HIDE DEF TrainedOn, Epoch
    <3> QED BY <3>1, <3>2, OnItsShareNext
  <2> QED BY <1>0, <2>2, <2>4 DEF SamplesInv, InStep
<1>2. ASSUME NEW q \in Ranks, TakesBatch(q) PROVE SamplesInv'
  <2>1. /\ at[q] = "work" /\ at' = [at EXCEPT ![q] = "gather"]
        /\ local' \in [Ranks -> Seq(Nat)]
        /\ \A r \in Ranks \ {q} : local'[r] = local[r]
        /\ Len(local[q]) <= Share =>
             /\ Len(local'[q]) = Shortest(Len(local[q]) + PerBatch, Share)
             /\ \A i \in 1 .. Len(local[q]) : local'[q][i] = local[q][i]
             /\ \A i \in Len(local[q]) + 1 .. Len(local'[q]) :
                  local'[q][i] = RankSamples(q, Epoch)[i]
        /\ UNCHANGED <<first, scores>>
    BY <1>2, BatchTaken
  <2>2. \A r \in Ranks : at'[r] = IF r = q THEN "gather" ELSE at[r]
    BY <1>0, <2>1
  <2>3. Len(local[q]) = m /\ m \in Nat /\ m <= Share
    BY <1>0, <1>i, <2>1 DEF Keeps
  <2>4. Len(local'[q]) = Shortest(m + PerBatch, Share)
    BY <2>1, <2>3
  <2>5. \A r \in Ranks : Keeps(at'[r], local'[r], m)
    <3> TAKE r \in Ranks
    <3>1. CASE r = q
      BY <2>2, <2>4, <3>1 DEF Keeps
    <3>2. CASE r # q
      BY <1>i, <2>1, <2>2, <3>2
    <3> QED BY <3>1, <3>2
  <2>6. PICK e : e = Epoch /\ e = Epoch'
    <3>1. at'[Main] = "judge" <=> at[Main] = "judge"
      BY <1>0, <2>1, <2>2
    <3> QED BY <2>1, <3>1 DEF Epoch, Done
  <2>7. TrainedOn(local'[q], q, e)
    <3>1. \A i \in 1 .. Len(local[q]) : local[q][i] = RankSamples(q, e)[i]
      BY <1>s, <2>1, <2>6 DEF OnItsShare, TrainedOn
    <3>2. \A i \in 1 .. Len(local'[q]) :
            i \in 1 .. Len(local[q]) \/ i \in Len(local[q]) + 1 .. Len(local'[q])
      BY <2>3, <2>4
    <3> QED BY <2>1, <2>3, <2>6, <3>1, <3>2 DEF TrainedOn
  <2>8. ASSUME NEW r \in Ranks PROVE OnItsShare(r)'
    <3>1. at'[r] \in {"work", "gather"} => TrainedOn(local'[r], r, e)
      <4>1. CASE r = q
        BY <2>7, <4>1
      <4>2. CASE r # q
        BY <1>s, <2>1, <2>2, <2>6, <4>2 DEF OnItsShare
      <4> QED BY <4>1, <4>2
    <3>2. at'[Main] = "judge" /\ at'[r] = "judge" =>
            TrainedOn(local'[r], r, first + Done) /\ Len(local'[r]) = Share
      BY <1>0, <1>s, <2>1, <2>2 DEF OnItsShare
    <3>3. at'[Main] # "down"
      BY <1>0, <1>s, <2>1, <2>2 DEF OnItsShare
    <3>4. Done' = Done /\ first' = first
      BY <2>1 DEF Done
    <3> HIDE DEF TrainedOn, Epoch, Done
    <3> QED BY <2>6, <3>1, <3>2, <3>3, <3>4, OnItsShareNext
  <2> QED BY <2>5, <2>8 DEF SamplesInv, InStep
<1>3. CASE Exchange
  <2>1. /\ \A r \in Ranks : at[r] = "gather"
        /\ at' = [r \in Ranks |-> IF Through(r) THEN "judge" ELSE "work"]
        /\ UNCHANGED <<local, first, scores>>
    BY <1>3 DEF Exchange
  <2> DEFINE l == Shortest(m + PerBatch, Share)
  <2>2. l \in 0 .. Share
    BY <1>0 DEF Shortest
  <2>3. \A r \in Ranks : Len(local[r]) = l
    BY <1>i, <2>1 DEF Keeps
  <2>4. \A r \in Ranks : Through(r) <=> l = Share
    <3>1. \A r \in Ranks : Len(RankSamples(r, 0)) = Share
      BY Shares
    <3> HIDE DEF l
    <3> QED BY <2>3, <3>1 DEF Through
  <2>5. \A r \in Ranks : at'[r] = IF l = Share THEN "judge" ELSE "work"
    BY <2>1, <2>4
  <2> HIDE DEF l
  <2>6. \A r \in Ranks : Keeps(at'[r], local'[r], IF l = Share THEN 0 ELSE l)
    BY <2>1, <2>3, <2>5 DEF Keeps
  <2>7. InStep'
    <3> DEFINE n == IF l = Share THEN 0 ELSE l
    <3>1. n \in 0 .. Share
      BY <1>0, <2>2
    <3> HIDE DEF n
    <3> QED BY <2>6, <3>1 DEF InStep, n
  <2>8. Epoch = first + Done /\ Done' = Done /\ first' = first
        /\ (l # Share => Epoch' = first + Done)
    BY <1>0, <2>1, <2>5 DEF Epoch, Done
  <2>9. ASSUME NEW r \in Ranks PROVE OnItsShare(r)'
    <3>1. TrainedOn(local'[r], r, first + Done) /\ Len(local'[r]) = l
      BY <1>s, <2>1, <2>3, <2>8 DEF OnItsShare
    <3>2. at'[Main] = at'[r] /\ at'[r] = IF l = Share THEN "judge" ELSE "work"
      BY <1>0, <2>5
    <3> HIDE DEF TrainedOn, Epoch, Done
    <3> QED BY <2>8, <3>1, <3>2, OnItsShareNext
  <2> QED BY <2>7, <2>9 DEF SamplesInv
<1>4. ASSUME NEW q \in Ranks, RunAhead(q) PROVE SamplesInv'
  <2>1. PICK n : at' = [at EXCEPT ![q] = NextTurn(n)]
    BY <1>4 DEF RunAhead
  <2>2. /\ q # Main /\ at[q] = "judge" /\ local' = [local EXCEPT ![q] = <<>>]
        /\ UNCHANGED <<first, scores>> /\ NextTurn(n) \in {"work", "done"}
    BY <1>4 DEF RunAhead, NextTurn
  <2>3. /\ \A r \in Ranks : at'[r] = IF r = q THEN NextTurn(n) ELSE at[r]
        /\ \A r \in Ranks : local'[r] = IF r = q THEN <<>> ELSE local[r]
    BY <1>0, <2>1, <2>2
  <2>4. m = 0
    BY <1>i, <2>2 DEF Keeps
  <2>5. \A r \in Ranks : Keeps(at'[r], local'[r], 0)
    <3> TAKE r \in Ranks
    <3>1. CASE r = q
      BY <1>z, <2>2, <2>3, <3>1 DEF Keeps
    <3>2. CASE r # q
      BY <1>i, <2>3, <2>4, <3>2
    <3> QED BY <3>1, <3>2
  <2>6. at'[Main] = at[Main] /\ Epoch' = Epoch /\ Done' = Done /\ first' = first
    <3>1. at'[Main] = at[Main]
      BY <1>0, <2>2, <2>3
    <3> QED BY <2>2, <3>1 DEF Epoch, Done
  <2>7. ASSUME NEW r \in Ranks PROVE OnItsShare(r)'
    <3>1. CASE r = q
      <4>1. local'[r] = <<>> /\ at'[r] \in {"work", "done"} /\ at'[Main] # "down"
        BY <1>s, <2>2, <2>3, <2>6, <3>1 DEF OnItsShare
      <4>2. TrainedOn(<<>>, r, Epoch')
        BY <1>z DEF TrainedOn
      <4> HIDE DEF TrainedOn, Epoch, Done
      <4> QED BY <4>1, <4>2, OnItsShareNext
    <3>2. CASE r # q
      <4>1. local'[r] = local[r] /\ at'[r] = at[r]
        BY <2>3, <3>2
      <4> HIDE DEF TrainedOn, Epoch, Done
      <4>2. OnItsShare(r)
        BY <1>s
      <4> QED BY <2>6, <4>1, <4>2, OnItsShareNext DEF OnItsShare
    <3> QED BY <3>1, <3>2
  <2> QED BY <1>0, <2>5, <2>7 DEF SamplesInv, InStep
<1>5. CASE Judges
  <2>1. PICK x \in Grades, high \in Nat, names \in Seq(Names) : Verdict(x, high, names)
    BY <1>5, JudgedBy
  <2>2. /\ at[Main] = "judge" /\ at' = [at EXCEPT ![Main] = "write"]
        /\ local' = local /\ first' = first /\ scores' = Append(scores, x)
    BY <2>1 DEF Verdict
  <2>3. Len(scores') = Len(scores) + 1 /\ at'[Main] = "write"
    BY <1>0, <2>2 DEF TrainersTyped
  <2>4. Epoch' = Epoch
    BY <1>0, <2>2, <2>3 DEF Epoch, Done
  <2>5. local' = [local EXCEPT ![Main] = local[Main]]
    BY <1>0, <2>2
  <2> HIDE DEF Epoch
  <2> QED BY <2>2, <2>4, <2>5, MainTurns
<1>6. CASE OpenFile
  <2>1. /\ at[Main] = "write" /\ at' = [at EXCEPT ![Main] = "flush"]
        /\ UNCHANGED <<local, first, scores>>
    BY <1>6 DEF OpenFile
  <2>2. Epoch' = Epoch
    BY <1>0, <2>1 DEF Epoch, Done
  <2>3. local' = [local EXCEPT ![Main] = local[Main]]
    BY <1>0, <2>1
  <2> HIDE DEF Epoch
  <2> QED BY <2>1, <2>2, <2>3, MainTurns
<1>7. CASE CloseFile
  <2>1. /\ at[Main] = "flush" /\ at' = [at EXCEPT ![Main] = "write"]
        /\ UNCHANGED <<local, first, scores>>
    BY <1>7 DEF CloseFile
  <2>2. Epoch' = Epoch
    BY <1>0, <2>1 DEF Epoch, Done
  <2>3. local' = [local EXCEPT ![Main] = local[Main]]
    BY <1>0, <2>1
  <2> HIDE DEF Epoch
  <2> QED BY <2>1, <2>2, <2>3, MainTurns
<1>8. CASE AllWritten
  <2>1. /\ at[Main] = "write" /\ at' = [at EXCEPT ![Main] = NextTurn(Done)]
        /\ local' = [local EXCEPT ![Main] = <<>>] /\ UNCHANGED <<first, scores>>
    BY <1>8 DEF AllWritten
  <2>2. NextTurn(Done) \in {"work", "done"}
    BY DEF NextTurn
  <2>3. Epoch' = Epoch
    BY <1>0, <2>1, <2>2 DEF Epoch, Done
  <2> HIDE DEF Epoch
  <2> QED BY <2>1, <2>2, <2>3, MainTurns
<1>9. CASE Killed
  <2>1. \A r \in Ranks : at'[r] = "down" /\ local'[r] = <<>>
    BY <1>9 DEF Killed
  <2>2. \A r \in Ranks : Keeps(at'[r], local'[r], 0)
    BY <2>1 DEF Keeps
  <2>3. ASSUME NEW r \in Ranks PROVE OnItsShare(r)'
    <3> HIDE DEF TrainedOn, Epoch, Done
    <3> QED BY <1>0, <2>1, OnItsShareNext
  <2> QED BY <1>0, <2>2, <2>3 DEF SamplesInv, InStep
<1>10. ASSUME NEW q \in Ranks, Collect(q) PROVE FALSE
  BY <1>10 DEF Collect
<1> QED BY <1>1, <1>2, <1>3, <1>4, <1>5, <1>6, <1>7, <1>8, <1>9, <1>10
        DEF TrainersNext, TrainersProceed, TrainEpoch, TrainWorldEpoch, Judges

\* The ranks' shares of an epoch are all of the samples.
LEMMA SharesCover ==
  ASSUME NEW e \in Nat, \A r \in Ranks : TrainedOn(local[r], r, e) /\ Len(local[r]) = Share,
         local \in [Ranks -> Seq(Nat)]
  PROVE  UNION {{local[r][i] : i \in DOMAIN local[r]} : r \in Ranks} = 0 .. Samples - 1
<1>0. World \in Nat \ {0} /\ Samples \in Nat \ {0}
  BY TrainersAssumption
<1>1. \A r \in Ranks : DOMAIN local[r] = 1 .. Share /\ Share \in Nat /\ r \in 0 .. World - 1
  BY Shares DEF Ranks
<1>2. ASSUME NEW r \in Ranks, NEW i \in 1 .. Share
      PROVE  local[r][i] = Shuffled(e)[((World * (i - 1) + r) % Samples) + 1]
  <2>1. local[r][i] = RankSamples(r, e)[i]
    BY <1>1 DEF TrainedOn
  <2> QED BY <1>1, <2>1 DEF RankSamples, Share
<1>3. \A j \in 0 .. Samples - 1 : Shuffled(e)[j + 1] = (j + e) % Samples
  <2> TAKE j \in 0 .. Samples - 1
  <2>1. j + 1 \in 1 .. Samples /\ (j + 1) - 1 + e = j + e
    BY <1>0
  <2> QED BY <2>1 DEF Shuffled
<1>4. ASSUME NEW r \in Ranks, NEW i \in 1 .. Share PROVE local[r][i] \in 0 .. Samples - 1
  <2> DEFINE j == (World * (i - 1) + r) % Samples
  <2>1. World * (i - 1) + r \in Nat
    BY <1>0, <1>1
  <2>2. j \in 0 .. Samples - 1
    BY <1>0, <2>1, NatQuotient
  <2> HIDE DEF j
  <2>3. (j + e) % Samples \in 0 .. Samples - 1
    <3>1. j + e \in Nat
      BY <1>0, <2>2
    <3> QED BY <1>0, <3>1, NatQuotient
  <2> QED BY <1>2, <1>3, <2>2, <2>3 DEF j
<1>5. ASSUME NEW s \in 0 .. Samples - 1
      PROVE  \E r \in Ranks : \E i \in 1 .. Share : local[r][i] = s
  <2>1. PICK j \in 0 .. Samples - 1 : (j + e) % Samples = s
    <3> DEFINE d == e % Samples
    <3>1. d \in 0 .. Samples - 1 /\ e \div Samples \in Nat
          /\ e = (Samples * (e \div Samples)) + d
      BY <1>0, NatQuotient
    <3> DEFINE c == e \div Samples
    <3> HIDE DEF d, c
    <3>2. c \in Nat /\ e = (Samples * c) + d
      BY <3>1 DEF c
    <3>3. CASE d <= s
      <4>1. s - d \in 0 .. Samples - 1 /\ (s - d) + e = (Samples * c) + s
        BY <1>0, <3>1, <3>2, <3>3
      <4>2. ((Samples * c) + s) % Samples = s
        BY <1>0, <3>2
      <4> QED BY <4>1, <4>2
    <3>4. CASE ~(d <= s)
      <4>1. /\ s + Samples - d \in 0 .. Samples - 1
            /\ (s + Samples - d) + e = (Samples * (c + 1)) + s
        BY <1>0, <3>1, <3>2, <3>4
      <4>2. ((Samples * (c + 1)) + s) % Samples = s
        BY <1>0, <3>2
      <4> QED BY <4>1, <4>2
    <3> QED BY <3>3, <3>4
  <2> DEFINE q == j \div World
             r == j % World
  <2>2. q \in Nat /\ r \in Ranks /\ r \in Nat /\ j = (World * q) + r
    <3>0. j \in Nat
      BY <1>0
    <3>1. q \in Nat /\ r \in 0 .. World - 1 /\ j = (World * q) + r
      <4> HIDE DEF q, r
      <4>1. j \div World \in Nat /\ j % World \in 0 .. World - 1
            /\ j = (World * (j \div World)) + (j % World)
        BY <1>0, <3>0, NatQuotient
      <4> QED BY <4>1 DEF q, r
    <3> HIDE DEF q, r
    <3> QED BY <1>0, <3>1 DEF Ranks
  <2> HIDE DEF q, r
  <2>3. q + 1 \in 1 .. Share
    <3>1. /\ Samples + World - 1 \in Nat /\ Share \in Nat
          /\ (Samples + World - 1) % World \in 0 .. World - 1
          /\ Samples + World - 1 = (World * Share) + ((Samples + World - 1) % World)
      <4>1. Samples + World - 1 \in Nat
        BY <1>0
      <4> QED BY <1>0, <4>1, NatQuotient DEF Share
    <3>2. World * Share >= Samples
      <4>1. World * Share \in Nat
        BY <1>0, <3>1
      <4> QED BY <1>0, <3>1, <4>1
    <3>3. World * q < World * Share
      <4>1. World * q \in Nat /\ World * Share \in Nat /\ j < Samples
        BY <1>0, <2>2, <3>1
      <4> QED BY <1>0, <2>2, <3>2, <4>1
    <3>4. q < Share
      <4> SUFFICES ASSUME q >= Share PROVE FALSE
        BY <2>2, <3>1
      <4>1. World * q >= World * Share
        BY <1>0, <2>2, <3>1
      <4>2. World * q \in Nat /\ World * Share \in Nat
        BY <1>0, <2>2, <3>1
      <4> QED BY <3>3, <4>1, <4>2
    <3> QED BY <2>2, <3>1, <3>4
  <2>4. local[r][q + 1] = s
    <3>1. World * ((q + 1) - 1) + r = j
      BY <1>0, <2>2
    <3>2. j % Samples = j
      BY <1>0
    <3>3. local[r][q + 1] = Shuffled(e)[(j % Samples) + 1]
      BY <1>2, <2>2, <2>3, <3>1
    <3> QED BY <1>3, <2>1, <3>2, <3>3
  <2> QED BY <2>2, <2>3, <2>4
<1> QED BY <1>1, <1>4, <1>5

-----------------------------------------------------------------------------
(* The theorem                                                             *)

TrainersInv == TrainersTyped /\ Writing /\ BestInv /\ SeedsInv /\ SamplesInv

LEMMA TrainersStart ==
  TrainersInit => TrainersInv
<1> SUFFICES ASSUME TrainersInit PROVE TrainersInv
  OBVIOUS
<1>0. Main \in Ranks /\ Share \in Nat
  <2>1. Main \in Ranks
    BY TrainersAssumption DEF Main, Ranks
  <2> QED BY <2>1, Shares
<1>1. /\ \A r \in Ranks : at[r] = "down" /\ local[r] = <<>>
      /\ at \in [Ranks -> Stands] /\ local \in [Ranks -> Seq(Nat)]
  BY DEF TrainersInit, Stands
<1>2. TrainersTyped
  BY <1>1 DEF TrainersInit, TrainersTyped, Stands, Unseen, NaN, NoTurn
<1>3. Writing /\ BestInv
  BY <1>0, <1>1 DEF TrainersInit, Writing, BestInv, Up
<1>4. SeedsInv
  BY <1>1 DEF SeedsInv
<1>5. SamplesInv
  <2>1. \A r \in Ranks : Keeps(at[r], local[r], 0)
    BY <1>1 DEF Keeps
  <2>2. \A r \in Ranks : OnItsShare(r)
    BY <1>0, <1>1 DEF OnItsShare
  <2> QED BY <1>0, <2>1, <2>2 DEF SamplesInv, InStep
<1> QED BY <1>2, <1>3, <1>4, <1>5 DEF TrainersInv

LEMMA SameTrainers ==
  ASSUME TrainersInv, UNCHANGED trainerVars
  PROVE  TrainersInv'
<1>1. UNCHANGED <<kind, at, local, batch, first, scores, best, todo, files>>
  BY DEF trainerVars, setup
<1>2. TrainersTyped' /\ Writing'
  BY <1>1 DEF TrainersInv, TrainersTyped, Writing, Done
<1>3. BestInv'
  BY <1>1, SameKept DEF TrainersInv, BestInv, Up
<1>4. SeedsInv'
  BY <1>1 DEF TrainersInv, SeedsInv, RankSeeds
<1>5. SamplesInv'
  <2>1. Epoch' = Epoch /\ Done' = Done
    BY <1>1 DEF Epoch, Done
  <2>2. kind # "ppo" => \A r \in Ranks : OnItsShare(r)'
    <3> HIDE DEF TrainedOn, Epoch, Done
    <3> QED BY <1>1, <2>1, OnItsShareNext DEF TrainersInv, SamplesInv, OnItsShare
  <2>3. InStep' <=> InStep
    BY <1>1 DEF InStep
  <2> QED BY <1>1, <2>2, <2>3 DEF TrainersInv, SamplesInv
<1> QED BY <1>2, <1>3, <1>4, <1>5 DEF TrainersInv

LEMMA TrainersStep ==
  ASSUME TrainersInv, [TrainersNext]_trainerVars
  PROVE  TrainersInv'
<1>1. CASE TrainersNext
  BY <1>1, TrainersStepTyped, WritingStep, BestStep, SeedsAreShared, SamplesAreTaken
     DEF TrainersInv
<1> QED BY <1>1, SameTrainers

LEMMA TurnsFollow ==
  ASSUME TrainersInv
  PROVE  TurnsAreSound
<1>1. at[Main] \in {"work", "gather", "done"} /\ Done > 0 =>
        /\ files["best.pt"] = first + FirstBest(Rate) - 1
        /\ kind # "ppo" /\ scores[FirstBest(RateVal)].val # NaN =>
             files["best_val.pt"] = first + FirstBest(RateVal) - 1
  BY BestIsSaved DEF TrainersInv
<1>2. \A r \in Ranks :
        at[r] = "judge" /\ kind = "ppo" =>
          batch[r] = [i \in 1 .. Rollouts |-> (i - 1) % SeedCount]
  BY DEF TrainersInv, SeedsInv
<1>3. ASSUME \A r \in Ranks : at[r] = "judge", kind # "ppo"
      PROVE  UNION {{local[r][i] : i \in DOMAIN local[r]} : r \in Ranks} = 0 .. Samples - 1
  <2>1. Main \in Ranks
    BY TrainersAssumption DEF Main, Ranks
  <2>2. \A r \in Ranks : TrainedOn(local[r], r, first + Done) /\ Len(local[r]) = Share
    BY <1>3, <2>1 DEF TrainersInv, SamplesInv, OnItsShare
  <2>3. first + Done \in Nat /\ local \in [Ranks -> Seq(Nat)]
    BY DEF TrainersInv, TrainersTyped, Done
  <2> QED BY <2>2, <2>3, SharesCover
<1> HIDE DEF FirstBest, Rate, RateVal
<1> QED BY <1>1, <1>2, <1>3 DEF TurnsAreSound

\* However the ranks run ahead, are killed and launched again: once a turn's
\* files are written, best.pt and best_val.pt hold the best turn seen since
\* the launch (PPO's over its smoothing window), every rank has trained on
\* the rollouts of a single GPU in their order (collect_update_buffers), and
\* an epoch shows every sample to some rank (DistributedSampler), for any
\* number of ranks, rollouts, seeds, samples, turns and scores.
THEOREM TurnsKeepTheBest == Spec => []TurnsAreSound
<1>1. Init => TrainersInv
  BY OnlyTrainerSteps, TrainersStart
<1>2. TrainersInv /\ [Next]_trainingVars => TrainersInv'
  BY OnlyTrainerSteps, TrainersStep
<1>3. TrainersInv => TurnsAreSound
  BY TurnsFollow
<1> QED BY <1>1, <1>2, <1>3, PTL DEF Spec

\* A launch has no more turns on record than it was given, and one that is
\* at work still has a turn to take; what it resumed from and what it has
\* saved lie within the turns of the launches so far.
TurnsBounded ==
  /\ kills \in 0 .. MaxKills
  /\ Done <= Turns
  /\ at[Main] \in {"work", "gather", "judge"} => Done < Turns
  /\ first <= Turns * kills
  /\ \A n \in Names : Torn <= files[n] /\ files[n] <= (Turns * kills) + Turns - 1
  /\ at[Main] = "down" => \A n \in Names : files[n] <= (Turns * kills) - 1

SetupTyped == kind \in Kinds /\ noVal \in BOOLEAN

LEMMA SetupStays ==
  ASSUME TrainersNext PROVE UNCHANGED setup
<1>1. CASE Launch
  BY <1>1 DEF Launch
<1>2. CASE Quiet
  BY <1>2 DEF Quiet, Collect, TakesBatch, RunAhead, Exchange, AllWritten
<1>3. CASE Judges
  BY <1>3 DEF Judges, JudgeUpdate, JudgeEpoch, JudgeWorldEpoch, Judge
<1>4. CASE OpenFile \/ CloseFile \/ Killed
  BY <1>4 DEF OpenFile, CloseFile, Killed
<1> QED BY <1>1, <1>2, <1>3, <1>4, TrainerSteps

LEMMA TurnsStayBounded ==
  ASSUME TrainersTyped, Writing, TurnsBounded, TrainersNext
  PROVE  TurnsBounded'
<1> DEFINE before == Turns * kills
<1>0. /\ Turns \in Nat /\ Turns > 0 /\ MaxKills \in Nat /\ kills \in Nat /\ before \in Nat
      /\ Done \in Nat /\ first \in Nat /\ at \in [Ranks -> Stands] /\ Main \in Ranks
      /\ files \in [Names -> Int] /\ scores \in Seq(Grades) /\ todo \in Seq(Names)
  BY TrainersAssumption DEF TrainersTyped, TurnsBounded, Stands, Main, Ranks, Done
<1>t. TurnsBounded <=>
        /\ kills \in 0 .. MaxKills
        /\ Done <= Turns
        /\ at[Main] \in {"work", "gather", "judge"} => Done < Turns
        /\ first <= before
        /\ \A n \in Names : Torn <= files[n] /\ files[n] <= before + Turns - 1
        /\ at[Main] = "down" => \A n \in Names : files[n] <= before - 1
  BY DEF TurnsBounded
<1>q. kills' = kills => before' = before
  OBVIOUS
<1>n. kills' = kills =>
      (TurnsBounded' <=>
        /\ kills \in 0 .. MaxKills
        /\ Done' <= Turns
        /\ at'[Main] \in {"work", "gather", "judge"} => Done' < Turns
        /\ first' <= before
        /\ \A n \in Names : Torn <= files'[n] /\ files'[n] <= before + Turns - 1
        /\ at'[Main] = "down" => \A n \in Names : files'[n] <= before - 1)
  BY DEF TurnsBounded
<1>5. CASE Killed
  <2>1. /\ kills' = kills + 1 /\ kills < MaxKills /\ UNCHANGED <<first, scores, files>>
        /\ at'[Main] = "down"
    BY <1>0, <1>5 DEF Killed
  <2>2. Turns * kills' = before + Turns
    BY <1>0, <2>1
  <2>3. Done' = Done
    BY <2>1 DEF Done
  <2>4. kills' \in 0 .. MaxKills
    BY <1>0, <2>1
  <2>5. first' <= before + Turns
    BY <1>0, <1>t, <2>1
  <2>6. \A n \in Names : /\ Torn <= files'[n] /\ files'[n] <= (before + Turns) - 1
                         /\ files'[n] <= (before + Turns) + Turns - 1
    <3> TAKE n \in Names
    <3>1. files[n] \in Int /\ Torn <= files[n] /\ files[n] <= before + Turns - 1
      BY <1>0, <1>t
    <3> HIDE DEF before
    <3> QED BY <1>0, <2>1, <3>1
  <2> HIDE DEF before, Done
  <2> QED BY <1>t, <2>1, <2>2, <2>3, <2>4, <2>5, <2>6 DEF TurnsBounded
<1> HIDE DEF before
<1>1. CASE Launch
  <2>1. /\ at[Main] = "down" /\ scores' = <<>> /\ files' \in RunDirs
        /\ first' = 0 \/ first' = files["latest.pt"] + 1
        /\ at'[Main] \in {"failed", "work"}
    BY <1>0, <1>1 DEF Launch
  <2>2. Done' = 0
    BY <2>1 DEF Done
  <2>3. "latest.pt" \in Names
    BY DEF Names
  <2>4. first' <= before
    BY <1>0, <1>t, <2>1, <2>3
  <2>5. \A n \in Names : Torn <= files'[n] /\ files'[n] <= before + Turns - 1
    <3>1. CASE files' = files
      BY <1>t, <3>1
    <3>2. CASE files' = [n \in Names |-> NoTurn]
      BY <1>0, <3>2 DEF NoTurn, Torn
    <3> QED BY <2>1, <3>1, <3>2 DEF RunDirs
  <2>6. kills' = kills
    BY <1>1 DEF Launch
  <2>7. at'[Main] # "down"
    BY <2>1
  <2> HIDE DEF Done
  <2> QED BY <1>0, <1>t, <1>n, <2>2, <2>4, <2>5, <2>6, <2>7
<1>2. CASE Quiet
  <2>1. /\ UNCHANGED <<first, scores, files>>
        /\ \/ at'[Main] = at[Main]
           \/ at[Main] \in {"work", "gather"} /\ at'[Main] \in {"work", "gather", "judge"}
           \/ at[Main] = "write" /\ at'[Main] \in {"work", "done"}
    BY <1>2, QuietStep
  <2>2. Done' = Done
    BY <2>1 DEF Done
  <2>3. at[Main] = "write" /\ at'[Main] = "work" => Done < Turns
    BY <1>0, <1>2 DEF Quiet, Collect, TakesBatch, RunAhead, Exchange, AllWritten, NextTurn
  <2>4. kills' = kills
    BY <1>2 DEF Quiet, Collect, TakesBatch, RunAhead, Exchange, AllWritten
  <2>5. at'[Main] = "down" => at[Main] = "down"
    BY <2>1
  <2> HIDE DEF Done
  <2> QED BY <1>t, <1>n, <2>1, <2>2, <2>3, <2>4, <2>5
<1>3. CASE Judges
  <2>1. PICK x \in Grades, high \in Nat, names \in Seq(Names) : Verdict(x, high, names)
    BY <1>3, JudgedBy DEF Judges
  <2>2. /\ at[Main] = "judge" /\ at'[Main] = "write" /\ scores' = Append(scores, x)
        /\ UNCHANGED <<first, files, kills>>
    BY <1>0, <2>1 DEF Verdict
  <2>3. Done' = Done + 1
    BY <1>0, <2>2 DEF Done
  <2> HIDE DEF Done
  <2> QED BY <1>0, <1>t, <1>n, <2>2, <2>3
<1>4. CASE OpenFile \/ CloseFile
  <2>1. /\ UNCHANGED <<first, scores, kills>> /\ at[Main] \in {"write", "flush"}
        /\ at'[Main] \in {"write", "flush"}
        /\ \A n \in Names : files'[n] \in {files[n], Torn, first + Done - 1}
    BY <1>0, <1>4 DEF OpenFile, CloseFile
  <2>2. Done' = Done
    BY <2>1 DEF Done
  <2>3. \A n \in Names : Torn <= files'[n] /\ files'[n] <= before + Turns - 1
    <3> HIDE DEF Done
    <3> TAKE n \in Names
    <3>1. CASE files'[n] = files[n]
      BY <1>t, <3>1
    <3>2. CASE files'[n] = Torn
      BY <1>0, <3>2 DEF Torn
    <3>3. CASE files'[n] = first + Done - 1
      BY <1>0, <1>t, <3>3 DEF Torn
    <3> QED BY <2>1, <3>1, <3>2, <3>3
  <2> HIDE DEF Done
  <2> QED BY <1>t, <1>n, <2>1, <2>2, <2>3
<1> QED BY <1>1, <1>2, <1>3, <1>4, <1>5, TrainerSteps

TrainersTypes == TrainersTyped /\ Writing /\ SetupTyped /\ TurnsBounded

\* The types of the trainers' variables: ranks stand where a rank can stand,
\* a launch puts at most its turns on record, and a resumption or a saved
\* file names a turn of the launches there have been, for any ranks, turns
\* and kills.
THEOREM TrainerTypes == Spec => []TrainersTypeOK
<1>1. Init => TrainersTypes
  <2> SUFFICES ASSUME Init PROVE TrainersTypes
    OBVIOUS
  <2>1. TrainersInit /\ TrainersInv
    BY OnlyTrainerSteps, TrainersStart
  <2>2. TrainersTyped /\ Writing
    BY <2>1 DEF TrainersInv
  <2>3. SetupTyped
    BY <2>1 DEF TrainersInit, SetupTyped
  <2>4. /\ Done = 0 /\ kills = 0 /\ first = 0 /\ at[Main] = "down"
        /\ \A n \in Names : files[n] = NoTurn
    BY <2>1, TrainersAssumption DEF TrainersInit, Done, Main, Ranks
  <2>5. TurnsBounded
    <3>1. Turns * kills = 0 /\ kills \in 0 .. MaxKills /\ Turns \in Nat /\ Turns > 0
      BY <2>4, TrainersAssumption
    <3> HIDE DEF Done
    <3> QED BY <2>4, <3>1 DEF TurnsBounded, Torn, NoTurn
  <2> QED BY <2>2, <2>3, <2>5 DEF TrainersTypes
<1>2. TrainersTypes /\ [Next]_trainingVars => TrainersTypes'
  <2> SUFFICES ASSUME TrainersTypes, [TrainersNext]_trainerVars PROVE TrainersTypes'
    BY OnlyTrainerSteps
  <2>1. CASE TrainersNext
    <3>1. TrainersTyped' /\ Writing' /\ TurnsBounded'
      BY <2>1, TrainersStepTyped, WritingStep, TurnsStayBounded DEF TrainersTypes
    <3>2. SetupTyped'
      BY <2>1, SetupStays DEF TrainersTypes, SetupTyped, setup
    <3> QED BY <3>1, <3>2 DEF TrainersTypes
  <2>2. CASE UNCHANGED trainerVars
    BY <2>2 DEF TrainersTypes, TrainersTyped, Writing, SetupTyped, TurnsBounded, Done,
                trainerVars, setup
  <2> QED BY <2>1, <2>2
<1>3. TrainersTypes => TrainersTypeOK
  <2> SUFFICES ASSUME TrainersTypes PROVE TrainersTypeOK
    OBVIOUS
  <2>1. /\ Turns \in Nat /\ MaxKills \in Nat /\ kills \in 0 .. MaxKills /\ first \in Nat
        /\ files \in [Names -> Int]
    BY TrainersAssumption DEF TrainersTypes, TrainersTyped, TurnsBounded
  <2>2. /\ Turns * kills \in Nat /\ Turns * MaxKills \in Nat
        /\ Turns * kills <= Turns * MaxKills
        /\ Turns * (MaxKills + 1) = (Turns * MaxKills) + Turns
    <3>1. PICK d \in Nat : MaxKills = kills + d
      <4>1. MaxKills - kills \in Nat /\ MaxKills = kills + (MaxKills - kills)
        BY <2>1
      <4> QED BY <4>1
    <3>2. Turns * MaxKills = (Turns * kills) + (Turns * d)
      BY <2>1, <3>1
    <3>3. Turns * kills \in Nat /\ Turns * d \in Nat
      BY <2>1, <3>1
    <3>4. Turns * (MaxKills + 1) = (Turns * MaxKills) + Turns
      BY <2>1
    <3> QED BY <3>2, <3>3, <3>4
  <2>3. first \in 0 .. Turns * MaxKills
    BY <2>1, <2>2 DEF TrainersTypes, TurnsBounded
  <2>4. \A n \in Names : files[n] \in Torn .. Turns * (MaxKills + 1) - 1
    <3> TAKE n \in Names
    <3>1. /\ files[n] \in Int /\ Torn <= files[n]
          /\ files[n] <= (Turns * kills) + Turns - 1
      BY <2>1 DEF TrainersTypes, TurnsBounded
    <3>2. files[n] <= (Turns * (MaxKills + 1)) - 1
      BY <2>1, <2>2, <3>1
    <3>3. (Turns * (MaxKills + 1)) - 1 \in Int
      BY <2>1, <2>2
    <3> QED BY <3>1, <3>2, <3>3 DEF Torn
  <2>5. files \in [Names -> Torn .. Turns * (MaxKills + 1) - 1]
    BY <2>1, <2>4
  <2>6. Len(scores) <= Turns
    BY DEF TrainersTypes, TurnsBounded, Done
  <2> QED BY <2>1, <2>3, <2>5, <2>6
          DEF TrainersTypes, TrainersTyped, SetupTyped, TrainersTypeOK
<1> QED BY <1>1, <1>2, <1>3, PTL DEF Spec

-----------------------------------------------------------------------------
(* Streaming: what the network sees, and what a page shows.                *)

\* The latents of a training window.
ClipLatents == Timesteps \div Stride
Sight == [latent : Int, weights : Weights]
Token == [latent : Int, weights : Weights, actions : SUBSET Int, past : Int]

\* What was sown with the checkpoint that runs.
Sown ==
  /\ window \in Seq(Sight) /\ cache \in Seq(Token) /\ history \in Seq(Int)
  /\ buffer \in Seq(Int) /\ shown \in Int

StreamTyped ==
  /\ session \in Configured
  /\ session.kind = "play" => session.stride \in PlayStrides
  /\ session.kind # "play" => sown = "fresh"
  /\ weights \in Weights /\ cursor \in Int /\ made \in Nat
  /\ sown = "fresh" => Sown

\* The latents in sight and the actions known end at the same frame, and what
\* is cached are the latents the next call will not compute again.
InSight ==
  session.kind = "play" /\ sown = "fresh" =>
    /\ Len(window) = ContextLatents
    /\ \A i \in 1 .. Len(window) : window[i].latent = window[1].latent + i - 1
    /\ Len(history) >= session.context
    /\ \A i \in 1 .. Len(history) : history[i] = history[1] + i - 1
    /\ ContextLatents > 1 =>
         history[Len(history)] = (window[Len(window)].latent + 1) * Stride - 1
    /\ cache # <<>> =>
         /\ Len(cache) = ContextLatents - 1 /\ AsTrained(cache)
         /\ cache[1].latent = window[1].latent + 1

\* The same for the evaluation, which knows all the actions beforehand.
Evaluated ==
  session.kind = "evaluate" /\ cache # <<>> =>
    Len(cache) = ContextLatents /\ AsTrained(cache) /\ cache[1].latent = made

StreamInv ==
  /\ StreamTyped /\ InSight /\ Evaluated
  /\ ConditionedAsTrained /\ FramesInOrder /\ FreshAfterReload

LEMMA WholeMultiple ==
  ASSUME NEW n \in Nat, NEW d \in Nat \ {0}, n % d = 0
  PROVE  n \div d \in Nat /\ n = (n \div d) * d
  OBVIOUS

LEMMA DivideMultiple ==
  ASSUME NEW m \in Nat, NEW d \in Nat \ {0}
  PROVE  (m * d) \div d = m
  OBVIOUS

LEMMA MultiplesOrder ==
  ASSUME NEW m \in Nat, NEW n \in Nat, NEW d \in Nat \ {0}
  PROVE  m * d < n * d => m < n
  OBVIOUS

LEMMA MultiplesMonotone ==
  ASSUME NEW m \in Int, NEW n \in Int, NEW d \in Nat \ {0}, m <= n
  PROVE  m * d <= n * d
  OBVIOUS

LEMMA NextMultiple ==
  ASSUME NEW m \in Int, NEW d \in Nat
  PROVE  (m + 1) * d = m * d + d /\ (m - 1) * d = m * d - d /\ d * m = m * d
         /\ m * d \in Int
  OBVIOUS

\* What a session is made of.
LEMMA SessionFacts ==
  ASSUME session \in Configured
  PROVE  /\ Stride \in Strides /\ Stride \in Nat \ {0}
         /\ session.context \in Nat \ {0}
         /\ ContextLatents \in Nat \ {0} /\ session.context = ContextLatents * Stride
         /\ ClipLatents \in Nat /\ Timesteps = ClipLatents * Stride
         /\ ContextLatents < ClipLatents
<1> USE StreamingAssumption
<1>1. PICK kk \in Sessions, d \in Strides :
        session \in {[kind |-> kk, stride |-> d, context |-> n, psd |-> p] :
            n \in Settable(d),
            p \in IF kk = "train" THEN {"off", "weighted", "stochastic"} ELSE {"off"}}
  BY DEF Configured
<1>2. Stride = d /\ session.context \in Settable(d)
  BY <1>1 DEF Stride
<1>3. Stride \in Strides /\ Stride \in Nat \ {0}
  BY <1>2
<1>4. /\ session.context \in Nat \ {0} /\ session.context % Stride = 0
      /\ session.context < Timesteps
  <2> DEFINE c == session.context
  <2>1. c \in Settable(Stride)
    BY <1>2
  <2>2. SUFFICES c \in Nat \ {0} /\ c % Stride = 0 /\ c < Timesteps
    OBVIOUS
  <2> HIDE DEF c
  <2>3. c \in ContextFrames /\ c % Stride = 0 /\ c >= 1 /\ c < Timesteps
    BY <2>1 DEF Settable
  <2> QED
    BY <2>3
<1>5. ContextLatents \in Nat /\ session.context = ContextLatents * Stride
  BY <1>3, <1>4, WholeMultiple DEF ContextLatents
<1>6. ClipLatents \in Nat /\ Timesteps = ClipLatents * Stride
  BY <1>3, WholeMultiple DEF ClipLatents
<1>7. ContextLatents # 0
  BY <1>4, <1>5, <1>3
<1>8. ContextLatents < ClipLatents
  BY <1>3, <1>4, <1>5, <1>6, MultiplesOrder
<1> QED
  BY <1>3, <1>4, <1>5, <1>6, <1>7, <1>8

\* Actions that start with those of the latent after l, cut into tokens.
LEMMA ActionTokensAre ==
  ASSUME session \in Configured, NEW l \in Int, NEW m \in Nat, NEW a \in Seq(Int),
         Len(a) = m * Stride,
         \A j \in 1 .. Len(a) : a[j] = (l + 1) * Stride + j - 2
  PROVE  /\ ActionTokens(a) \in Seq(SUBSET Int) /\ Len(ActionTokens(a)) = m + 1
         /\ ActionTokens(a)[1] = {}
         /\ \A i \in 2 .. m + 1 : ActionTokens(a)[i] = Controls(l + i - 1)
<1> DEFINE d == Stride
           rest == [i \in 1 .. m |-> {a[j] : j \in (i - 1) * d + 1 .. i * d}]
<1>1. d \in Nat \ {0} /\ Len(a) \div d = m
  BY SessionFacts, DivideMultiple
<1>2. ASSUME NEW i \in 1 .. m
      PROVE  {a[j] : j \in (i - 1) * d + 1 .. i * d} = Controls(l + i)
  <2> DEFINE b == (i - 1) * d
  <2>1. b \in Nat /\ i * d = b + d /\ i * d <= Len(a)
    BY <1>1, NextMultiple, MultiplesMonotone
  <2>2. (l + 1) * d = l * d + d /\ l * d \in Int
    BY <1>1, NextMultiple
  <2>3. d * (l + i) = l * d + b + d
    BY <1>1, <2>1
  <2>4. Controls(l + i) = d * (l + i) - 1 .. d * (l + i) + d - 2
    BY DEF Controls
  <2> DEFINE c == l * d
             top == d * (l + i)
             mid == (l + 1) * d
             end == i * d
  <2>5. c \in Int /\ d \in Nat /\ top = c + b + d /\ mid = c + d /\ end = b + d
    BY <2>1, <2>2, <2>3, <1>1
  <2>6. \A j \in 1 .. Len(a) : a[j] = mid + j - 2
    OBVIOUS
  <2>8. b \in Nat /\ end <= Len(a) /\ Len(a) \in Nat
    BY <2>1
  <2>9. Controls(l + i) = top - 1 .. top + d - 2
    BY <2>4
  <2>10. SUFFICES {a[j] : j \in b + 1 .. end} = top - 1 .. top + d - 2
    BY <2>9
  <2> HIDE DEF b, c, d, top, mid, end
  <2>11. ASSUME NEW j \in b + 1 .. end
        PROVE  a[j] \in top - 1 .. top + d - 2
    BY <2>5, <2>6, <2>8
  <2>12. ASSUME NEW x \in top - 1 .. top + d - 2
        PROVE  \E j \in b + 1 .. end : a[j] = x
    <3> DEFINE y == x - mid + 2
    <3>1. y \in b + 1 .. end /\ y \in 1 .. Len(a) /\ mid + y - 2 = x
      BY <2>5, <2>8
    <3> QED
      BY <3>1, <2>6
  <2> QED
    BY <2>11, <2>12
<1>3. rest \in Seq(SUBSET Int) /\ Len(rest) = m /\ \A i \in 1 .. m : rest[i] = Controls(l + i)
  <2>1. \A i \in 1 .. m : Controls(l + i) \in SUBSET Int
    BY DEF Controls
  <2> DEFINE F(i) == {a[j] : j \in (i - 1) * d + 1 .. i * d}
             G(i) == Controls(l + i)
  <2>2. \A i \in 1 .. m : F(i) = G(i) /\ G(i) \in SUBSET Int
    BY <1>2, <2>1
  <2>3. rest = [i \in 1 .. m |-> F(i)]
    OBVIOUS
  <2>4. SUFFICES rest \in Seq(SUBSET Int) /\ Len(rest) = m /\ \A i \in 1 .. m : rest[i] = G(i)
    OBVIOUS
  <2> HIDE DEF F, G, rest
  <2> QED
    BY <2>2, <2>3
<1>4. ActionTokens(a) = <<{}>> \o rest
  BY <1>1 DEF ActionTokens
<1> HIDE DEF rest
<1>5. <<{}>> \in Seq(SUBSET Int) /\ Len(<<{}>>) = 1 /\ <<{}>>[1] = {}
  OBVIOUS
<1> QED
  BY <1>3, <1>4, <1>5

\* A token that follows others, and the one a run of tokens begins with.
Led(token, l) ==
  token.latent = l /\ token.actions = Controls(l) /\ token.past = l - 1
Heads(token, l) ==
  /\ token.latent = l
  /\ token.actions = Controls(l) \/ token.actions = {}
  /\ token.past = l - 1 \/ token.past = Bos
Consecutive(q, l) ==
  /\ q \in Seq(Token) /\ q # <<>> /\ Heads(q[1], l)
  /\ \A i \in 2 .. Len(q) : Led(q[i], l + i - 1)

LEMMA ConsecutiveIsTrained ==
  ASSUME NEW q \in Seq(Token), q # <<>>, NEW l \in Int
  PROVE  Consecutive(q, l) <=> AsTrained(q) /\ q[1].latent = l
<1>1. \A i \in 1 .. Len(q) : l + i - 1 \in Int /\ l + 1 - 1 = l
  OBVIOUS
<1>2. ASSUME Consecutive(q, l) PROVE AsTrained(q) /\ q[1].latent = l
  <2>1. q[1].latent = l
    BY <1>2 DEF Consecutive, Heads
  <2>2. ASSUME NEW i \in 1 .. Len(q), i # 1
        PROVE  /\ q[i].latent = q[1].latent + i - 1
               /\ q[i].actions = Controls(q[i].latent)
               /\ q[i].past = q[i].latent - 1
    BY <1>2, <2>1, <2>2 DEF Consecutive, Led
  <2>3. /\ q[1].latent = q[1].latent + 1 - 1
        /\ q[1].actions = Controls(q[1].latent) \/ q[1].actions = {}
        /\ q[1].past = q[1].latent - 1 \/ q[1].past = Bos
    BY <1>2, <2>1 DEF Consecutive, Heads
  <2> QED
    BY <2>1, <2>2, <2>3 DEF AsTrained
<1>3. ASSUME AsTrained(q), q[1].latent = l PROVE Consecutive(q, l)
  <2>1. Heads(q[1], l)
    BY <1>3 DEF AsTrained, Heads
  <2>2. ASSUME NEW i \in 2 .. Len(q) PROVE Led(q[i], l + i - 1)
    BY <1>3 DEF AsTrained, Led
  <2> QED
    BY <2>1, <2>2 DEF Consecutive
<1> QED
  BY <1>2, <1>3

\* Of the tokens of a run, those up to any of them are one.
LEMMA ViewsAreTrained ==
  ASSUME session \in Configured, NEW cached \in Seq(Token), NEW tokens \in Seq(Token),
         NEW l \in Int, Consecutive(cached \o tokens, l),
         Len(cached) + Len(tokens) <= ClipLatents, NEW v \in Views(tokens, cached)
  PROVE  /\ v.position = Registers + Len(v.seen) - 1
         /\ Len(v.seen) <= Timesteps \div Stride
         /\ AsTrained(v.seen)
<1>1. PICK i \in 1 .. Len(tokens) :
        v = [seen |-> Attended(tokens, cached, i),
             position |-> Registers + Len(cached) + i - 1]
  BY DEF Views
<1> DEFINE part == SubSeq(tokens, 1, i)
           q == cached \o part
           all == cached \o tokens
<1>2. part \in Seq(Token) /\ Len(part) = i /\ \A j \in 1 .. i : part[j] = tokens[j]
  OBVIOUS
<1>3. /\ q \in Seq(Token) /\ Len(q) = Len(cached) + i
      /\ \A j \in 1 .. Len(q) : q[j] = all[j]
  <2> HIDE DEF part
  <2> QED
    BY <1>2
<1>4. all \in Seq(Token) /\ Len(all) = Len(cached) + Len(tokens)
  OBVIOUS
<1>5. Consecutive(all, l)
  OBVIOUS
<1>6. v.seen = q /\ v.position = Registers + Len(cached) + i - 1
  BY <1>1 DEF Attended
<1> HIDE DEF part, q, all
<1>7. Len(cached) \in Nat /\ i \in Nat \ {0} /\ i <= Len(tokens) /\ Len(tokens) \in Nat
  OBVIOUS
<1>8. Consecutive(q, l)
  <2>1. 1 \in 1 .. Len(q) /\ q # <<>> /\ 2 .. Len(q) \subseteq 2 .. Len(all)
    BY <1>3, <1>4, <1>7
  <2>2. Heads(all[1], l) /\ \A j \in 2 .. Len(all) : Led(all[j], l + j - 1)
    BY <1>5 DEF Consecutive
  <2>3. Heads(q[1], l)
    BY <1>3, <2>1, <2>2
  <2>4. ASSUME NEW j \in 2 .. Len(q) PROVE Led(q[j], l + j - 1)
    <3>1. j \in 1 .. Len(q) /\ j \in 2 .. Len(all)
      BY <1>3, <2>1
    <3> QED
      BY <1>3, <2>2, <3>1
  <2> QED
    BY <1>3, <2>1, <2>3, <2>4 DEF Consecutive
<1>10. q # <<>>
  BY <1>8 DEF Consecutive
<1>9. AsTrained(q)
  BY <1>3, <1>8, <1>10, ConsecutiveIsTrained
<1>11. ClipLatents \in Nat /\ Registers \in Nat /\ ClipLatents = Timesteps \div Stride
  BY SessionFacts, StreamingAssumption DEF ClipLatents
<1>12. Len(v.seen) = Len(cached) + i
  BY <1>3, <1>6
<1>13. Len(v.seen) <= ClipLatents
  BY <1>7, <1>11, <1>12
<1>14. v.position = Registers + Len(v.seen) - 1
  BY <1>6, <1>7, <1>11, <1>12
<1> QED
  BY <1>6, <1>9, <1>11, <1>13, <1>14

LEMMA TokensAre ==
  ASSUME NEW latents \in Seq(Sight), NEW actions \in Seq(SUBSET Int),
         Len(latents) <= Len(actions), NEW p \in Int
  PROVE  /\ Tokens(latents, actions, p) \in Seq(Token)
         /\ Len(Tokens(latents, actions, p)) = Len(latents)
         /\ \A i \in 1 .. Len(latents) :
              /\ Tokens(latents, actions, p)[i].latent = latents[i].latent
              /\ Tokens(latents, actions, p)[i].weights = latents[i].weights
              /\ Tokens(latents, actions, p)[i].actions = actions[i]
              /\ Tokens(latents, actions, p)[i].past =
                   IF i = 1 THEN p ELSE latents[i - 1].latent
<1> DEFINE T(i) == [latent |-> latents[i].latent, weights |-> latents[i].weights,
                    actions |-> actions[i],
                    past |-> IF i = 1 THEN p ELSE latents[i - 1].latent]
<1>1. Tokens(latents, actions, p) = [i \in 1 .. Len(latents) |-> T(i)]
  BY DEF Tokens
<1>2. ASSUME NEW i \in 1 .. Len(latents) PROVE T(i) \in Token
  <2>1. latents[i] \in Sight /\ actions[i] \in SUBSET Int
        /\ (i # 1 => latents[i - 1] \in Sight)
    OBVIOUS
  <2> DEFINE x == latents[i]
             y == latents[i - 1]
             z == actions[i]
             t == [latent |-> x.latent, weights |-> x.weights, actions |-> z,
                   past |-> IF i = 1 THEN p ELSE y.latent]
  <2>2. x \in Sight /\ z \in SUBSET Int /\ (i # 1 => y \in Sight)
    BY <2>1
  <2>3. T(i) = t
    OBVIOUS
  <2> HIDE DEF x, y, z
  <2>4. t \in Token
    BY <2>2 DEF Sight, Token
  <2> QED
    BY <2>3, <2>4
<1>3. Len(latents) \in Nat
  OBVIOUS
<1> HIDE DEF T
<1>4. [i \in 1 .. Len(latents) |-> T(i)] \in Seq(Token)
  BY <1>2, <1>3
<1>5. Len([i \in 1 .. Len(latents) |-> T(i)]) = Len(latents)
  BY <1>3
<1> QED
  BY <1>1, <1>4, <1>5 DEF T

LEMMA FreshTokens ==
  ASSUME NEW latents \in Seq(Sight), NEW actions \in Seq(SUBSET Int),
         latents # <<>>, Len(latents) <= Len(actions), NEW l \in Int,
         \A i \in 1 .. Len(latents) : latents[i].latent = l + i - 1,
         actions[1] = {},
         \A i \in 2 .. Len(latents) : actions[i] = Controls(l + i - 1)
  PROVE  Consecutive(Tokens(latents, actions, Bos), l)
<1> DEFINE q == Tokens(latents, actions, Bos)
<1>1. Bos \in Int
  BY DEF Bos
<1>2. /\ q \in Seq(Token) /\ Len(q) = Len(latents)
      /\ \A i \in 1 .. Len(latents) :
              /\ q[i].latent = latents[i].latent
              /\ q[i].actions = actions[i]
              /\ q[i].past = IF i = 1 THEN Bos ELSE latents[i - 1].latent
  BY <1>1, TokensAre
<1> HIDE DEF q
<1>3. Len(latents) \in Nat \ {0}
  OBVIOUS
<1>4. Heads(q[1], l)
  BY <1>2, <1>3 DEF Heads
<1>5. ASSUME NEW i \in 2 .. Len(q) PROVE Led(q[i], l + i - 1)
  <2>1. i \in 1 .. Len(latents) /\ i - 1 \in 1 .. Len(latents) /\ i # 1
    BY <1>2, <1>3
  <2>2. q[i].latent = l + i - 1 /\ q[i].past = l + (i - 1) - 1
    BY <1>2, <2>1
  <2>3. q[i].actions = Controls(l + i - 1)
    BY <1>2, <2>1
  <2> QED
    BY <2>2, <2>3, <2>1 DEF Led
<1> QED
  BY <1>2, <1>3, <1>4, <1>5 DEF Consecutive, q


\* All latents but the last: the context a first call caches.
LEMMA ContextTokens ==
  ASSUME session \in Configured, NEW n \in Nat, n >= 2,
         NEW latents \in Seq(Sight), Len(latents) = n, NEW l \in Int,
         \A i \in 1 .. n : latents[i].latent = l + i - 1,
         NEW actions \in Seq(SUBSET Int), Len(actions) = n, actions[1] = {},
         \A i \in 2 .. n : actions[i] = Controls(l + i - 1)
  PROVE  LET q == Tokens(SubSeq(latents, 1, n - 1), actions, Bos)
         IN /\ q \in Seq(Token) /\ Len(q) = n - 1 /\ Consecutive(q, l)
            /\ \A i \in 1 .. n - 1 : q[i].weights = latents[i].weights
<1> DEFINE ctx == SubSeq(latents, 1, n - 1)
           q == Tokens(ctx, actions, Bos)
<1>1. n \in 1 .. n /\ n - 1 \in 1 .. n /\ n - 1 \in Nat /\ n # 1
  OBVIOUS
<1>2. /\ ctx \in Seq(Sight) /\ Len(ctx) = n - 1 
      /\ \A i \in 1 .. n - 1 : ctx[i] = latents[i]
  <2>1. \A i \in 1 .. n - 1 : latents[i] \in Sight
    OBVIOUS
  <2> QED
    BY <1>1, <2>1, SubSeqProperties
<1> HIDE DEF ctx
<1>3. ctx # <<>>
  BY <1>1, <1>2
<1>4. \A i \in 1 .. Len(ctx) : ctx[i].latent = l + i - 1
  <2> SUFFICES ASSUME NEW i \in 1 .. n - 1 PROVE ctx[i].latent = l + i - 1
    BY <1>2
  <2>1. i \in 1 .. n
    BY <1>1
  <2> QED
    BY <1>2, <2>1
<1>5. \A i \in 2 .. Len(ctx) : actions[i] = Controls(l + i - 1)
  <2> SUFFICES ASSUME NEW i \in 2 .. n - 1 PROVE actions[i] = Controls(l + i - 1)
    BY <1>2
  <2>1. i \in 2 .. n
    BY <1>1
  <2> QED
    BY <2>1
<1>6. Bos \in Int /\ Len(ctx) <= Len(actions)
  BY <1>1, <1>2 DEF Bos
<1>7. /\ q \in Seq(Token) /\ Len(q) = n - 1
      /\ \A i \in 1 .. n - 1 : q[i].weights = ctx[i].weights
  <2>1. /\ Tokens(ctx, actions, Bos) \in Seq(Token)
        /\ Len(Tokens(ctx, actions, Bos)) = Len(ctx)
        /\ \A i \in 1 .. Len(ctx) : Tokens(ctx, actions, Bos)[i].weights = ctx[i].weights
    <3>1. ctx \in Seq(Sight) /\ Len(ctx) <= Len(actions) /\ Bos \in Int
      BY <1>2, <1>6
    <3> QED
      BY <3>1, TokensAre
  <2>2. q = Tokens(ctx, actions, Bos)
    OBVIOUS
  <2> HIDE DEF q
  <2> QED
    BY <1>2, <2>1, <2>2
<1>8. Consecutive(q, l)
  BY <1>2, <1>3, <1>4, <1>5, <1>6, FreshTokens
<1> HIDE DEF q
<1>9. \A i \in 1 .. n - 1 : q[i].weights = latents[i].weights
  BY <1>2, <1>7
<1> QED
  BY <1>7, <1>8, <1>9 DEF q, ctx

\* The token of the latent that is made.
LEMMA NewestToken ==
  ASSUME session \in Configured, NEW n \in Nat, n >= 2,
         NEW latents \in Seq(Sight), Len(latents) = n, NEW l \in Int,
         \A i \in 1 .. n : latents[i].latent = l + i - 1,
         NEW actions \in Seq(SUBSET Int), Len(actions) = n,
         actions[n] = Controls(l + n - 1)
  PROVE  LET q == Denoised(latents, actions)
         IN /\ q \in Seq(Token) /\ Len(q) = 1 /\ Led(q[1], l + n - 1)
            /\ q[1].weights = latents[n].weights
<1> DEFINE lone == <<latents[n]>>
           act == <<actions[n]>>
           p == latents[n - 1].latent
           q == Tokens(lone, act, p)
<1>1. n \in 1 .. n /\ n - 1 \in 1 .. n
  OBVIOUS
<1>2. latents[n] \in Sight /\ latents[n].latent = l + n - 1 /\ p = l + (n - 1) - 1
      /\ actions[n] \in SUBSET Int
  BY <1>1
<1>3. lone \in Seq(Sight) /\ Len(lone) = 1 /\ lone[1] = latents[n]
  BY <1>2
<1>4. act \in Seq(SUBSET Int) /\ Len(act) = 1 /\ act[1] = actions[n]
  BY <1>2
<1>5. p \in Int /\ p = l + n - 1 - 1
  BY <1>2
<1>6. Denoised(latents, actions) = q
  BY DEF Denoised
<1> HIDE DEF lone, act, p
<1>7. Len(lone) <= Len(act) /\ 1 \in 1 .. Len(lone)
  BY <1>3, <1>4
<1>10. /\ q \in Seq(Token) /\ Len(q) = Len(lone)
       /\ \A i \in 1 .. Len(lone) :
             /\ q[i].latent = lone[i].latent /\ q[i].weights = lone[i].weights
             /\ q[i].actions = act[i]
             /\ q[i].past = IF i = 1 THEN p ELSE lone[i - 1].latent
  BY <1>3, <1>4, <1>5, <1>7, TokensAre
<1> HIDE DEF q
<1>8. /\ q \in Seq(Token) /\ Len(q) = 1
      /\ q[1].latent = latents[n].latent /\ q[1].weights = latents[n].weights
      /\ q[1].actions = actions[n] /\ q[1].past = p
  BY <1>3, <1>4, <1>7, <1>10
<1>9. Led(q[1], l + n - 1)
  BY <1>2, <1>5, <1>8 DEF Led
<1> QED
  BY <1>6, <1>8, <1>9

LEMMA Joined ==
  ASSUME NEW S, NEW m \in Nat, NEW q \in Seq(S), Len(q) = m,
         NEW r \in Seq(S), Len(r) = 1
  PROVE  /\ q \o r \in Seq(S) /\ Len(q \o r) = m + 1
         /\ (q \o r)[m + 1] = r[1] /\ \A i \in 1 .. m : (q \o r)[i] = q[i]
<1> DEFINE all == q \o r
<1>3. /\ all \in Seq(S) /\ Len(all) = Len(q) + Len(r)
      /\ \A i \in 1 .. Len(q) + Len(r) :
           all[i] = IF i <= Len(q) THEN q[i] ELSE r[i - Len(q)]
  BY ConcatProperties
<1> HIDE DEF all
<1>1. /\ all \in Seq(S) /\ Len(all) = m + 1
      /\ \A i \in 1 .. m + 1 : all[i] = IF i <= m THEN q[i] ELSE r[i - m]
  BY <1>3
<1>2. all[m + 1] = r[m + 1 - m] /\ m + 1 - m = 1
  BY <1>1
<1> QED
  BY <1>1, <1>2 DEF all

\* All made with the same checkpoint.
Of(q, w) == \A i \in 1 .. Len(q) : q[i].weights = w

\* One token more, and one more for the oldest.
LEMMA OneMore ==
  ASSUME NEW old \in Seq(Token), old # <<>>, NEW l \in Int, Consecutive(old, l),
         NEW new \in Seq(Token), Len(new) = 1, Led(new[1], l + Len(old))
  PROVE  /\ Consecutive(old \o new, l)
         /\ Tail(old) \o new \in Seq(Token) /\ Len(Tail(old) \o new) = Len(old)
         /\ Consecutive(Tail(old) \o new, l + 1)
<1> DEFINE m == Len(old)
           all == old \o new
           t == Tail(old)
           next == t \o new
<1>0. m \in Nat \ {0} /\ Len(old) = m /\ Led(new[1], l + m)
  OBVIOUS
<1> HIDE DEF m
<1>1. /\ all \in Seq(Token) /\ Len(all) = m + 1
      /\ all[m + 1] = new[1] /\ \A i \in 1 .. m : all[i] = old[i]
  BY <1>0, Joined
<1>2. /\ t \in Seq(Token) /\ Len(t) = m - 1
      /\ \A i \in 1 .. m - 1 : t[i] = old[i + 1]
  BY <1>0
<1> HIDE DEF t
<1>3. /\ next \in Seq(Token) /\ Len(next) = m
      /\ next[m] = new[1] /\ \A i \in 1 .. m - 1 : next[i] = t[i]
  <2>1. m - 1 \in Nat /\ m - 1 + 1 = m
    BY <1>0
  <2>2. /\ next \in Seq(Token) /\ Len(next) = m - 1 + 1
        /\ next[m - 1 + 1] = new[1] /\ \A i \in 1 .. m - 1 : next[i] = t[i]
    BY <1>0, <1>2, <2>1, Joined
  <2> QED
    BY <1>0, <2>1, <2>2
<1> HIDE DEF all, next
<1>4. \A i \in 1 .. m : next[i] = all[i + 1]
  <2> SUFFICES ASSUME NEW i \in 1 .. m PROVE next[i] = all[i + 1]
    BY <1>0
  <2>1. CASE i = m
    BY <1>0, <1>1, <1>3, <2>1
  <2>2. CASE i # m
    <3>1. i \in 1 .. m - 1 /\ i + 1 \in 1 .. m
      BY <1>0, <2>2
    <3> QED
      BY <1>0, <1>1, <1>2, <1>3, <3>1
  <2> QED
    BY <1>0, <2>1, <2>2
<1>5. Heads(old[1], l) /\ \A i \in 2 .. m : Led(old[i], l + i - 1)
  BY <1>0 DEF Consecutive
<1>6. Heads(all[1], l)
  <2>1. 1 \in 1 .. m + 1 /\ 1 # m + 1
    BY <1>0
  <2> QED
    BY <1>0, <1>1, <1>5, <2>1
<1>7. ASSUME NEW i \in 2 .. m + 1 PROVE Led(all[i], l + i - 1)
  <2>1. CASE i = m + 1
    <3>1. all[i] = new[1] /\ l + i - 1 = l + m
      BY <1>0, <1>1, <2>1
    <3> QED
      BY <1>0, <3>1
  <2>2. CASE i # m + 1
    <3>1. i \in 2 .. m /\ all[i] = old[i]
      BY <1>0, <1>1, <2>2
    <3> QED
      BY <1>0, <1>5, <3>1
  <2> QED
    BY <1>0, <2>1, <2>2
<1>8. Consecutive(all, l)
  <2>1. all # <<>>
    BY <1>0, <1>1
  <2> QED
    BY <1>0, <1>1, <1>6, <1>7, <2>1 DEF Consecutive
<1>9. Heads(next[1], l + 1)
  <2>1. 1 \in 1 .. m /\ 1 + 1 \in 2 .. m + 1 /\ l + (1 + 1) - 1 = l + 1
    BY <1>0
  <2>2. Led(next[1], l + 1)
    BY <1>0, <1>4, <1>7, <2>1
  <2> QED
    BY <1>0, <2>2 DEF Led, Heads
<1>10. ASSUME NEW i \in 2 .. m PROVE Led(next[i], l + 1 + i - 1)
  <2>1. i + 1 \in 2 .. m + 1 /\ i \in 1 .. m /\ l + (i + 1) - 1 = l + 1 + i - 1
    BY <1>0
  <2> QED
    BY <1>0, <1>4, <1>7, <2>1
<1>11. Consecutive(next, l + 1)
  <2>1. next # <<>>
    BY <1>0, <1>3
  <2> QED
    BY <1>0, <1>3, <1>9, <1>10, <2>1 DEF Consecutive
<1> QED
  BY <1>0, <1>3, <1>8, <1>11 DEF all, next, t, m

LEMMA OneMoreOf ==
  ASSUME NEW old \in Seq(Token), old # <<>>, NEW new \in Seq(Token), Len(new) = 1,
         NEW w, Of(old, w), new[1].weights = w
  PROVE  Of(Tail(old) \o new, w)
<1> DEFINE t == Tail(old)
           m == Len(t)
           next == t \o new
<1>1. /\ t \in Seq(Token) /\ m \in Nat /\ Len(old) = m + 1
      /\ \A i \in 1 .. m : t[i] = old[i + 1]
  OBVIOUS
<1> HIDE DEF t
<1>2. /\ Len(next) = m + 1 /\ next[m + 1] = new[1] /\ \A i \in 1 .. m : next[i] = t[i]
  BY <1>1, Joined
<1> HIDE DEF next, m
<1>3. \A i \in 1 .. m + 1 : old[i].weights = w
  BY <1>1 DEF Of
<1>4. ASSUME NEW i \in 1 .. m + 1 PROVE next[i].weights = w
  <2>1. CASE i = m + 1
    BY <1>2, <2>1
  <2>2. CASE i # m + 1
    <3>1. i \in 1 .. m /\ i + 1 \in 1 .. m + 1
      BY <1>1, <2>2
    <3> QED
      BY <1>1, <1>2, <1>3, <3>1
  <2> QED
    BY <2>1, <2>2
<1>5. Of(next, w)
  BY <1>2, <1>4 DEF Of
<1> QED
  BY <1>5 DEF next, t

\* One call of the streaming denoiser, with the context cached or not.
LEMMA DenoiseIsTrained ==
  ASSUME session \in Configured, session' = session, NEW n \in Nat, n >= 2, n <= ClipLatents,
         NEW latents \in Seq(Sight), Len(latents) = n, NEW l \in Int,
         \A i \in 1 .. n : latents[i].latent = l + i - 1,
         NEW actions \in Seq(SUBSET Int), Len(actions) = n, actions[1] = {},
         \A i \in 2 .. n : actions[i] = Controls(l + i - 1),
         NEW cached \in Seq(Token),
         cached = <<>> \/ (Len(cached) = n - 1 /\ Consecutive(cached, l)),
         Denoise(latents, actions, cached)
  PROVE  /\ cache' \in Seq(Token) /\ Len(cache') = n - 1 /\ Consecutive(cache', l + 1)
         /\ \A v \in views' : /\ v.position = Registers + Len(v.seen) - 1
                              /\ Len(v.seen) <= Timesteps \div Stride
                              /\ AsTrained(v.seen)
         /\ \A w : Of(latents, w) /\ Of(cached, w) => Of(cache', w)
<1> DEFINE ctx == Tokens(SubSeq(latents, 1, n - 1), actions, Bos)
           old == Context0(latents, actions, cached)
           new == Denoised(latents, actions)
<1>1. n \in 2 .. n /\ n \in 1 .. n /\ n - 1 \in Nat \ {0} /\ l + n - 1 = l + (n - 1)
  OBVIOUS
<1>2. /\ ctx \in Seq(Token) /\ Len(ctx) = n - 1 /\ Consecutive(ctx, l)
      /\ \A i \in 1 .. n - 1 : ctx[i].weights = latents[i].weights
  BY ContextTokens
<1>3. old = IF cached # <<>> THEN cached ELSE ctx
  BY DEF Context0
<1>4. /\ new \in Seq(Token) /\ Len(new) = 1 /\ Led(new[1], l + n - 1)
      /\ new[1].weights = latents[n].weights
  BY <1>1, NewestToken
<1>5. views' = Views(new, old) /\ cache' = Tail(old) \o new
  BY DEF Denoise, Roll
<1> HIDE DEF ctx, old, new
<1>6. old \in Seq(Token) /\ Len(old) = n - 1 /\ Consecutive(old, l)
  BY <1>2, <1>3
<1>7. Led(new[1], l + (n - 1))
  BY <1>1, <1>4
<1> DEFINE next == Tail(old) \o new
<1>8. /\ Consecutive(old \o new, l)
      /\ next \in Seq(Token) /\ Len(next) = n - 1 /\ Consecutive(next, l + 1)
  <2>1. old # <<>> /\ Led(new[1], l + Len(old))
    BY <1>1, <1>6, <1>7
  <2> QED
    BY <1>4, <1>6, <2>1, OneMore
<1> HIDE DEF next
<1>9. Len(old) + Len(new) <= ClipLatents
  BY <1>1, <1>4, <1>6
<1>10. \A v \in views' : /\ v.position = Registers + Len(v.seen) - 1
                         /\ Len(v.seen) <= Timesteps \div Stride
                         /\ AsTrained(v.seen)
  BY <1>4, <1>5, <1>6, <1>8, <1>9, ViewsAreTrained
<1>11. ASSUME NEW w, Of(latents, w), Of(cached, w) PROVE Of(next, w)
  <2>1. \A i \in 1 .. n : latents[i].weights = w
    BY <1>11 DEF Of
  <2>2. \A i \in 1 .. n - 1 : i \in 1 .. n
    BY <1>1
  <2>3. Of(ctx, w)
    BY <1>2, <2>1, <2>2 DEF Of
  <2>4. Of(old, w)
    BY <1>3, <1>11, <2>3
  <2>5. new[1].weights = w
    BY <1>1, <1>4, <2>1
  <2>6. old # <<>>
    BY <1>1, <1>6
  <2> QED
    BY <1>4, <1>6, <2>4, <2>5, <2>6, OneMoreOf DEF next
<1> QED
  BY <1>5, <1>8, <1>10, <1>11 DEF next

-----------------------------------------------------------------------------
(* The frames that are served.                                             *)

Ascending(q) == \A i \in 2 .. Len(q) : q[i - 1] < q[i]

\* Frames that are lost leave the others in order.
LEMMA LostFramesKeepOrder ==
  ASSUME NEW a \in Int, NEW n \in Nat, NEW q \in JpegFrames([i \in 1 .. n |-> a + i - 1])
  PROVE  q \in Seq(Int) /\ Ascending(q)
<1> DEFINE all == [i \in 1 .. n |-> a + i - 1]
<1>1. Len(all) = n /\ \A i \in 1 .. n : all[i] = a + i - 1
  OBVIOUS
<1>2. PICK m \in 0 .. n :
        \E pick \in Picks(m, n) : q = [i \in 1 .. m |-> all[pick[i]]]
  <2>1. q \in JpegFrames(all)
    OBVIOUS
  <2> HIDE DEF all
  <2> QED
    BY <1>1, <2>1 DEF JpegFrames
<1>7. PICK pick \in Picks(m, n) : q = [i \in 1 .. m |-> all[pick[i]]]
  BY <1>2
<1>3. pick \in [1 .. m -> 1 .. n] /\ \A i \in 2 .. m : pick[i - 1] < pick[i]
  BY DEF Picks
<1> HIDE DEF all
<1>4. m \in Nat /\ \A i \in 1 .. m : pick[i] \in 1 .. n /\ all[pick[i]] = a + pick[i] - 1
  BY <1>1, <1>2, <1>3
<1>5. q \in Seq(Int) /\ Len(q) = m /\ \A i \in 1 .. m : q[i] = a + pick[i] - 1
  <2> DEFINE F(i) == all[pick[i]]
  <2>1. \A i \in 1 .. m : F(i) \in Int /\ F(i) = a + pick[i] - 1
    BY <1>4
  <2>2. q = [i \in 1 .. m |-> F(i)]
    BY <1>7
  <2> HIDE DEF F
  <2>3. q \in Seq(Int) /\ Len(q) = m /\ \A i \in 1 .. m : q[i] = F(i)
    BY <1>4, <2>1, <2>2
  <2> QED
    BY <2>1, <2>3
<1>6. ASSUME NEW i \in 2 .. m PROVE q[i - 1] < q[i]
  <2>1. i \in 1 .. m /\ i - 1 \in 1 .. m
    BY <1>4
  <2>2. /\ pick[i] \in 1 .. n /\ pick[i - 1] \in 1 .. n /\ pick[i - 1] < pick[i]
        /\ q[i] = a + pick[i] - 1 /\ q[i - 1] = a + pick[i - 1] - 1
    BY <1>3, <1>4, <1>5, <2>1
  <2> QED
    BY <2>2
<1> QED
  BY <1>5, <1>6 DEF Ascending

\* The first of them is shown, the others wait.
LEMMA ServedInOrder ==
  ASSUME NEW q \in Seq(Int), Ascending(q), ServeFrom(q), shown \in Int
  PROVE  buffer' \in Seq(Int) /\ shown' \in Int /\ FramesInOrder'
<1>1. CASE q = <<>>
  BY <1>1 DEF ServeFrom, FramesInOrder
<1>2. CASE q # <<>>
  <2>1. buffer' = Tail(q) /\ shown' = Head(q)
    BY <1>2 DEF ServeFrom
  <2>2. /\ Tail(q) \in Seq(Int) /\ Head(q) \in Int /\ Len(Tail(q)) = Len(q) - 1
        /\ Len(q) \in Nat \ {0}
        /\ \A i \in 1 .. Len(Tail(q)) : Tail(q)[i] = q[i + 1] /\ Head(q) = q[1]
    BY <1>2
  <2> DEFINE b == buffer'
             s == shown'
  <2>3. /\ b \in Seq(Int) /\ s \in Int /\ Len(b) = Len(q) - 1
        /\ \A i \in 1 .. Len(b) : b[i] = q[i + 1] /\ s = q[1]
    BY <2>1, <2>2
  <2> SUFFICES ASSUME NEW i \in 1 .. Len(b)
               PROVE  b[i] > IF i = 1 THEN s ELSE b[i - 1]
    BY <2>3 DEF FramesInOrder
  <2> HIDE DEF b, s
  <2>4. i + 1 \in 2 .. Len(q) /\ (i # 1 => i - 1 \in 1 .. Len(b)) /\ i + 1 - 1 = i
        /\ i - 1 + 1 = i
    BY <2>2, <2>3
  <2>5. q[i] < q[i + 1]
    BY <2>4 DEF Ascending
  <2>6. q[i] = IF i = 1 THEN s ELSE b[i - 1]
    BY <2>3, <2>4
  <2>7. q[i] \in Int /\ q[i + 1] \in Int
    BY <2>2, <2>4
  <2> QED
    BY <2>3, <2>5, <2>6, <2>7
<1> QED
  BY <1>1, <1>2

-----------------------------------------------------------------------------
(* What a step leaves alone.                                               *)

LEMMA ConditionedKept ==
  ConditionedAsTrained /\ session' = session /\ views' = views => ConditionedAsTrained'
BY DEF ConditionedAsTrained, AsTrained, Controls, Stride

LEMMA SightKept ==
  InSight /\ UNCHANGED <<session, window, cache, history, sown>> => InSight'
BY DEF InSight, AsTrained, Controls, Stride, ContextLatents

LEMMA EvaluatedKept ==
  Evaluated /\ UNCHANGED <<session, cache, made>> => Evaluated'
BY DEF Evaluated, AsTrained, Controls, Stride, ContextLatents

LEMMA OrderKept ==
  FramesInOrder /\ UNCHANGED <<buffer, shown, sown>> => FramesInOrder'
BY DEF FramesInOrder

LEMMA FreshKept ==
  ASSUME FreshAfterReload, UNCHANGED <<session, window, cache, weights, sown>>,
         reloading' = reloading \/ sown = "fresh"
  PROVE  FreshAfterReload'
BY DEF FreshAfterReload

LEMMA OnlyPlay ==
  session.kind # "play" /\ session' = session => InSight' /\ FreshAfterReload'
BY DEF InSight, FreshAfterReload

\* Of what is not of the checkpoint nothing is claimed.
LEMMA StaleOn ==
  ASSUME session' \in Shapes("play"), weights' \in Weights, cursor' \in Int, made' \in Nat,
         ConditionedAsTrained', sown' # "fresh", reloading' = {} => sown' # "swapped"
  PROVE  StreamInv'
<1>1. /\ session' \in Configured /\ session'.kind = "play" /\ session'.stride \in PlayStrides
  BY DEF Shapes
<1>2. StreamTyped' /\ InSight' /\ Evaluated' /\ FramesInOrder' /\ FreshAfterReload'
  BY <1>1 DEF StreamTyped, InSight, Evaluated, FramesInOrder, FreshAfterReload
<1> QED
  BY <1>2 DEF StreamInv

LEMMA OnlyEvaluate ==
  session.kind # "evaluate" /\ session' = session => Evaluated'
BY DEF Evaluated

LEMMA EmptyInOrder ==
  buffer' = <<>> => FramesInOrder'
BY DEF FramesInOrder

LEMMA SessionKept ==
  session' = session => Stride' = Stride /\ ContextLatents' = ContextLatents
BY DEF Stride, ContextLatents

LEMMA TrainedKept ==
  ASSUME session' = session, NEW q
  PROVE  AsTrained(q)' <=> AsTrained(q)
BY DEF AsTrained, Controls, Stride

-----------------------------------------------------------------------------
(* Recorded video and actions.                                             *)

LEMMA EncodedVideo ==
  ASSUME session \in Configured, weights \in Weights, NEW m \in Nat, NEW n, n = m * Stride
  PROVE  /\ EncodeVideo(n) \in Seq(Sight) /\ Len(EncodeVideo(n)) = m
         /\ \A i \in 1 .. m : EncodeVideo(n)[i].latent = i - 1
         /\ Of(EncodeVideo(n), weights)
<1> DEFINE F(i) == Latent(i - 1, weights)
<1>1. n \div Stride = m
  BY SessionFacts, DivideMultiple
<1>2. EncodeVideo(n) = [i \in 1 .. m |-> F(i)]
  BY <1>1 DEF EncodeVideo
<1>3. \A i \in 1 .. m : F(i) \in Sight /\ F(i).latent = i - 1 /\ F(i).weights = weights
  BY DEF Latent, Sight
<1> HIDE DEF F
<1>4. /\ EncodeVideo(n) \in Seq(Sight) /\ Len(EncodeVideo(n)) = m
      /\ \A i \in 1 .. m : EncodeVideo(n)[i] = F(i)
  BY <1>2, <1>3
<1> QED
  BY <1>3, <1>4 DEF Of

LEMMA RecordedActions ==
  ASSUME NEW n \in Nat
  PROVE  /\ Recorded(n) \in Seq(Int) /\ Len(Recorded(n)) = n
         /\ \A i \in 1 .. n : Recorded(n)[i] = i - 1
BY DEF Recorded

LEMMA SlicedActions ==
  ASSUME NEW a \in Seq(Int), NEW lo \in Nat, NEW hi \in Nat, lo <= hi, hi <= Len(a)
  PROVE  /\ SliceTime(a, lo, hi) \in Seq(Int) /\ Len(SliceTime(a, lo, hi)) = hi - lo
         /\ \A j \in 1 .. hi - lo : SliceTime(a, lo, hi)[j] = a[lo + j]
<1>1. \A i \in lo + 1 .. hi : a[i] \in Int
  OBVIOUS
<1>2. /\ SubSeq(a, lo + 1, hi) \in Seq(Int)
      /\ Len(SubSeq(a, lo + 1, hi)) = IF lo + 1 <= hi THEN hi - (lo + 1) + 1 ELSE 0
      /\ \A j \in 1 .. hi - (lo + 1) + 1 : SubSeq(a, lo + 1, hi)[j] = a[lo + 1 + j - 1]
  BY <1>1, SubSeqProperties
<1>3. hi - (lo + 1) + 1 = hi - lo /\ \A j \in Int : lo + 1 + j - 1 = lo + j
  OBVIOUS
<1> QED
  BY <1>2, <1>3 DEF SliceTime

\* What a session looks at when it was seeded.
LEMMA SeededSight ==
  ASSUME session \in Configured, weights \in Weights
  PROVE  LET z == EncodeVideo(session.context)
             h == Recorded(session.context)
         IN /\ z \in Seq(Sight) /\ Len(z) = ContextLatents /\ Of(z, weights)
            /\ \A i \in 1 .. Len(z) : z[i].latent = z[1].latent + i - 1
            /\ h \in Seq(Int) /\ Len(h) = session.context
            /\ \A i \in 1 .. Len(h) : h[i] = h[1] + i - 1
            /\ h[Len(h)] = (z[Len(z)].latent + 1) * Stride - 1
<1> DEFINE z == EncodeVideo(session.context)
           h == Recorded(session.context)
           c == ContextLatents
           n == session.context
<1>1. c \in Nat \ {0} /\ n \in Nat \ {0} /\ n = c * Stride
  BY SessionFacts
<1>2. /\ z \in Seq(Sight) /\ Len(z) = c /\ Of(z, weights)
      /\ \A i \in 1 .. c : z[i].latent = i - 1
  BY <1>1, EncodedVideo
<1>3. h \in Seq(Int) /\ Len(h) = n /\ \A i \in 1 .. n : h[i] = i - 1
  BY <1>1, RecordedActions
<1> HIDE DEF z, h, c, n
<1>4. z[1].latent = 0 /\ z[c].latent = c - 1 /\ h[1] = 0 /\ h[n] = n - 1
  BY <1>1, <1>2, <1>3
<1>5. \A i \in 1 .. c : z[i].latent = z[1].latent + i - 1
  BY <1>1, <1>2, <1>4
<1>6. \A i \in 1 .. n : h[i] = h[1] + i - 1
  BY <1>1, <1>3, <1>4
<1>7. (z[c].latent + 1) * Stride = n
  <2>1. z[c].latent + 1 = c
    BY <1>1, <1>4
  <2> QED
    BY <1>1, <2>1
<1> QED
  BY <1>2, <1>3, <1>4, <1>5, <1>6, <1>7 DEF z, h, c, n

LEMMA SeedsSight ==
  ASSUME StreamTyped, session' = session, NEW start \in Int, SeedFrom(start)
  PROVE  /\ window' \in Seq(Sight) /\ cache' \in Seq(Token) /\ history' \in Seq(Int)
         /\ buffer' \in Seq(Int) /\ shown' \in Int /\ cursor' \in Int
         /\ InSight' /\ Evaluated' /\ FramesInOrder'
         /\ weights' = weights => FreshAfterReload'
<1>1. session \in Configured /\ weights \in Weights
  BY DEF StreamTyped
<1> DEFINE z == EncodeVideo(session.context)
           h == Recorded(session.context)
<1>2. /\ window' = z /\ history' = h /\ cache' = <<>> /\ buffer' = <<>> /\ shown' = -1
      /\ sown' = "fresh"
  BY DEF SeedFrom
<1>3. /\ z \in Seq(Sight) /\ Len(z) = ContextLatents /\ Of(z, weights)
      /\ \A i \in 1 .. Len(z) : z[i].latent = z[1].latent + i - 1
      /\ h \in Seq(Int) /\ Len(h) = session.context
      /\ \A i \in 1 .. Len(h) : h[i] = h[1] + i - 1
      /\ h[Len(h)] = (z[Len(z)].latent + 1) * Stride - 1
  BY <1>1, SeededSight
<1> HIDE DEF z, h
<1>4. session.context \in Nat
  BY <1>1, SessionFacts
<1>5. InSight'
  BY <1>2, <1>3, <1>4, SessionKept DEF InSight
<1>6. Evaluated' /\ FramesInOrder'
  BY <1>2 DEF Evaluated, FramesInOrder
<1>7. ASSUME weights' = weights PROVE FreshAfterReload'
  <2>1. \A i \in 1 .. Len(window') : window'[i].weights = weights'
    BY <1>2, <1>3, <1>7 DEF Of
  <2> QED
    BY <1>2, <2>1 DEF FreshAfterReload
<1>8. cursor' \in Int
  BY <1>4, StreamingAssumption DEF SeedFrom
<1> QED
  BY <1>2, <1>3, <1>5, <1>6, <1>7, <1>8

-----------------------------------------------------------------------------
(* The steps.                                                              *)

\* The views of a step, seen from the state after it.
LEMMA ConditionedNext ==
  ASSUME session' = session,
         \A v \in views' : /\ v.position = Registers + Len(v.seen) - 1
                           /\ Len(v.seen) <= Timesteps \div Stride
                           /\ AsTrained(v.seen)
  PROVE  ConditionedAsTrained'
BY DEF ConditionedAsTrained, AsTrained, Controls, Stride

LEMMA ConsecutiveNext ==
  ASSUME session' = session, cache' \in Seq(Token), cache' # <<>>, NEW l \in Int,
         Consecutive(cache', l)
  PROVE  AsTrained(cache)' /\ cache'[1].latent = l
<1>1. AsTrained(cache') /\ cache'[1].latent = l
  BY ConsecutiveIsTrained
<1> QED
  BY <1>1 DEF AsTrained, Controls, Stride

LEMMA TrainActions ==
  ASSUME session \in Configured
  PROVE  LET a == ActionTokens(TrainingActions(Recorded(ClipFrames)))
         IN /\ a \in Seq(SUBSET Int) /\ Len(a) = ClipLatents /\ a[1] = {}
            /\ \A i \in 2 .. ClipLatents : a[i] = Controls(i - 1)
<1> DEFINE d == Stride
           t == ClipLatents
           all == Recorded(ClipFrames)
           p == (t - 1) * d
           a == TrainingActions(all)
<1>1. d \in Nat \ {0} /\ t \in Nat /\ t > 1 /\ Timesteps = t * d /\ ExtraFrames \in Nat
  BY SessionFacts, StreamingAssumption
<1>2. ClipFrames \in Nat /\ ClipFrames = t * d + ExtraFrames
  BY <1>1, StreamingAssumption DEF ClipFrames
<1>3. all \in Seq(Int) /\ Len(all) = ClipFrames /\ \A i \in 1 .. ClipFrames : all[i] = i - 1
  BY <1>2, RecordedActions
<1>4. t * d = p + d /\ p \in Nat /\ t - 1 \in Nat
  BY <1>1, NextMultiple
<1>5. a = SliceTime(all, d - 1, p + d - 1)
  BY DEF TrainingActions, Off, ClipLatents
<1> HIDE DEF all, p, a
<1>6. d - 1 \in Nat /\ p + d - 1 \in Nat /\ d - 1 <= p + d - 1 /\ p + d - 1 <= Len(all)
      /\ p + d - 1 - (d - 1) = p
  BY <1>1, <1>2, <1>3, <1>4
<1>7. a \in Seq(Int) /\ Len(a) = p /\ \A j \in 1 .. p : a[j] = all[d - 1 + j]
  <2> DEFINE lo == d - 1
             hi == p + d - 1
  <2>1. lo \in Nat /\ hi \in Nat /\ lo <= hi /\ hi <= Len(all) /\ hi - lo = p
    BY <1>1, <1>4, <1>6
  <2>2. a = SliceTime(all, lo, hi)
    BY <1>5
  <2> SUFFICES a \in Seq(Int) /\ Len(a) = p /\ \A j \in 1 .. p : a[j] = all[lo + j]
    OBVIOUS
  <2> HIDE DEF lo, hi
  <2> QED
    BY <1>3, <2>1, <2>2, SlicedActions
<1>8. \A j \in 1 .. Len(a) : a[j] = (0 + 1) * d + j - 2
  <2> SUFFICES ASSUME NEW j \in 1 .. p PROVE a[j] = (0 + 1) * d + j - 2
    BY <1>7
  <2> DEFINE x == d - 1 + j
  <2>1. x \in 1 .. ClipFrames /\ x - 1 = (0 + 1) * d + j - 2
    BY <1>1, <1>2, <1>4
  <2>2. a[j] = all[x]
    BY <1>7
  <2> HIDE DEF x
  <2> QED
    BY <1>3, <2>1, <2>2
<1> DEFINE m == t - 1
<1>9. m \in Nat /\ m + 1 = t /\ Len(a) = m * d /\ 0 \in Int
  BY <1>1, <1>4, <1>7 DEF p
<1> HIDE DEF m
<1>10. /\ ActionTokens(a) \in Seq(SUBSET Int) /\ Len(ActionTokens(a)) = m + 1
       /\ ActionTokens(a)[1] = {}
       /\ \A i \in 2 .. m + 1 : ActionTokens(a)[i] = Controls(0 + i - 1)
  BY <1>7, <1>8, <1>9, ActionTokensAre
<1>11. \A i \in Int : 0 + i - 1 = i - 1
  OBVIOUS
<1> QED
  BY <1>9, <1>10, <1>11 DEF a, all

LEMMA TrainStepKeeps ==
  StreamInv /\ TrainStep => StreamInv'
<1> SUFFICES ASSUME StreamInv, TrainStep PROVE StreamInv'
  OBVIOUS
<1>1. /\ session.kind = "train" /\ ForwardClip /\ made' = made + 1
      /\ UNCHANGED <<session, weights, window, cache, history, buffer, shown, cursor,
                     reloading, sown>>
  BY DEF TrainStep
<1>2. session \in Configured /\ weights \in Weights
  BY DEF StreamInv, StreamTyped
<1> DEFINE z == EncodeVideo(Timesteps)
           a == ActionTokens(TrainingActions(Recorded(ClipFrames)))
           q == Tokens(z, a, Bos)
           t == ClipLatents
<1>3. t \in Nat /\ t > 1 /\ Timesteps = t * Stride
  BY <1>2, SessionFacts
<1>4. z \in Seq(Sight) /\ Len(z) = t /\ \A i \in 1 .. t : z[i].latent = i - 1
  BY <1>2, <1>3, EncodedVideo
<1>5. /\ a \in Seq(SUBSET Int) /\ Len(a) = t /\ a[1] = {}
      /\ \A i \in 2 .. t : a[i] = Controls(i - 1)
  BY <1>2, TrainActions
<1>6. views' = Views(q, <<>>)
  BY <1>1 DEF ForwardClip
<1> HIDE DEF z, a, q, t
<1>7. \A i \in Int : 0 + i - 1 = i - 1
  OBVIOUS
<1>8. Consecutive(Tokens(z, a, Bos), 0) /\ Tokens(z, a, Bos) \in Seq(Token)
      /\ Len(Tokens(z, a, Bos)) = t
  <2>1. z # <<>> /\ Bos \in Int /\ Len(z) <= Len(a) /\ 0 \in Int
    BY <1>3, <1>4, <1>5 DEF Bos
  <2>2. \A i \in 1 .. Len(z) : z[i].latent = 0 + i - 1
    BY <1>4, <1>7
  <2>3. \A i \in 2 .. Len(z) : a[i] = Controls(0 + i - 1)
    BY <1>4, <1>5, <1>7
  <2> QED
    BY <1>4, <1>5, <2>1, <2>2, <2>3, FreshTokens, TokensAre
<1>9. q \in Seq(Token) /\ Len(q) = t /\ Consecutive(<<>> \o q, 0)
  <2>1. <<>> \o q = q
    BY <1>8 DEF q
  <2> QED
    BY <1>8, <2>1 DEF q
<1>10. \A v \in Views(q, <<>>) : /\ v.position = Registers + Len(v.seen) - 1
                                 /\ Len(v.seen) <= Timesteps \div Stride
                                 /\ AsTrained(v.seen)
  <2>1. <<>> \in Seq(Token) /\ Len(<<>>) = 0 /\ 0 + t = t /\ t <= t /\ 0 \in Int
    BY <1>3
  <2> QED
    BY <1>2, <1>9, <2>1, ViewsAreTrained DEF t
<1>11. ConditionedAsTrained'
  BY <1>1, <1>6, <1>10, ConditionedNext
<1>12. StreamTyped'
  BY <1>1 DEF StreamInv, StreamTyped, Sown
<1> QED
  BY <1>1, <1>11, <1>12, OnlyPlay, OnlyEvaluate, OrderKept DEF StreamInv

LEMMA QuotientBound ==
  ASSUME NEW n \in Nat, NEW d \in Nat \ {0}, NEW x \in Nat, x < n \div d
  PROVE  (x + 1) * d <= n
<1>1. n \div d \in Nat /\ (n \div d) * d <= n
  OBVIOUS
<1>2. (x + 1) * d <= (n \div d) * d
  BY <1>1, MultiplesMonotone
<1>3. (x + 1) * d \in Int /\ (n \div d) * d \in Int
  BY <1>1, NextMultiple
<1> QED
  BY <1>1, <1>2, <1>3

LEMMA EvaluateActions ==
  ASSUME session \in Configured, NEW x \in Nat, x + ContextLatents < ClipFrames \div Stride
  PROVE  LET a == ActionTokens(EvaluationActions(Recorded(ClipFrames), x))
         IN /\ a \in Seq(SUBSET Int) /\ Len(a) = ContextLatents + 1 /\ a[1] = {}
            /\ \A i \in 2 .. ContextLatents + 1 : a[i] = Controls(x + i - 1)
<1> DEFINE d == Stride
           c == ContextLatents
           all == Recorded(ClipFrames)
           p == x * d
           r == c * d
           a == EvaluationActions(all, x)
<1>1. d \in Nat \ {0} /\ c \in Nat \ {0} /\ ClipFrames \in Nat
  BY SessionFacts, StreamingAssumption DEF ClipFrames
<1>2. (x + c + 1) * d <= ClipFrames
  BY <1>1, QuotientBound
<1>3. all \in Seq(Int) /\ Len(all) = ClipFrames /\ \A i \in 1 .. ClipFrames : all[i] = i - 1
  BY <1>1, RecordedActions
<1>4. p \in Nat /\ r \in Nat /\ (x + c) * d = p + r /\ (x + c + 1) * d = p + r + d
      /\ (x + 1) * d = p + d
  BY <1>1
<1>5. a = SliceTime(all, p + d - 1, p + r + d - 1)
  <2>1. a = SliceTime(all, x * d + (d - 1), (x + c) * d + (d - 1))
    BY DEF EvaluationActions, Off
  <2>2. x * d + (d - 1) = p + d - 1 /\ (x + c) * d + (d - 1) = p + r + d - 1
    BY <1>1, <1>4
  <2> QED
    BY <2>1, <2>2
<1> HIDE DEF all, p, r, a
<1>6. /\ p + d - 1 \in Nat /\ p + r + d - 1 \in Nat /\ p + d - 1 <= p + r + d - 1
      /\ p + r + d - 1 <= ClipFrames /\ p + r + d - 1 - (p + d - 1) = r
  BY <1>1, <1>2, <1>4
<1>7. a \in Seq(Int) /\ Len(a) = r /\ \A j \in 1 .. r : a[j] = all[p + d - 1 + j]
  <2> DEFINE lo == p + d - 1
             hi == p + r + d - 1
  <2>1. lo \in Nat /\ hi \in Nat /\ lo <= hi /\ hi <= Len(all) /\ hi - lo = r
    BY <1>1, <1>3, <1>4, <1>6
  <2>2. a = SliceTime(all, lo, hi)
    BY <1>5
  <2> SUFFICES a \in Seq(Int) /\ Len(a) = r /\ \A j \in 1 .. r : a[j] = all[lo + j]
    OBVIOUS
  <2> HIDE DEF lo, hi
  <2> QED
    BY <1>3, <2>1, <2>2, SlicedActions
<1>8. \A j \in 1 .. Len(a) : a[j] = (x + 1) * d + j - 2
  <2> SUFFICES ASSUME NEW j \in 1 .. r PROVE a[j] = (x + 1) * d + j - 2
    BY <1>7
  <2> DEFINE y == p + d - 1 + j
  <2>1. y \in 1 .. ClipFrames /\ y - 1 = p + d + j - 2
    BY <1>1, <1>2, <1>4
  <2>2. a[j] = all[y]
    BY <1>7
  <2>3. (x + 1) * d + j - 2 = p + d + j - 2
    BY <1>4
  <2> HIDE DEF y
  <2> QED
    BY <1>3, <2>1, <2>2, <2>3
<1>9. Len(a) = c * d /\ c \in Nat /\ x \in Int
  BY <1>1, <1>7 DEF r
<1> QED
  BY <1>7, <1>8, <1>9, ActionTokensAre DEF a, all

LEMMA EvaluateKeeps ==
  StreamInv /\ Evaluate => StreamInv'
<1> SUFFICES ASSUME StreamInv, Evaluate PROVE StreamInv'
  OBVIOUS
<1> DEFINE c == ContextLatents
           a == ActionTokens(EvaluationActions(Recorded(ClipFrames), made))
           z == [i \in 1 .. c + 1 |-> Latent(made + i - 1, weights)]
           n == c + 1
<1>1. /\ session.kind = "evaluate" /\ made + c < ClipFrames \div Stride
      /\ Denoise(z, a, cache) /\ made' = made + 1
      /\ UNCHANGED <<session, weights, window, history, buffer, shown, cursor, reloading,
                     sown>>
  BY DEF Evaluate
<1>2. session \in Configured /\ weights \in Weights /\ made \in Nat /\ cache \in Seq(Token)
  BY <1>1 DEF StreamInv, StreamTyped, Sown
<1>3. c \in Nat \ {0} /\ c < ClipLatents /\ ClipLatents \in Nat
  BY <1>2, SessionFacts
<1>4. a \in Seq(SUBSET Int) /\ Len(a) = n /\ a[1] = {}
      /\ \A i \in 2 .. n : a[i] = Controls(made + i - 1)
  BY <1>1, <1>2, EvaluateActions
<1>5. z \in Seq(Sight) /\ Len(z) = n /\ \A i \in 1 .. n : z[i].latent = made + i - 1
  <2> DEFINE F(i) == Latent(made + i - 1, weights)
  <2>1. \A i \in 1 .. n : F(i) \in Sight /\ F(i).latent = made + i - 1
    BY <1>2, <1>3 DEF Latent, Sight
  <2>2. z = [i \in 1 .. n |-> F(i)] /\ n \in Nat
    BY <1>3
  <2> HIDE DEF F, z, n
  <2> QED
    BY <2>1, <2>2
<1>6. n \in Nat /\ n >= 2 /\ n <= ClipLatents /\ n - 1 = c
  BY <1>3
<1> HIDE DEF a, z, n
<1>7. cache = <<>> \/ (Len(cache) = n - 1 /\ Consecutive(cache, made))
  <2>1. CASE cache # <<>>
    <3>1. Len(cache) = c /\ AsTrained(cache) /\ cache[1].latent = made
      BY <1>1, <2>1 DEF StreamInv, Evaluated
    <3> QED
      BY <1>2, <1>6, <2>1, <3>1, ConsecutiveIsTrained
  <2> QED
    BY <2>1
<1>8. /\ cache' \in Seq(Token) /\ Len(cache') = c /\ Consecutive(cache', made + 1)
      /\ \A v \in views' : /\ v.position = Registers + Len(v.seen) - 1
                           /\ Len(v.seen) <= Timesteps \div Stride
                           /\ AsTrained(v.seen)
  <2>1. made \in Int /\ session' = session
    BY <1>1, <1>2
  <2>2. /\ cache' \in Seq(Token) /\ Len(cache') = n - 1 /\ Consecutive(cache', made + 1)
        /\ \A v \in views' : /\ v.position = Registers + Len(v.seen) - 1
                             /\ Len(v.seen) <= Timesteps \div Stride
                             /\ AsTrained(v.seen)
    BY <1>1, <1>2, <1>4, <1>5, <1>6, <1>7, <2>1, DenoiseIsTrained
  <2> QED
    BY <1>6, <2>2
<1>9. ConditionedAsTrained'
  BY <1>1, <1>8, ConditionedNext
<1>10. Evaluated'
  <2>1. cache' # <<>> /\ made + 1 \in Int
    BY <1>2, <1>3, <1>8
  <2>2. AsTrained(cache)' /\ cache'[1].latent = made + 1
    BY <1>1, <1>8, <2>1, ConsecutiveNext
  <2> QED
    BY <1>1, <1>8, <2>2, SessionKept DEF Evaluated
<1>11. StreamTyped'
  BY <1>1, <1>2, <1>8 DEF StreamInv, StreamTyped, Sown
<1> QED
  BY <1>1, <1>9, <1>10, <1>11, OnlyPlay, OrderKept DEF StreamInv

\* The held control, once for every frame, of which the newest are kept.
LEMMA HeldActions ==
  ASSUME StreamTyped, InSight, session.kind = "play", sown = "fresh"
  PROVE  /\ Held \in Seq(Int) /\ Len(Held) \in Nat /\ Len(Held) >= session.context
         /\ \A i \in 1 .. Len(Held) : Held[i] = Held[1] + i - 1
         /\ Held[Len(Held)] = history[Len(history)] + Stride
<1> DEFINE h == history
           m == Len(h)
           d == Stride
           c == session.context
           more == [i \in 1 .. d |-> h[m] + 1 + i - 1]
           all == h \o more
           top == Len(all)
           lo == IF top > HistoryCap THEN top - HistoryCap + 1 ELSE 1
           kk == SubSeq(all, lo, top)
<1>1. h \in Seq(Int) /\ m \in Nat /\ m >= c /\ \A i \in 1 .. m : h[i] = h[1] + i - 1
  BY DEF StreamTyped, Sown, InSight
<1>2. session \in Configured
  BY DEF StreamTyped
<1>3. /\ d \in Nat \ {0} /\ c \in Nat \ {0} /\ c < Timesteps
      /\ HistoryCap \in Nat /\ HistoryCap >= c
  <2>1. /\ d \in Nat \ {0} /\ c \in Nat \ {0} /\ c = ContextLatents * Stride
        /\ Timesteps = ClipLatents * Stride /\ ContextLatents < ClipLatents
        /\ ContextLatents \in Nat /\ ClipLatents \in Nat
    BY <1>2, SessionFacts
  <2>2. ContextLatents + 1 <= ClipLatents
    BY <2>1
  <2>3. (ContextLatents + 1) * Stride <= Timesteps
    BY <2>1, <2>2, MultiplesMonotone
  <2>4. (ContextLatents + 1) * Stride = c + d
    BY <2>1, NextMultiple
  <2>5. Timesteps \in Nat /\ HistoryCap \in Nat /\ HistoryCap >= 2 * Timesteps
    BY StreamingAssumption
  <2> QED
    BY <2>1, <2>3, <2>4, <2>5
<1>4. Held = kk
  BY DEF Held
<1> HIDE DEF h, m, d, c
<1>5. h[1] \in Int /\ h[m] = h[1] + m - 1 /\ Len(h) = m
  BY <1>1, <1>3 DEF m
<1>6. more \in Seq(Int) /\ Len(more) = d /\ \A i \in 1 .. d : more[i] = h[1] + m + i - 1
  <2> DEFINE F(i) == h[m] + 1 + i - 1
  <2>1. \A i \in 1 .. d : F(i) \in Int /\ F(i) = h[1] + m + i - 1
    BY <1>1, <1>3, <1>5
  <2>2. more = [i \in 1 .. d |-> F(i)] /\ d \in Nat
    BY <1>3
  <2> HIDE DEF F, more
  <2>3. more \in Seq(Int) /\ Len(more) = d /\ \A i \in 1 .. d : more[i] = F(i)
    BY <2>1, <2>2
  <2> QED
    BY <2>1, <2>3
<1> HIDE DEF more
<1>7. /\ all \in Seq(Int) /\ Len(all) = m + d
      /\ \A i \in 1 .. m + d : all[i] = IF i <= m THEN h[i] ELSE more[i - m]
  BY <1>1, <1>3, <1>5, <1>6, ConcatProperties
<1> HIDE DEF all
<1>8. \A i \in 1 .. m + d : all[i] = h[1] + i - 1
  <2> SUFFICES ASSUME NEW i \in 1 .. m + d PROVE all[i] = h[1] + i - 1
    OBVIOUS
  <2>1. CASE i <= m
    <3>1. i \in 1 .. m
      BY <1>1, <1>3, <2>1
    <3> QED
      BY <1>1, <1>7, <2>1, <3>1
  <2>2. CASE ~(i <= m)
    <3>1. i - m \in 1 .. d /\ h[1] + m + (i - m) - 1 = h[1] + i - 1
      BY <1>1, <1>3, <1>5, <2>2
    <3> QED
      BY <1>6, <1>7, <2>2, <3>1
  <2> QED
    BY <2>1, <2>2
<1>9. /\ top = m + d /\ top \in Nat /\ lo \in 1 .. top /\ top - lo + 1 >= c
      /\ top - lo + 1 \in Nat \ {0}
  BY <1>1, <1>3, <1>7
<1> HIDE DEF lo, top
<1>10. /\ kk \in Seq(Int) /\ Len(kk) = top - lo + 1
       /\ \A i \in 1 .. top - lo + 1 : kk[i] = all[lo + i - 1]
  <2>1. \A i \in lo .. top : all[i] \in Int
    BY <1>5, <1>8, <1>9
  <2> QED
    BY <1>9, <2>1, SubSeqProperties
<1> HIDE DEF kk
<1>11. ASSUME NEW i \in 1 .. Len(kk) PROVE kk[i] = h[1] + lo + i - 2
  <2> DEFINE y == lo + i - 1
  <2>3. i \in 1 .. top - lo + 1
    BY <1>10
  <2>1. y \in 1 .. m + d /\ h[1] + y - 1 = h[1] + lo + i - 2
    <3>1. m \in Nat /\ h[1] \in Int
      BY <1>1, <1>5
    <3>2. y \in Int /\ y >= 1 /\ y <= top
      BY <1>9, <2>3
    <3>3. y \in 1 .. m + d
      BY <1>3, <1>9, <3>1, <3>2
    <3>4. h[1] + y - 1 = h[1] + lo + i - 2
      BY <1>9, <2>3, <3>1
    <3> QED
      BY <3>3, <3>4
  <2>2. kk[i] = all[y]
    BY <1>9, <1>10, <2>3
  <2> HIDE DEF y
  <2> QED
    BY <1>8, <2>1, <2>2
<1> DEFINE e == Len(kk)
           x == h[1]
<1>15. e \in Nat \ {0} /\ e = top - lo + 1 /\ 1 \in 1 .. e /\ e \in 1 .. e /\ x \in Int
       /\ \A i \in 1 .. e : kk[i] = x + lo + i - 2
  BY <1>5, <1>9, <1>10, <1>11
<1>12. kk[1] = h[1] + lo - 1 /\ kk[Len(kk)] = h[1] + top - 1
  <2>1. kk[1] = x + lo + 1 - 2 /\ kk[e] = x + lo + e - 2
    BY <1>15
  <2> HIDE DEF e, x
  <2>2. kk[1] = x + lo - 1 /\ kk[e] = x + top - 1
    BY <1>9, <1>15, <2>1
  <2> QED
    BY <2>2 DEF e, x
<1>13. \A i \in 1 .. Len(kk) : kk[i] = kk[1] + i - 1
  <2> SUFFICES ASSUME NEW i \in 1 .. e PROVE kk[i] = kk[1] + i - 1
    OBVIOUS
  <2>1. kk[i] = x + lo + i - 2 /\ kk[1] = x + lo - 1
    BY <1>12, <1>15
  <2> HIDE DEF e, x
  <2> QED
    BY <1>9, <1>15, <2>1
<1>14. kk[Len(kk)] = h[m] + d
  BY <1>1, <1>3, <1>5, <1>9, <1>12
<1> QED
  BY <1>4, <1>9, <1>10, <1>13, <1>14 DEF h, m, d, c

\* At two frames per latent, the actions counted from the newest are those of
\* the latents in sight and of the one to make.
LEMMA LiveTokens ==
  ASSUME session \in Configured, Stride = 2, NEW c \in Nat, c > 1, NEW g \in Seq(Int),
         Len(g) >= c * 2, NEW f \in Int,
         \A i \in 1 .. Len(g) : g[i] = g[1] + i - 1, g[Len(g)] = (f + c) * 2 + 1
  PROVE  LET a == ActionTokens(LiveActions(g, c))
         IN /\ a \in Seq(SUBSET Int) /\ Len(a) = c /\ a[1] = {}
            /\ \A i \in 2 .. c : a[i] = Controls(f + 1 + i - 1)
<1> DEFINE n == Len(g)
           lo == n - (c - 1) * 2 - 1
           hi == n - 1
           a == LiveActions(g, c)
<1>1. n \in Nat /\ n >= c * 2
  OBVIOUS
<1>2. lo \in Nat /\ hi \in Nat /\ lo <= hi /\ hi <= n /\ hi - lo = (c - 1) * 2
      /\ lo = n - c * 2 + 1
  BY <1>1
<1>3. a = SliceTime(g, lo, hi)
  BY DEF LiveActions, Off
<1>4. g[1] = (f + c) * 2 + 2 - n
  <2>1. n \in 1 .. n
    BY <1>1
  <2>2. g[1] \in Int
    BY <1>1
  <2>3. g[n] = g[1] + n - 1
    BY <2>1
  <2> QED
    BY <1>1, <2>2, <2>3
<1> HIDE DEF n, lo, hi, a
<1>5. n = Len(g)
  BY DEF n
<1>6. a \in Seq(Int) /\ Len(a) = hi - lo /\ \A j \in 1 .. hi - lo : a[j] = g[lo + j]
  BY <1>2, <1>3, <1>5, SlicedActions
<1>7. \A j \in 1 .. Len(a) : a[j] = (f + 1 + 1) * 2 + j - 2
  <2> SUFFICES ASSUME NEW j \in 1 .. hi - lo PROVE a[j] = (f + 1 + 1) * 2 + j - 2
    BY <1>6
  <2> DEFINE x == lo + j
  <2>1. x \in 1 .. n /\ x = n - c * 2 + 1 + j
    BY <1>1, <1>2
  <2>2. a[j] = g[x]
    BY <1>6
  <2> HIDE DEF x
  <2>3. g[x] = g[1] + x - 1
    BY <1>5, <2>1
  <2> QED
    BY <1>1, <1>4, <2>1, <2>2, <2>3
<1>8. Len(a) = (c - 1) * 2 /\ c - 1 \in Nat /\ f + 1 \in Int /\ c - 1 + 1 = c
  BY <1>2, <1>6
<1> DEFINE k0 == c - 1
           l == f + 1
<1>9. /\ k0 \in Nat /\ l \in Int /\ Len(a) = k0 * Stride /\ k0 + 1 = c
      /\ \A j \in 1 .. Len(a) : a[j] = (l + 1) * Stride + j - 2
  BY <1>7, <1>8
<1> HIDE DEF k0, l
<1>10. /\ ActionTokens(a) \in Seq(SUBSET Int) /\ Len(ActionTokens(a)) = k0 + 1
       /\ ActionTokens(a)[1] = {}
       /\ \A i \in 2 .. k0 + 1 : ActionTokens(a)[i] = Controls(l + i - 1)
  BY <1>6, <1>9, ActionTokensAre
<1> QED
  BY <1>9, <1>10 DEF a, l

LEMMA LatentStepKeeps ==
  StreamInv /\ PlayStrides \subseteq {2} /\ LatentStep => StreamInv'
<1> SUFFICES ASSUME StreamInv, PlayStrides \subseteq {2}, LatentStep PROVE StreamInv'
  OBVIOUS
<1> DEFINE c == ContextLatents
           f == window[1].latent
<1>1. /\ session.kind = "play" /\ made' = made + 1 /\ history' = Held /\ sown = "fresh"
      /\ UNCHANGED <<session, weights, cursor, reloading, sown>>
  BY DEF LatentStep
<1>2. /\ session \in Configured /\ weights \in Weights /\ made \in Nat /\ shown \in Int
      /\ window \in Seq(Sight) /\ cache \in Seq(Token) /\ history \in Seq(Int)
      /\ buffer \in Seq(Int) /\ Stride = 2 /\ StreamTyped /\ InSight
  BY <1>1 DEF StreamInv, StreamTyped, Sown, Stride
<1>3. /\ c \in Nat \ {0} /\ c < ClipLatents /\ ClipLatents \in Nat
      /\ session.context = c * Stride
  BY <1>2, SessionFacts
<1>4. /\ Len(window) = c /\ \A i \in 1 .. c : window[i].latent = f + i - 1
      /\ f \in Int
  <2>1. /\ Len(window) = c
        /\ \A i \in 1 .. Len(window) : window[i].latent = f + i - 1
    BY <1>1, <1>2 DEF InSight
  <2>2. window[1] \in Sight
    BY <1>2, <1>3, <2>1
  <2> QED
    BY <2>1, <2>2 DEF Sight
<1>5. /\ Held \in Seq(Int) /\ Len(Held) \in Nat /\ Len(Held) >= session.context
      /\ \A i \in 1 .. Len(Held) : Held[i] = Held[1] + i - 1
      /\ Held[Len(Held)] = history[Len(history)] + Stride
  BY <1>1, <1>2, HeldActions
<1>6. Evaluated'
  BY <1>1, OnlyEvaluate
<1>7. CASE c = 1
  <2>1. UNCHANGED <<views, cache, window, buffer, shown>>
    BY <1>3, <1>4, <1>7 DEF LatentStep
  <2>2. StreamTyped'
    BY <1>1, <1>2, <1>5, <2>1 DEF StreamTyped, Sown
  <2>3. InSight'
    <3>1. cache # <<>> => AsTrained(cache)'
      BY <1>1, <1>2, <2>1 DEF InSight, AsTrained, Controls, Stride
    <3>2. Len(window') = c /\ \A i \in 1 .. Len(window') :
                                window'[i].latent = window'[1].latent + i - 1
      BY <1>4, <2>1
    <3>3. cache # <<>> => Len(cache) = c - 1 /\ cache[1].latent = window[1].latent + 1
      BY <1>1, <1>2 DEF InSight
    <3> QED
      BY <1>1, <1>5, <1>7, <2>1, <3>1, <3>2, <3>3, SessionKept DEF InSight
  <2> QED
    BY <1>1, <1>6, <2>1, <2>2, <2>3, ConditionedKept, OrderKept, FreshKept DEF StreamInv
<1>8. CASE c > 1
  <2> DEFINE z == Slid
             h == Held
             a == ActionTokens(LiveActions(h, c))
  <2>1. /\ Denoise(z, a, cache) /\ window' = z
        /\ \E q \in JpegFrames(DecodeToVideo(z[Len(z)])) : ServeFrom(q)
    BY <1>1, <1>4, <1>8 DEF LatentStep
  <2>2. /\ z \in Seq(Sight) /\ Len(z) = c /\ \A i \in 1 .. c : z[i].latent = f + i
        /\ Of(window, weights) => Of(z, weights)
    <3> DEFINE t == Tail(window)
               new == Latent(window[Len(window)].latent + 1, weights)
    <3>1. c \in 1 .. c /\ window[Len(window)].latent = f + c - 1
      BY <1>3, <1>4
    <3>2. new \in Sight /\ new.latent = f + c /\ new.weights = weights
      BY <1>2, <1>3, <1>4, <3>1 DEF Latent, Sight
    <3>3. /\ t \in Seq(Sight) /\ Len(t) = c - 1 /\ c - 1 \in Nat
          /\ \A i \in 1 .. c - 1 : t[i] = window[i + 1]
      BY <1>2, <1>3, <1>4
    <3>4. z = Append(t, new)
      BY DEF Slid
    <3> HIDE DEF t, new, z
    <3>5. /\ z \in Seq(Sight) /\ Len(z) = c - 1 + 1 /\ z[c - 1 + 1] = new
          /\ \A i \in 1 .. c - 1 : z[i] = t[i]
      BY <3>2, <3>3, <3>4, AppendProperties
    <3>6. c - 1 + 1 = c
      BY <1>3
    <3>7. ASSUME NEW i \in 1 .. c PROVE z[i].latent = f + i
      <4>1. CASE i = c
        BY <3>2, <3>5, <3>6, <4>1
      <4>2. CASE i # c
        <5>1. i \in 1 .. c - 1 /\ i + 1 \in 1 .. c /\ f + (i + 1) - 1 = f + i
          BY <1>3, <1>4, <4>2
        <5> QED
          BY <1>4, <3>3, <3>5, <5>1
      <4> QED
        BY <4>1, <4>2
    <3>8. ASSUME Of(window, weights), NEW i \in 1 .. c PROVE z[i].weights = weights
      <4>1. CASE i = c
        BY <3>2, <3>5, <3>6, <4>1
      <4>2. CASE i # c
        <5>1. i \in 1 .. c - 1 /\ i + 1 \in 1 .. Len(window)
          BY <1>3, <1>4, <4>2
        <5> QED
          BY <3>3, <3>5, <3>8, <5>1 DEF Of
      <4> QED
        BY <4>1, <4>2
    <3> QED
      BY <3>5, <3>6, <3>7, <3>8 DEF Of
  <2>3. /\ Len(h) >= c * 2 /\ h \in Seq(Int) /\ Len(h) \in Nat
        /\ \A i \in 1 .. Len(h) : h[i] = h[1] + i - 1
        /\ h[Len(h)] = (f + c) * 2 + 1
    <3>1. history[Len(history)] = (window[Len(window)].latent + 1) * Stride - 1
      BY <1>1, <1>2, <1>8 DEF InSight
    <3>2. c \in 1 .. c
      BY <1>3
    <3>3. history[Len(history)] = (f + c - 1 + 1) * 2 - 1
      BY <1>2, <1>4, <3>1, <3>2
    <3>4. (f + c - 1 + 1) * 2 - 1 + 2 = (f + c) * 2 + 1
      BY <1>3, <1>4
    <3> HIDE DEF h
    <3>5. Held = h
      BY DEF h
    <3> QED
      BY <1>2, <1>3, <1>5, <3>3, <3>4, <3>5
  <2> HIDE DEF h, z
  <2>4. /\ a \in Seq(SUBSET Int) /\ Len(a) = c /\ a[1] = {}
        /\ \A i \in 2 .. c : a[i] = Controls(f + 1 + i - 1)
    <3>1. c \in Nat /\ c > 1 /\ session \in Configured /\ Stride = 2 /\ f \in Int
      BY <1>2, <1>3, <1>4, <1>8
    <3> HIDE DEF c, f
    <3> QED
      BY <2>3, <3>1, LiveTokens
  <2> HIDE DEF a
  <2> DEFINE l == f + 1
  <2>5. /\ l \in Int /\ \A i \in 1 .. c : z[i].latent = l + i - 1
        /\ \A i \in 2 .. c : a[i] = Controls(l + i - 1)
    <3>1. l \in Int /\ \A i \in Int : l + i - 1 = f + i
      BY <1>4
    <3> QED
      BY <2>2, <2>4, <3>1
  <2>6. cache = <<>> \/ (Len(cache) = c - 1 /\ Consecutive(cache, l))
    <3>1. cache # <<>> => Len(cache) = c - 1 /\ AsTrained(cache) /\ cache[1].latent = l
      BY <1>1, <1>2 DEF InSight
    <3> HIDE DEF l
    <3> QED
      BY <1>2, <2>5, <3>1, ConsecutiveIsTrained
  <2>7. c >= 2 /\ c <= ClipLatents /\ c \in Nat /\ session' = session
    BY <1>1, <1>3, <1>8
  <2> HIDE DEF l
  <2>8. /\ cache' \in Seq(Token) /\ Len(cache') = c - 1 /\ Consecutive(cache', l + 1)
        /\ \A v \in views' : /\ v.position = Registers + Len(v.seen) - 1
                             /\ Len(v.seen) <= Timesteps \div Stride
                             /\ AsTrained(v.seen)
        /\ \A w : Of(z, w) /\ Of(cache, w) => Of(cache', w)
    BY <1>2, <2>1, <2>2, <2>4, <2>5, <2>6, <2>7, DenoiseIsTrained
  <2>9. ConditionedAsTrained'
    BY <1>1, <2>8, ConditionedNext
  <2>10. buffer' \in Seq(Int) /\ shown' \in Int /\ FramesInOrder'
    <3>1. PICK q \in JpegFrames(DecodeToVideo(z[Len(z)])) : ServeFrom(q)
      BY <2>1
    <3>2. z[Len(z)].latent = f + c
      BY <1>3, <2>2
    <3> DEFINE p == z[Len(z)].latent * Stride
    <3>3. p \in Int /\ Stride \in Nat
      BY <1>2, <1>3, <1>4, <3>2
    <3>4. DecodeToVideo(z[Len(z)]) = [i \in 1 .. Stride |-> p + i - 1]
      BY DEF DecodeToVideo
    <3> HIDE DEF p
    <3>5. q \in Seq(Int) /\ Ascending(q)
      BY <3>1, <3>3, <3>4, LostFramesKeepOrder
    <3> QED
      BY <1>2, <3>1, <3>5, ServedInOrder
  <2>11. StreamTyped'
    BY <1>1, <1>2, <1>5, <2>1, <2>2, <2>8, <2>10 DEF StreamTyped, Sown
  <2>12. InSight'
    <3>1. cache' # <<>> /\ l + 1 \in Int
      BY <1>3, <1>8, <2>5, <2>8
    <3>2. AsTrained(cache)' /\ cache'[1].latent = l + 1
      BY <1>1, <2>8, <3>1, ConsecutiveNext
    <3>3. /\ window' = z /\ z[1].latent = f + 1 /\ z[c].latent = f + c
          /\ \A i \in 1 .. Len(z) : z[i].latent = z[1].latent + i - 1
      <4>1. 1 \in 1 .. c /\ c \in 1 .. c
        BY <1>3
      <4>2. z[1].latent = f + 1 /\ z[c].latent = f + c
        BY <2>2, <4>1
      <4>3. ASSUME NEW i \in 1 .. c PROVE z[i].latent = f + 1 + i - 1
        BY <2>5 DEF l
      <4> QED
        BY <2>1, <2>2, <4>2, <4>3
    <3>4. (f + c) * 2 + 1 = (f + c + 1) * Stride - 1
      BY <1>2, <1>3, <1>4
    <3>5. /\ Len(history') >= session.context
          /\ \A i \in 1 .. Len(history') : history'[i] = history'[1] + i - 1
          /\ history'[Len(history')] = (window'[Len(window')].latent + 1) * Stride - 1
      BY <1>1, <1>5, <2>2, <2>3, <3>3, <3>4 DEF h
    <3>6. cache'[1].latent = window'[1].latent + 1
      BY <3>2, <3>3 DEF l
    <3> QED
      BY <1>1, <2>2, <2>8, <3>2, <3>3, <3>5, <3>6, SessionKept DEF InSight
  <2>13. FreshAfterReload'
    <3> SUFFICES Of(window', weights) /\ Of(cache', weights)
      BY <1>1 DEF FreshAfterReload, Of
    <3>1. Of(window, weights) /\ Of(cache, weights)
      BY <1>1 DEF StreamInv, FreshAfterReload, Of
    <3> QED
      BY <2>1, <2>2, <2>8, <3>1
  <2> QED
    BY <1>6, <2>9, <2>10, <2>11, <2>12, <2>13 DEF StreamInv
<1> QED
  BY <1>3, <1>7, <1>8

\* The steps that compute no latent, or none of the checkpoint that runs.
LEMMA OtherStreamSteps ==
  ASSUME StreamInv,
         \/ ReduceGradients \/ ServeBuffered \/ CodecStep \/ CodecReseed \/ CodecReload
         \/ StaleStep \/ ReseedModel
         \/ \E tab \in Tabs : Reload(tab) \/ ReloadSeeds(tab) \/ ReseedRaises(tab)
  PROVE  StreamInv'
<1>1. /\ StreamTyped /\ InSight /\ Evaluated
      /\ ConditionedAsTrained /\ FramesInOrder /\ FreshAfterReload
  BY DEF StreamInv
<1>2. CASE ReduceGradients
  <2>1. UNCHANGED <<session, weights, window, cache, history, views, buffer, shown,
                    cursor, reloading, sown, made>>
    BY <1>2 DEF ReduceGradients
  <2>2. StreamTyped'
    BY <1>1, <2>1 DEF StreamTyped, Sown
  <2> QED
    BY <1>1, <2>1, <2>2, ConditionedKept, SightKept, EvaluatedKept, OrderKept, FreshKept
    DEF StreamInv
<1>s. /\ session \in Configured /\ weights \in Weights /\ cursor \in Int /\ made \in Nat
      /\ sown # "fresh" => session \in Shapes("play")
      /\ sown # "fresh" /\ reloading = {} => sown # "swapped"
  BY <1>1 DEF StreamTyped, Shapes, FreshAfterReload
<1>f. CASE ServeBuffered /\ sown # "fresh"
  <2>1. UNCHANGED <<session, weights, views, cursor, reloading, made, sown>>
    BY <1>f DEF ServeBuffered
  <2>2. ConditionedAsTrained'
    BY <1>1, <2>1, ConditionedKept
  <2> QED
    BY <1>s, <1>f, <2>1, <2>2, StaleOn
<1>3. CASE ServeBuffered /\ sown = "fresh"
  <2>1. /\ buffer # <<>> /\ ServeFrom(buffer)
        /\ UNCHANGED <<session, weights, window, cache, history, views, cursor, reloading,
                       sown, made>>
    BY <1>3 DEF ServeBuffered
  <2>2. buffer \in Seq(Int) /\ shown \in Int /\ Ascending(buffer)
    <3>1. buffer \in Seq(Int) /\ shown \in Int
      BY <1>1, <1>3 DEF StreamTyped, Sown
    <3>2. ASSUME NEW i \in 2 .. Len(buffer) PROVE buffer[i - 1] < buffer[i]
      <4>1. i \in 1 .. Len(buffer) /\ i - 1 \in 1 .. Len(buffer) /\ i # 1
        BY <3>1
      <4>2. buffer[i] > buffer[i - 1]
        BY <1>1, <1>3, <4>1 DEF FramesInOrder
      <4> QED
        BY <3>1, <4>1, <4>2
    <3> QED
      BY <3>1, <3>2 DEF Ascending
  <2>3. buffer' \in Seq(Int) /\ shown' \in Int /\ FramesInOrder'
    BY <2>1, <2>2, ServedInOrder
  <2>4. StreamTyped'
    BY <1>1, <2>1, <2>3 DEF StreamTyped, Sown
  <2> QED
    BY <1>1, <2>1, <2>3, <2>4, ConditionedKept, SightKept, EvaluatedKept, FreshKept
    DEF StreamInv
<1>4. CASE CodecStep
  <2>1. /\ session.kind = "codec" /\ Advance /\ made' = made + 1
        /\ UNCHANGED <<session, weights, window, cache, history, views, reloading, sown>>
    BY <1>4 DEF CodecStep
  <2> DEFINE from == IF cursor + CodecWindow >= EpisodeFrames THEN 0 ELSE cursor
  <2>2. PICK q \in JpegFrames([i \in 1 .. CodecWindow |-> from + i - 1]) :
          IF q = <<>> THEN buffer' = <<>> /\ shown' = from - 1 ELSE ServeFrom(q)
    BY <2>1 DEF Advance
  <2>3. cursor \in Int /\ from \in Int /\ CodecWindow \in Nat
    BY <1>1, StreamingAssumption DEF StreamTyped
  <2> HIDE DEF from
  <2>4. q \in Seq(Int) /\ Ascending(q)
    BY <2>3, LostFramesKeepOrder
  <2>5. buffer' \in Seq(Int) /\ shown' \in Int /\ FramesInOrder'
    <3>1. CASE q = <<>>
      BY <2>2, <2>3, <3>1, EmptyInOrder
    <3>2. CASE q # <<>>
      BY <1>1, <2>1, <2>2, <2>4, <3>2, ServedInOrder DEF StreamTyped, Sown
    <3> QED
      BY <3>1, <3>2
  <2>7. cursor' \in Int
    BY <2>1, <2>3 DEF Advance, from
  <2>6. StreamTyped'
    BY <1>1, <2>1, <2>5, <2>7 DEF StreamTyped, Sown
  <2> QED
    BY <1>1, <2>1, <2>5, <2>6, ConditionedKept, OnlyPlay, OnlyEvaluate DEF StreamInv
<1>5. CASE CodecReseed \/ CodecReload
  <2>1. /\ session.kind = "codec" /\ buffer' = <<>>
        /\ shown' = -1 \/ shown' = shown
        /\ weights' = weights \/ weights' \in Weights
        /\ UNCHANGED <<session, window, cache, history, views, made, reloading, sown>>
    BY <1>5 DEF CodecReseed, CodecReload, LoadFromCheckpoint
  <2>3. cursor' \in Int
    BY <1>1, <1>5, StreamingAssumption DEF StreamTyped, CodecReseed, CodecReload
  <2>2. StreamTyped'
    BY <1>1, <2>1, <2>3 DEF StreamTyped, Sown
  <2> QED
    BY <1>1, <2>1, <2>2, ConditionedKept, OnlyPlay, OnlyEvaluate, EmptyInOrder
    DEF StreamInv
<1>6. CASE ReseedModel \/ \E tab \in Tabs : ReloadSeeds(tab)
  <2>1. /\ \E start \in Int : SeedFrom(start)
        /\ UNCHANGED <<session, weights, views, made>> /\ sown' = "fresh"
    <3>1. CASE ReseedModel
      BY <3>1, StreamingAssumption DEF ReseedModel, SeedFrom
    <3>2. CASE \E tab \in Tabs : ReloadSeeds(tab)
      <4>1. (IF cursor > Rewind THEN cursor - Rewind ELSE 0) \in Int
        BY <1>1, StreamingAssumption DEF StreamTyped
      <4> QED
        BY <3>2, <4>1 DEF ReloadSeeds, SeedFrom
    <3> QED
      BY <1>6, <3>1, <3>2
  <2>2. /\ window' \in Seq(Sight) /\ cache' \in Seq(Token) /\ history' \in Seq(Int)
        /\ buffer' \in Seq(Int) /\ shown' \in Int /\ cursor' \in Int
        /\ InSight' /\ Evaluated' /\ FramesInOrder' /\ FreshAfterReload'
    BY <1>1, <2>1, SeedsSight
  <2>3. StreamTyped'
    BY <1>1, <2>1, <2>2 DEF StreamTyped, Sown
  <2> QED
    BY <1>1, <2>1, <2>2, <2>3, ConditionedKept DEF StreamInv
<1>7. CASE \E tab \in Tabs : Reload(tab)
  <2>1. /\ session' \in Shapes("play") /\ weights' \in Weights /\ views' = {}
        /\ reloading' # {} /\ sown' = "swapped" /\ UNCHANGED <<cursor, made>>
    BY <1>7 DEF Reload, LoadFromCheckpoint
  <2>2. ConditionedAsTrained'
    BY <2>1 DEF ConditionedAsTrained
  <2> QED
    BY <1>s, <2>1, <2>2, StaleOn
<1>8. CASE StaleStep
  <2>1. /\ sown # "fresh" /\ views' = {} /\ made' = made + 1
        /\ UNCHANGED <<session, weights, cursor, reloading, sown>>
    BY <1>8 DEF StaleStep
  <2>2. ConditionedAsTrained' /\ made' \in Nat
    BY <1>s, <2>1 DEF ConditionedAsTrained
  <2> QED
    BY <1>s, <2>1, <2>2, StaleOn
<1>9. CASE \E tab \in Tabs : ReseedRaises(tab)
  <2>1. /\ sown' = IF sown = "swapped" THEN "failed" ELSE sown
        /\ UNCHANGED <<session, weights, window, cache, history, views, buffer, shown,
                       cursor, made>>
    BY <1>9 DEF ReseedRaises
  <2>2. ConditionedAsTrained'
    BY <1>1, <2>1, ConditionedKept
  <2>3. CASE sown = "fresh"
    <3>1. StreamTyped'
      BY <1>1, <2>1, <2>3 DEF StreamTyped, Sown
    <3> QED
      BY <1>1, <2>1, <2>2, <2>3, <3>1, SightKept, EvaluatedKept, OrderKept, FreshKept
      DEF StreamInv
  <2>4. CASE sown # "fresh"
    BY <1>s, <2>1, <2>2, <2>4, StaleOn
  <2> QED
    BY <2>3, <2>4
<1> QED
  BY <1>f, <1>2, <1>3, <1>4, <1>5, <1>6, <1>7, <1>8, <1>9

LEMMA StreamsFromTheStart ==
  StreamingInit => StreamInv
<1> SUFFICES ASSUME StreamingInit PROVE StreamInv
  OBVIOUS
<1>1. /\ session \in Configured /\ (session.kind = "play" => session.stride \in PlayStrides)
      /\ weights \in Weights /\ cache = <<>> /\ views = {} /\ buffer = <<>> /\ shown = -1
      /\ made = 0 /\ window = EncodeVideo(session.context)
      /\ history = Recorded(session.context) /\ sown = "fresh"
  BY DEF StreamingInit, Shapes
<1>2. /\ window \in Seq(Sight) /\ Len(window) = ContextLatents /\ Of(window, weights)
      /\ \A i \in 1 .. Len(window) : window[i].latent = window[1].latent + i - 1
      /\ history \in Seq(Int) /\ Len(history) = session.context
      /\ \A i \in 1 .. Len(history) : history[i] = history[1] + i - 1
      /\ history[Len(history)] = (window[Len(window)].latent + 1) * Stride - 1
  BY <1>1, SeededSight
<1>3. cursor \in Int /\ session.context \in Nat
  BY <1>1, SessionFacts DEF StreamingInit
<1>4. StreamTyped
  BY <1>1, <1>2, <1>3 DEF StreamTyped, Sown
<1>5. InSight
  BY <1>1, <1>2, <1>3 DEF InSight
<1>6. Evaluated /\ ConditionedAsTrained /\ FramesInOrder
  BY <1>1 DEF Evaluated, ConditionedAsTrained, FramesInOrder
<1>7. FreshAfterReload
  BY <1>1, <1>2 DEF FreshAfterReload, Of
<1> QED
  BY <1>4, <1>5, <1>6, <1>7 DEF StreamInv

LEMMA StreamsOn ==
  PlayStrides \subseteq {2} /\ StreamInv /\ [Next]_trainingVars => StreamInv'
<1> SUFFICES ASSUME PlayStrides \subseteq {2}, StreamInv, [Next]_trainingVars
             PROVE  StreamInv'
  OBVIOUS
<1>1. CASE UNCHANGED streamingVars
  <2>1. UNCHANGED <<session, weights, window, cache, history, views, buffer, shown,
                    cursor, reloading, sown, made>>
    BY <1>1 DEF streamingVars
  <2>2. StreamTyped'
    BY <2>1 DEF StreamInv, StreamTyped, Sown
  <2> QED
    BY <2>1, <2>2, ConditionedKept, SightKept, EvaluatedKept, OrderKept, FreshKept
    DEF StreamInv
<1>2. CASE StreamingNext
  BY <1>2, TrainStepKeeps, EvaluateKeeps, LatentStepKeeps, OtherStreamSteps
  DEF StreamingNext
<1>3. UNCHANGED streamingVars \/ StreamingNext
  BY DEF Next, Runs, Rolls, Trains, Iterates, Imagines, Streams, Crashes, trainingVars
<1> QED
  BY <1>1, <1>2, <1>3

\* Evaluation and the live session show the network what training did, at the
\* positions of a training window, through every roll of the kv-cache, every
\* reseed and every reload; the frames come in order, and after a reload none
\* is made from another checkpoint: for any window, context, history cap and
\* number of registers. Of the live session it says so for two frames per
\* latent, the stride the models have: its action window is counted from the
\* newest action, which fits no other stride.
THEOREM PlaysLikeTraining ==
  PlayStrides \subseteq {2} => (Spec => []PlaysAsTrained)
<1> SUFFICES ASSUME PlayStrides \subseteq {2} PROVE Spec => []PlaysAsTrained
  OBVIOUS
<1>1. Init => StreamInv
  BY StreamsFromTheStart DEF Init
<1>2. StreamInv /\ [Next]_trainingVars => StreamInv'
  BY StreamsOn
<1>3. StreamInv => PlaysAsTrained
  BY DEF StreamInv, PlaysAsTrained
<1> QED
  BY <1>1, <1>2, <1>3, PTL DEF Spec

\* What the session holds, at any stride.
Seen0 == [latent : Nat, weights : Weights]
StreamTypes ==
  /\ StreamingTypeOK
  /\ window \in Seq(Seen0)

LEMMA SessionIs ==
  ASSUME session \in Configured
  PROVE  /\ session.stride \in Nat \ {0} /\ session.context \in Nat
         /\ session.context < Timesteps
<1>1. PICK kk \in Sessions, d \in Strides :
        session \in {[kind |-> kk, stride |-> d, context |-> n, psd |-> p] :
                       n \in Settable(d),
                       p \in IF kk = "train" THEN {"off", "weighted", "stochastic"}
                             ELSE {"off"}}
  BY DEF Configured
<1>2. PICK n \in Settable(d) : session.stride = d /\ session.context = n
  BY <1>1
<1>3. n \in Nat /\ n < Timesteps
  BY StreamingAssumption DEF Settable
<1> QED BY <1>2, <1>3, StreamingAssumption

LEMMA PicksAreNat ==
  ASSUME NEW q \in Seq(Nat), NEW r \in JpegFrames(q)
  PROVE  r \in Seq(Nat)
<1>n. PICK n \in 0 .. Len(q) :
        r \in {[i \in 1 .. n |-> q[pick[i]]] : pick \in Picks(n, Len(q))}
  BY DEF JpegFrames
<1>1. PICK pick \in Picks(n, Len(q)) : r = [i \in 1 .. n |-> q[pick[i]]]
  BY <1>n
<1>2. pick \in [1 .. n -> 1 .. Len(q)] /\ n \in Nat
  BY <1>1 DEF Picks
<1>3. \A i \in 1 .. n : q[pick[i]] \in Nat
  BY <1>2
<1> QED BY <1>1, <1>2, <1>3

LEMMA ServedNat ==
  ASSUME NEW q \in Seq(Nat), shown \in Nat \union {-1}, ServeFrom(q)
  PROVE  buffer' \in Seq(Nat) /\ shown' \in Nat \union {-1}
<1>1. CASE q = <<>>
  BY <1>1 DEF ServeFrom
<1>2. CASE q # <<>>
  <2>1. Tail(q) \in Seq(Nat) /\ Head(q) \in Nat
    BY <1>2
  <2> QED BY <1>2, <2>1 DEF ServeFrom
<1> QED BY <1>1, <1>2

LEMMA EncodedNat ==
  ASSUME session \in Configured, weights \in Weights, NEW n \in Nat
  PROVE  EncodeVideo(n) \in Seq(Seen0)
<1>1. Stride \in Nat \ {0}
  BY SessionIs DEF Stride
<1>2. n \div Stride \in Nat
  BY <1>1
<1>3. \A i \in 1 .. n \div Stride : Latent(i - 1, weights) \in Seen0
  BY <1>2 DEF Latent, Seen0
<1> QED BY <1>2, <1>3 DEF EncodeVideo

LEMMA SeededNat ==
  ASSUME session \in Configured, weights \in Weights, NEW start \in Nat, SeedFrom(start)
  PROVE  /\ window' \in Seq(Seen0) /\ buffer' = <<>> /\ shown' = -1 /\ cursor' \in Nat
<1>1. /\ session.context \in Nat /\ session.context < Timesteps
      /\ Timesteps \in Nat /\ EpisodeFrames \in Nat /\ EpisodeFrames > Timesteps + 1
  BY SessionIs, StreamingAssumption
<1>2. EpisodeFrames - session.context - 1 \in Nat
  BY <1>1
<1>3. cursor' \in Nat
  <2> DEFINE from == IF start + session.context + 1 > EpisodeFrames
                     THEN EpisodeFrames - session.context - 1 ELSE start
  <2>1. from \in Nat
    BY <1>2
  <2>2. cursor' = from + session.context
    BY DEF SeedFrom
  <2> HIDE DEF from
  <2> QED BY <1>1, <2>1, <2>2
<1>4. window' \in Seq(Seen0)
  BY <1>1, EncodedNat DEF SeedFrom
<1> QED BY <1>3, <1>4 DEF SeedFrom

LEMMA StreamStepTyped ==
  ASSUME StreamTypes, StreamingNext
  PROVE  StreamTypes'
<1>0. /\ session \in Configured /\ weights \in Weights /\ buffer \in Seq(Nat)
      /\ shown \in Nat \union {-1} /\ cursor \in Nat /\ reloading \subseteq Tabs
      /\ passes \in [Replicas -> SUBSET ({"diagonal"} \union Hops)]
      /\ window \in Seq(Seen0) /\ sown \in {"fresh", "swapped", "failed"}
  BY DEF StreamTypes, StreamingTypeOK
<1>1. CASE TrainStep
  <2>1. PICK coin \in [Replicas -> BOOLEAN] : passes' = Passes(coin)
    BY <1>1 DEF TrainStep
  <2>2. passes' \in [Replicas -> SUBSET ({"diagonal"} \union Hops)]
    BY <2>1 DEF Passes
  <2>3. UNCHANGED <<session, weights, window, buffer, shown, cursor, reloading, sown>>
    BY <1>1 DEF TrainStep
  <2> QED BY <1>0, <2>2, <2>3 DEF StreamTypes, StreamingTypeOK
<1>2. CASE ReduceGradients
  <2>1. /\ UNCHANGED <<session, weights, window, buffer, shown, cursor, reloading, sown>>
        /\ passes' \in [Replicas -> SUBSET ({"diagonal"} \union Hops)]
    BY <1>2 DEF ReduceGradients
  <2> QED BY <1>0, <2>1 DEF StreamTypes, StreamingTypeOK
<1>3. CASE Evaluate
  <2>1. UNCHANGED <<session, weights, window, buffer, shown, cursor, reloading, sown, passes>>
    BY <1>3 DEF Evaluate
  <2> QED BY <1>0, <2>1 DEF StreamTypes, StreamingTypeOK
<1>4. CASE ServeBuffered
  <2>1. /\ UNCHANGED <<session, weights, window, cursor, reloading, sown, passes>>
        /\ ServeFrom(buffer)
    BY <1>4 DEF ServeBuffered
  <2>2. buffer' \in Seq(Nat) /\ shown' \in Nat \union {-1}
    BY <1>0, <2>1, ServedNat
  <2> QED BY <1>0, <2>1, <2>2 DEF StreamTypes, StreamingTypeOK
<1>5. CASE CodecStep
  <2> DEFINE from == IF cursor + CodecWindow >= EpisodeFrames THEN 0 ELSE cursor
             q == [i \in 1 .. CodecWindow |-> from + i - 1]
  <2>1. /\ UNCHANGED <<session, weights, window, reloading, sown, passes>>
        /\ cursor' = from + CodecWindow
        /\ \E r \in JpegFrames(q) :
             IF r = <<>> THEN buffer' = <<>> /\ shown' = from - 1 ELSE ServeFrom(r)
    BY <1>5 DEF CodecStep, Advance
  <2>2. from \in Nat /\ CodecWindow \in Nat
    BY <1>0, StreamingAssumption
  <2> HIDE DEF from
  <2>3. q \in Seq(Nat)
    BY <2>2
  <2>4. cursor' \in Nat /\ from - 1 \in Nat \union {-1}
    BY <2>1, <2>2
  <2> HIDE DEF q
  <2>5. PICK r \in JpegFrames(q) :
          IF r = <<>> THEN buffer' = <<>> /\ shown' = from - 1 ELSE ServeFrom(r)
    BY <2>1
  <2>6. r \in Seq(Nat)
    BY <2>3, PicksAreNat
  <2>7. buffer' \in Seq(Nat) /\ shown' \in Nat \union {-1}
    <3>1. CASE r = <<>>
      BY <2>4, <2>5, <3>1
    <3>2. CASE r # <<>>
      BY <1>0, <2>5, <2>6, <3>2, ServedNat
    <3> QED BY <3>1, <3>2
  <2> QED BY <1>0, <2>1, <2>4, <2>7 DEF StreamTypes, StreamingTypeOK
<1>6. CASE CodecReseed
  <2>1. /\ UNCHANGED <<session, weights, window, reloading, sown, passes>>
        /\ buffer' = <<>> /\ shown' = -1
        /\ \/ cursor' = EpisodeFrames - CodecWindow
           \/ cursor' \in {0, EpisodeFrames}
    BY <1>6 DEF CodecReseed
  <2>2. cursor' \in Nat
    BY <2>1, StreamingAssumption
  <2> QED BY <1>0, <2>1, <2>2 DEF StreamTypes, StreamingTypeOK
<1>7. CASE CodecReload
  <2>1. /\ UNCHANGED <<session, window, shown, cursor, reloading, sown, passes>>
        /\ buffer' = <<>> /\ weights' \in Weights
    BY <1>7 DEF CodecReload, LoadFromCheckpoint
  <2> QED BY <1>0, <2>1 DEF StreamTypes, StreamingTypeOK
<1>8. CASE LatentStep \/ StaleStep
  <2>1. UNCHANGED <<session, weights, cursor, reloading, sown, passes>>
    BY <1>8 DEF LatentStep, StaleStep
  <2>2. CASE UNCHANGED <<window, buffer, shown>>
    BY <1>0, <2>1, <2>2 DEF StreamTypes, StreamingTypeOK
  <2>3. CASE /\ Len(window) > 1 /\ window' = Slid
             /\ \E r \in JpegFrames(DecodeToVideo(Slid[Len(Slid)])) : ServeFrom(r)
    <3> DEFINE z == Latent(window[Len(window)].latent + 1, weights)
    <3>1. z \in Seen0
      <4>1. window[Len(window)] \in Seen0
        BY <1>0, <2>3
      <4>2. window[Len(window)].latent + 1 \in Nat
        BY <4>1 DEF Seen0
      <4> QED BY <1>0, <4>2 DEF Latent, Seen0
    <3>2. Slid = Append(Tail(window), z)
      BY DEF Slid
    <3> HIDE DEF z
    <3>3. Slid \in Seq(Seen0) /\ Slid[Len(Slid)] = z
      BY <1>0, <2>3, <3>1, <3>2
    <3>4. Stride \in Nat \ {0}
      BY <1>0, SessionIs DEF Stride
    <3>5. z.latent \in Nat /\ z.latent * Stride \in Nat
      BY <3>1, <3>4 DEF Seen0
    <3>6. DecodeToVideo(z) \in Seq(Nat)
      <4> DEFINE v == z.latent * Stride
      <4>0. v \in Nat /\ DecodeToVideo(z) = [i \in 1 .. Stride |-> v + i - 1]
        BY <3>5 DEF DecodeToVideo
      <4> HIDE DEF v
      <4>1. \A i \in 1 .. Stride : v + i - 1 \in Nat
        BY <3>4, <4>0
      <4> QED BY <3>4, <4>0, <4>1
    <3>7. PICK r \in JpegFrames(DecodeToVideo(z)) : ServeFrom(r)
      BY <2>3, <3>3
    <3>8. buffer' \in Seq(Nat) /\ shown' \in Nat \union {-1}
      BY <1>0, <3>6, <3>7, PicksAreNat, ServedNat
    <3> QED BY <1>0, <2>1, <2>3, <3>3, <3>8 DEF StreamTypes, StreamingTypeOK
  <2> QED BY <1>8, <2>2, <2>3 DEF LatentStep, StaleStep
<1>9. CASE ReseedModel
  <2>1. PICK start \in {0, EpisodeFrames} : SeedFrom(start)
    BY <1>9 DEF ReseedModel
  <2>2. UNCHANGED <<session, weights, reloading, passes>> /\ sown' = "fresh"
    BY <1>9 DEF ReseedModel, SeedFrom
  <2>3. window' \in Seq(Seen0) /\ buffer' = <<>> /\ shown' = -1 /\ cursor' \in Nat
    BY <1>0, <2>1, SeededNat, StreamingAssumption
  <2> QED BY <1>0, <2>2, <2>3 DEF StreamTypes, StreamingTypeOK
<1>10. ASSUME NEW tab \in Tabs, Reload(tab) PROVE StreamTypes'
  <2>1. /\ UNCHANGED <<window, buffer, shown, cursor, passes>> /\ session' \in Configured
        /\ weights' \in Weights /\ reloading' \subseteq Tabs /\ sown' = "swapped"
    BY <1>0, <1>10 DEF Reload, LoadFromCheckpoint, Shapes
  <2> QED BY <1>0, <2>1 DEF StreamTypes, StreamingTypeOK
<1>11. ASSUME NEW tab \in Tabs, ReloadSeeds(tab) PROVE StreamTypes'
  <2> DEFINE back == IF cursor > Rewind THEN cursor - Rewind ELSE 0
  <2>1. /\ UNCHANGED <<session, weights, passes>> /\ reloading' \subseteq Tabs
        /\ SeedFrom(back) /\ sown' = "fresh"
    BY <1>0, <1>11 DEF ReloadSeeds, SeedFrom
  <2>2. back \in Nat
    BY <1>0, StreamingAssumption
  <2> HIDE DEF back
  <2>3. window' \in Seq(Seen0) /\ buffer' = <<>> /\ shown' = -1 /\ cursor' \in Nat
    BY <1>0, <2>1, <2>2, SeededNat
  <2> QED BY <1>0, <2>1, <2>3 DEF StreamTypes, StreamingTypeOK
<1>12. ASSUME NEW tab \in Tabs, ReseedRaises(tab) PROVE StreamTypes'
  <2>1. /\ UNCHANGED <<session, weights, window, buffer, shown, cursor, passes>>
        /\ reloading' \subseteq Tabs /\ sown' \in {"fresh", "swapped", "failed"}
    BY <1>0, <1>12 DEF ReseedRaises
  <2> QED BY <1>0, <2>1 DEF StreamTypes, StreamingTypeOK
<1> QED BY <1>1, <1>2, <1>3, <1>4, <1>5, <1>6, <1>7, <1>8, <1>9, <1>10, <1>11, <1>12
        DEF StreamingNext

\* The types of a streaming session: served frames and the place in the
\* recorded episode never run below zero, at any stride, through every reseed
\* and reload.
THEOREM StreamingTypes == Spec => []StreamingTypeOK
<1>1. Init => StreamTypes
  <2> SUFFICES ASSUME StreamingInit PROVE StreamTypes
    BY DEF Init
  <2>1. session \in Configured /\ weights \in Weights
    BY DEF StreamingInit, Shapes
  <2>2. session.context \in Nat
    BY <2>1, SessionIs
  <2>3. window \in Seq(Seen0) /\ cursor \in Nat
    BY <2>1, <2>2, EncodedNat DEF StreamingInit
  <2> QED BY <2>1, <2>3 DEF StreamingInit, StreamTypes, StreamingTypeOK
<1>2. StreamTypes /\ [Next]_trainingVars => StreamTypes'
  <2> SUFFICES ASSUME StreamTypes, [Next]_trainingVars PROVE StreamTypes'
    OBVIOUS
  <2>1. UNCHANGED streamingVars \/ StreamingNext
    BY DEF Next, Runs, Rolls, Trains, Iterates, Imagines, Streams, Crashes, trainingVars
  <2>2. CASE UNCHANGED streamingVars
    BY <2>2 DEF streamingVars, StreamTypes, StreamingTypeOK
  <2> QED BY <2>1, <2>2, StreamStepTyped
<1>3. StreamTypes => StreamingTypeOK
  BY DEF StreamTypes
<1> QED BY <1>1, <1>2, <1>3, PTL DEF Spec

(***************************************************************************)
(* Imagination                                                             *)
(***************************************************************************)

\* The episodes are long enough for a window of the trainer and for the frames
\* a policy looks at.
EpisodeHolds == Length >= PolicyPast /\ Length >= Past + Lookahead + 1

Picture == [frame : Int, scale : Int, noise : Int, reach : SUBSET Int]

LEMMA CutIs ==
  ASSUME NEW from \in Int, NEW to \in Int
  PROVE  /\ Cut(from, to) \in Seq(Int)
         /\ Len(Cut(from, to)) = Larger(0, Smaller(to, Length) - from)
         /\ \A i \in 1 .. Len(Cut(from, to)) : Cut(from, to)[i] = from + i - 1
<1>1. Length \in Nat
  BY ImaginationAssumption
<1> DEFINE n == Larger(0, Smaller(to, Length) - from)
<1>2. n \in Nat
  BY <1>1 DEF Larger, Smaller
<1> HIDE DEF n
<1>3. Cut(from, to) = [i \in 1 .. n |-> from + i - 1]
  BY DEF Cut, n
<1>4. \A i \in 1 .. n : from + i - 1 \in Int
  BY <1>2
<1>5. Cut(from, to) \in Seq(Int) /\ Len(Cut(from, to)) = n
  BY <1>2, <1>3, <1>4
<1> QED
  BY <1>3, <1>5 DEF n

\* A slice that the episode reaches.
LEMMA WholeCut ==
  ASSUME NEW from \in Int, NEW to \in Int, from <= to, to <= Length
  PROVE  /\ Cut(from, to) \in Seq(Int) /\ Len(Cut(from, to)) = to - from
         /\ \A i \in 1 .. to - from : Cut(from, to)[i] = from + i - 1
<1>1. Length \in Nat
  BY ImaginationAssumption
<1>2. Larger(0, Smaller(to, Length) - from) = to - from
  BY <1>1 DEF Larger, Smaller
<1> QED
  BY <1>2, CutIs

LEMMA LatentsAre ==
  ASSUME NEW q \in Seq(Int)
  PROVE  /\ Latents(q) \in Seq(Picture) /\ Len(Latents(q)) = Len(q)
         /\ \A i \in 1 .. Len(q) : Latents(q)[i] = Stored(q[i])
         /\ Numbers(Latents(q)) = q
<1>1. Latents(q) = [i \in 1 .. Len(q) |-> Stored(q[i])]
  BY DEF Latents
<1>2. Len(q) \in Nat /\ \A i \in 1 .. Len(q) : q[i] \in Int /\ Stored(q[i]) \in Picture
  BY DEF Stored, Picture
<1>3. Latents(q) \in Seq(Picture) /\ Len(Latents(q)) = Len(q)
  BY <1>1, <1>2
<1>4. Numbers(Latents(q)) = [i \in 1 .. Len(q) |-> q[i]]
  BY <1>1, <1>2, <1>3 DEF Numbers, Stored
<1>5. q = [i \in 1 .. Len(q) |-> q[i]]
  OBVIOUS
<1> QED
  BY <1>1, <1>3, <1>4, <1>5

LEMMA SlideIs ==
  ASSUME NEW S, NEW q \in Seq(S), Len(q) # 0, NEW x \in S
  PROVE  /\ Slide(q, x) \in Seq(S) /\ Len(Slide(q, x)) = Len(q)
         /\ \A i \in 1 .. Len(q) - 1 : Slide(q, x)[i] = q[i + 1]
         /\ Slide(q, x)[Len(q)] = x
<1> DEFINE rest == Tail(q)
<1>1. /\ rest \in Seq(S) /\ Len(rest) = Len(q) - 1
      /\ \A i \in 1 .. Len(q) - 1 : rest[i] = q[i + 1]
  <2>1. q # <<>>
    OBVIOUS
  <2> QED
    BY <2>1, HeadTailProperties
<1>2. Len(q) \in Nat
  OBVIOUS
<1> HIDE DEF rest
<1>3. /\ Append(rest, x) \in Seq(S) /\ Len(Append(rest, x)) = Len(rest) + 1
      /\ \A i \in 1 .. Len(rest) : Append(rest, x)[i] = rest[i]
      /\ Append(rest, x)[Len(rest) + 1] = x
  BY <1>1, AppendProperties
<1>4. Slide(q, x) = Append(rest, x)
  BY DEF Slide, rest
<1> QED
  BY <1>1, <1>2, <1>3, <1>4

LEMMA LastOfIs ==
  ASSUME NEW S, NEW q \in Seq(S), NEW n \in Nat, 0 < n, n <= Len(q)
  PROVE  /\ LastOf(q, n) \in Seq(S) /\ Len(LastOf(q, n)) = n
         /\ \A i \in 1 .. n : LastOf(q, n)[i] = q[Len(q) - n + i]
<1>1. Len(q) \in Nat /\ Larger(1, Len(q) - n + 1) = Len(q) - n + 1
  BY DEF Larger
<1> DEFINE lo == Len(q) - n + 1
<1>2. lo \in 1 .. Len(q) + 1 /\ Len(q) \in lo - 1 .. Len(q) /\ lo \in Int
  BY <1>1
<1>3. LastOf(q, n) = SubSeq(q, lo, Len(q))
  BY <1>1 DEF LastOf
<1>4. Len(q) - lo + 1 = n /\ \A i \in 1 .. n : lo + i - 1 = Len(q) - n + i
  BY <1>1
<1> HIDE DEF lo
<1>5. /\ SubSeq(q, lo, Len(q)) \in Seq(S)
      /\ Len(SubSeq(q, lo, Len(q))) = Len(q) - lo + 1
      /\ \A i \in 1 .. Len(q) - lo + 1 : SubSeq(q, lo, Len(q))[i] = q[lo + i - 1]
  BY <1>2, SubSeqProperties
<1> QED
  BY <1>3, <1>4, <1>5

LEMMA QuotientAtMost ==
  ASSUME NEW n \in Nat, NEW d \in Nat \ {0}, NEW m \in Nat, n <= m * d
  PROVE  n \div d \in Nat /\ n \div d <= m
<1>1. n \div d \in Nat /\ (n \div d) * d <= n
  OBVIOUS
<1>2. CASE n \div d > m
  <2>1. (m + 1) * d <= (n \div d) * d
    BY <1>1, <1>2, MultiplesMonotone
  <2>2. (m + 1) * d = m * d + d /\ m * d \in Int /\ (n \div d) * d \in Int
    BY <1>1, NextMultiple
  <2> QED
    BY <1>1, <2>1, <2>2
<1> QED
  BY <1>1, <1>2

LEMMA ActiveKBound ==
  ASSUME NEW elapsed \in Nat
  PROVE  ActiveK(elapsed) \in 1 .. UnrollSteps
<1>1. UnrollSteps \in Nat \ {0} /\ UnrollMin \in Nat \ {0} /\ RampEpochs \in Nat
  BY ImaginationAssumption
<1>2. CASE RampEpochs = 0 \/ UnrollSteps <= UnrollMin
  BY <1>1, <1>2 DEF ActiveK
<1>3. CASE ~(RampEpochs = 0 \/ UnrollSteps <= UnrollMin)
  <2> DEFINE more == UnrollSteps - UnrollMin
             so == Smaller(elapsed, RampEpochs)
             share == (more * so) \div RampEpochs
  <2>1. more \in Nat /\ so \in Nat /\ so <= RampEpochs /\ RampEpochs > 0
    BY <1>1, <1>3 DEF Smaller
  <2> HIDE DEF more, so
  <2>2. more * so \in Nat /\ more * so <= more * RampEpochs
    BY <1>1, <2>1
  <2>3. share \in Nat /\ share <= more
    BY <1>1, <2>1, <2>2, QuotientAtMost DEF share
  <2>4. ActiveK(elapsed) = Larger(UnrollMin, UnrollMin + share)
    BY <1>3 DEF ActiveK, more, so, share
  <2> HIDE DEF share
  <2> QED
    BY <1>1, <2>3, <2>4 DEF Larger, more
<1> QED
  BY <1>2, <1>3

\* A window of the training set does not reach the end of its episode.
LEMMA WindowIs ==
  ASSUME NEW start \in Indices
  PROVE  LET w == Window(start)
             t0 == start + Past
         IN /\ start \in Nat /\ t0 \in Nat
            /\ w.observations \in Seq(Picture) /\ Len(w.observations) = Past
            /\ \A i \in 1 .. Past : w.observations[i] = Stored(start + i - 1)
            /\ w.actions \in Seq(Int) /\ Len(w.actions) = Past
            /\ \A i \in 1 .. Past : w.actions[i] = start + i - 1
            /\ \A i \in 1 .. UnrollSteps :
                 /\ w.targets[i] = t0 + i - 1
                 /\ w.future_actions[i] = t0 + i - 1
                 /\ w.goals[i] = Stored(t0 + Offset + i - 1)
            /\ t0 + Offset + UnrollSteps <= Length - 1
            /\ t0 + Offset + Anchor <= Length - 1
            /\ w.future_latents = Latents(Cut(t0 + Offset, t0 + Offset + Anchor))
<1> DEFINE w == Window(start)
           t0 == start + Past
<1>1. /\ Past \in Nat \ {0} /\ Offset \in Nat /\ Anchor \in Nat \ {0} /\ Length \in Nat
      /\ UnrollSteps \in Nat \ {0} /\ Plan \in Nat
  BY ImaginationAssumption
<1>2. /\ Lookahead \in Nat /\ Lookahead >= Offset + UnrollSteps
      /\ Lookahead >= Offset + Anchor
  BY <1>1 DEF Lookahead, Larger
<1>3. start \in Nat /\ start + Past + Lookahead <= Length - 1
  BY <1>1, <1>2 DEF Indices
<1>4. /\ t0 \in Nat /\ start <= t0 /\ t0 - start = Past /\ t0 <= Length
      /\ t0 + Offset + UnrollSteps <= Length - 1
      /\ t0 + Offset + Anchor <= Length - 1
  BY <1>1, <1>2, <1>3
<1>5. /\ w.observations = Latents(Cut(start, t0)) /\ w.actions = Cut(start, t0)
      /\ w.targets = Cut(t0, t0 + UnrollSteps)
      /\ w.goals = Latents(Cut(t0 + Offset, t0 + UnrollSteps + Offset))
      /\ w.future_actions = Cut(t0, t0 + UnrollSteps)
      /\ w.future_latents = Latents(Cut(t0 + Offset, t0 + Offset + Anchor))
  BY DEF Window
<1> HIDE DEF w, t0
<1>6. /\ Cut(start, t0) \in Seq(Int) /\ Len(Cut(start, t0)) = Past
      /\ \A i \in 1 .. Past : Cut(start, t0)[i] = start + i - 1
  <2>1. start \in Int /\ t0 \in Int
    BY <1>3, <1>4
  <2> QED
    BY <2>1, <1>4, WholeCut
<1>7. \A i \in 1 .. UnrollSteps : Cut(t0, t0 + UnrollSteps)[i] = t0 + i - 1
  <2> DEFINE hi == t0 + UnrollSteps
  <2>1. t0 \in Int /\ hi \in Int /\ t0 <= hi /\ hi <= Length /\ hi - t0 = UnrollSteps
    BY <1>1, <1>4
  <2> HIDE DEF hi
  <2>2. \A i \in 1 .. hi - t0 : Cut(t0, hi)[i] = t0 + i - 1
    BY <2>1, WholeCut
  <2> QED
    BY <2>1, <2>2 DEF hi
<1>8. \A i \in 1 .. UnrollSteps : w.goals[i] = Stored(t0 + Offset + i - 1)
  <2> DEFINE lo == t0 + Offset
             hi == t0 + UnrollSteps + Offset
  <2>1. /\ lo \in Int /\ hi \in Int /\ lo <= hi /\ hi <= Length /\ hi - lo = UnrollSteps
    BY <1>1, <1>4
  <2>2. w.goals = Latents(Cut(lo, hi))
    BY <1>5
  <2> HIDE DEF lo, hi
  <2>3. /\ Cut(lo, hi) \in Seq(Int) /\ Len(Cut(lo, hi)) = UnrollSteps
        /\ \A i \in 1 .. UnrollSteps : Cut(lo, hi)[i] = lo + i - 1
    <3>1. /\ Cut(lo, hi) \in Seq(Int) /\ Len(Cut(lo, hi)) = hi - lo
          /\ \A i \in 1 .. hi - lo : Cut(lo, hi)[i] = lo + i - 1
      BY <2>1, WholeCut
    <3> QED
      BY <2>1, <3>1
  <2>4. \A i \in 1 .. UnrollSteps : Latents(Cut(lo, hi))[i] = Stored(lo + i - 1)
    BY <2>3, LatentsAre
  <2> QED
    BY <2>2, <2>4 DEF lo
<1>9. /\ w.observations \in Seq(Picture) /\ Len(w.observations) = Past
      /\ \A i \in 1 .. Past : w.observations[i] = Stored(start + i - 1)
  BY <1>5, <1>6, LatentsAre
<1>10. /\ start \in Nat /\ t0 \in Nat
       /\ w.observations \in Seq(Picture) /\ Len(w.observations) = Past
       /\ \A i \in 1 .. Past : w.observations[i] = Stored(start + i - 1)
       /\ w.actions \in Seq(Int) /\ Len(w.actions) = Past
       /\ \A i \in 1 .. Past : w.actions[i] = start + i - 1
       /\ \A i \in 1 .. UnrollSteps :
            /\ w.targets[i] = t0 + i - 1
            /\ w.future_actions[i] = t0 + i - 1
            /\ w.goals[i] = Stored(t0 + Offset + i - 1)
       /\ t0 + Offset + UnrollSteps <= Length - 1
       /\ t0 + Offset + Anchor <= Length - 1
       /\ w.future_latents = Latents(Cut(t0 + Offset, t0 + Offset + Anchor))
  BY <1>3, <1>4, <1>5, <1>6, <1>7, <1>8, <1>9
<1> QED
  BY <1>10 DEF w, t0

\* h holds the Past frames before f, and a the actions paired with them.
Precede(h, f) ==
  /\ h \in Seq(Picture) /\ Len(h) = Past
  /\ \A i \in 1 .. Past : h[i].frame = Larger(Zeros, f - Past + i - 1)
PairedWith(a, f, who) ==
  /\ a \in Seq(Int) /\ Len(a) = Past
  /\ \A i \in 1 .. Past :
       a[i] = IF who = "from_mmap" THEN ActionAt(f - Past + i - 1)
              ELSE Larger(Zeros, f - Past + i - 1)

LEMMA PrecedeIsShown ==
  ASSUME NEW f \in Nat, NEW h, Precede(h, f)
  PROVE  Numbers(h) = Shown(f - Past, f)
<1>1. Past \in Nat
  BY ImaginationAssumption
<1>2. f - (f - Past) = Past /\ \A i \in Int : f - Past + i - 1 = (f - Past) + i - 1
  BY <1>1
<1>3. Numbers(h) = [i \in 1 .. Past |-> h[i].frame]
  BY DEF Precede, Numbers
<1>4. Shown(f - Past, f) = [i \in 1 .. Past |-> Larger(Zeros, f - Past + i - 1)]
  BY <1>2 DEF Shown
<1> QED
  BY <1>3, <1>4 DEF Precede

LEMMA PicturesSlide ==
  ASSUME NEW h \in Seq(Picture), Len(h) = Past, NEW x \in Picture
  PROVE  /\ Len(Slide(h, x)) = Past
         /\ \A i \in 1 .. Past - 1 : Slide(h, x)[i] = h[i + 1]
         /\ Slide(h, x)[Past] = x
<1>1. Len(h) # 0
  BY ImaginationAssumption
<1>2. /\ Len(Slide(h, x)) = Len(h)
      /\ \A i \in 1 .. Len(h) - 1 : Slide(h, x)[i] = h[i + 1]
      /\ Slide(h, x)[Len(h)] = x
  BY <1>1, SlideIs
<1> QED
  BY <1>2

\* The prediction takes its place in the history.
LEMMA PrecedeOn ==
  ASSUME NEW f \in Nat, NEW h, Precede(h, f), NEW x \in Picture, x.frame = f
  PROVE  Precede(Slide(h, x), f + 1)
<1>1. Past \in Nat \ {0}
  BY ImaginationAssumption
<1>2. h \in Seq(Picture) /\ Len(h) = Past
      /\ \A i \in 1 .. Past : h[i].frame = Larger(Zeros, f - Past + i - 1)
  BY DEF Precede
<1> DEFINE g == Slide(h, x)
<1>a. h \in Seq(Picture) /\ Len(h) # 0 /\ x \in Picture
  BY <1>1, <1>2
<1>b. /\ g \in Seq(Picture) /\ Len(g) = Len(h)
      /\ \A i \in 1 .. Len(h) - 1 : g[i] = h[i + 1]
      /\ g[Len(h)] = x
  BY <1>a, SlideIs
<1> HIDE DEF g
<1>3. /\ g \in Seq(Picture) /\ Len(g) = Past
      /\ \A i \in 1 .. Past - 1 : g[i] = h[i + 1]
      /\ g[Past] = x
  <2>1. Past \in Nat /\ Len(h) = Past
    BY <1>1, <1>2
  <2>2. ASSUME NEW i \in 1 .. Past - 1 PROVE g[i] = h[i + 1]
    <3>1. i \in 1 .. Len(h) - 1
      BY <2>1
    <3> QED
      BY <1>b, <3>1
  <2>3. g[Past] = x
    BY <1>b, <2>1
  <2>4. g \in Seq(Picture) /\ Len(g) = Past
    BY <1>b, <2>1
  <2> QED
    BY <2>2, <2>3, <2>4
<1>4. ASSUME NEW i \in 1 .. Past PROVE g[i].frame = Larger(Zeros, f + 1 - Past + i - 1)
  <2>1. CASE i = Past
    <3>1. f + 1 - Past + i - 1 = f
      BY <1>1, <2>1
    <3>2. Larger(Zeros, f) = f
      BY DEF Larger, Zeros
    <3>3. g[i].frame = f
      BY <1>3, <2>1
    <3> QED
      BY <3>1, <3>2, <3>3
  <2>2. CASE i # Past
    <3>1. i \in 1 .. Past - 1 /\ i + 1 \in 1 .. Past
          /\ f - Past + (i + 1) - 1 = f + 1 - Past + i - 1
      BY <1>1, <2>2
    <3> QED
      BY <1>2, <1>3, <3>1
  <2> QED
    BY <2>1, <2>2
<1>5. Precede(g, f + 1)
  BY <1>3, <1>4 DEF Precede
<1> QED
  BY <1>5 DEF g

\* And so does the action paired with it.
LEMMA PairedOn ==
  ASSUME NEW f \in Nat, NEW who, NEW a, PairedWith(a, f, who), NEW x \in Int,
         x = IF who = "from_mmap" THEN ActionAt(f) ELSE f
  PROVE  PairedWith(Slide(a, x), f + 1, who)
<1>1. Past \in Nat \ {0}
  BY ImaginationAssumption
<1>2. /\ a \in Seq(Int) /\ Len(a) = Past
      /\ \A i \in 1 .. Past :
           a[i] = IF who = "from_mmap" THEN ActionAt(f - Past + i - 1)
                  ELSE Larger(Zeros, f - Past + i - 1)
  BY DEF PairedWith
<1> DEFINE b == Slide(a, x)
<1>3. /\ b \in Seq(Int) /\ Len(b) = Past
      /\ \A i \in 1 .. Past - 1 : b[i] = a[i + 1]
      /\ b[Past] = x
  <2>1. a \in Seq(Int) /\ Len(a) # 0 /\ x \in Int
    BY <1>1, <1>2
  <2>2. /\ b \in Seq(Int) /\ Len(b) = Len(a)
        /\ \A i \in 1 .. Len(a) - 1 : b[i] = a[i + 1]
        /\ b[Len(a)] = x
    BY <2>1, SlideIs
  <2> QED
    BY <1>2, <2>2
<1> HIDE DEF b
<1>4. ASSUME NEW i \in 1 .. Past
      PROVE  b[i] = IF who = "from_mmap" THEN ActionAt(f + 1 - Past + i - 1)
                    ELSE Larger(Zeros, f + 1 - Past + i - 1)
  <2>1. CASE i = Past
    <3>1. f + 1 - Past + i - 1 = f /\ Larger(Zeros, f) = f
      BY <1>1, <2>1 DEF Larger, Zeros
    <3> QED
      BY <1>3, <2>1, <3>1
  <2>2. CASE i # Past
    <3>1. i \in 1 .. Past - 1 /\ i + 1 \in 1 .. Past
          /\ f - Past + (i + 1) - 1 = f + 1 - Past + i - 1
      BY <1>1, <2>2
    <3> QED
      BY <1>2, <1>3, <3>1
  <2> QED
    BY <2>1, <2>2
<1>5. PairedWith(b, f + 1, who)
  BY <1>3, <1>4 DEF PairedWith
<1> QED
  BY <1>5 DEF b

Scaled(q) == \A i \in 1 .. Len(q) : q[i].scale = 1

LEMMA QuestionIs ==
  ASSUME NEW f \in Nat, NEW h, Precede(h, f), NEW a, NEW aim \in Seq(Picture), NEW marks
  PROVE  LET q == Forward(f, h, a, aim, marks)
         IN /\ q.frame = f /\ q.past = Shown(f - Past, f) /\ q.acts = a
            /\ q.goal = Numbers(aim) /\ q.marks = marks /\ ~q.mislabelled
            /\ q.reach = Reaches(h)
            /\ Scaled(h) /\ Scaled(aim) => q.scales = {1}
<1> DEFINE q == Forward(f, h, a, aim, marks)
<1>1. /\ q.frame = f /\ q.past = Numbers(h) /\ q.acts = a
      /\ q.goal = Numbers(aim) /\ q.marks = marks /\ q.mislabelled = FALSE
      /\ q.reach = Reaches(h)
      /\ q.scales = {l.scale : l \in Elements(h) \cup Elements(aim)}
  BY DEF Forward
<1>2. Past \in Nat \ {0} /\ h \in Seq(Picture) /\ Len(h) = Past
  BY ImaginationAssumption DEF Precede
<1>3. ASSUME Scaled(h), Scaled(aim)
      PROVE  {l.scale : l \in Elements(h) \cup Elements(aim)} = {1}
  <2>1. \A l \in Elements(h) \cup Elements(aim) : l.scale = 1
    BY <1>3 DEF Elements, Scaled
  <2>2. 1 \in 1 .. Len(h)
    BY <1>2
  <2>3. h[1] \in Elements(h)
    BY <2>2 DEF Elements
  <2> QED
    BY <2>1, <2>3
<1> HIDE DEF q
<1>4. /\ q.frame = f /\ q.past = Shown(f - Past, f) /\ q.acts = a
      /\ q.goal = Numbers(aim) /\ q.marks = marks /\ ~q.mislabelled
      /\ q.reach = Reaches(h)
      /\ Scaled(h) /\ Scaled(aim) => q.scales = {1}
  BY <1>1, <1>3, PrecedeIsShown
<1> QED
  BY <1>4 DEF q

LEMMA ReachesAre ==
  ASSUME NEW h, NEW r \in Reaches(h)
  PROVE  \E i \in 1 .. Len(h) : r \in h[i].reach
BY DEF Reaches, Elements

\* A question in the shape of the training: of dit_v1 ...
LEMMA AsksDit ==
  ASSUME NEW f \in Nat, NEW h, Precede(h, f), NEW a, NEW aim \in Seq(Picture), NEW marks,
         asked' = Forward(f, h, a, aim, marks), arch' = "dit_v1", opening' \in Nat,
         caller' # "clone",
         \A m \in marks : m.told + m.noise = FlowSteps,
         \/ caller' = "repeat_last" /\ f - opening' >= UnrollSteps
         \/ caller' = "rollout" /\ f > opening'
         \/ PairedWith(a, f, caller'),
         \/ caller' = "repeat_last" /\ f > opening'
         \/ caller' \in {"session", "rollout"}
         \/ Len(aim) = 1 /\ aim[1].frame = Smaller(f + Offset, Length - 1),
         caller' \in Acting => watched' = Shown(f + 1 - PolicyPast, f + 1),
         caller' \notin {"session", "rollout"} => Scaled(h) /\ Scaled(aim),
         Tbptt # 0 => \A r \in Reaches(h) : r < f - opening' /\ r >= f - opening' - Tbptt
  PROVE  AskedAsTrained'
<1>1. /\ asked'.frame = f /\ asked'.past = Shown(f - Past, f) /\ asked'.acts = a
      /\ asked'.goal = Numbers(aim) /\ asked'.marks = marks /\ ~asked'.mislabelled
      /\ asked'.reach = Reaches(h)
      /\ Scaled(h) /\ Scaled(aim) => asked'.scales = {1}
  <2> DEFINE q == Forward(f, h, a, aim, marks)
  <2>1. /\ q.frame = f /\ q.past = Shown(f - Past, f) /\ q.acts = a
        /\ q.goal = Numbers(aim) /\ q.marks = marks /\ ~q.mislabelled
        /\ q.reach = Reaches(h)
        /\ Scaled(h) /\ Scaled(aim) => q.scales = {1}
    BY QuestionIs
  <2>2. asked' = q
    OBVIOUS
  <2> HIDE DEF q
  <2> QED
    BY <2>1, <2>2
<1>2. Past \in Nat \ {0} /\ Offset \in Nat
  BY ImaginationAssumption
<1>3. ASSUME PairedWith(a, f, caller') PROVE a = ActionsOf(f)'
  <2>1. a = [i \in 1 .. Past |-> a[i]]
    BY <1>3 DEF PairedWith
  <2>2. f - 1 + 1 - f + Past = Past /\ (f - 1 + 1) - (f - Past) = Past
    BY <1>2
  <2>3. ActionsOf(f)' = [i \in 1 .. Past |->
          IF caller' = "from_mmap" THEN ActionAt(f - Past + i - 1)
          ELSE Shown(f - Past, f - 1 + 1)[i]]
    BY <2>2 DEF ActionsOf
  <2>4. Shown(f - Past, f - 1 + 1) = [i \in 1 .. Past |-> Larger(Zeros, f - Past + i - 1)]
    BY <2>2 DEF Shown
  <2>5. ASSUME NEW i \in 1 .. Past
        PROVE  a[i] = IF caller' = "from_mmap" THEN ActionAt(f - Past + i - 1)
                      ELSE Shown(f - Past, f - 1 + 1)[i]
    BY <1>3, <2>4 DEF PairedWith
  <2> QED
    BY <2>1, <2>3, <2>5
<1>4. ASSUME Len(aim) = 1, aim[1].frame = Smaller(f + Offset, Length - 1)
      PROVE  Numbers(aim) = GoalOf(f)'
  <2>1. Numbers(aim) = [i \in 1 .. 1 |-> aim[i].frame]
    BY <1>4 DEF Numbers
  <2>2. Numbers(aim) = <<aim[1].frame>>
    BY <2>1
  <2> QED
    BY <1>4, <2>2 DEF GoalOf
<1>5. /\ \/ caller' = "repeat_last" /\ f - opening' >= UnrollSteps
         \/ caller' = "rollout" /\ f > opening'
         \/ asked'.acts = ActionsOf(f)'
      /\ \/ caller' = "repeat_last" /\ f > opening'
         \/ caller' \in {"session", "rollout"}
         \/ asked'.goal = GoalOf(f)'
  BY <1>1, <1>3, <1>4
<1>6. /\ caller' \notin {"session", "rollout"} => asked'.scales = {1}
      /\ Tbptt # 0 => \A r \in asked'.reach : r < f - opening' /\ r >= f - opening' - Tbptt
      /\ \A m \in asked'.marks : m.told + m.noise = FlowSteps
  BY <1>1
<1> QED
  BY <1>1, <1>5, <1>6 DEF AskedAsTrained

\* ... and of fa_dit.
LEMMA AsksFaDit ==
  ASSUME NEW f \in Nat, NEW h, Precede(h, f), NEW a, NEW aim, NEW pose \in Int, NEW told,
         NEW marks, asked' = ForwardFaDit(f, h, a, aim, pose, told, marks),
         arch' = "fa_dit", opening' \in Nat,
         aim = Latents(Cut(opening' + Offset, opening' + Offset + Anchor)),
         \A i \in 1 .. Past : told[i] = h[i].noise,
         \/ caller' = "repeat_last" /\ f - opening' >= UnrollSteps
         \/ /\ PairedWith(a, f, caller')
            /\ pose = IF caller' = "from_mmap" THEN ActionAt(f) ELSE f,
         caller' \notin Acting \cup {"session", "rollout", "clone"}, Scaled(h),
         Tbptt # 0 => \A r \in Reaches(h) : r < f - opening' /\ r >= f - opening' - Tbptt
  PROVE  AskedAsTrained'
<1>1. Past \in Nat \ {0} /\ Offset \in Nat /\ Anchor \in Nat
  BY ImaginationAssumption
<1>2. /\ aim \in Seq(Picture) /\ Scaled(aim)
      /\ Numbers(aim) = Cut(opening' + Offset, opening' + Offset + Anchor)
  <2> DEFINE c == Cut(opening' + Offset, opening' + Offset + Anchor)
  <2>1. c \in Seq(Int)
    <3>1. opening' + Offset \in Int /\ opening' + Offset + Anchor \in Int
      BY <1>1
    <3> QED
      BY <3>1, CutIs
  <2> HIDE DEF c
  <2>2. aim = Latents(c)
    BY DEF c
  <2>3. /\ aim \in Seq(Picture) /\ Len(aim) = Len(c)
        /\ \A i \in 1 .. Len(c) : aim[i] = Stored(c[i])
        /\ Numbers(aim) = c
    BY <2>1, <2>2, LatentsAre
  <2>4. ASSUME NEW i \in 1 .. Len(aim) PROVE aim[i].scale = 1
    <3>1. aim[i] = Stored(c[i])
      BY <2>3
    <3> QED
      BY <3>1 DEF Stored
  <2> QED
    BY <2>3, <2>4 DEF c, Scaled
<1> DEFINE b == Append(a, pose)
           q == Forward(f, h, b, aim, marks)
<1> HIDE DEF b
<1>3. /\ q.frame = f /\ q.past = Shown(f - Past, f) /\ q.acts = b
      /\ q.goal = Numbers(aim) /\ q.reach = Reaches(h) /\ q.scales = {1}
  BY <1>2, QuestionIs
<1>4. /\ asked'.frame = q.frame /\ asked'.past = q.past /\ asked'.acts = q.acts
      /\ asked'.goal = q.goal /\ asked'.reach = q.reach /\ asked'.scales = q.scales
      /\ asked'.mislabelled = \E i \in 1 .. Len(h) : told[i] # h[i].noise
  BY DEF ForwardFaDit, Forward, b
<1> HIDE DEF q
<1>5. ~asked'.mislabelled
  BY <1>4 DEF Precede
<1>6. ASSUME PairedWith(a, f, caller'),
             pose = IF caller' = "from_mmap" THEN ActionAt(f) ELSE f
      PROVE  b = ActionsOf(f)'
  <2>1. /\ b \in Seq(Int) /\ Len(b) = Past + 1
        /\ \A i \in 1 .. Past : b[i] = a[i]
        /\ b[Past + 1] = pose
    BY <1>6, AppendProperties DEF PairedWith, b
  <2>2. b = [i \in 1 .. Past + 1 |-> b[i]]
    BY <2>1
  <2>3. f + 1 - f + Past = Past + 1 /\ (f + 1) - (f - Past) = Past + 1
    BY <1>1
  <2>4. ActionsOf(f)' = [i \in 1 .. Past + 1 |->
          IF caller' = "from_mmap" THEN ActionAt(f - Past + i - 1)
          ELSE Shown(f - Past, f + 1)[i]]
    BY <2>3 DEF ActionsOf
  <2>5. Shown(f - Past, f + 1) = [i \in 1 .. Past + 1 |-> Larger(Zeros, f - Past + i - 1)]
    BY <2>3 DEF Shown
  <2>6. ASSUME NEW i \in 1 .. Past + 1
        PROVE  b[i] = IF caller' = "from_mmap" THEN ActionAt(f - Past + i - 1)
                      ELSE Shown(f - Past, f + 1)[i]
    <3>1. CASE i = Past + 1
      <4>1. f - Past + (Past + 1) - 1 = f /\ Larger(Zeros, f) = f
        BY <1>1 DEF Larger, Zeros
      <4> QED
        BY <1>6, <2>1, <2>5, <3>1, <4>1
    <3>2. CASE i # Past + 1
      <4>1. i \in 1 .. Past
        BY <1>1, <3>2
      <4> QED
        BY <1>6, <2>1, <2>5, <4>1 DEF PairedWith
    <3> QED
      BY <3>1, <3>2
  <2> QED
    BY <2>2, <2>4, <2>6
<1>7. Numbers(aim) = GoalOf(f)'
  BY <1>2 DEF GoalOf
<1> QED
  BY <1>3, <1>4, <1>5, <1>6, <1>7 DEF AskedAsTrained

Unreached(q) == \A i \in 1 .. Len(q) : q[i].reach = {}

\* A slice of the recording and its actions, as a history.
LEMMA RecordedPast ==
  ASSUME NEW start \in Nat, start + Past <= Length, NEW who
  PROVE  LET c == Cut(start, start + Past)
         IN /\ Precede(Latents(c), start + Past)
            /\ Scaled(Latents(c)) /\ Unreached(Latents(c))
            /\ PairedWith(c, start + Past, who)
<1> DEFINE t0 == start + Past
           c == Cut(start, t0)
           h == Latents(c)
<1>1. Past \in Nat \ {0} /\ Length \in Nat
  BY ImaginationAssumption
<1>2. start \in Int /\ t0 \in Nat /\ start <= t0 /\ t0 <= Length /\ t0 - start = Past
  BY <1>1
<1>3. \A i \in Int : t0 - Past + i - 1 = start + i - 1
  BY <1>1
<1> HIDE DEF t0
<1>4. /\ c \in Seq(Int) /\ Len(c) = Past
      /\ \A i \in 1 .. Past : c[i] = start + i - 1
  <2>1. /\ c \in Seq(Int) /\ Len(c) = t0 - start
        /\ \A i \in 1 .. t0 - start : c[i] = start + i - 1
    BY <1>2, WholeCut
  <2> QED
    BY <1>2, <2>1
<1> HIDE DEF c
<1>5. /\ h \in Seq(Picture) /\ Len(h) = Past
      /\ \A i \in 1 .. Past : h[i] = Stored(c[i])
  BY <1>4, LatentsAre
<1> HIDE DEF h
<1>6. ASSUME NEW i \in 1 .. Past
      PROVE  /\ h[i].frame = Larger(Zeros, t0 - Past + i - 1)
             /\ h[i].scale = 1 /\ h[i].reach = {}
             /\ c[i] = IF who = "from_mmap" THEN ActionAt(t0 - Past + i - 1)
                       ELSE Larger(Zeros, t0 - Past + i - 1)
  <2> DEFINE y == start + i - 1
  <2>1. y \in Nat /\ y < Length
    BY <1>1, <1>2
  <2>2. c[i] = y /\ h[i] = Stored(y) /\ t0 - Past + i - 1 = y
    BY <1>3, <1>4, <1>5
  <2> HIDE DEF y
  <2>3. Larger(Zeros, y) = y /\ ActionAt(y) = y
    BY <2>1 DEF Larger, Zeros, ActionAt
  <2>4. Stored(y).frame = y /\ Stored(y).scale = 1 /\ Stored(y).reach = {}
    BY DEF Stored
  <2> QED
    BY <2>2, <2>3, <2>4
<1>7. Precede(h, t0) /\ Scaled(h) /\ Unreached(h) /\ PairedWith(c, t0, who)
  BY <1>4, <1>5, <1>6 DEF Precede, Scaled, Unreached, PairedWith
<1> QED
  BY <1>7 DEF h, c, t0

\* What the trainer does to the history hides neither which frames it holds
\* nor how they are scaled.
LEMMA AugmentedIs ==
  ASSUME NEW f, NEW h, Precede(h, f), Scaled(h), Unreached(h), NEW g \in Augmented(h)
  PROVE  /\ Precede(g, f) /\ Scaled(g) /\ Unreached(g)
         /\ \A i \in 1 .. Past : g[i].noise \in Int
<1>1. h \in Seq(Picture) /\ Len(h) = Past
  BY DEF Precede
<1>2. CASE g = h
  <2>1. \A i \in 1 .. Past : h[i] \in Picture
    BY <1>1
  <2> QED
    BY <1>2, <2>1 DEF Picture
<1>3. CASE g # h
  <2>1. PICK levels \in [1 .. Len(h) -> 0 .. FlowSteps] : g = Noisy(h, levels)
    BY <1>3 DEF Augmented
  <2>2. g = [i \in 1 .. Past |-> [h[i] EXCEPT !.noise = levels[i]]]
    BY <1>1, <2>1 DEF Noisy
  <2>3. ASSUME NEW i \in 1 .. Past
        PROVE  /\ g[i] \in Picture /\ g[i].frame = h[i].frame /\ g[i].scale = h[i].scale
               /\ g[i].reach = h[i].reach
    <3>1. h[i] \in Picture /\ g[i] = [h[i] EXCEPT !.noise = levels[i]]
      BY <1>1, <2>2
    <3>2. levels[i] \in Int
      BY <1>1, <2>1, ImaginationAssumption
    <3> QED
      BY <3>1, <3>2 DEF Picture
  <2>4. g \in Seq(Picture) /\ Len(g) = Past
    <3>1. Past \in Nat
      BY ImaginationAssumption
    <3>2. DOMAIN g = 1 .. Past /\ g = [i \in 1 .. Past |-> g[i]]
      BY <2>2
    <3> QED
      BY <2>3, <3>1, <3>2
  <2>5. \A i \in 1 .. Past : g[i].noise \in Int
    BY <2>3 DEF Picture
  <2> QED
    BY <1>1, <2>3, <2>4, <2>5 DEF Precede, Scaled, Unreached
<1> QED
  BY <1>2, <1>3

\* c is what stood at the PolicyPast frames before t0.
InSightAt(c, t0) ==
  /\ c \in Seq(Int) /\ Len(c) = PolicyPast
  /\ \A i \in 1 .. PolicyPast : c[i] = Larger(Zeros, t0 - PolicyPast + i - 1)

\* A slice that begins before the episode does, padded.
LEMMA PaddedIs ==
  ASSUME NEW pad \in 0 .. PolicyPast, NEW start \in Nat, pad = 0 \/ start = 0,
         NEW t0 \in Int, t0 = start + PolicyPast - pad, t0 <= Length
  PROVE  LET c == Pad(pad) \o Cut(start, t0)
         IN InSightAt(c, t0)
<1> DEFINE p == Pad(pad)
           r == Cut(start, t0)
           c == p \o r
<1>1. PolicyPast \in Nat /\ start <= t0 /\ t0 - start = PolicyPast - pad /\ start \in Int
      /\ pad \in Nat
  BY ImaginationAssumption
<1>2. p \in Seq(Int) /\ Len(p) = pad /\ \A i \in 1 .. pad : p[i] = Zeros
  <2>1. p = [i \in 1 .. pad |-> Zeros] /\ Zeros \in Int
    BY DEF Pad, Zeros
  <2> QED
    BY <1>1, <2>1
<1>3. /\ r \in Seq(Int) /\ Len(r) = PolicyPast - pad
      /\ \A i \in 1 .. PolicyPast - pad : r[i] = start + i - 1
  <2>1. /\ r \in Seq(Int) /\ Len(r) = t0 - start
        /\ \A i \in 1 .. t0 - start : r[i] = start + i - 1
    BY <1>1, WholeCut
  <2> QED
    BY <1>1, <2>1
<1> HIDE DEF p, r
<1>4. /\ c \in Seq(Int) /\ Len(c) = Len(p) + Len(r)
      /\ \A i \in 1 .. Len(p) + Len(r) :
           c[i] = IF i <= Len(p) THEN p[i] ELSE r[i - Len(p)]
  BY <1>2, <1>3, ConcatProperties
<1> HIDE DEF c
<1>5. Len(p) + Len(r) = PolicyPast
  BY <1>1, <1>2, <1>3
<1>6. ASSUME NEW i \in 1 .. PolicyPast
      PROVE  c[i] = Larger(Zeros, t0 - PolicyPast + i - 1)
  <2>1. c[i] = IF i <= pad THEN p[i] ELSE r[i - pad]
    BY <1>2, <1>4, <1>5
  <2>2. CASE i <= pad
    <3>1. c[i] = Zeros
      BY <1>1, <1>2, <2>1, <2>2
    <3>2. start = 0 /\ t0 - PolicyPast + i - 1 <= -1 /\ t0 - PolicyPast + i - 1 \in Int
      BY <1>1, <2>2
    <3> QED
      BY <3>1, <3>2 DEF Larger, Zeros
  <2>3. CASE ~(i <= pad)
    <3>1. i - pad \in 1 .. PolicyPast - pad
      BY <1>1, <2>3
    <3>2. c[i] = start + (i - pad) - 1
      BY <1>3, <2>1, <2>3, <3>1
    <3>3. start + (i - pad) - 1 = t0 - PolicyPast + i - 1 /\ start + (i - pad) - 1 \in Nat
      BY <1>1, <3>1
    <3> QED
      BY <3>2, <3>3 DEF Larger, Zeros
  <2> QED
    BY <2>2, <2>3
<1>7. InSightAt(c, t0)
  BY <1>4, <1>5, <1>6 DEF InSightAt
<1> QED
  BY <1>7 DEF c, p, r

\* Its end is the history of a rollout, all of it what the policy looks at.
LEMMA ContextIs ==
  ASSUME NEW c, NEW t0 \in Int, InSightAt(c, t0), NEW who, who # "from_mmap"
  PROVE  /\ c = Shown(t0 - PolicyPast, t0)
         /\ Precede(LastOf(Latents(c), Past), t0)
         /\ Scaled(LastOf(Latents(c), Past)) /\ Unreached(LastOf(Latents(c), Past))
         /\ PairedWith(LastOf(c, Past), t0, who)
<1>1. /\ PolicyPast \in Nat /\ Past \in Nat /\ 0 < Past /\ Past <= PolicyPast
      /\ c \in Seq(Int) /\ Len(c) = PolicyPast
      /\ \A i \in 1 .. PolicyPast : c[i] = Larger(Zeros, t0 - PolicyPast + i - 1)
  BY ImaginationAssumption DEF InSightAt
<1>2. c = Shown(t0 - PolicyPast, t0)
  <2>1. t0 - (t0 - PolicyPast) = PolicyPast
    BY <1>1
  <2>2. c = [i \in 1 .. PolicyPast |-> c[i]]
    BY <1>1
  <2>3. Shown(t0 - PolicyPast, t0)
          = [i \in 1 .. PolicyPast |-> Larger(Zeros, t0 - PolicyPast + i - 1)]
    BY <2>1 DEF Shown
  <2> QED
    BY <1>1, <2>2, <2>3
<1> DEFINE h == Latents(c)
           g == LastOf(h, Past)
           a == LastOf(c, Past)
<1>3. h \in Seq(Picture) /\ Len(h) = PolicyPast /\ \A i \in 1 .. PolicyPast : h[i] = Stored(c[i])
  BY <1>1, LatentsAre
<1> HIDE DEF h
<1>4. /\ g \in Seq(Picture) /\ Len(g) = Past
      /\ \A i \in 1 .. Past : g[i] = h[PolicyPast - Past + i]
  <2>1. /\ g \in Seq(Picture) /\ Len(g) = Past
        /\ \A i \in 1 .. Past : g[i] = h[Len(h) - Past + i]
    BY <1>1, <1>3, LastOfIs
  <2> QED
    BY <1>3, <2>1
<1>5. /\ a \in Seq(Int) /\ Len(a) = Past
      /\ \A i \in 1 .. Past : a[i] = c[PolicyPast - Past + i]
  <2>1. /\ a \in Seq(Int) /\ Len(a) = Past
        /\ \A i \in 1 .. Past : a[i] = c[Len(c) - Past + i]
    BY <1>1, LastOfIs
  <2> QED
    BY <1>1, <2>1
<1> HIDE DEF g, a
<1>6. ASSUME NEW i \in 1 .. Past
      PROVE  /\ a[i] = Larger(Zeros, t0 - Past + i - 1) /\ g[i].frame = a[i]
             /\ g[i].scale = 1 /\ g[i].reach = {}
  <2> DEFINE j == PolicyPast - Past + i
  <2>1. j \in 1 .. PolicyPast /\ t0 - PolicyPast + j - 1 = t0 - Past + i - 1
    BY <1>1
  <2>2. a[i] = c[j] /\ g[i] = h[j]
    BY <1>4, <1>5
  <2> HIDE DEF j
  <2>3. c[j] = Larger(Zeros, t0 - Past + i - 1) /\ h[j] = Stored(c[j])
    BY <1>1, <1>3, <2>1
  <2> QED
    BY <2>2, <2>3 DEF Stored
<1>7. Precede(g, t0) /\ Scaled(g) /\ Unreached(g) /\ PairedWith(a, t0, who)
  BY <1>4, <1>5, <1>6 DEF Precede, Scaled, Unreached, PairedWith
<1> QED
  BY <1>2, <1>7 DEF g, a, h

\* Where the rollouts of a policy start.
LEMMA PlacedIs ==
  ASSUME EpisodeHolds, NEW sf \in Int, -PolicyPast <= sf
  PROVE  LET p == Placed(sf, GifFrames)
         IN /\ p.pad \in 0 .. PolicyPast /\ p.start \in Nat /\ (p.pad = 0 \/ p.start = 0)
            /\ p.context = PolicyPast - p.pad /\ p.start + p.context <= Length
            /\ p.frames \in Nat
<1> DEFINE pad == Larger(0, -sf)
           context == PolicyPast - pad
           needed == context + GifFrames + Offset
           asks == Larger(0, sf)
           start == IF asks + needed > Length THEN Larger(0, Length - needed) ELSE asks
           room == Length - start - context
<1>1. /\ PolicyPast \in Nat /\ GifFrames \in Nat /\ Offset \in Nat /\ Length \in Nat
      /\ Length >= PolicyPast
  BY ImaginationAssumption DEF EpisodeHolds
<1>2. /\ Placed(sf, GifFrames).pad = pad /\ Placed(sf, GifFrames).start = start
      /\ Placed(sf, GifFrames).context = context
      /\ Placed(sf, GifFrames).frames = IF room < GifFrames THEN Larger(1, room) ELSE GifFrames
  BY DEF Placed
<1>3. /\ pad \in 0 .. PolicyPast /\ asks \in Nat /\ (pad = 0 \/ asks = 0)
  BY <1>1 DEF Larger
<1> HIDE DEF pad, asks
<1>4. context \in Nat /\ needed \in Nat /\ needed >= context /\ context <= Length
  BY <1>1, <1>3
<1>7. asks = 0 => start = 0
  BY <1>4, <1>1 DEF Larger
<1> HIDE DEF needed
<1>5. start \in Nat /\ start + context <= Length
  BY <1>1, <1>3, <1>4 DEF Larger
<1> HIDE DEF context, start
<1>6. (IF room < GifFrames THEN Larger(1, room) ELSE GifFrames) \in Nat
  BY <1>1, <1>4, <1>5 DEF Larger
<1> QED
  BY <1>2, <1>3, <1>5, <1>6, <1>7 DEF context

Predicting == standing = "running" /\ caller # "frames"

\* repeat_last runs out of actions, a rollout has none.
ActionsLast ==
  /\ caller = "repeat_last" => k <= UnrollSteps
  /\ caller = "rollout" => k = 0

ImagTyped ==
  /\ arch \in {"dit_v1", "fa_dit"}
  /\ caller \in {"clone", "session", "rollout", "frames"} \cup Acting => arch = "dit_v1"
  /\ opening \in Nat /\ k \in Nat /\ frames \in Nat
  /\ standing = "setup" => k = 0 /\ asked = None

\* While training the gradient of step n reaches what is not yet detached.
Reaching(h, steps, n) ==
  \A i \in 1 .. Len(h) : \A r \in h[i].reach :
    r < n /\ (Tbptt # 0 => r >= steps - Tbptt)

HistoryInv ==
  Predicting =>
    /\ Precede(past, opening + k)
    /\ acts \in Seq(Int) /\ Len(acts) = Past
    /\ ActionsLast => PairedWith(acts, opening + k, caller)
    /\ caller \notin {"session", "rollout"} => Scaled(past)
    /\ caller = "repeat_last" => opening = Past
    /\ caller = "train" =>
         /\ opening - Past \in Indices /\ k < frames /\ frames <= UnrollSteps
         /\ Reaching(past, frames, k)
    /\ caller # "train" => Unreached(past)

\* The goal of a session is the server's, the others are replaced as long as
\* the episode reaches so far.
AimInv ==
  Predicting /\ arch = "dit_v1" /\ caller # "train" =>
    /\ goal \in Seq(Picture) /\ Len(goal) = 1
    /\ caller \notin {"session", "rollout"} => Scaled(goal)
    /\ caller = "repeat_last" /\ k = 0 =>
         goal[1].frame = Smaller(opening + k + Offset, Length - 1)
    /\ caller \in Acting \cup {"from_mmap"} /\ opening + k + Offset >= Length =>
         goal[1].frame = Length - 1

\* The anchor stays, and fa_dit is told of the noise there is.
AnchorInv ==
  Predicting /\ arch = "fa_dit" =>
    /\ goal = Latents(Cut(opening + Offset, opening + Offset + Anchor))
    /\ taus \in Seq(Int) /\ Len(taus) = Past
    /\ \A i \in 1 .. Past : taus[i] = past[i].noise
    /\ caller # "train" => taus = Clean

WatchInv ==
  standing = "running" /\ caller \in Acting =>
    watched = Shown((opening + k) - PolicyPast, opening + k)

ImagInv == ImagTyped /\ HistoryInv /\ AimInv /\ AnchorInv /\ WatchInv /\ AskedAsTrained

\* No loop goes on.
LEMMA NothingRuns ==
  ASSUME ImagTyped', AskedAsTrained', standing' # "running"
  PROVE  ImagInv'
BY DEF ImagInv, HistoryInv, AimInv, AnchorInv, WatchInv, Predicting

LEMMA NothingAsked ==
  ASSUME asked' = None, caller' # "clone" \/ standing' # "over"
  PROVE  AskedAsTrained'
BY DEF AskedAsTrained

LEMMA TypedOn ==
  ASSUME ImagTyped, UNCHANGED <<arch, caller>>, opening' \in Nat, k' \in Nat, frames' \in Nat,
         standing' # "setup"
  PROVE  ImagTyped'
BY DEF ImagTyped

LEMMA StoredIs ==
  ASSUME NEW i \in Int
  PROVE  /\ Stored(i) \in Picture /\ Stored(i).frame = i /\ Stored(i).scale = 1
         /\ Stored(i).reach = {} /\ Stored(i).noise = 0
         /\ <<Stored(i)>> \in Seq(Picture) /\ Len(<<Stored(i)>>) = 1
         /\ Scaled(<<Stored(i)>>) /\ <<Stored(i)>>[1].frame = i
         /\ Rescaled(Stored(i)) \in Picture /\ Rescaled(Stored(i)).frame = i
         /\ Rescaled(Stored(i)).reach = {}
         /\ <<Rescaled(Stored(i))>> \in Seq(Picture) /\ Len(<<Rescaled(Stored(i))>>) = 1
         /\ <<Rescaled(Stored(i))>>[1].frame = i
<1>1. /\ Stored(i) \in Picture /\ Stored(i).frame = i /\ Stored(i).scale = 1
      /\ Stored(i).reach = {} /\ Stored(i).noise = 0
  BY DEF Stored, Picture
<1>2. /\ Rescaled(Stored(i)) \in Picture /\ Rescaled(Stored(i)).frame = i
      /\ Rescaled(Stored(i)).reach = {}
  BY DEF Stored, Rescaled, Picture
<1>3. ASSUME NEW x \in Picture PROVE <<x>> \in Seq(Picture) /\ Len(<<x>>) = 1 /\ <<x>>[1] = x
  OBVIOUS
<1> HIDE DEF Stored
<1>4. /\ <<Stored(i)>> \in Seq(Picture) /\ Len(<<Stored(i)>>) = 1
      /\ <<Stored(i)>>[1] = Stored(i)
  BY <1>1, <1>3
<1>5. /\ <<Rescaled(Stored(i))>> \in Seq(Picture) /\ Len(<<Rescaled(Stored(i))>>) = 1
      /\ <<Rescaled(Stored(i))>>[1] = Rescaled(Stored(i))
  BY <1>2, <1>3
<1>6. Scaled(<<Stored(i)>>)
  <2> DEFINE q == <<Stored(i)>>
  <2>1. Len(q) = 1 /\ q[1].scale = 1
    BY <1>1, <1>4
  <2> HIDE DEF q
  <2>2. Scaled(q)
    BY <2>1 DEF Scaled
  <2> QED
    BY <2>2 DEF q
<1> QED
  BY <1>1, <1>2, <1>4, <1>5, <1>6

LEMMA AtZero ==
  ASSUME NEW n \in Nat, NEW m, m = 0, NEW d \in Nat
  PROVE  n + m + d = n + d /\ (n + m) - 1 + d = n - 1 + d
OBVIOUS

LEMMA PlusZero ==
  ASSUME NEW n \in Nat, NEW m, m = 0
  PROVE  n + m = n
OBVIOUS

LEMMA BeyondTheEnd ==
  ASSUME NEW x \in Int, x >= Length
  PROVE  Smaller(x, Length - 1) = Length - 1
BY ImaginationAssumption DEF Smaller

\* A loop opens with Past recorded frames.
LEMMA Opens ==
  ASSUME caller' # "train", k' = 0, Precede(past', opening'), opening' \in Nat,
         Unreached(past'), PairedWith(acts', opening', caller'),
         caller' \notin {"session", "rollout"} => Scaled(past'),
         caller' = "repeat_last" => opening' = Past
  PROVE  HistoryInv'
<1>1. opening' + k' = opening'
  BY PlusZero
<1>2. acts' \in Seq(Int) /\ Len(acts') = Past
  BY DEF PairedWith
<1> QED
  BY <1>1, <1>2 DEF HistoryInv

\* The aim of dit_v1 when a loop opens.
LEMMA AimOpens ==
  ASSUME caller' # "train", k' = 0, opening' \in Nat, NEW g \in Int,
         \/ /\ caller' \notin {"session", "rollout"} /\ goal' = <<Stored(g)>>
            /\ g = Smaller(opening' + Offset, Length - 1)
         \/ caller' \in {"session", "rollout"} /\ goal' = <<Rescaled(Stored(g))>>
  PROVE  AimInv'
<1>1. Offset \in Nat /\ Length \in Nat
  BY ImaginationAssumption
<1>2. opening' + k' + Offset = opening' + Offset
  BY <1>1, AtZero
<1>3. opening' + Offset >= Length => Smaller(opening' + Offset, Length - 1) = Length - 1
  <2>1. opening' + Offset \in Int
    BY <1>1
  <2> QED
    BY <2>1, BeyondTheEnd
<1>4. goal' \in Seq(Picture) /\ Len(goal') = 1 /\ goal'[1].frame = g
  <2>1. goal' = <<Stored(g)>> \/ goal' = <<Rescaled(Stored(g))>>
    OBVIOUS
  <2> QED
    BY <2>1, StoredIs
<1>5. CASE caller' \notin {"session", "rollout"} /\ goal' = <<Stored(g)>>
           /\ g = Smaller(opening' + Offset, Length - 1)
  <2>1. Scaled(goal')
    BY <1>5, StoredIs
  <2> QED
    BY <1>2, <1>3, <1>4, <1>5, <2>1 DEF AimInv
<1>6. CASE caller' \in {"session", "rollout"} /\ goal' = <<Rescaled(Stored(g))>>
  BY <1>2, <1>4, <1>6 DEF AimInv, Acting
<1> QED
  BY <1>5, <1>6

LEMMA LastAll ==
  ASSUME NEW S, NEW q \in Seq(S), Len(q) = Past
  PROVE  LastOf(q, Past) = q
<1>1. Past \in Nat /\ 0 < Past /\ Past <= Len(q)
  BY ImaginationAssumption
<1> DEFINE r == LastOf(q, Past)
<1>2. r \in Seq(S) /\ Len(r) = Past /\ \A i \in 1 .. Past : r[i] = q[Len(q) - Past + i]
  BY <1>1, LastOfIs
<1> HIDE DEF r
<1>3. \A i \in 1 .. Past : r[i] = q[i]
  <2>1. \A i \in 1 .. Past : Len(q) - Past + i = i
    BY <1>1
  <2> QED
    BY <1>2, <2>1
<1>4. r = [i \in 1 .. Past |-> r[i]] /\ q = [i \in 1 .. Past |-> q[i]]
  BY <1>2
<1>5. r = q
  BY <1>3, <1>4
<1> QED
  BY <1>5 DEF r

\* A loop of dit_v1 opens ...
LEMMA DitOpens ==
  ASSUME ImagTyped, standing = "setup", UNCHANGED <<caller, arch, asked, k>>,
         caller # "train", arch = "dit_v1", opening' \in Nat, frames' \in Nat,
         NEW h, NEW a, NEW aim, InitRolloutState(h, a, aim),
         Precede(h, opening'), Unreached(h), PairedWith(a, opening', caller),
         caller \notin {"session", "rollout"} => Scaled(h),
         caller = "repeat_last" => opening' = Past,
         NEW g \in Int,
         \/ /\ caller \notin {"session", "rollout"} /\ aim = <<Stored(g)>>
            /\ g = Smaller(opening' + Offset, Length - 1)
         \/ caller \in {"session", "rollout"} /\ aim = <<Rescaled(Stored(g))>>,
         caller \in Acting => watched' = Shown(opening' - PolicyPast, opening')
  PROVE  ImagInv'
<1>1. k' = 0 /\ asked' = None /\ caller' = caller /\ arch' = arch /\ k' \in Nat
  BY DEF ImagTyped
<1>2. standing' # "setup" /\ standing' # "over"
  BY DEF InitRolloutState
<1>3. ImagTyped' /\ AskedAsTrained'
  BY <1>1, <1>2, TypedOn, NothingAsked
<1>4. CASE standing' # "running"
  BY <1>3, <1>4, NothingRuns
<1>5. CASE standing' = "running"
  <2>1. past' = h /\ acts' = a /\ goal' = aim
    BY <1>5 DEF InitRolloutState
  <2>2. HistoryInv'
    BY <1>1, <2>1, Opens
  <2>3. AimInv'
    BY <1>1, <2>1, AimOpens
  <2>4. AnchorInv'
    BY <1>1 DEF AnchorInv
  <2>5. WatchInv'
    <3>1. opening' + k' = opening'
      <4>1. opening' \in Nat /\ k' = 0
        BY <1>1
      <4> QED
        BY <4>1, PlusZero
    <3> QED
      BY <1>1, <3>1 DEF WatchInv
  <2> QED
    BY <1>3, <2>2, <2>3, <2>4, <2>5 DEF ImagInv
<1> QED
  BY <1>4, <1>5

\* ... and one of fa_dit.
LEMMA FaDitOpens ==
  ASSUME ImagTyped, standing = "setup", UNCHANGED <<caller, arch, asked, k>>,
         caller \notin {"train", "session", "rollout"} \cup Acting,
         arch = "fa_dit", opening' \in Nat, frames' \in Nat,
         NEW h, NEW a, NEW aim, InitFaDitState(h, a, aim),
         Precede(h, opening'), Unreached(h), PairedWith(a, opening', caller), Scaled(h),
         \A i \in 1 .. Past : h[i].noise = 0,
         caller = "repeat_last" => opening' = Past,
         aim = Latents(Cut(opening' + Offset, opening' + Offset + Anchor))
  PROVE  ImagInv'
<1>1. k' = 0 /\ asked' = None /\ caller' = caller /\ arch' = arch /\ k' \in Nat
  BY DEF ImagTyped
<1>2. standing' # "setup" /\ standing' # "over"
  BY DEF InitFaDitState
<1>3. ImagTyped' /\ AskedAsTrained'
  BY <1>1, <1>2, TypedOn, NothingAsked
<1>4. CASE standing' # "running"
  BY <1>3, <1>4, NothingRuns
<1>5. CASE standing' = "running"
  <2>1. past' = h /\ acts' = a /\ goal' = aim /\ taus' = Clean
    BY <1>5 DEF InitFaDitState
  <2>2. HistoryInv'
    BY <1>1, <2>1, Opens
  <2>3. AimInv' /\ WatchInv'
    BY <1>1 DEF AimInv, WatchInv
  <2>4. AnchorInv'
    <3>1. Clean \in Seq(Int) /\ Len(Clean) = Past /\ \A i \in 1 .. Past : Clean[i] = 0
      BY ImaginationAssumption DEF Clean
    <3> QED
      BY <2>1, <3>1 DEF AnchorInv
  <2> QED
    BY <1>3, <2>2, <2>3, <2>4 DEF ImagInv
<1> QED
  BY <1>4, <1>5

LEMMA FirstWindow ==
  ASSUME EpisodeHolds
  PROVE  0 \in Indices
<1>1. Lookahead \in Nat /\ Past \in Nat /\ Length \in Nat
  BY ImaginationAssumption DEF Lookahead, Larger
<1> QED
  BY <1>1 DEF EpisodeHolds, Indices

LEMMA WindowOpens ==
  ASSUME NEW start \in Indices, NEW who
  PROVE  LET w == Window(start)
         IN /\ Precede(w.observations, start + Past)
            /\ Scaled(w.observations) /\ Unreached(w.observations)
            /\ PairedWith(w.actions, start + Past, who)
            /\ \A i \in 1 .. Past : w.observations[i].noise = 0
<1> DEFINE w == Window(start)
<1>1. /\ w.observations = Latents(Cut(start, start + Past))
      /\ w.actions = Cut(start, start + Past)
  BY DEF Window
<1>2. /\ start \in Nat /\ start + Past <= Length
      /\ \A i \in 1 .. Past : w.observations[i] = Stored(start + i - 1)
  <2>1. /\ start \in Nat /\ \A i \in 1 .. Past : w.observations[i] = Stored(start + i - 1)
        /\ start + Past + Offset + UnrollSteps <= Length - 1
    BY WindowIs
  <2>2. Past \in Nat /\ Offset \in Nat /\ UnrollSteps \in Nat /\ Length \in Nat
    BY ImaginationAssumption
  <2>3. start + Past <= Length
    BY <2>1, <2>2
  <2> QED
    BY <2>1, <2>3
<1> HIDE DEF w
<1>3. /\ Precede(w.observations, start + Past)
      /\ Scaled(w.observations) /\ Unreached(w.observations)
      /\ PairedWith(w.actions, start + Past, who)
  BY <1>1, <1>2, RecordedPast
<1>4. ASSUME NEW i \in 1 .. Past PROVE w.observations[i].noise = 0
  <2>1. start + i - 1 \in Int /\ w.observations[i] = Stored(start + i - 1)
    BY <1>2
  <2> QED
    BY <2>1 DEF Stored
<1> QED
  BY <1>3, <1>4 DEF w

LEMMA GifOpens ==
  ASSUME EpisodeHolds, ImagInv, BeginGif
  PROVE  ImagInv'
<1>1. /\ ImagTyped /\ caller \in {"repeat_last", "from_mmap"} /\ standing = "setup"
      /\ UNCHANGED <<caller, arch, asked, k>> /\ caller # "train"
      /\ caller \notin {"session", "rollout"} /\ caller \notin Acting
      /\ arch \in {"dit_v1", "fa_dit"}
  BY DEF ImagInv, ImagTyped, BeginGif, Acting
<1>2. /\ Past \in Nat \ {0} /\ Offset \in Nat /\ Anchor \in Nat \ {0} /\ Length \in Nat
      /\ GifFrames \in Nat \ {0} /\ UnrollSteps \in Nat \ {0}
  BY ImaginationAssumption
<1>3. CASE caller = "repeat_last"
  <2> DEFINE w == Window(0)
  <2>1. /\ Precede(w.observations, Past) /\ Scaled(w.observations)
        /\ Unreached(w.observations) /\ PairedWith(w.actions, Past, caller)
        /\ \A i \in 1 .. Past : w.observations[i].noise = 0
    <3>1. 0 + Past = Past
      BY <1>2
    <3> QED
      BY <3>1, FirstWindow, WindowOpens
  <2>2. /\ w.observations \in Seq(Picture) /\ Len(w.observations) = Past
        /\ w.actions \in Seq(Int) /\ Len(w.actions) = Past
    BY <2>1 DEF Precede, PairedWith
  <2>3. /\ w.goals[1] = Stored(Past + Offset) /\ Past + Offset <= Length - 1
        /\ w.future_latents = Latents(Cut(Past + Offset, Past + Offset + Anchor))
    <3>1. /\ w.goals[1] = Stored(0 + Past + Offset + 1 - 1)
          /\ 0 + Past + Offset + UnrollSteps <= Length - 1
          /\ w.future_latents = Latents(Cut(0 + Past + Offset, 0 + Past + Offset + Anchor))
      <4>1. 1 \in 1 .. UnrollSteps
        BY <1>2
      <4> QED
        BY <4>1, FirstWindow, WindowIs
    <3>2. /\ 0 + Past + Offset + 1 - 1 = Past + Offset /\ 0 + Past + Offset = Past + Offset
      BY <1>2
    <3> QED
      BY <1>2, <3>1, <3>2
  <2> HIDE DEF w
  <2>4. CASE arch = "fa_dit"
    <3>1. /\ opening' = Past /\ frames' = GifFrames
          /\ InitFaDitState(w.observations, w.actions, w.future_latents)
      BY <1>3, <2>4 DEF BeginGif, BeginRepeatLastFaDit, w
    <3> QED
      BY <1>1, <1>2, <2>1, <2>3, <2>4, <3>1, FaDitOpens
  <2>5. CASE arch = "dit_v1"
    <3>1. /\ opening' = Past /\ frames' = GifFrames
          /\ InitRolloutState(LastOf(w.observations, Past), LastOf(w.actions, Past),
                              <<w.goals[1]>>)
      BY <1>3, <2>5 DEF BeginGif, BeginRepeatLast, w
    <3>2. InitRolloutState(w.observations, w.actions, <<w.goals[1]>>)
      BY <2>2, <3>1, LastAll
    <3>3. Smaller(Past + Offset, Length - 1) = Past + Offset /\ Past + Offset \in Int
      BY <1>2, <2>3 DEF Smaller
    <3> QED
      BY <1>1, <1>2, <2>1, <2>3, <2>5, <3>1, <3>2, <3>3, DitOpens
  <2> QED
    BY <1>1, <2>4, <2>5
<1>4. CASE caller = "from_mmap"
  <2>1. PICK start_frame \in 0 .. Length :
          IF arch = "fa_dit" THEN BeginFromMmapFaDit(start_frame)
                             ELSE BeginFromMmap(start_frame)
    BY <1>4 DEF BeginGif
  <2>2. Length >= Past
    <3>1. Lookahead \in Nat
      BY <1>2, ImaginationAssumption DEF Lookahead, Larger
    <3> QED
      BY <1>2, <3>1 DEF EpisodeHolds
  <2>3. CASE arch = "fa_dit"
    <3> DEFINE needed == Past + GifFrames + Larger(Offset + Anchor, 1)
               start == Larger(0, Smaller(start_frame, Length - needed))
               c == Cut(start, start + Past)
               t0 == start + Past
    <3>1. /\ opening' = t0 /\ frames' = GifFrames
          /\ InitFaDitState(Latents(c), c, Latents(Cut(t0 + Offset, t0 + Offset + Anchor)))
      BY <2>1, <2>3 DEF BeginFromMmapFaDit
    <3>2. start \in Nat /\ start + Past <= Length /\ t0 \in Nat
      <4>1. needed \in Nat /\ needed >= Past
        BY <1>2 DEF Larger
      <4> HIDE DEF needed
      <4> QED
        BY <1>2, <2>2, <4>1 DEF Larger, Smaller
    <3> HIDE DEF start
    <3>3. /\ Precede(Latents(c), t0) /\ Scaled(Latents(c)) /\ Unreached(Latents(c))
          /\ PairedWith(c, t0, caller)
      BY <3>2, RecordedPast
    <3>4. \A i \in 1 .. Past : Latents(c)[i].noise = 0
      <4>1. c \in Seq(Int) /\ Len(c) = Past
        BY <3>3 DEF PairedWith
      <4> HIDE DEF c
      <4>2. ASSUME NEW i \in 1 .. Past PROVE Latents(c)[i].noise = 0
        <5>1. Latents(c)[i] = Stored(c[i])
          BY <4>1, LatentsAre
        <5> QED
          BY <5>1 DEF Stored
      <4> QED
        BY <4>2
    <3> HIDE DEF c, t0
    <3> QED
      BY <1>1, <1>2, <1>4, <2>3, <3>1, <3>2, <3>3, <3>4, FaDitOpens
  <2>4. CASE arch = "dit_v1"
    <3> DEFINE start == Larger(0, Smaller(start_frame, Length - Past - GifFrames - Offset))
               c == Cut(start, start + Past)
               t0 == start + Past
               g == Smaller(t0 + Offset, Length - 1)
    <3>1. /\ opening' = t0 /\ frames' = GifFrames
          /\ InitRolloutState(Latents(c), c, <<Stored(g)>>)
      BY <2>1, <2>4 DEF BeginFromMmap
    <3>2. start \in Nat /\ start + Past <= Length /\ t0 \in Nat /\ g \in Int
      <4>1. start \in Nat /\ start + Past <= Length
        BY <1>2, <2>2 DEF Larger, Smaller
      <4> HIDE DEF start
      <4> QED
        BY <1>2, <4>1 DEF Smaller
    <3> HIDE DEF start
    <3>3. /\ Precede(Latents(c), t0) /\ Scaled(Latents(c)) /\ Unreached(Latents(c))
          /\ PairedWith(c, t0, caller)
      BY <3>2, RecordedPast
    <3>4. g = Smaller(opening' + Offset, Length - 1)
      BY <3>1
    <3> HIDE DEF c, t0, g
    <3> QED
      BY <1>1, <1>2, <1>4, <2>4, <3>1, <3>2, <3>3, <3>4, DitOpens
  <2> QED
    BY <1>1, <2>3, <2>4
<1> QED
  BY <1>1, <1>3, <1>4

\* Every seed and every start_frame gives a place.
LEMMA PolicyStarts ==
  ASSUME BeginPolicy
  PROVE  \/ \E sf \in Int : -PolicyPast <= sf /\ BeginRolloutAt(Placed(sf, GifFrames))
         \/ standing' = "refused" /\ UNCHANGED <<opening, frames, past, acts, goal>>
<1>1. /\ SeedFrames \in Seq(Nat) /\ Len(SeedFrames) \in Nat \ {0}
      /\ PolicyPast \in Nat /\ Length \in Nat
  BY ImaginationAssumption
<1>2. ASSUME NEW s \in 0 .. Len(SeedFrames) - 1, FromSeed(s)
      PROVE  \E sf \in Int : -PolicyPast <= sf /\ BeginRolloutAt(Placed(sf, GifFrames))
  <2>1. s + 1 \in 1 .. Len(SeedFrames)
    BY <1>1
  <2>2. SeedFrames[s + 1] \in Nat
    BY <1>1, <2>1
  <2> DEFINE sf == SeedFrames[s + 1] - PolicyPast
  <2>3. sf \in Int /\ -PolicyPast <= sf
    BY <1>1, <2>2
  <2>4. BeginRolloutAt(Placed(sf, GifFrames))
    BY <1>2 DEF FromSeed
  <2> HIDE DEF sf
  <2> QED
    BY <2>3, <2>4
<1>3. CASE BeginPPO
  <2>1. PICK i \in 0 .. 2 * Len(SeedFrames) : FromSeed(i % Len(SeedFrames))
    BY <1>3 DEF BeginPPO
  <2>2. i % Len(SeedFrames) \in 0 .. Len(SeedFrames) - 1
    BY <1>1
  <2> QED
    BY <1>2, <2>1, <2>2
<1>4. CASE BeginMkv
  <2>1. PICK s \in Chosen : s >= 0 /\ s < Len(SeedFrames) /\ FromSeed(s)
    BY <1>4 DEF BeginMkv
  <2>2. s \in 0 .. Len(SeedFrames) - 1
    BY <1>1, <2>1 DEF Chosen
  <2> QED
    BY <1>2, <2>1, <2>2
<1>5. CASE BeginDebug
  <2>1. PICK s \in Chosen :
          IF s = Len(SeedFrames)
            THEN standing' = "refused"
                 /\ UNCHANGED <<opening, frames, watched, past, acts, goal, taus>>
            ELSE FromSeed(IF s < 0 THEN s + Len(SeedFrames) ELSE s)
    BY <1>5 DEF BeginDebug
  <2>2. CASE s = Len(SeedFrames)
    BY <2>1, <2>2
  <2>3. CASE s # Len(SeedFrames)
    <3> DEFINE t == IF s < 0 THEN s + Len(SeedFrames) ELSE s
    <3>1. t \in 0 .. Len(SeedFrames) - 1
      BY <1>1, <2>3 DEF Chosen
    <3>2. FromSeed(t)
      BY <2>1, <2>3
    <3> HIDE DEF t
    <3> QED
      BY <1>2, <3>1, <3>2
  <2> QED
    BY <2>2, <2>3
<1>6. CASE BeginEval
  <2>1. PICK sf \in -PolicyPast .. Length : BeginRolloutAt(Placed(sf, GifFrames))
    BY <1>6 DEF BeginEval
  <2>2. sf \in Int /\ -PolicyPast <= sf
    BY <1>1
  <2> QED
    BY <2>1, <2>2
<1> QED
  BY <1>3, <1>4, <1>5, <1>6 DEF BeginPolicy

LEMMA PolicyOpens ==
  ASSUME EpisodeHolds, ImagInv, BeginPolicy
  PROVE  ImagInv'
<1>1. /\ ImagTyped /\ standing = "setup" /\ arch = "dit_v1"
      /\ UNCHANGED <<caller, arch, asked, k>> /\ caller \in Acting
      /\ caller \notin {"train", "session", "rollout", "from_mmap", "repeat_last"}
  BY DEF ImagInv, BeginPolicy, Acting
<1>2. CASE \E sf \in Int : -PolicyPast <= sf /\ BeginRolloutAt(Placed(sf, GifFrames))
  <2>1. PICK sf \in Int : -PolicyPast <= sf /\ BeginRolloutAt(Placed(sf, GifFrames))
    BY <1>2
  <2> DEFINE p == Placed(sf, GifFrames)
             t0 == p.start + p.context
             c == Pad(p.pad) \o Cut(p.start, t0)
             g == Smaller(t0 + Offset, Length - 1)
             h == LastOf(Latents(c), Past)
             a == LastOf(c, Past)
             aim == <<Stored(g)>>
  <2>2. /\ p.pad \in 0 .. PolicyPast /\ p.start \in Nat /\ (p.pad = 0 \/ p.start = 0)
        /\ p.context = PolicyPast - p.pad /\ p.start + p.context <= Length
        /\ p.frames \in Nat
    BY <2>1, PlacedIs
  <2>3. /\ opening' = t0 /\ frames' = p.frames /\ watched' = c
        /\ InitRolloutState(h, a, aim)
    BY <2>1 DEF BeginRolloutAt
  <2> HIDE DEF p
  <2>4. /\ t0 \in Nat /\ t0 = p.start + PolicyPast - p.pad /\ t0 <= Length
    BY <2>2, ImaginationAssumption
  <2>5. g \in Int
    <3>1. t0 + Offset \in Int /\ Length - 1 \in Int
      BY <2>4, ImaginationAssumption
    <3> QED
      BY <3>1 DEF Smaller
  <2> HIDE DEF t0
  <2>6. InSightAt(c, t0) /\ t0 \in Int
    <3> DEFINE pad == p.pad
               start == p.start
    <3>1. /\ pad \in 0 .. PolicyPast /\ start \in Nat /\ (pad = 0 \/ start = 0)
          /\ t0 \in Int /\ t0 = start + PolicyPast - pad /\ t0 <= Length
      BY <2>2, <2>4
    <3> HIDE DEF pad, start
    <3>2. InSightAt(Pad(pad) \o Cut(start, t0), t0)
      BY <3>1, PaddedIs
    <3> QED
      BY <3>1, <3>2 DEF pad, start
  <2> HIDE DEF c
  <2>7. /\ c = Shown(t0 - PolicyPast, t0)
        /\ Precede(h, t0) /\ Scaled(h) /\ Unreached(h) /\ PairedWith(a, t0, caller)
    BY <1>1, <2>4, <2>6, ContextIs
  <2>8. g = Smaller(opening' + Offset, Length - 1)
    BY <2>3
  <2> HIDE DEF h, a, g
  <2>9. aim = <<Stored(g)>>
    OBVIOUS
  <2> HIDE DEF aim
  <2> QED
    BY <1>1, <2>2, <2>3, <2>4, <2>5, <2>7, <2>8, <2>9, DitOpens
<1>3. CASE standing' = "refused" /\ UNCHANGED <<opening, frames>>
  <2>1. ImagTyped' /\ asked' = None
    BY <1>1, <1>3 DEF ImagTyped
  <2> QED
    BY <1>3, <2>1, NothingAsked, NothingRuns
<1> QED
  BY <1>2, <1>3, PolicyStarts

LEMMA OnceMore ==
  ASSUME NEW x \in Picture
  PROVE  Rescaled(x) \in Picture /\ Rescaled(x).frame = x.frame /\ Rescaled(x).reach = x.reach
BY DEF Rescaled, Picture

\* A session, or nxwm rollout, opens on a recorded seed.
LEMMA SeedOpens ==
  ASSUME ImagInv, Reseed
  PROVE  ImagInv'
<1>1. /\ ImagTyped /\ standing = "setup" /\ arch = "dit_v1"
      /\ UNCHANGED <<caller, arch, asked, k>> /\ caller \in {"session", "rollout"}
      /\ caller \notin {"train", "from_mmap", "repeat_last"} \cup Acting
      /\ frames' = GifFrames
  BY DEF ImagInv, Reseed, Acting
<1>2. /\ Past \in Nat \ {0} /\ Length \in Nat /\ GifFrames \in Nat /\ ServedOffset \in Nat
      /\ HistoryLengths \subseteq Nat
  BY ImaginationAssumption
<1>3. PICK history_length \in HistoryLengths :
        \E start \in SeedStarts(history_length) : FromNpz(start, history_length)
  BY DEF Reseed
<1>4. PICK start \in SeedStarts(history_length) : FromNpz(start, history_length)
  BY <1>3
<1>5. start \in Nat /\ start + history_length <= Length /\ history_length \in Nat
  BY <1>2 DEF SeedStarts
<1>6. opening' = start + history_length /\ opening' \in Nat
  BY <1>4, <1>5 DEF FromNpz
<1>a. CASE history_length # Past
  <2> DEFINE c == Cut(start, start + history_length)
             scaled == Latents(c)
             h == [i \in 1 .. history_length |-> Rescaled(scaled[i])]
  <2>1. \E aim : InitRolloutState(h, c, aim)
    BY <1>4 DEF FromNpz
  <2>2. Len(h) = history_length
    BY <1>5
  <2> HIDE DEF h, c
  <2>3. standing' = "refused"
    BY <1>a, <2>1, <2>2 DEF InitRolloutState
  <2>4. ImagTyped' /\ asked' = None
    BY <1>1, <1>2, <1>6, <2>3 DEF ImagTyped
  <2> QED
    BY <2>3, <2>4, NothingAsked, NothingRuns
<1>b. CASE history_length = Past
  <2> DEFINE t0 == start + Past
             c == Cut(start, t0)
             scaled == Latents(c)
             h == [i \in 1 .. Past |-> Rescaled(scaled[i])]
             g == Smaller(t0 - 1 + ServedOffset, Length - 1)
             aim == <<Rescaled(Stored(g))>>
  <2>1. opening' = t0 /\ InitRolloutState(h, c, aim)
    BY <1>4, <1>b DEF FromNpz, CurrentGoal
  <2>2. t0 <= Length /\ t0 \in Nat
    BY <1>2, <1>5, <1>b
  <2>3. g \in Int
    <3>1. t0 - 1 + ServedOffset \in Int /\ Length - 1 \in Int
      BY <1>2, <2>2
    <3> QED
      BY <3>1 DEF Smaller
  <2>4. Precede(scaled, t0) /\ Unreached(scaled) /\ PairedWith(c, t0, caller)
    BY <1>5, <2>2, RecordedPast
  <2> HIDE DEF scaled, c, t0, g
  <2>5. Precede(h, t0) /\ Unreached(h)
    <3>1. /\ scaled \in Seq(Picture) /\ Len(scaled) = Past
          /\ \A i \in 1 .. Past : scaled[i].frame = Larger(Zeros, t0 - Past + i - 1)
          /\ \A i \in 1 .. Past : scaled[i].reach = {}
      BY <2>4 DEF Precede, Unreached
    <3>2. ASSUME NEW i \in 1 .. Past
          PROVE  /\ h[i] \in Picture /\ h[i].frame = scaled[i].frame
                 /\ h[i].reach = {}
      <4> DEFINE x == scaled[i]
      <4>1. x \in Picture /\ x.reach = {} /\ h[i] = Rescaled(x)
        BY <3>1
      <4> HIDE DEF x
      <4>2. Rescaled(x) \in Picture /\ Rescaled(x).frame = x.frame /\ Rescaled(x).reach = {}
        BY <4>1, OnceMore
      <4> QED
        BY <4>1, <4>2 DEF x
    <3>3. h \in Seq(Picture) /\ Len(h) = Past
      <4>1. DOMAIN h = 1 .. Past /\ h = [i \in 1 .. Past |-> h[i]]
        OBVIOUS
      <4> HIDE DEF h
      <4> QED
        BY <1>2, <3>2, <4>1
    <3> HIDE DEF h
    <3> QED
      BY <3>1, <3>2, <3>3 DEF Precede, Unreached
  <2> HIDE DEF h
  <2>6. aim = <<Rescaled(Stored(g))>>
    OBVIOUS
  <2> HIDE DEF aim
  <2> QED
    BY <1>1, <1>2, <2>1, <2>2, <2>3, <2>4, <2>5, <2>6, DitOpens
<1> QED
  BY <1>a, <1>b

\* A session on JPEG frames carries no recording.
LEMMA FramesOpen ==
  ASSUME ImagInv, InitFromFrames
  PROVE  ImagInv'
<1>1. /\ ImagTyped /\ standing = "setup" /\ caller = "frames"
      /\ UNCHANGED <<caller, arch, asked, k>>
      /\ frames' = GifFrames /\ \E hist \in HistoryLengths : opening' \in 1 .. hist
  BY DEF ImagInv, InitFromFrames
<1>2. standing' \in {"running", "refused"}
  BY DEF InitFromFrames, InitRolloutState
<1>3. opening' \in Nat /\ frames' \in Nat /\ k' \in Nat
  BY <1>1, ImaginationAssumption DEF ImagTyped
<1>4. ImagTyped' /\ AskedAsTrained'
  BY <1>1, <1>2, <1>3, TypedOn DEF AskedAsTrained
<1>5. ~Predicting' /\ caller' \notin Acting
  BY <1>1 DEF Predicting, Acting
<1> QED
  BY <1>4, <1>5 DEF ImagInv, HistoryInv, AimInv, AnchorInv, WatchInv

LEMMA CloneKeeps ==
  ASSUME ImagInv, Clone
  PROVE  ImagInv'
<1>1. /\ ImagTyped /\ standing = "setup" /\ caller = "clone" /\ standing' = "over"
      /\ UNCHANGED <<caller, arch, opening, frames, asked, k>>
  BY DEF ImagInv, Clone
<1>2. ImagTyped' /\ asked' = None
  BY <1>1 DEF ImagTyped
<1>3. PICK observations \in Windows \cup EpisodeGroups :
        watched' = observations /\ acts' = <<observations[PolicyPast]>>
  BY DEF Clone
<1>4. PolicyPast \in Nat /\ Length \in Nat
  BY ImaginationAssumption
<1>5. ASSUME observations \in Windows PROVE Len(observations) = PolicyPast
  <2>1. PICK start \in 0 .. Length - PolicyPast - 1 :
          observations = Cut(start, start + PolicyPast)
    BY <1>5 DEF Windows
  <2>2. start \in Int /\ start <= Length - PolicyPast - 1
    BY <1>4
  <2> DEFINE last == start + PolicyPast
  <2>3. last \in Int /\ start <= last /\ last <= Length /\ last - start = PolicyPast
    BY <1>4, <2>2
  <2> HIDE DEF last
  <2> QED
    BY <2>1, <2>2, <2>3, WholeCut DEF last
<1>6. ASSUME observations \in EpisodeGroups PROVE Len(observations) = PolicyPast
  <2>1. \A c \in Chained : \E end, next \in 0 .. Length : c = Cut(0, end) \o Cut(next, Length)
    BY DEF Chained
  <2>6. PICK c \in Chained : Len(c) >= PolicyPast /\ observations = SubSeq(c, 1, PolicyPast)
    BY <1>6 DEF EpisodeGroups
  <2>2. PICK end, next \in 0 .. Length : c = Cut(0, end) \o Cut(next, Length)
    BY <2>1
  <2>3. Cut(0, end) \in Seq(Int) /\ Cut(next, Length) \in Seq(Int)
    BY <1>4, <2>2, CutIs
  <2>4. c \in Seq(Int)
    BY <2>2, <2>3
  <2>5. Len(SubSeq(c, 1, PolicyPast)) = PolicyPast
    BY <1>4, <2>6, <2>4
  <2> QED
    BY <2>6, <2>5
<1>7. Len(watched') = PolicyPast /\ acts' = <<watched'[PolicyPast]>>
  BY <1>3, <1>5, <1>6
<1>8. AskedAsTrained'
  BY <1>2, <1>7 DEF AskedAsTrained
<1> QED
  BY <1>1, <1>2, <1>8, NothingRuns

\* A batch: the window as it is, or noised.
LEMMA BatchOpens ==
  ASSUME ImagInv, BeginBatch
  PROVE  ImagInv'
<1>1. /\ ImagTyped /\ caller = "train" /\ standing = "setup" /\ standing' = "running"
      /\ UNCHANGED <<caller, arch, asked, k, watched>> /\ arch \in {"dit_v1", "fa_dit"}
  BY DEF ImagInv, BeginBatch, ImagTyped
<1>2. PICK start \in Indices : \E epoch \in 0 .. RampEpochs :
        LET wd == Window(start)
        IN /\ opening' = start + Past /\ frames' = ActiveK(epoch)
           /\ IF arch = "fa_dit"
                THEN /\ \E pair \in AugmentedWithTaus(wd.observations) :
                          past' = pair.seen /\ taus' = pair.told
                     /\ goal' = wd.future_latents
                ELSE /\ past' \in Augmented(wd.observations)
                     /\ taus' = None /\ goal' = None
           /\ acts' = wd.actions
  BY DEF BeginBatch
<1> DEFINE w == Window(start)
           t0 == start + Past
<1>3. /\ opening' = t0 /\ acts' = w.actions /\ frames' \in 1 .. UnrollSteps
      /\ past' \in Augmented(w.observations)
  <2>1. PICK epoch \in 0 .. RampEpochs :
         /\ opening' = t0 /\ frames' = ActiveK(epoch) /\ acts' = w.actions
         /\ \/ past' \in Augmented(w.observations)
            \/ \E pair \in AugmentedWithTaus(w.observations) : past' = pair.seen
    BY <1>2
  <2>2. epoch \in Nat
    BY ImaginationAssumption
  <2>3. frames' \in 1 .. UnrollSteps
    BY <2>1, <2>2, ActiveKBound
  <2>4. past' \in Augmented(w.observations)
    BY <2>1 DEF AugmentedWithTaus
  <2> QED
    BY <2>1, <2>3, <2>4
<1>4. /\ start \in Nat /\ t0 \in Nat
      /\ w.future_latents = Latents(Cut(t0 + Offset, t0 + Offset + Anchor))
      /\ t0 - Past = start
  <2>1. Past \in Nat
    BY ImaginationAssumption
  <2>2. /\ start \in Nat /\ t0 \in Nat
        /\ w.future_latents = Latents(Cut(t0 + Offset, t0 + Offset + Anchor))
    BY WindowIs
  <2> QED
    BY <2>1, <2>2
<1>5. /\ Precede(w.observations, t0) /\ Scaled(w.observations)
      /\ Unreached(w.observations) /\ PairedWith(w.actions, t0, "train")
  BY WindowOpens
<1>6. /\ Precede(past', t0) /\ Scaled(past') /\ Unreached(past')
      /\ \A i \in 1 .. Past : past'[i].noise \in Int
  BY <1>3, <1>5, AugmentedIs
<1>7. AnchorInv'
  <2>1. ASSUME arch = "fa_dit"
        PROVE  /\ goal' = w.future_latents
               /\ taus' = [i \in 1 .. Len(past') |-> past'[i].noise]
    <3>1. /\ goal' = w.future_latents
          /\ \E pair \in AugmentedWithTaus(w.observations) : past' = pair.seen /\ taus' = pair.told
      BY <1>2, <2>1
    <3> QED
      BY <3>1 DEF AugmentedWithTaus
  <2>2. Len(past') = Past /\ Past \in Nat
    BY <1>6, ImaginationAssumption DEF Precede
  <2>3. ASSUME taus' = [i \in 1 .. Past |-> past'[i].noise]
        PROVE  /\ taus' \in Seq(Int) /\ Len(taus') = Past
               /\ \A i \in 1 .. Past : taus'[i] = past'[i].noise
    BY <1>6, <2>2, <2>3
  <2> QED
    BY <1>1, <1>3, <1>4, <2>1, <2>2, <2>3 DEF AnchorInv
<1> HIDE DEF w, t0
<1>8. k' = 0 /\ asked' = None /\ caller' = "train" /\ arch' = arch /\ k' \in Nat
  BY <1>1 DEF ImagTyped
<1>9. HistoryInv'
  <2>1. opening' \in Nat /\ k' = 0
    BY <1>3, <1>4, <1>8
  <2>2. opening' + k' = opening'
    BY <2>1, PlusZero
  <2>3. Reaching(past', frames', k')
    BY <1>6 DEF Reaching, Unreached
  <2>4. k' < frames' /\ frames' <= UnrollSteps /\ opening' - Past \in Indices
    BY <1>3, <1>4, <1>8, ImaginationAssumption
  <2>5. acts' \in Seq(Int) /\ Len(acts') = Past
    BY <1>3, <1>5 DEF PairedWith
  <2> QED
    BY <1>3, <1>5, <1>6, <1>8, <2>2, <2>3, <2>4, <2>5 DEF HistoryInv
<1>10. AimInv' /\ WatchInv'
  BY <1>8 DEF AimInv, WatchInv, Acting
<1>11. ImagTyped' /\ AskedAsTrained'
  <2>1. frames' \in Nat /\ opening' \in Nat
    BY <1>3, <1>4, ImaginationAssumption
  <2> QED
    BY <1>1, <1>8, <2>1, TypedOn, NothingAsked
<1> QED
  BY <1>7, <1>9, <1>10, <1>11 DEF ImagInv

LEMMA NothingReached ==
  ASSUME NEW h, Unreached(h)
  PROVE  Reaches(h) = {}
BY DEF Unreached, Reaches, Elements

LEMMA MarksFit ==
  /\ \A m \in MatchMarks : m.told + m.noise = FlowSteps
  /\ \A m \in SampleMarks : m.told + m.noise = FlowSteps
<1>1. FlowSteps \in Nat \ {0}
  BY ImaginationAssumption
<1>2. \A t \in 0 .. FlowSteps : t + (FlowSteps - t) = FlowSteps
  BY <1>1
<1>3. \A t \in 0 .. FlowSteps - 1 : t \in 0 .. FlowSteps
  BY <1>1
<1> QED
  BY <1>2, <1>3 DEF MatchMarks, SampleMarks

LEMMA ValidateKeeps ==
  ASSUME ImagInv, Validate
  PROVE  ImagInv'
<1>1. /\ ImagTyped /\ caller = "validate" /\ standing' = "over" /\ k' = 1 /\ frames' = 1
      /\ UNCHANGED <<caller, arch, past, acts, taus, goal, watched>>
      /\ arch \in {"dit_v1", "fa_dit"}
  BY DEF ImagInv, Validate, ImagTyped
<1>2. PICK start \in Indices :
        LET wd == Window(start)
        IN /\ opening' = start + Past
           /\ asked' = IF arch = "fa_dit"
                THEN FaDitFlowMatchLoss(wd, 0, wd.observations, wd.actions, Clean)
                ELSE FlowMatchLoss(wd, 0, wd.observations, wd.actions)
  BY DEF Validate
<1> DEFINE w == Window(start)
           t0 == start + Past
           h == w.observations
           a == w.actions
<1>3. /\ opening' = t0
      /\ asked' = IF arch = "fa_dit" THEN FaDitFlowMatchLoss(w, 0, h, a, Clean)
                  ELSE FlowMatchLoss(w, 0, h, a)
  BY <1>2
<1>4. /\ Past \in Nat /\ Offset \in Nat /\ UnrollSteps \in Nat \ {0} /\ Length \in Nat
  BY ImaginationAssumption
<1>5. /\ start \in Nat /\ t0 \in Nat /\ w.targets[1] = t0 + 1 - 1
      /\ w.future_actions[1] = t0 + 1 - 1 /\ w.goals[1] = Stored(t0 + Offset + 1 - 1)
      /\ t0 + Offset + UnrollSteps <= Length - 1
      /\ w.future_latents = Latents(Cut(t0 + Offset, t0 + Offset + Anchor))
  <2>1. 1 \in 1 .. UnrollSteps
    BY <1>4
  <2> QED
    BY <2>1, WindowIs
<1>6. /\ Precede(h, t0) /\ Scaled(h) /\ Unreached(h) /\ PairedWith(a, t0, caller)
      /\ \A i \in 1 .. Past : h[i].noise = 0
  BY WindowOpens
<1>7. Reaches(h) = {}
  BY <1>6, NothingReached
<1> DEFINE g == t0 + Offset
<1>8. /\ w.targets[1] = t0 /\ w.future_actions[1] = t0 /\ w.goals[1] = Stored(g)
      /\ g \in Int /\ g = Smaller(t0 + Offset, Length - 1)
  BY <1>4, <1>5 DEF Smaller
<1>9. opening' \in Nat
  BY <1>3, <1>5
<1>14. w.targets[0 + 1] = t0 /\ w.future_actions[0 + 1] = t0 /\ w.goals[0 + 1] = Stored(g)
  BY <1>8
<1>15. w.future_latents = Latents(Cut(opening' + Offset, opening' + Offset + Anchor))
  BY <1>3, <1>5
<1> HIDE DEF w, t0, h, a, g
<1>10. CASE arch = "dit_v1"
  <2> DEFINE aim == <<Stored(g)>>
  <2>1. asked' = Forward(t0, h, a, aim, MatchMarks)
    BY <1>3, <1>10, <1>14 DEF FlowMatchLoss
  <2>2. aim \in Seq(Picture) /\ Len(aim) = 1 /\ Scaled(aim) /\ aim[1].frame = g
    BY <1>8, StoredIs
  <2> HIDE DEF aim
  <2>3. AskedAsTrained'
    BY <1>1, <1>5, <1>6, <1>7, <1>8, <1>9, <1>10, <2>1, <2>2, MarksFit, AsksDit DEF Acting
  <2> QED
    BY <1>1, <1>9, <2>3, TypedOn, NothingRuns
<1>11. CASE arch = "fa_dit"
  <2> DEFINE aim == w.future_latents
  <2>1. asked' = ForwardFaDit(t0, h, a, aim, t0, Clean, MatchMarks)
    BY <1>3, <1>11, <1>14 DEF FaDitFlowMatchLoss
  <2>2. \A i \in 1 .. Past : Clean[i] = h[i].noise
    BY <1>6 DEF Clean
  <2>4. aim = Latents(Cut(opening' + Offset, opening' + Offset + Anchor))
    BY <1>15
  <2> HIDE DEF aim
  <2>3. AskedAsTrained'
    BY <1>1, <1>5, <1>6, <1>7, <1>9, <1>11, <2>1, <2>2, <2>4, AsksFaDit DEF Acting
  <2> QED
    BY <1>1, <1>9, <2>3, TypedOn, NothingRuns
<1> QED
  BY <1>1, <1>10, <1>11

\* The prediction joins the history, the action joins it.
LEMMA HistoryOn ==
  ASSUME ImagInv, Predicting, caller # "train", UNCHANGED <<caller, opening, frames>>,
         k' = k + 1, NEW x \in Int, acts' = Slide(acts, x),
         past' = Slide(past, Imagined(opening + k, {})),
         ActionsLast' =>
           ActionsLast /\ x = IF caller = "from_mmap" THEN ActionAt(opening + k) ELSE opening + k
  PROVE  /\ HistoryInv'
         /\ (\A i \in 1 .. Past : past[i].noise = 0) => \A i \in 1 .. Past : past'[i].noise = 0
<1> DEFINE f == opening + k
           z == Imagined(f, {})
<1>1. f \in Nat /\ opening' + k' = f + 1
  BY DEF ImagInv, ImagTyped
<1>2. /\ Precede(past, f) /\ acts \in Seq(Int) /\ Len(acts) = Past
      /\ ActionsLast => PairedWith(acts, f, caller)
      /\ caller \notin {"session", "rollout"} => Scaled(past)
      /\ caller = "repeat_last" => opening = Past
      /\ Unreached(past)
  BY DEF ImagInv, HistoryInv
<1>3. /\ past' = Slide(past, z)
      /\ ActionsLast' => ActionsLast /\ x = IF caller = "from_mmap" THEN ActionAt(f) ELSE f
  OBVIOUS
<1> HIDE DEF f
<1>4. z \in Picture /\ z.frame = f /\ z.scale = 1 /\ z.reach = {} /\ z.noise = 0
  BY <1>1 DEF Imagined, Picture
<1> HIDE DEF z
<1>5. Precede(past', f + 1)
  BY <1>1, <1>2, <1>3, <1>4, PrecedeOn
<1>6. ActionsLast' => PairedWith(acts', f + 1, caller)
  <2>1. ASSUME ActionsLast' PROVE PairedWith(acts', f + 1, caller)
    BY <1>1, <1>2, <1>3, <2>1, PairedOn
  <2> QED
    BY <2>1
<1>7. Past \in Nat \ {0} /\ past \in Seq(Picture) /\ Len(past) = Past
  BY <1>2, ImaginationAssumption DEF Precede
<1>8. acts' \in Seq(Int) /\ Len(acts') = Past
  <2>1. Len(acts) # 0
    BY <1>2, <1>7
  <2> QED
    BY <1>2, <2>1, SlideIs
<1>9. /\ Len(past') = Past /\ \A i \in 1 .. Past - 1 : past'[i] = past[i + 1]
      /\ past'[Past] = z
  BY <1>3, <1>4, <1>7, PicturesSlide
<1>10. ASSUME NEW i \in 1 .. Past
       PROVE  /\ past'[i].reach = {}
              /\ Scaled(past) => past'[i].scale = 1
              /\ (\A j \in 1 .. Past : past[j].noise = 0) => past'[i].noise = 0
  <2>1. CASE i = Past
    BY <1>4, <1>9, <2>1
  <2>2. CASE i # Past
    <3>1. i \in 1 .. Past - 1 /\ i + 1 \in 1 .. Past
      BY <1>7, <2>2
    <3>2. past'[i] = past[i + 1]
      BY <1>9, <3>1
    <3> QED
      BY <1>2, <1>7, <3>1, <3>2 DEF Scaled, Unreached
  <2> QED
    BY <2>1, <2>2
<1>11. Unreached(past') /\ (Scaled(past) => Scaled(past'))
  BY <1>9, <1>10 DEF Unreached, Scaled
<1>12. HistoryInv'
  BY <1>1, <1>2, <1>5, <1>6, <1>8, <1>11 DEF HistoryInv
<1> QED
  BY <1>10, <1>12

\* A frame of a loop of dit_v1.
LEMMA DitSteps ==
  ASSUME ImagInv, Predicting, caller \notin {"train", "clone"}, arch = "dit_v1",
         UNCHANGED <<caller, arch, opening, frames>>, Counted,
         NEW aim \in Seq(Picture), NEW x \in Int, StepRollout(aim, x),
         \/ caller = "repeat_last" /\ k > 0
         \/ caller \in {"session", "rollout"}
         \/ Len(aim) = 1 /\ aim[1].frame = Smaller(opening + k + Offset, Length - 1),
         caller \notin {"session", "rollout"} => Scaled(aim),
         ActionsLast' =>
           ActionsLast /\ x = IF caller = "from_mmap" THEN ActionAt(opening + k) ELSE opening + k,
         caller \in Acting => watched' = Shown((opening + k) + 1 - PolicyPast, (opening + k) + 1),
         AimInv'
  PROVE  ImagInv'
<1> DEFINE f == opening + k
<1>1. /\ opening \in Nat /\ k \in Nat /\ frames \in Nat /\ f \in Nat /\ f - opening = k
      /\ (k > 0 => f > opening) /\ ImagTyped /\ opening' = opening
      /\ k' = k + 1 /\ standing' # "setup" /\ k' \in Nat
  BY DEF ImagInv, ImagTyped, Counted
<1>2. /\ asked' = Forward(f, past, acts, aim, SampleMarks)
      /\ past' = Slide(past, Imagined(opening + k, {})) /\ acts' = Slide(acts, x)
  BY DEF StepRollout
<1>3. HistoryInv'
  BY <1>1, <1>2, HistoryOn
<1>4. ImagTyped'
  BY <1>1, TypedOn
<1>5. AnchorInv'
  BY DEF AnchorInv
<1>6. WatchInv'
  <2>1. opening' + k' = f + 1
    BY <1>1
  <2>2. caller' \in Acting => watched' = Shown(f + 1 - PolicyPast, f + 1)
    OBVIOUS
  <2> HIDE DEF f
  <2>3. (f + 1) - PolicyPast = f + 1 - PolicyPast
    BY <1>1, ImaginationAssumption
  <2> QED
    BY <2>1, <2>2, <2>3 DEF WatchInv
<1>7. AskedAsTrained'
  <2>1. /\ Precede(past, f) /\ (ActionsLast => PairedWith(acts, f, caller))
        /\ (caller \notin {"session", "rollout"} => Scaled(past)) /\ Unreached(past)
    BY DEF ImagInv, HistoryInv
  <2>2. \/ caller' = "repeat_last" /\ f - opening' >= UnrollSteps
        \/ caller' = "rollout" /\ f > opening'
        \/ PairedWith(acts, f, caller')
    <3>1. CASE ActionsLast
      BY <2>1, <3>1
    <3>2. CASE ~ActionsLast
      <4>1. \/ caller = "repeat_last" /\ ~(k <= UnrollSteps)
            \/ caller = "rollout" /\ k # 0
        BY <3>2 DEF ActionsLast
      <4>2. UnrollSteps \in Nat
        BY ImaginationAssumption
      <4> QED
        BY <1>1, <4>1, <4>2
    <3> QED
      BY <3>1, <3>2
  <2>3. Reaches(past) = {}
    BY <2>1, NothingReached
  <2>4. /\ caller' = caller /\ arch' = "dit_v1" /\ opening' \in Nat
        /\ caller' \in Acting => watched' = Shown(f + 1 - PolicyPast, f + 1)
        /\ \A m \in SampleMarks : m.told + m.noise = FlowSteps
    BY <1>1, MarksFit
  <2>5. \/ caller' = "repeat_last" /\ f > opening'
        \/ caller' \in {"session", "rollout"}
        \/ Len(aim) = 1 /\ aim[1].frame = Smaller(f + Offset, Length - 1)
    BY <1>1
  <2>6. caller' \notin {"session", "rollout"} => Scaled(past) /\ Scaled(aim)
    BY <2>1
  <2> HIDE DEF f
  <2> QED
    BY <1>1, <1>2, <2>1, <2>2, <2>3, <2>4, <2>5, <2>6, AsksDit
<1> QED
  BY <1>3, <1>4, <1>5, <1>6, <1>7 DEF ImagInv

\* A frame of a loop of fa_dit.
LEMMA FaDitSteps ==
  ASSUME ImagInv, Predicting, caller \notin {"train", "session", "rollout", "clone"} \cup Acting,
         arch = "fa_dit", UNCHANGED <<caller, arch, opening, frames>>, Counted,
         NEW x \in Int, StepFaDit(x),
         ActionsLast' =>
           ActionsLast /\ x = IF caller = "from_mmap" THEN ActionAt(opening + k) ELSE opening + k
  PROVE  ImagInv'
<1> DEFINE f == opening + k
<1>1. /\ opening \in Nat /\ k \in Nat /\ frames \in Nat /\ f \in Nat /\ f - opening = k
      /\ ImagTyped /\ opening' = opening
      /\ k' = k + 1 /\ standing' # "setup" /\ k' \in Nat
  BY DEF ImagInv, ImagTyped, Counted
<1>2. /\ asked' = ForwardFaDit(f, past, acts, goal, x, taus, FaDitMarks)
      /\ past' = Slide(past, Imagined(opening + k, {})) /\ acts' = Slide(acts, x)
      /\ UNCHANGED <<goal, taus>> /\ caller # "train"
  BY DEF StepFaDit
<1>3. /\ HistoryInv'
      /\ (\A i \in 1 .. Past : past[i].noise = 0) => \A i \in 1 .. Past : past'[i].noise = 0
  BY <1>1, <1>2, HistoryOn
<1>4. ImagTyped'
  BY <1>1, TypedOn
<1>5. AimInv' /\ WatchInv'
  BY DEF AimInv, WatchInv
<1>6. /\ goal = Latents(Cut(opening + Offset, opening + Offset + Anchor))
      /\ taus \in Seq(Int) /\ Len(taus) = Past /\ taus = Clean
      /\ \A i \in 1 .. Past : taus[i] = past[i].noise
  BY <1>2 DEF ImagInv, AnchorInv
<1>7. AnchorInv'
  <2>1. \A i \in 1 .. Past : taus[i] = 0
    BY <1>6 DEF Clean
  <2>2. \A i \in 1 .. Past : past'[i].noise = 0
    BY <1>3, <1>6, <2>1
  <2> QED
    BY <1>1, <1>2, <1>6, <2>1, <2>2 DEF AnchorInv
<1>8. AskedAsTrained'
  <2>1. /\ Precede(past, f) /\ (ActionsLast => PairedWith(acts, f, caller))
        /\ Scaled(past) /\ Unreached(past)
    BY DEF ImagInv, HistoryInv
  <2>2. \/ caller' = "repeat_last" /\ f - opening' >= UnrollSteps
        \/ /\ PairedWith(acts, f, caller')
           /\ x = IF caller' = "from_mmap" THEN ActionAt(f) ELSE f
    <3>1. CASE ActionsLast'
      BY <2>1, <3>1
    <3>2. CASE ~ActionsLast'
      <4>1. caller = "repeat_last" /\ ~(k + 1 <= UnrollSteps)
        BY <1>1, <3>2 DEF ActionsLast
      <4>2. UnrollSteps \in Nat
        BY ImaginationAssumption
      <4> QED
        BY <1>1, <4>1, <4>2
    <3> QED
      BY <3>1, <3>2
  <2>3. Reaches(past) = {}
    BY <2>1, NothingReached
  <2> HIDE DEF f
  <2> QED
    BY <1>1, <1>2, <1>6, <2>1, <2>2, <2>3, AsksFaDit
<1> QED
  BY <1>3, <1>4, <1>5, <1>7, <1>8 DEF ImagInv

\* The goal moves on as long as the episode reaches so far.
LEMMA RecedingIs ==
  ASSUME NEW y \in Nat,
         y >= Length => /\ goal \in Seq(Picture) /\ Len(goal) = 1 /\ Scaled(goal)
                        /\ goal[1].frame = Length - 1
  PROVE  /\ Receding(y) \in Seq(Picture) /\ Len(Receding(y)) = 1 /\ Scaled(Receding(y))
         /\ Receding(y)[1].frame = Smaller(y, Length - 1)
<1>1. Length \in Nat
  BY ImaginationAssumption
<1>2. CASE y < Length
  <2>1. Receding(y) = <<Stored(y)>> /\ Smaller(y, Length - 1) = y
    BY <1>1, <1>2 DEF Receding, Smaller
  <2>2. /\ <<Stored(y)>> \in Seq(Picture) /\ Len(<<Stored(y)>>) = 1
        /\ Scaled(<<Stored(y)>>) /\ <<Stored(y)>>[1].frame = y
    BY StoredIs
  <2> QED
    BY <2>1, <2>2
<1>3. CASE ~(y < Length)
  <2>1. Receding(y) = goal /\ y >= Length
    BY <1>1, <1>3 DEF Receding
  <2> QED
    BY <2>1, BeyondTheEnd
<1> QED
  BY <1>2, <1>3

\* A step of those whose goal moves on.
LEMMA MovingSteps ==
  ASSUME ImagInv, standing = "running", caller \in Acting \cup {"from_mmap"}, arch = "dit_v1",
         UNCHANGED <<caller, arch, opening, frames>>, Counted,
         NEW x \in Int, x = IF caller = "from_mmap" THEN ActionAt(opening + k) ELSE opening + k,
         Step(Receding(opening + k + Offset), x),
         caller \in Acting => watched' = Shown((opening + k) + 1 - PolicyPast, (opening + k) + 1)
  PROVE  ImagInv'
<1> DEFINE y == opening + k + Offset
           aim == Receding(y)
<1>1. /\ Predicting
      /\ caller \notin {"train", "session", "rollout", "repeat_last", "frames", "clone"}
  BY DEF Predicting, Acting
<1>2. /\ Length \in Nat /\ Offset \in Nat /\ opening \in Nat /\ k \in Nat /\ y \in Nat
      /\ k' = k + 1
  BY ImaginationAssumption DEF ImagInv, ImagTyped, Counted
<1>3. y >= Length => /\ goal \in Seq(Picture) /\ Len(goal) = 1 /\ Scaled(goal)
                     /\ goal[1].frame = Length - 1
  BY <1>1 DEF ImagInv, AimInv
<1>4. /\ aim \in Seq(Picture) /\ Len(aim) = 1 /\ Scaled(aim)
      /\ aim[1].frame = Smaller(y, Length - 1)
  BY <1>2, <1>3, RecedingIs
<1>5. StepRollout(aim, x) /\ goal' = aim
  BY DEF Step
<1>6. AimInv'
  <2>1. opening' + k' + Offset = y + 1
    BY <1>2
  <2> HIDE DEF y
  <2>2. y + 1 >= Length => Smaller(y, Length - 1) = Length - 1
    BY <1>2 DEF Smaller
  <2> HIDE DEF aim
  <2> QED
    BY <1>1, <1>4, <1>5, <2>1, <2>2 DEF AimInv
<1>7. ActionsLast
  BY <1>1 DEF ActionsLast
<1> HIDE DEF aim
<1> QED
  BY <1>1, <1>4, <1>5, <1>6, <1>7, DitSteps

LEMMA ActionAtIs ==
  ASSUME NEW i \in Nat
  PROVE  ActionAt(i) \in Int
BY DEF ActionAt, Zeros

\* The last action of the first window is repeated.
LEMMA RepeatedAction ==
  ASSUME EpisodeHolds, ImagTyped, opening = Past
  PROVE  LET x == Window(0).future_actions[Smaller(k, UnrollSteps - 1) + 1]
         IN x \in Int /\ (k + 1 <= UnrollSteps => x = opening + k)
<1> DEFINE w == Window(0)
           j == Smaller(k, UnrollSteps - 1) + 1
           x == w.future_actions[j]
<1>1. k \in Nat /\ UnrollSteps \in Nat \ {0} /\ Past \in Nat
  BY ImaginationAssumption DEF ImagTyped
<1>2. j \in 1 .. UnrollSteps /\ (k + 1 <= UnrollSteps => j = k + 1)
  BY <1>1 DEF Smaller
<1> HIDE DEF j
<1>3. \A i \in 1 .. UnrollSteps : w.future_actions[i] = 0 + Past + i - 1
  BY FirstWindow, WindowIs
<1> HIDE DEF w
<1>4. x = 0 + Past + j - 1
  BY <1>2, <1>3
<1>5. x \in Int /\ (k + 1 <= UnrollSteps => x = opening + k)
  BY <1>1, <1>2, <1>4
<1> QED
  BY <1>5 DEF x, w, j

LEMMA GifDraws ==
  ASSUME EpisodeHolds, ImagInv, DrawGif
  PROVE  ImagInv'
<1>1. /\ caller \in {"repeat_last", "from_mmap"} /\ standing = "running" /\ Counted
      /\ UNCHANGED <<caller, arch, opening, frames, watched>>
      /\ Predicting /\ caller \notin {"train", "session", "rollout", "clone"} \cup Acting
      /\ arch \in {"dit_v1", "fa_dit"} /\ ImagTyped /\ k \in Nat /\ opening \in Nat /\ k' = k + 1
  BY DEF DrawGif, Predicting, Acting, ImagInv, ImagTyped, Counted
<1>2. CASE caller = "repeat_last"
  <2> DEFINE x == Window(0).future_actions[Smaller(k, UnrollSteps - 1) + 1]
  <2>1. opening = Past
    BY <1>1, <1>2 DEF ImagInv, HistoryInv
  <2>2. x \in Int /\ (k + 1 <= UnrollSteps => x = opening + k)
    BY <1>1, <2>1, RepeatedAction
  <2>3. CASE arch = "fa_dit"
    <3>1. StepFaDit(x)
      BY <1>2, <2>3 DEF DrawGif, RepeatLastFaDit
    <3> HIDE DEF x
    <3>2. ActionsLast' => ActionsLast /\ x = opening + k
      BY <1>1, <1>2, <2>2, ImaginationAssumption DEF ActionsLast
    <3> QED
      BY <1>1, <1>2, <2>2, <2>3, <3>1, <3>2, FaDitSteps
  <2>4. CASE arch = "dit_v1"
    <3>1. StepRollout(goal, x) /\ goal' = goal
      BY <1>2, <2>4 DEF DrawGif, RepeatLast, Step
    <3> HIDE DEF x
    <3>2. ActionsLast' => ActionsLast /\ x = opening + k
      BY <1>1, <1>2, <2>2, ImaginationAssumption DEF ActionsLast
    <3>3. /\ goal \in Seq(Picture) /\ Len(goal) = 1 /\ Scaled(goal)
          /\ k = 0 => goal[1].frame = Smaller(opening + k + Offset, Length - 1)
      BY <1>1, <1>2, <2>4 DEF ImagInv, AimInv
    <3>4. AimInv'
      BY <1>1, <1>2, <3>1, <3>3 DEF AimInv, Acting
    <3>5. k > 0 \/ k = 0
      BY <1>1
    <3>6. \/ caller = "repeat_last" /\ k > 0
          \/ Len(goal) = 1 /\ goal[1].frame = Smaller(opening + k + Offset, Length - 1)
      BY <1>2, <3>3, <3>5
    <3> QED
      BY <1>1, <1>2, <2>2, <2>4, <3>1, <3>2, <3>3, <3>4, <3>6, DitSteps
  <2> QED
    BY <1>1, <2>3, <2>4
<1>3. CASE caller = "from_mmap"
  <2> DEFINE x == ActionAt(opening + k)
  <2>1. x \in Int
    <3>1. opening + k \in Nat
      BY <1>1
    <3> QED
      BY <3>1, ActionAtIs
  <2>2. ActionsLast
    BY <1>3 DEF ActionsLast
  <2>3. CASE arch = "fa_dit"
    <3>1. StepFaDit(x)
      BY <1>3, <2>3 DEF DrawGif, FromMmapFaDit
    <3>2. x = IF caller = "from_mmap" THEN ActionAt(opening + k) ELSE opening + k
      BY <1>3
    <3> HIDE DEF x
    <3> QED
      BY <1>1, <2>1, <2>2, <2>3, <3>1, <3>2, FaDitSteps
  <2>4. CASE arch = "dit_v1"
    <3>1. Step(Receding(opening + k + Offset), x)
      BY <1>3, <2>4 DEF DrawGif, FromMmap
    <3>2. x = IF caller = "from_mmap" THEN ActionAt(opening + k) ELSE opening + k
      BY <1>3
    <3> HIDE DEF x
    <3> QED
      BY <1>1, <1>3, <2>1, <2>4, <3>1, <3>2, MovingSteps
  <2> QED
    BY <1>1, <2>3, <2>4
<1> QED
  BY <1>1, <1>2, <1>3

LEMMA PolicySteps ==
  ASSUME ImagInv, PolicyStep
  PROVE  ImagInv'
<1>1. /\ caller \in Acting /\ standing = "running" /\ Counted
      /\ UNCHANGED <<caller, arch, opening, frames>> /\ caller # "from_mmap"
      /\ Step(Receding(opening + k + Offset), opening + k)
      /\ watched' = Slide(watched, opening + k) /\ arch = "dit_v1"
      /\ opening \in Nat /\ k \in Nat
  BY DEF PolicyStep, Acting, ImagInv, ImagTyped
<1>2. watched = Shown((opening + k) - PolicyPast, opening + k)
  BY <1>1 DEF ImagInv, WatchInv
<1> DEFINE f == opening + k
<1>3. f \in Nat
  BY <1>1
<1>4. watched = Shown(f - PolicyPast, f) /\ watched' = Slide(watched, f)
  BY <1>1, <1>2
<1> HIDE DEF f
<1>5. watched' = Shown(f + 1 - PolicyPast, f + 1)
  <2>1. PolicyPast \in Nat \ {0}
    BY ImaginationAssumption
  <2>2. watched = [i \in 1 .. PolicyPast |-> Larger(Zeros, f - PolicyPast + i - 1)]
    <3>1. f - (f - PolicyPast) = PolicyPast
      BY <1>3, <2>1
    <3> QED
      BY <1>4, <3>1 DEF Shown
  <2>3. Shown(f + 1 - PolicyPast, f + 1)
          = [i \in 1 .. PolicyPast |-> Larger(Zeros, f + 1 - PolicyPast + i - 1)]
    <3>1. (f + 1) - (f + 1 - PolicyPast) = PolicyPast
      BY <1>3, <2>1
    <3> QED
      BY <3>1 DEF Shown
  <2>4. \A i \in 1 .. PolicyPast : Larger(Zeros, f - PolicyPast + i - 1) \in Int
    BY <1>3, <2>1 DEF Larger, Zeros
  <2>5. watched \in Seq(Int) /\ Len(watched) = PolicyPast
    BY <2>1, <2>2, <2>4
  <2> DEFINE q == Slide(watched, f)
  <2>6. /\ q \in Seq(Int) /\ Len(q) = Len(watched)
        /\ \A i \in 1 .. Len(watched) - 1 : q[i] = watched[i + 1]
        /\ q[Len(watched)] = f
    <3>1. Len(watched) # 0 /\ f \in Int
      BY <1>3, <2>1, <2>5
    <3> QED
      BY <2>5, <3>1, SlideIs
  <2> HIDE DEF q
  <2>7. q = [i \in 1 .. PolicyPast |-> q[i]]
    BY <2>5, <2>6
  <2>8. ASSUME NEW i \in 1 .. PolicyPast
        PROVE  q[i] = Larger(Zeros, f + 1 - PolicyPast + i - 1)
    <3>1. CASE i = PolicyPast
      <4>1. f + 1 - PolicyPast + i - 1 = f /\ Larger(Zeros, f) = f
        BY <1>3, <2>1, <3>1 DEF Larger, Zeros
      <4> QED
        BY <2>5, <2>6, <3>1, <4>1
    <3>2. CASE i # PolicyPast
      <4>1. i \in 1 .. PolicyPast - 1 /\ i + 1 \in 1 .. PolicyPast
            /\ f - PolicyPast + (i + 1) - 1 = f + 1 - PolicyPast + i - 1
        BY <1>3, <2>1, <3>2
      <4>2. q[i] = watched[i + 1]
        BY <2>5, <2>6, <4>1
      <4>3. watched[i + 1] = Larger(Zeros, f - PolicyPast + (i + 1) - 1)
        BY <2>2, <4>1
      <4> QED
        BY <4>1, <4>2, <4>3
    <3> QED
      BY <3>1, <3>2
  <2>9. watched' = q
    BY <1>4 DEF q
  <2> QED
    BY <2>3, <2>7, <2>8, <2>9
<1>6. watched' = Shown((opening + k) + 1 - PolicyPast, (opening + k) + 1)
  BY <1>5 DEF f
<1>7. opening + k \in Int
  BY <1>1
<1> QED
  BY <1>1, <1>6, <1>7, MovingSteps

\* A frame of a session, or of nxwm rollout, which acts with zeros.
LEMMA LatentSteps ==
  ASSUME ImagInv, caller \in {"session", "rollout"}, standing = "running",
         NEW x \in Int, caller = "session" => x = opening + k, StepLatent(x), Counted,
         UNCHANGED <<caller, arch, opening, frames, watched>>
  PROVE  ImagInv'
<1>1. /\ Predicting /\ caller \notin {"train", "frames", "clone", "from_mmap", "repeat_last"} \cup Acting
      /\ arch = "dit_v1" /\ k \in Nat /\ opening \in Nat /\ k' = k + 1
  BY DEF Predicting, Acting, ImagInv, ImagTyped, Counted
<1>2. /\ StepRollout(goal, x)
      /\ goal' = <<Rescaled(Stored(Smaller(opening + k + ServedOffset, Length - 1)))>>
  BY <1>1 DEF StepLatent, CurrentGoal
<1>3. goal \in Seq(Picture)
  BY <1>1 DEF ImagInv, AimInv
<1>4. AimInv'
  <2> DEFINE g == Smaller(opening + k + ServedOffset, Length - 1)
  <2>1. opening + k + ServedOffset \in Int /\ Length - 1 \in Int
    BY <1>1, ImaginationAssumption
  <2>2. g \in Int
    BY <2>1 DEF Smaller
  <2>3. goal' = <<Rescaled(Stored(g))>>
    BY <1>2
  <2> HIDE DEF g
  <2>4. goal' \in Seq(Picture) /\ Len(goal') = 1 /\ goal'[1].frame = g
    BY <2>2, <2>3, StoredIs
  <2> QED
    BY <1>1, <2>3, <2>4 DEF AimInv
<1>5. ActionsLast' => ActionsLast /\ x = opening + k
  BY <1>1 DEF ActionsLast
<1> QED
  BY <1>1, <1>2, <1>3, <1>4, <1>5, DitSteps

LEMMA SessionSteps ==
  ASSUME ImagInv, SessionStep \/ RunRollout
  PROVE  ImagInv'
<1>1. CASE caller = "frames"
  <2>1. /\ caller' = "frames" /\ ImagTyped /\ standing' # "setup" /\ k' = k + 1
        /\ UNCHANGED <<caller, arch, opening, frames>>
    BY <1>1 DEF ImagInv, SessionStep, RunRollout, Counted
  <2>2. opening' \in Nat /\ frames' \in Nat /\ k' \in Nat
    BY <2>1 DEF ImagTyped
  <2>3. ImagTyped'
    BY <2>1, <2>2, TypedOn
  <2> QED
    BY <2>1, <2>3
    DEF ImagInv, HistoryInv, AimInv, AnchorInv, WatchInv, Predicting, AskedAsTrained, Acting
<1>2. CASE caller # "frames" /\ SessionStep
  <2>1. /\ caller = "session" /\ standing = "running" /\ StepLatent(opening + k) /\ Counted
        /\ UNCHANGED <<caller, arch, opening, frames, watched>>
    BY <1>2 DEF SessionStep
  <2>2. opening + k \in Int
    BY DEF ImagInv, ImagTyped
  <2> QED
    BY <2>1, <2>2, LatentSteps
<1>3. CASE RunRollout
  <2>1. Zeros \in Int
    BY DEF Zeros
  <2> QED
    BY <1>3, <2>1, LatentSteps DEF RunRollout
<1> QED
  BY <1>1, <1>2, <1>3

\* What the window holds for the prediction under way.
LEMMA UnderWay ==
  ASSUME ImagInv, caller = "train", standing = "running"
  PROVE  LET w == Window(opening - Past)
         IN /\ opening \in Nat /\ k \in Nat /\ frames \in Nat
            /\ k < frames /\ frames <= UnrollSteps
            /\ w.targets[k + 1] = opening + k /\ w.future_actions[k + 1] = opening + k
            /\ w.goals[k + 1] = Stored(opening + k + Offset)
            /\ opening + k + Offset <= Length - 1
            /\ w.future_latents = Latents(Cut(opening + Offset, opening + Offset + Anchor))
<1> DEFINE start == opening - Past
           w == Window(start)
<1>1. /\ opening \in Nat /\ k \in Nat /\ frames \in Nat /\ Past \in Nat /\ Offset \in Nat
      /\ UnrollSteps \in Nat /\ Length \in Nat
  BY ImaginationAssumption DEF ImagInv, ImagTyped
<1>2. start \in Indices /\ k < frames /\ frames <= UnrollSteps
  BY DEF ImagInv, HistoryInv, Predicting
<1>3. start + Past = opening /\ k + 1 \in 1 .. UnrollSteps
  BY <1>1, <1>2
<1> HIDE DEF start
<1>4. /\ \A i \in 1 .. UnrollSteps :
           /\ w.targets[i] = start + Past + i - 1
           /\ w.future_actions[i] = start + Past + i - 1
           /\ w.goals[i] = Stored(start + Past + Offset + i - 1)
      /\ start + Past + Offset + UnrollSteps <= Length - 1
      /\ w.future_latents
           = Latents(Cut(start + Past + Offset, start + Past + Offset + Anchor))
  BY <1>2, WindowIs
<1> HIDE DEF w
<1> DEFINE i == k + 1
<1>5. /\ w.targets[i] = start + Past + i - 1
      /\ w.future_actions[i] = start + Past + i - 1
      /\ w.goals[i] = Stored(start + Past + Offset + i - 1)
  <2>1. i \in 1 .. UnrollSteps
    BY <1>3
  <2> HIDE DEF i
  <2> QED
    BY <1>4, <2>1
<1>6. /\ start + Past + i - 1 = opening + k
      /\ start + Past + Offset + i - 1 = opening + k + Offset
      /\ opening + k + Offset <= Length - 1
      /\ start + Past + Offset = opening + Offset
  <2>1. start \in Int
    BY <1>1 DEF start
  <2> QED
    BY <1>1, <1>2, <1>3, <1>4, <2>1
<1>7. w.future_latents = Latents(Cut(opening + Offset, opening + Offset + Anchor))
  BY <1>4, <1>6
<1>8. /\ w.targets[k + 1] = opening + k /\ w.future_actions[k + 1] = opening + k
      /\ w.goals[k + 1] = Stored(opening + k + Offset)
  BY <1>5, <1>6
<1> QED
  BY <1>1, <1>2, <1>6, <1>7, <1>8 DEF w, start

\* The gradient of what is no longer detached.
LEMMA PredictedReaches ==
  ASSUME NEW steps \in Nat, NEW n \in Nat, n < steps, NEW f \in Int, NEW h, Reaching(h, steps, n),
         h \in Seq(Picture), NEW q, q.frame = f, q.reach = Reaches(h)
  PROVE  LET z == Predicted(steps, n, q)
         IN /\ z \in Picture /\ z.frame = f /\ z.scale = 1 /\ z.noise = 0
            /\ \A r \in z.reach : r < n + 1 /\ (Tbptt # 0 => r >= steps - Tbptt)
<1> DEFINE reach == IF Detached(steps, n) THEN {} ELSE q.reach \cup {n}
           z == Predicted(steps, n, q)
<1>1. \A r \in Reaches(h) : r \in Int /\ r < n /\ (Tbptt # 0 => r >= steps - Tbptt)
  <2>1. ASSUME NEW r \in Reaches(h)
        PROVE  r \in Int /\ r < n /\ (Tbptt # 0 => r >= steps - Tbptt)
    <3>1. PICK i \in 1 .. Len(h) : r \in h[i].reach
      BY ReachesAre
    <3>2. h[i] \in Picture
      OBVIOUS
    <3> QED
      BY <3>1, <3>2 DEF Reaching, Picture
  <2> QED
    BY <2>1
<1>2. Tbptt \in Nat
  BY ImaginationAssumption
<1>3. ASSUME NEW r \in reach
      PROVE  r \in Int /\ r < n + 1 /\ (Tbptt # 0 => r >= steps - Tbptt)
  <2>1. ~Detached(steps, n) /\ (r \in Reaches(h) \/ r = n)
    BY <1>3
  <2>2. CASE r = n
    <3>1. Tbptt # 0 => ~((steps - 1) - n >= Tbptt)
      BY <2>1 DEF Detached
    <3> QED
      BY <1>2, <2>2, <3>1
  <2>3. CASE r \in Reaches(h)
    BY <1>1, <2>3
  <2> QED
    BY <2>1, <2>2, <2>3
<1>4. z = Imagined(f, reach)
  BY DEF Predicted
<1> HIDE DEF z, reach
<1>5. reach \subseteq Int
  BY <1>3
<1>6. z \in Picture /\ z.frame = f /\ z.scale = 1 /\ z.noise = 0 /\ z.reach = reach
  BY <1>4, <1>5 DEF Imagined, Picture
<1>7. /\ z \in Picture /\ z.frame = f /\ z.scale = 1 /\ z.noise = 0
      /\ \A r \in z.reach : r < n + 1 /\ (Tbptt # 0 => r >= steps - Tbptt)
  BY <1>3, <1>6
<1> QED
  BY <1>7 DEF z

\* The question of a step, and the history of the next.
LEMMA UnrolledOn ==
  ASSUME ImagInv, caller = "train", standing = "running", Counted, standing' = "running",
         UNCHANGED <<caller, arch, opening, frames>>, NEW q, q.frame = opening + k,
         q.reach = Reaches(past), past' = Slide(past, Predicted(frames, k, q)),
         acts' = Slide(acts, opening + k)
  PROVE  /\ HistoryInv'
         /\ past'[Past].noise = 0 /\ \A i \in 1 .. Past - 1 : past'[i] = past[i + 1]
<1> DEFINE f == opening + k
           z == Predicted(frames, k, q)
<1>1. /\ f \in Nat /\ opening' + k' = f + 1 /\ k \in Nat /\ frames \in Nat /\ k' = k + 1
      /\ k < frames /\ k + 1 # frames /\ frames <= UnrollSteps /\ opening - Past \in Indices
      /\ k + 1 < frames
  <2>1. /\ opening \in Nat /\ k \in Nat /\ frames \in Nat /\ k' = k + 1 /\ k + 1 # frames
        /\ k < frames /\ frames <= UnrollSteps /\ opening - Past \in Indices
    BY DEF ImagInv, ImagTyped, Counted, HistoryInv, Predicting
  <2> QED
    BY <2>1
<1>2. /\ Precede(past, f) /\ acts \in Seq(Int) /\ Len(acts) = Past
      /\ PairedWith(acts, f, caller) /\ Scaled(past) /\ Reaching(past, frames, k)
  BY DEF ImagInv, HistoryInv, Predicting, ActionsLast
<1>3. past' = Slide(past, z) /\ acts' = Slide(acts, f) /\ q.frame = f
  OBVIOUS
<1> HIDE DEF f
<1>4. Past \in Nat \ {0} /\ past \in Seq(Picture) /\ Len(past) = Past
  BY <1>2, ImaginationAssumption DEF Precede
<1>5. /\ z \in Picture /\ z.frame = f /\ z.scale = 1 /\ z.noise = 0
      /\ \A r \in z.reach : r < k + 1 /\ (Tbptt # 0 => r >= frames - Tbptt)
  <2>1. f \in Int
    BY <1>1
  <2> QED
    BY <1>1, <1>2, <1>3, <1>4, <2>1, PredictedReaches
<1> HIDE DEF z
<1>6. Precede(past', f + 1)
  BY <1>1, <1>2, <1>3, <1>5, PrecedeOn
<1>7. PairedWith(acts', f + 1, caller)
  <2>1. f = IF caller = "from_mmap" THEN ActionAt(f) ELSE f
    OBVIOUS
  <2>2. f \in Int
    BY <1>1
  <2> QED
    BY <1>1, <1>2, <1>3, <2>1, <2>2, PairedOn
<1>8. /\ Len(past') = Past /\ \A i \in 1 .. Past - 1 : past'[i] = past[i + 1]
      /\ past'[Past] = z
  BY <1>3, <1>4, <1>5, PicturesSlide
<1>9. ASSUME NEW i \in 1 .. Past
      PROVE  /\ past'[i].scale = 1
             /\ \A r \in past'[i].reach : r < k + 1 /\ (Tbptt # 0 => r >= frames - Tbptt)
  <2>1. CASE i = Past
    BY <1>5, <1>8, <2>1
  <2>2. CASE i # Past
    <3>1. i \in 1 .. Past - 1 /\ i + 1 \in 1 .. Past
      BY <1>4, <2>2
    <3>2. past'[i] = past[i + 1] /\ past[i + 1] \in Picture
      BY <1>4, <1>8, <3>1
    <3>3. \A r \in past[i + 1].reach : r \in Int /\ r < k /\ (Tbptt # 0 => r >= frames - Tbptt)
      BY <1>2, <1>4, <3>1, <3>2 DEF Reaching, Picture
    <3>4. past[i + 1].scale = 1
      BY <1>2, <1>4, <3>1 DEF Scaled
    <3>5. \A r \in Int : r < k => r < k + 1
      BY <1>1
    <3> QED
      BY <3>2, <3>3, <3>4, <3>5
  <2> QED
    BY <2>1, <2>2
<1>10. Scaled(past') /\ Reaching(past', frames, k + 1)
  BY <1>8, <1>9 DEF Scaled, Reaching
<1>11. acts' \in Seq(Int) /\ Len(acts') = Past
  BY <1>7 DEF PairedWith
<1>12. HistoryInv'
  BY <1>1, <1>6, <1>7, <1>10, <1>11 DEF HistoryInv
<1> QED
  BY <1>5, <1>8, <1>12

\* The gradient of a loss reaches what its history was made from.
LEMMA LossReaches ==
  ASSUME ImagInv, caller = "train", standing = "running"
  PROVE  Tbptt # 0 => \A r \in Reaches(past) : r < k /\ r >= k - Tbptt
<1>1. /\ past \in Seq(Picture) /\ Reaching(past, frames, k)
      /\ k \in Nat /\ frames \in Nat /\ k < frames /\ Tbptt \in Nat
  BY ImaginationAssumption DEF ImagInv, ImagTyped, HistoryInv, Predicting, Precede
<1>2. ASSUME Tbptt # 0, NEW r \in Reaches(past) PROVE r < k /\ r >= k - Tbptt
  <2>1. PICK i \in 1 .. Len(past) : r \in past[i].reach
    BY ReachesAre
  <2>2. past[i] \in Picture
    BY <1>1
  <2>3. r \in Int
    BY <2>1, <2>2 DEF Picture
  <2>4. r \in Int /\ r < k /\ r >= frames - Tbptt
    BY <1>1, <1>2, <2>1, <2>3 DEF Reaching
  <2> QED
    BY <1>1, <2>4
<1> QED
  BY <1>2

LEMMA BatchSteps ==
  ASSUME ImagInv, Unroll
  PROVE  ImagInv'
<1> DEFINE f == opening + k
           w == Window(opening - Past)
           g == opening + k + Offset
<1>1. /\ caller = "train" /\ standing = "running" /\ Counted /\ k' = k + 1
      /\ UNCHANGED <<caller, arch, opening, frames, watched>>
      /\ arch \in {"dit_v1", "fa_dit"} /\ ImagTyped
      /\ standing' \in {"running", "over"} /\ Predicting
      /\ (standing' = "running" => k + 1 # frames)
  BY DEF Unroll, ImagInv, ImagTyped, Counted, Predicting
<1>2. /\ opening \in Nat /\ k \in Nat /\ frames \in Nat
      /\ k < frames /\ frames <= UnrollSteps
      /\ w.targets[k + 1] = f /\ w.future_actions[k + 1] = f
      /\ w.goals[k + 1] = Stored(g) /\ g <= Length - 1
      /\ w.future_latents = Latents(Cut(opening + Offset, opening + Offset + Anchor))
  BY <1>1, UnderWay
<1>3. /\ f \in Nat /\ g \in Int /\ g = f + Offset /\ Length \in Nat /\ f - opening = k
      /\ g = Smaller(f + Offset, Length - 1) /\ k' \in Nat /\ opening' = opening
      /\ (standing' = "running" => k < frames - 1)
  <2>1. Length \in Nat /\ Offset \in Nat
    BY ImaginationAssumption
  <2>2. f \in Nat /\ g \in Int /\ g = f + Offset /\ f - opening = k /\ k' \in Nat
        /\ (standing' = "running" => k < frames - 1)
    BY <1>1, <1>2, <2>1
  <2>3. g <= Length - 1 /\ opening' = opening
    BY <1>1, <1>2
  <2> HIDE DEF f, g
  <2>4. g = Smaller(f + Offset, Length - 1)
    BY <2>1, <2>2, <2>3 DEF Smaller
  <2> QED
    BY <2>1, <2>2, <2>3, <2>4
<1>4. /\ Precede(past, f) /\ PairedWith(acts, f, caller) /\ Scaled(past)
  BY <1>1 DEF ImagInv, HistoryInv, ActionsLast
<1>5. Tbptt # 0 => \A r \in Reaches(past) : r < f - opening' /\ r >= f - opening' - Tbptt
  <2>1. f - opening' = k
    BY <1>3
  <2>2. Tbptt # 0 => \A r \in Reaches(past) : r < k /\ r >= k - Tbptt
    BY <1>1, LossReaches
  <2>3. f - opening' - Tbptt = k - Tbptt
    BY <1>2, <1>3, ImaginationAssumption
  <2> QED
    BY <2>1, <2>2, <2>3
<1>6. ImagTyped'
  <2>1. standing' # "setup"
    BY <1>1
  <2> QED
    BY <1>1, <1>2, <1>3, <2>1, TypedOn
<1>7. AimInv' /\ WatchInv'
  BY <1>1 DEF AimInv, WatchInv, Acting
<1> HIDE DEF f, g
<1>8. CASE arch = "dit_v1"
  <2> DEFINE aim == <<Stored(g)>>
             q == Forward(f, past, acts, aim, MatchMarks)
  <2>1. /\ asked' = q
        /\ standing' = "running" =>
             past' = Slide(past, Predicted(frames, k, q)) /\ acts' = Slide(acts, f)
    BY <1>1, <1>2, <1>3, <1>8 DEF Unroll, UnrollDit, FlowMatchLoss
  <2>2. aim \in Seq(Picture) /\ Len(aim) = 1 /\ Scaled(aim) /\ aim[1].frame = g
    BY <1>3, StoredIs
  <2>3. q.frame = f /\ q.reach = Reaches(past)
    BY DEF Forward
  <2>4. AskedAsTrained'
    <3> HIDE DEF aim
    <3>1. /\ asked' = Forward(f, past, acts, aim, MatchMarks) /\ opening' \in Nat
          /\ arch' = "dit_v1" /\ caller' = "train"
      BY <1>1, <1>2, <1>3, <1>8, <2>1
    <3> QED
      BY <1>1, <1>3, <1>4, <1>5, <2>2, <3>1, MarksFit, AsksDit DEF Acting
  <2> HIDE DEF q
  <2>5. HistoryInv'
    <3>1. CASE standing' = "running"
      BY <1>1, <2>1, <2>3, <3>1, UnrolledOn DEF f
    <3>2. CASE standing' # "running"
      BY <3>2 DEF HistoryInv, Predicting
    <3> QED
      BY <3>1, <3>2
  <2>6. AnchorInv'
    BY <1>1, <1>8 DEF AnchorInv
  <2> QED
    BY <1>6, <1>7, <2>4, <2>5, <2>6 DEF ImagInv
<1>9. CASE arch = "fa_dit"
  <2> DEFINE aim == w.future_latents
             q == ForwardFaDit(f, past, acts, aim, f, taus, MatchMarks)
  <2>1. /\ asked' = q /\ goal' = goal
        /\ standing' = "running" =>
             /\ past' = Slide(past, Predicted(frames, k, q)) /\ acts' = Slide(acts, f)
             /\ taus' = Slide(taus, 0)
    BY <1>1, <1>2, <1>3, <1>9 DEF Unroll, UnrollFaDit, FaDitFlowMatchLoss
  <2>2. q.frame = f /\ q.reach = Reaches(past)
    BY DEF ForwardFaDit, Forward
  <2>3. /\ goal = Latents(Cut(opening + Offset, opening + Offset + Anchor))
        /\ taus \in Seq(Int) /\ Len(taus) = Past
        /\ \A i \in 1 .. Past : taus[i] = past[i].noise
    BY <1>1, <1>9 DEF ImagInv, AnchorInv
  <2>4. AskedAsTrained'
    <3>1. aim = Latents(Cut(opening' + Offset, opening' + Offset + Anchor))
      BY <1>2, <1>3
    <3> HIDE DEF aim
    <3>2. /\ asked' = ForwardFaDit(f, past, acts, aim, f, taus, MatchMarks) /\ opening' \in Nat
          /\ arch' = "fa_dit" /\ caller' = "train" /\ f \in Int
      BY <1>1, <1>2, <1>3, <1>9, <2>1
    <3> QED
      BY <1>1, <1>3, <1>4, <1>5, <2>3, <3>1, <3>2, AsksFaDit DEF Acting
  <2> HIDE DEF q
  <2>5. ASSUME standing' = "running"
        PROVE  /\ HistoryInv' /\ past'[Past].noise = 0
               /\ \A i \in 1 .. Past - 1 : past'[i] = past[i + 1]
    BY <1>1, <2>1, <2>2, <2>5, UnrolledOn DEF f
  <2>6. HistoryInv'
    BY <2>5 DEF HistoryInv, Predicting
  <2>7. AnchorInv'
    <3>1. CASE standing' = "running"
      <4>1. Past \in Nat \ {0}
        BY ImaginationAssumption
      <4> DEFINE t == Slide(taus, 0)
      <4>2. /\ t \in Seq(Int) /\ Len(t) = Len(taus)
            /\ \A i \in 1 .. Len(taus) - 1 : t[i] = taus[i + 1]
            /\ t[Len(taus)] = 0
        <5>1. Len(taus) # 0 /\ 0 \in Int
          BY <2>3, <4>1
        <5> QED
          BY <2>3, <5>1, SlideIs
      <4>3. taus' = t
        BY <2>1, <3>1
      <4> HIDE DEF t
      <4>4. ASSUME NEW i \in 1 .. Past PROVE t[i] = past'[i].noise
        <5>1. CASE i = Past
          BY <2>3, <2>5, <3>1, <4>2, <5>1
        <5>2. CASE i # Past
          <6>1. i \in 1 .. Past - 1 /\ i + 1 \in 1 .. Past
            BY <4>1, <5>2
          <6>2. t[i] = taus[i + 1] /\ past'[i] = past[i + 1]
            BY <2>3, <2>5, <3>1, <4>2, <6>1
          <6> QED
            BY <2>3, <6>1, <6>2
        <5> QED
          BY <5>1, <5>2
      <4> QED
        BY <1>1, <2>1, <2>3, <4>2, <4>3, <4>4 DEF AnchorInv
    <3>2. CASE standing' # "running"
      BY <3>2 DEF AnchorInv, Predicting
    <3> QED
      BY <3>1, <3>2
  <2> QED
    BY <1>6, <1>7, <2>4, <2>6, <2>7 DEF ImagInv
<1> QED
  BY <1>1, <1>8, <1>9

LEMMA ImaginationOpens ==
  ImaginationInit => ImagInv
<1> SUFFICES ASSUME ImaginationInit PROVE ImagInv
  OBVIOUS
<1>1. /\ arch \in {"dit_v1", "fa_dit"} /\ opening = 0 /\ frames = 0 /\ k = 0 /\ asked = None
      /\ standing = "setup"
      /\ caller \in {"clone", "session", "rollout", "frames"} \cup Acting => arch = "dit_v1"
  BY ImaginationAssumption DEF ImaginationInit
<1>2. ImagTyped
  BY <1>1 DEF ImagTyped
<1> QED
  BY <1>1, <1>2
  DEF ImagInv, HistoryInv, AimInv, AnchorInv, WatchInv, Predicting, AskedAsTrained

LEMMA ImaginationKeeps ==
  ASSUME EpisodeHolds, ImagInv, [Next]_trainingVars
  PROVE  ImagInv'
<1>1. CASE UNCHANGED imaginationVars
  <2>1. UNCHANGED <<caller, arch, opening, frames, asked, k, past, acts, taus, goal,
                    watched, standing>>
    BY <1>1 DEF imaginationVars
  <2>2. ImagTyped' /\ HistoryInv' /\ WatchInv'
    BY <2>1 DEF ImagInv, ImagTyped, HistoryInv, WatchInv, Predicting, ActionsLast
  <2>3. AimInv' /\ AnchorInv'
    BY <2>1 DEF ImagInv, AimInv, AnchorInv, Predicting
  <2>4. AskedAsTrained'
    BY <2>1 DEF ImagInv, AskedAsTrained, ActionsOf, GoalOf
  <2> QED
    BY <2>2, <2>3, <2>4 DEF ImagInv
<1>2. CASE ImaginationNext
  BY <1>2, BatchOpens, BatchSteps, ValidateKeeps, GifOpens, GifDraws, CloneKeeps,
     PolicyOpens, PolicySteps, SeedOpens, FramesOpen, SessionSteps
  DEF ImaginationNext
<1>3. UNCHANGED imaginationVars \/ ImaginationNext
  BY DEF Next, Runs, Rolls, Trains, Iterates, Imagines, Streams, Crashes, trainingVars
<1> QED
  BY <1>1, <1>2, <1>3

\* Whoever drives the world model asks it as it was trained: the frames
\* before the predicted one, the actions paired with them, the goal or the
\* anchor at its distance, the noise and the gradient, through every
\* prediction that is fed back: for any window, offset, anchor, unroll,
\* gradient window and place of the seeds, on episodes that hold a window of
\* the trainer and the frames a policy looks at. The goal and the scale of a
\* server's session are not part of it (see ServedAsTrained).
THEOREM AsksLikeTraining ==
  EpisodeHolds => (Spec => []AskedAsTrained)
<1> SUFFICES ASSUME EpisodeHolds PROVE Spec => []AskedAsTrained
  OBVIOUS
<1>1. Init => ImagInv
  BY ImaginationOpens DEF Init
<1>2. ImagInv /\ [Next]_trainingVars => ImagInv'
  BY ImaginationKeeps
<1>3. ImagInv => AskedAsTrained
  BY DEF ImagInv
<1> QED
  BY <1>1, <1>2, <1>3, PTL DEF Spec

\* The frames, counts and lengths a loop can be at.
WithinEpisode ==
  /\ caller \in Callers /\ arch \in Archs
  /\ (standing # "refused" => opening <= Length + 1) /\ k <= frames
  /\ standing \in {"setup", "running", "over", "refused"}
  /\ standing = "running" => k < frames
  /\ Len(past) \in {0, Past} /\ Len(acts) \in {0, 1, Past} /\ Len(goal) <= Anchor + 1

\* The history of a session on JPEG frames.
FramesPast ==
  standing = "running" /\ caller = "frames" =>
    /\ past \in Seq(Picture) /\ Len(past) = Past
    /\ acts \in Seq(Int) /\ Len(acts) = Past

LEMMA SlidesLength ==
  ASSUME NEW S, NEW q \in Seq(S), Len(q) # 0, NEW x
  PROVE  Len(Slide(q, x)) = Len(q)
<1> DEFINE T == S \cup {x}
<1>1. q \in Seq(T) /\ x \in T
  <2>1. Len(q) \in Nat /\ \A i \in 1 .. Len(q) : q[i] \in T
    OBVIOUS
  <2>2. q = [i \in 1 .. Len(q) |-> q[i]]
    OBVIOUS
  <2> HIDE DEF T
  <2>3. q \in Seq(T)
    BY <2>1, <2>2
  <2> QED BY <2>3 DEF T
<1> HIDE DEF T
<1> QED BY <1>1, SlideIs

\* A loop opens, or is refused; nothing else has happened yet.
LEMMA OpensWithin ==
  ASSUME ImagTyped, WithinEpisode, standing = "setup", UNCHANGED <<caller, arch, k>>,
         standing' # "refused" => opening' <= Length + 1, frames' \in Nat, frames' >= 1,
         standing' \in {"running", "refused"},
         Len(past') \in {0, Past}, Len(acts') \in {0, 1, Past}, Len(goal') <= Anchor + 1
  PROVE  WithinEpisode'
BY DEF WithinEpisode, ImagTyped

LEMMA OneAim ==
  ASSUME NEW x PROVE Len(<<x>>) <= Anchor + 1
BY ImaginationAssumption

LEMMA RolloutOpensWithin ==
  ASSUME ImagTyped, WithinEpisode, standing = "setup", UNCHANGED <<caller, arch, k>>,
         standing' # "refused" => opening' <= Length + 1, frames' \in Nat, frames' >= 1,
         NEW h, NEW a, NEW x, InitRolloutState(h, a, <<x>>)
  PROVE  WithinEpisode'
<1>1. CASE Len(h) = Past /\ Len(a) = Past
  <2>1. past' = h /\ acts' = a /\ goal' = <<x>> /\ standing' = "running"
    BY <1>1 DEF InitRolloutState
  <2>2. Len(goal') <= Anchor + 1
    BY <2>1, OneAim
  <2> QED BY <1>1, <2>1, <2>2, OpensWithin
<1>2. CASE ~(Len(h) = Past /\ Len(a) = Past)
  <2>1. standing' = "refused" /\ UNCHANGED <<past, acts, goal>>
    BY <1>2 DEF InitRolloutState
  <2> QED BY <2>1, OpensWithin DEF WithinEpisode
<1> QED BY <1>1, <1>2

LEMMA FaDitOpensWithin ==
  ASSUME ImagTyped, WithinEpisode, standing = "setup", UNCHANGED <<caller, arch, k>>,
         standing' # "refused" => opening' <= Length + 1, frames' \in Nat, frames' >= 1,
         NEW h, NEW a, NEW aim, InitFaDitState(h, a, aim), Len(h) = Past => Len(a) = Past
  PROVE  WithinEpisode'
<1>1. CASE Len(h) = Past /\ Len(aim) = Anchor
  <2>1. past' = h /\ acts' = a /\ goal' = aim /\ standing' = "running"
    BY <1>1 DEF InitFaDitState
  <2>2. Len(goal') <= Anchor + 1
    BY <1>1, <2>1, ImaginationAssumption
  <2> QED BY <1>1, <2>1, <2>2, OpensWithin
<1>2. CASE ~(Len(h) = Past /\ Len(aim) = Anchor)
  <2>1. standing' = "refused" /\ UNCHANGED <<past, acts, goal>>
    BY <1>2 DEF InitFaDitState
  <2> QED BY <2>1, OpensWithin DEF WithinEpisode
<1> QED BY <1>1, <1>2

\* A prediction more.
LEMMA CountsWithin ==
  ASSUME ImagTyped, WithinEpisode, standing = "running", Counted,
         UNCHANGED <<caller, arch, opening, frames>>,
         Len(past') = Past, Len(acts') = Past, Len(goal') <= Anchor + 1
  PROVE  WithinEpisode'
BY DEF Counted, WithinEpisode, ImagTyped

LEMMA SlidesTyped ==
  ASSUME ImagInv, FramesPast, standing = "running"
  PROVE  /\ \A x : Len(Slide(past, x)) = Past
         /\ \A x : Len(Slide(acts, x)) = Past
         /\ Len(past) = Past /\ Len(acts) = Past
<1>1. past \in Seq(Picture) /\ Len(past) = Past /\ acts \in Seq(Int) /\ Len(acts) = Past
  <2>1. CASE caller = "frames"
    BY <2>1 DEF FramesPast
  <2>2. CASE caller # "frames"
    BY <2>2 DEF ImagInv, HistoryInv, Precede, Predicting
  <2> QED BY <2>1, <2>2
<1>2. Past # 0
  BY ImaginationAssumption
<1> QED BY <1>1, <1>2, SlidesLength

LEMMA RollsWithin ==
  ASSUME ImagInv, FramesPast, WithinEpisode, Unroll \/ DrawGif \/ PolicyStep \/ SessionStep \/ RunRollout
  PROVE  WithinEpisode'
<1>1. ImagTyped /\ standing = "running" /\ Counted /\ UNCHANGED <<caller, arch, opening, frames>>
  BY DEF ImagInv, Unroll, DrawGif, PolicyStep, SessionStep, RunRollout
<1>2. /\ \A x : Len(Slide(past, x)) = Past
      /\ \A x : Len(Slide(acts, x)) = Past
      /\ Len(past) = Past /\ Len(acts) = Past /\ Len(goal) <= Anchor + 1
  BY <1>1, SlidesTyped DEF WithinEpisode
<1>3. CASE Unroll
  <2>1. /\ UNCHANGED goal
        /\ past' = past \/ \E x : past' = Slide(past, x)
        /\ acts' = acts \/ \E x : acts' = Slide(acts, x)
    BY <1>3 DEF Unroll, UnrollDit, UnrollFaDit
  <2> QED BY <1>1, <1>2, <2>1, CountsWithin
<1>4. ASSUME \E x : past' = Slide(past, x), \E x : acts' = Slide(acts, x),
             goal' = goal \/ \E x : goal' = <<x>>
      PROVE  WithinEpisode'
  <2>1. Len(goal') <= Anchor + 1
    BY <1>2, <1>4, OneAim
  <2> QED BY <1>1, <1>2, <1>4, <2>1, CountsWithin
<1>5. ASSUME NEW aim, NEW x, Step(aim, x), aim = goal \/ \E y : aim = <<y>>
      PROVE  WithinEpisode'
  <2>1. /\ \E y : past' = Slide(past, y)
        /\ \E y : acts' = Slide(acts, y)
        /\ goal' = aim
    BY <1>5 DEF Step, StepRollout
  <2> QED BY <1>4, <1>5, <2>1
<1>6. ASSUME NEW x, StepFaDit(x) PROVE WithinEpisode'
  <2>1. /\ \E y : past' = Slide(past, y)
        /\ \E y : acts' = Slide(acts, y)
        /\ goal' = goal
    BY <1>6 DEF StepFaDit
  <2> QED BY <1>4, <2>1
<1>7. ASSUME NEW x, StepLatent(x) PROVE WithinEpisode'
  <2>1. /\ \E y : past' = Slide(past, y)
        /\ \E y : acts' = Slide(acts, y)
        /\ goal' = goal \/ \E y : goal' = <<y>>
    BY <1>7 DEF StepLatent, StepRollout, CurrentGoal
  <2> QED BY <1>4, <2>1
<1>8. \A i : Receding(i) = goal \/ \E y : Receding(i) = <<y>>
  BY DEF Receding
<1>9. CASE DrawGif
  <2>1. RepeatLastFaDit \/ RepeatLast \/ FromMmapFaDit \/ FromMmap
    BY <1>9 DEF DrawGif
  <2>2. \/ \E x : StepFaDit(x)
        \/ \E x : Step(goal, x)
        \/ \E i, x : Step(Receding(i), x)
    BY <2>1 DEF RepeatLastFaDit, RepeatLast, FromMmapFaDit, FromMmap
  <2>3. CASE \E x : StepFaDit(x)
    BY <2>3, <1>6
  <2>4. CASE \E x : Step(goal, x)
    BY <2>4, <1>5
  <2>5. CASE \E i, x : Step(Receding(i), x)
    BY <2>5, <1>5, <1>8
  <2> QED BY <2>2, <2>3, <2>4, <2>5
<1>10. CASE PolicyStep
  <2>1. \E i, x : Step(Receding(i), x)
    BY <1>10 DEF PolicyStep
  <2> QED BY <2>1, <1>5, <1>8
<1>11. CASE SessionStep \/ RunRollout
  <2>1. \E x : StepLatent(x)
    BY <1>11 DEF SessionStep, RunRollout
  <2> QED BY <2>1, <1>7
<1> QED BY <1>3, <1>9, <1>10, <1>11

LEMMA PictureOf ==
  ASSUME NEW q \in Seq(Int)
  PROVE  Len(Latents(q)) = Len(q)
BY LatentsAre

LEMMA IndexEnds ==
  ASSUME NEW t \in Nat, t - Past \in Indices
  PROVE  t <= Length + 1
<1>1. Lookahead \in Nat /\ Past \in Nat /\ Length \in Nat
  BY ImaginationAssumption DEF Lookahead, Larger
<1> DEFINE e == Length - (Past + Lookahead)
           u == t - Past
<1>2. u \in 0 .. e - 1 /\ u \in Int /\ e \in Int
  BY <1>1 DEF Indices
<1>3. t = u + Past /\ e = Length - (Past + Lookahead)
  BY <1>1
<1> HIDE DEF e, u
<1>4. u <= e - 1 /\ e <= Length - Past
  BY <1>1, <1>2, <1>3
<1> QED BY <1>1, <1>2, <1>3, <1>4

LEMMA BatchWithin ==
  ASSUME ImagInv, WithinEpisode, BeginBatch
  PROVE  WithinEpisode'
<1>1. /\ ImagTyped /\ standing = "setup" /\ standing' = "running" /\ caller = "train"
      /\ UNCHANGED <<caller, arch, k>> /\ arch \in {"dit_v1", "fa_dit"}
  BY DEF ImagInv, ImagTyped, BeginBatch
<1>2. ImagInv'
  BY BatchOpens
<1>3. /\ Len(past') = Past /\ Len(acts') = Past /\ opening' - Past \in Indices
      /\ frames' \in Nat /\ k' < frames' /\ opening' \in Nat /\ k' \in Nat
  BY <1>1, <1>2 DEF ImagInv, HistoryInv, Precede, Predicting, ImagTyped
<1>4. opening' <= Length + 1
  BY <1>3, IndexEnds
<1>5. Len(goal') <= Anchor + 1
  <2>1. goal' = None \/ \E start \in Indices : goal' = Window(start).future_latents
    BY DEF BeginBatch
  <2>2. ASSUME NEW start \in Indices, goal' = Window(start).future_latents
        PROVE  Len(goal') <= Anchor + 1
    <3> DEFINE t0 == start + Past
               c == Cut(t0 + Offset, t0 + Offset + Anchor)
    <3>1. Offset \in Nat /\ Anchor \in Nat /\ Length \in Nat /\ t0 \in Nat
      BY WindowIs, ImaginationAssumption
    <3>2. goal' = Latents(c)
      BY <2>2 DEF Window
    <3>3. t0 + Offset \in Int /\ t0 + Offset + Anchor \in Int
      BY <3>1
    <3> HIDE DEF t0
    <3>4. c \in Seq(Int) /\ Len(c) = Larger(0, Smaller(t0 + Offset + Anchor, Length) - (t0 + Offset))
      BY <3>3, CutIs
    <3>5. Len(c) <= Anchor + 1
      BY <3>1, <3>4 DEF Larger, Smaller
    <3> HIDE DEF c
    <3> QED BY <3>2, <3>4, <3>5, PictureOf
  <2>3. Len(None) <= Anchor + 1
    BY ImaginationAssumption DEF None
  <2> QED BY <2>1, <2>2, <2>3
<1>6. frames' >= 1
  BY <1>3
<1> QED BY <1>1, <1>3, <1>4, <1>5, <1>6, OpensWithin

LEMMA ValidateWithin ==
  ASSUME ImagInv, WithinEpisode, Validate
  PROVE  WithinEpisode'
<1>1. PICK start \in Indices : opening' = start + Past
  BY DEF Validate
<1>2. opening' <= Length + 1
  <2>1. Lookahead \in Nat /\ Past \in Nat /\ Length \in Nat
    BY ImaginationAssumption DEF Lookahead, Larger
  <2> QED BY <1>1, <2>1 DEF Indices
<1>3. /\ standing' = "over" /\ k' = 1 /\ frames' = 1
      /\ UNCHANGED <<caller, arch, past, acts, goal>>
  BY DEF Validate
<1> QED BY <1>2, <1>3 DEF WithinEpisode

LEMMA CloneWithin ==
  ASSUME ImagInv, WithinEpisode, Clone
  PROVE  WithinEpisode'
<1>1. /\ standing' = "over" /\ UNCHANGED <<caller, arch, opening, frames, k, past, goal>>
      /\ \E x : acts' = <<x>>
      /\ standing # "refused"
  BY DEF Clone
<1>2. Len(acts') = 1
  BY <1>1
<1> QED BY <1>1, <1>2 DEF WithinEpisode

LEMMA SessionsWithin ==
  ASSUME EpisodeHolds, ImagInv, WithinEpisode, Reseed \/ InitFromFrames
  PROVE  WithinEpisode'
<1>0. /\ ImagTyped /\ standing = "setup" /\ UNCHANGED <<caller, arch, k>>
      /\ frames' = GifFrames /\ GifFrames \in Nat /\ GifFrames >= 1
      /\ Past \in Nat /\ Length \in Nat /\ ServedOffset \in Nat /\ Length >= Past
      /\ HistoryLengths \subseteq Nat
  <2>1. /\ GifFrames \in Nat /\ GifFrames >= 1 /\ Past \in Nat /\ Length \in Nat
        /\ ServedOffset \in Nat /\ Offset \in Nat /\ HistoryLengths \subseteq Nat
        /\ Lookahead \in Nat
    BY ImaginationAssumption DEF Lookahead, Larger
  <2>2. Length >= Past
    BY <2>1 DEF EpisodeHolds
  <2> QED BY <2>1, <2>2 DEF ImagInv, Reseed, InitFromFrames
<1>1. CASE Reseed
  <2>0. PICK hist \in HistoryLengths :
          \E start \in SeedStarts(hist) : FromNpz(start, hist)
    BY <1>1 DEF Reseed
  <2>1. PICK start \in SeedStarts(hist) : FromNpz(start, hist)
    BY <2>0
  <2>2. /\ opening' = start + hist
        /\ \E h, a, x : InitRolloutState(h, a, <<x>>)
    BY <2>1 DEF FromNpz, CurrentGoal
  <2>4. hist \in Nat
    BY <1>0
  <2>5. start \in Nat /\ start <= Length - (hist + ServedOffset + 1)
    BY <1>0, <2>4 DEF SeedStarts
  <2>3. opening' <= Length + 1
    BY <1>0, <2>2, <2>4, <2>5
  <2> QED BY <1>0, <2>2, <2>3, RolloutOpensWithin
<1>2. CASE InitFromFrames
  <2>0. PICK hist \in HistoryLengths : \E n \in 1 .. hist :
          /\ opening' = n
          /\ InitRolloutState(Latents([i \in 1 .. hist |-> Larger(0, n - 1 - (hist - i))]),
                              Pad(hist), <<Stored(n - 1)>>)
    BY <1>2 DEF InitFromFrames
  <2>1. /\ opening' \in 1 .. hist
        /\ \E h, a, x : InitRolloutState(h, a, <<x>>)
        /\ standing' # "refused" => Len(Pad(hist)) = Past
    BY <2>0 DEF InitRolloutState
  <2>4. hist \in Nat
    BY <1>0
  <2>3. Len(Pad(hist)) = hist
    BY <2>4 DEF Pad
  <2>2. standing' # "refused" => opening' <= Length + 1
    BY <1>0, <2>1, <2>3, <2>4
  <2> QED BY <1>0, <2>1, <2>2, RolloutOpensWithin
<1> QED BY <1>1, <1>2

LEMMA PlacedAsks ==
  ASSUME NEW sf \in Int, Placed(sf, GifFrames).frames \in Nat
  PROVE  Placed(sf, GifFrames).frames >= 1
BY ImaginationAssumption DEF Placed, Larger

LEMMA PolicyWithin ==
  ASSUME EpisodeHolds, ImagInv, WithinEpisode, BeginPolicy
  PROVE  WithinEpisode'
<1>1. ImagTyped /\ standing = "setup" /\ UNCHANGED <<caller, arch, k>>
  BY DEF ImagInv, BeginPolicy
<1>2. CASE \E sf \in Int : -PolicyPast <= sf /\ BeginRolloutAt(Placed(sf, GifFrames))
  <2>1. PICK sf \in Int : -PolicyPast <= sf /\ BeginRolloutAt(Placed(sf, GifFrames))
    BY <1>2
  <2> DEFINE p == Placed(sf, GifFrames)
  <2>2. p.start + p.context <= Length /\ p.frames \in Nat /\ p.frames >= 1
    BY <2>1, PlacedIs, PlacedAsks
  <2>2a. p.start \in Nat /\ p.context \in Int
    <3>1. p.start \in Nat /\ p.context = PolicyPast - p.pad /\ p.pad \in 0 .. PolicyPast
      BY <2>1, PlacedIs
    <3> HIDE DEF p
    <3> QED BY <3>1, ImaginationAssumption
  <2>3. /\ opening' = p.start + p.context /\ frames' = p.frames
        /\ \E h, a, x : InitRolloutState(h, a, <<x>>)
    BY <2>1 DEF BeginRolloutAt
  <2> HIDE DEF p
  <2>4. opening' <= Length + 1
    BY <2>2, <2>2a, <2>3, ImaginationAssumption
  <2> QED BY <1>1, <2>2, <2>3, <2>4, RolloutOpensWithin
<1>3. CASE standing' = "refused" /\ UNCHANGED <<opening, frames, past, acts, goal>>
  BY <1>1, <1>3 DEF WithinEpisode
<1>4. \/ \E sf \in Int : -PolicyPast <= sf /\ BeginRolloutAt(Placed(sf, GifFrames))
      \/ standing' = "refused" /\ UNCHANGED <<opening, frames, past, acts, goal>>
  BY PolicyStarts
<1> QED BY <1>2, <1>3, <1>4

LEMMA GifWithin ==
  ASSUME EpisodeHolds, ImagInv, WithinEpisode, BeginGif
  PROVE  WithinEpisode'
<1>0. /\ ImagTyped /\ standing = "setup" /\ UNCHANGED <<caller, arch, k>>
  BY DEF ImagInv, BeginGif
<1>1. /\ GifFrames \in Nat /\ GifFrames >= 1 /\ Past \in Nat /\ Length \in Nat /\ Offset \in Nat
      /\ Anchor \in Nat /\ Length >= Past
  <2>1. /\ GifFrames \in Nat /\ GifFrames >= 1 /\ Past \in Nat /\ Length \in Nat /\ Offset \in Nat
        /\ Lookahead \in Nat /\ Anchor \in Nat
    BY ImaginationAssumption DEF Lookahead, Larger
  <2>2. Length >= Past
    BY <2>1 DEF EpisodeHolds
  <2> QED BY <2>1, <2>2
<1>2. \/ BeginRepeatLastFaDit \/ BeginRepeatLast
      \/ \E sf \in 0 .. Length : BeginFromMmapFaDit(sf)
      \/ \E sf \in 0 .. Length : BeginFromMmap(sf)
  BY DEF BeginGif
<1>3. CASE BeginRepeatLastFaDit
  <2> DEFINE w == Window(0)
  <2>1. /\ opening' = Past /\ frames' = GifFrames
        /\ InitFaDitState(w.observations, w.actions, w.future_latents)
    BY <1>3 DEF BeginRepeatLastFaDit
  <2>2. Len(w.actions) = Past
    BY FirstWindow, WindowIs
  <2> HIDE DEF w
  <2>3. opening' <= Length + 1
    BY <1>1, <2>1
  <2> QED BY <1>0, <1>1, <2>1, <2>2, <2>3, FaDitOpensWithin
<1>4. CASE BeginRepeatLast
  <2>1. /\ opening' = Past /\ frames' = GifFrames
        /\ \E h, a, x : InitRolloutState(h, a, <<x>>)
    BY <1>4 DEF BeginRepeatLast
  <2>2. opening' <= Length + 1
    BY <1>1, <2>1
  <2> QED BY <1>0, <1>1, <2>1, <2>2, RolloutOpensWithin
<1>5. CASE \E sf \in 0 .. Length : BeginFromMmapFaDit(sf)
  <2>1. PICK sf \in 0 .. Length : BeginFromMmapFaDit(sf)
    BY <1>5
  <2> DEFINE needed == Past + GifFrames + Larger(Offset + Anchor, 1)
             start == Larger(0, Smaller(sf, Length - needed))
             c == Cut(start, start + Past)
             t0 == start + Past
             aim == Latents(Cut(t0 + Offset, t0 + Offset + Anchor))
  <2>2. /\ opening' = t0 /\ frames' = GifFrames
        /\ InitFaDitState(Latents(c), c, aim)
    BY <2>1 DEF BeginFromMmapFaDit
  <2>3. start \in Nat /\ start + Past <= Length
    <3>1. needed \in Nat /\ needed >= Past
      BY <1>1 DEF Larger
    <3> HIDE DEF needed
    <3> QED BY <1>1, <3>1 DEF Larger, Smaller
  <2> HIDE DEF start
  <2>4. c \in Seq(Int)
    BY <1>1, <2>3, CutIs
  <2>5. opening' <= Length + 1
    BY <1>1, <2>2, <2>3
  <2> HIDE DEF c, t0, aim
  <2>6. Len(Latents(c)) = Past => Len(c) = Past
    BY <2>4, PictureOf
  <2> DEFINE h == Latents(c)
  <2>7. InitFaDitState(h, c, aim) /\ (Len(h) = Past => Len(c) = Past)
    BY <2>2, <2>6
  <2> HIDE DEF h
  <2> QED BY <1>0, <1>1, <2>2, <2>5, <2>7, FaDitOpensWithin
<1>6. CASE \E sf \in 0 .. Length : BeginFromMmap(sf)
  <2>1. PICK sf \in 0 .. Length : BeginFromMmap(sf)
    BY <1>6
  <2> DEFINE start == Larger(0, Smaller(sf, Length - Past - GifFrames - Offset))
  <2>2. /\ opening' = start + Past /\ frames' = GifFrames
        /\ \E h, a, x : InitRolloutState(h, a, <<x>>)
    BY <2>1 DEF BeginFromMmap
  <2>3. start \in Nat /\ start + Past <= Length
    BY <1>1 DEF Larger, Smaller
  <2> HIDE DEF start
  <2>4. opening' <= Length + 1
    BY <1>1, <2>2, <2>3
  <2> QED BY <1>0, <1>1, <2>2, <2>4, RolloutOpensWithin
<1> QED BY <1>2, <1>3, <1>4, <1>5, <1>6

LEMMA FramesPastKeeps ==
  ASSUME ImagInv, FramesPast, ImaginationNext
  PROVE  FramesPast'
<1>1. caller' = caller
  BY DEF ImaginationNext, BeginBatch, Unroll, Validate, BeginGif, DrawGif, Clone, BeginPolicy,
         PolicyStep, Reseed, InitFromFrames, SessionStep, RunRollout
<1>2. CASE caller # "frames"
  BY <1>1, <1>2 DEF FramesPast
<1>3. CASE caller = "frames" /\ InitFromFrames
  <2>0. PICK hist \in HistoryLengths : \E n \in 1 .. hist :
          InitRolloutState(Latents([i \in 1 .. hist |-> Larger(0, n - 1 - (hist - i))]),
                           Pad(hist), <<Stored(n - 1)>>)
    BY <1>3 DEF InitFromFrames
  <2>1. PICK n \in 1 .. hist :
          InitRolloutState(Latents([i \in 1 .. hist |-> Larger(0, n - 1 - (hist - i))]),
                           Pad(hist), <<Stored(n - 1)>>)
    BY <2>0
  <2> DEFINE a == Pad(hist)
             q == [i \in 1 .. hist |-> Larger(0, n - 1 - (hist - i))]
             h == Latents(q)
  <2>2. hist \in Nat
    BY ImaginationAssumption
  <2>3. q \in Seq(Int) /\ Len(q) = hist /\ a \in Seq(Int) /\ Len(a) = hist
    <3>1. \A i \in 1 .. hist : Larger(0, n - 1 - (hist - i)) \in Int
      BY <2>2 DEF Larger
    <3>2. q \in Seq(Int) /\ Len(q) = hist
      BY <2>2, <3>1
    <3>3. a \in Seq(Int) /\ Len(a) = hist
      BY <2>2 DEF Pad, Zeros
    <3> QED BY <3>2, <3>3
  <2>4. InitRolloutState(h, a, <<Stored(n - 1)>>)
    BY <2>1
  <2> HIDE DEF q, a
  <2>5. h \in Seq(Picture) /\ Len(h) = hist
    BY <2>3, LatentsAre
  <2> HIDE DEF h
  <2>6. standing' = "running" => past' = h /\ acts' = a /\ hist = Past
    BY <2>3, <2>4, <2>5 DEF InitRolloutState
  <2> QED BY <2>3, <2>5, <2>6 DEF FramesPast
<1>4. CASE caller = "frames" /\ SessionStep
  <2>1. /\ standing = "running" /\ past' = Slide(past, Imagined(opening + k, {}))
        /\ acts' = Slide(acts, opening + k)
    BY <1>4 DEF SessionStep, StepLatent, StepRollout
  <2>2. opening + k \in Int
    BY DEF ImagInv, ImagTyped
  <2>3. past \in Seq(Picture) /\ Len(past) = Past /\ acts \in Seq(Int) /\ Len(acts) = Past
    BY <1>4, <2>1 DEF FramesPast
  <2> DEFINE x == opening + k
             y == Imagined(x, {})
  <2>4. y \in Picture
    BY <2>2 DEF Imagined, Picture
  <2>5. past' = Slide(past, y) /\ acts' = Slide(acts, x) /\ x \in Int
    BY <2>1, <2>2
  <2> HIDE DEF x, y
  <2>6. Len(past) # 0 /\ Len(acts) # 0
    BY <2>3, ImaginationAssumption
  <2>7. past' \in Seq(Picture) /\ Len(past') = Past
    BY <2>3, <2>4, <2>5, <2>6, SlideIs
  <2>8. acts' \in Seq(Int) /\ Len(acts') = Past
    BY <2>3, <2>5, <2>6, SlideIs
  <2> QED BY <2>7, <2>8 DEF FramesPast
<1>5. caller = "frames" => InitFromFrames \/ SessionStep
  BY DEF ImaginationNext, BeginBatch, Unroll, Validate, BeginGif, DrawGif, Clone, BeginPolicy,
         PolicyStep, Reseed, RunRollout, Acting
<1> QED BY <1>2, <1>3, <1>4, <1>5

\* The types of a loop over the world model: predictions are counted up to
\* the number asked for, the first stands for a frame of the episode or the
\* one after it, and the history holds no frames or the model's Past.
THEOREM ImaginationTypes ==
  EpisodeHolds => (Spec => []ImaginationTypeOK)
<1> DEFINE Inv == ImagInv /\ FramesPast /\ WithinEpisode
<1> SUFFICES ASSUME EpisodeHolds PROVE Spec => []ImaginationTypeOK
  OBVIOUS
<1>1. Init => Inv
  <2> SUFFICES ASSUME ImaginationInit PROVE Inv
    BY DEF Init
  <2>1. ImagInv
    BY ImaginationOpens
  <2>2. FramesPast /\ WithinEpisode
    BY ImaginationAssumption DEF ImaginationInit, FramesPast, WithinEpisode, None
  <2> QED BY <2>1, <2>2
<1>2. Inv /\ [Next]_trainingVars => Inv'
  <2> SUFFICES ASSUME Inv, [Next]_trainingVars PROVE Inv'
    OBVIOUS
  <2>0. ImagInv'
    BY ImaginationKeeps
  <2>1. UNCHANGED imaginationVars \/ ImaginationNext
    BY DEF Next, Runs, Rolls, Trains, Iterates, Imagines, Streams, Crashes, trainingVars
  <2>2. CASE UNCHANGED imaginationVars
    <3>1. FramesPast' /\ WithinEpisode'
      BY <2>2 DEF imaginationVars, FramesPast, WithinEpisode
    <3> QED BY <2>0, <3>1
  <2>3. CASE ImaginationNext
    <3>1. WithinEpisode'
      BY <2>3, RollsWithin, BatchWithin, ValidateWithin, CloneWithin, SessionsWithin,
         PolicyWithin, GifWithin DEF ImaginationNext
    <3>2. FramesPast'
      BY <2>3, FramesPastKeeps
    <3> QED BY <2>0, <3>1, <3>2
  <2> QED BY <2>1, <2>2, <2>3
<1>3. Inv => ImaginationTypeOK
  <2> SUFFICES ASSUME Inv PROVE ImaginationTypeOK
    OBVIOUS
  <2>1. opening \in Nat /\ frames \in Nat /\ k \in Nat
    BY DEF ImagInv, ImagTyped
  <2>2. (standing # "refused" => opening <= Length + 1) /\ k \in 0 .. frames
    BY <2>1 DEF WithinEpisode
  <2> QED BY <2>1, <2>2 DEF WithinEpisode, ImaginationTypeOK
<1> QED BY <1>1, <1>2, <1>3, PTL DEF Spec

\* Types of all that trains, on such episodes: rewards, trainers, checkpoints,
\* the loops around a world model and the streaming sessions. One program
\* runs, and the others keep the state they were given.
THEOREM TrainingTypeCorrect == EpisodeHolds => (Spec => []TypeOK)
<1> SUFFICES ASSUME EpisodeHolds PROVE Spec => []TypeOK
  OBVIOUS
<1>1. Spec => [](program \in Programs)
  <2>1. Init => program \in Programs
    BY DEF Init
  <2>2. program \in Programs /\ [Next]_trainingVars => (program \in Programs)'
    BY DEF Next, Runs, Rolls, Trains, Iterates, Imagines, Streams, Crashes, trainingVars
  <2> QED BY <2>1, <2>2, PTL DEF Spec
<1>2. /\ Spec => []RewardsTypeOK
      /\ Spec => []TrainersTypeOK
      /\ Spec => []CheckpointsTypeOK
      /\ Spec => []ImaginationTypeOK
      /\ Spec => []StreamingTypeOK
  BY RewardsTypes, TrainerTypes, CheckpointTypes, ImaginationTypes, StreamingTypes
<1>3. program \in Programs /\ RewardsTypeOK /\ TrainersTypeOK /\ CheckpointsTypeOK
        /\ ImaginationTypeOK /\ StreamingTypeOK => TypeOK
  BY DEF TypeOK
<1> QED BY <1>1, <1>2, <1>3, PTL
=============================================================================
