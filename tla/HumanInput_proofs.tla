-------------------------- MODULE HumanInput_proofs --------------------------
(***************************************************************************)
(* For any buttons, sticks, page vectors, AI actions, mapper files and     *)
(* gamepads: taps arrive, the human is never overruled, a switched-off AI  *)
(* falls silent, and where a gamepad's controls stand reaches the console  *)
(* for every control none of whose newest events was dropped.              *)
(***************************************************************************)
EXTENDS DeviceInput, SequenceTheorems, FiniteSetTheorems, WellFoundedInduction, TLAPS

\* What the two sources return: the reader speaks for the human, the cached
\* action does not.
Speakers ==
  /\ human # None => human.human
  /\ ai # None => ~ai.human

\* What the loop holds at each point of its tick.
TickInv ==
  /\ at = "human" => human = None /\ ai = None /\ due = {}
  /\ at = "ai" => ai = None
  /\ sent => at = "tape"
  /\ due # {} => human # None
  /\ \A b \in due : b \in human.mask /\ human.action[b] >= 5

\* The latch covers the whole debt to the page.
LatchInv == owed \subseteq latched

\* A switched-off AI gets no second sample.
OffInv ==
  /\ enabled => late = 0
  /\ late <= 1
  /\ late = 1 /\ at = "post" => ai = None

InputInv ==
  TypeOK /\ Speakers /\ TickInv /\ LatchInv /\ OffInv /\ HumanNeverOverruled

LEMMA Sampling ==
  ASSUME TypeOK, Speakers
  PROVE  /\ Present \in Seq(Snapshots)
         /\ Len(Present) \in 0..2
         /\ human # None => Len(Present) # 0 /\ Present[1] = human /\ Humans(Present) = {1}
         /\ human = None => Humans(Present) = {}
<1>1. CASE human = None /\ ai = None
  <2>1. Present = <<>>
    BY <1>1 DEF Present, Sampled
  <2> QED BY <1>1, <2>1 DEF Humans
<1>2. CASE human = None /\ ai # None
  <2>1. Present = <<ai>>
    BY <1>2 DEF Present, Sampled
  <2> QED BY <1>2, <2>1 DEF Humans, TypeOK, Speakers
<1>3. CASE human # None /\ ai = None
  <2>1. Present = <<human>>
    BY <1>3 DEF Present, Sampled
  <2> QED BY <1>3, <2>1 DEF Humans, TypeOK, Speakers
<1>4. CASE human # None /\ ai # None
  <2>1. Present = <<human>> \o <<ai>>
    BY <1>4 DEF Present, Sampled
  <2>2. /\ Present \in Seq(Snapshots) /\ Len(Present) = 2
        /\ Present[1] = human /\ Present[2] = ai
    BY <1>4, <2>1 DEF TypeOK
  <2> QED BY <1>4, <2>2 DEF Humans, Speakers
<1> QED BY <1>1, <1>2, <1>3, <1>4

LEMMA Extremes ==
  ASSUME NEW S \in SUBSET (1..2), S # {}
  PROVE  Earliest(S) \in S /\ Last(S) \in S
<1>1. \A x \in S : x = 1 \/ x = 2
  OBVIOUS
<1> PICK e \in S : TRUE
  OBVIOUS
<1>2. \E i \in S : \A j \in S : i <= j
  <2>1. CASE 1 \in S
    BY <1>1, <2>1
  <2>2. CASE 1 \notin S
    BY <1>1, <2>2
  <2> QED BY <2>1, <2>2
<1>3. \E i \in S : \A j \in S : j <= i
  <2>1. CASE 2 \in S
    BY <1>1, <2>1
  <2>2. CASE 2 \notin S
    BY <1>1, <2>2
  <2> QED BY <2>1, <2>2
<1> QED BY <1>2, <1>3 DEF Earliest, Last

\* Both strategies give a vector, and the human's part of it unchanged.
LEMMA Merging ==
  ASSUME TypeOK, Speakers
  PROVE  /\ Merged \in Vectors
         /\ human # None => \A d \in human.mask : Merged[d] = human.action[d]
<1> DEFINE all(d) == Claimants(Present, d)
<1>1. /\ Present \in Seq(Snapshots) /\ DOMAIN Present \subseteq 1..2
      /\ human # None => Present[1] = human /\ Humans(Present) = {1} /\ 1 \in DOMAIN Present
      /\ human = None => Humans(Present) = {}
  BY Sampling DEF Humans
<1>2. \A i \in DOMAIN Present : Present[i] \in Snapshots
  BY <1>1
<1>3. \A d : all(d) \subseteq 1..2 /\ all(d) \subseteq DOMAIN Present
  BY <1>1 DEF Claimants
<1>4. ASSUME NEW d \in Dims, NEW S \in SUBSET all(d), S # {}
      PROVE  Present[Earliest(S)].action[d] \in Int /\ Present[Last(S)].action[d] \in Int
  <2>1. Earliest(S) \in DOMAIN Present /\ Last(S) \in DOMAIN Present
    BY <1>3, <1>4, Extremes
  <2> QED BY <1>2, <2>1 DEF Snapshots, Vectors
<1>5. HumanPriority(Present) \in Vectors
  <2>1. ASSUME NEW d \in Dims PROVE HumanPriority(Present)[d] \in Int
    BY <1>4 DEF HumanPriority
  <2> QED BY <2>1 DEF HumanPriority, Vectors
<1>6. HumanTakeover(Present) \in Vectors
  <2>1. ASSUME NEW d \in Dims PROVE HumanTakeover(Present)[d] \in Int
    <3>1. all(d) \cap Humans(Present) \in SUBSET all(d) /\ all(d) \ Humans(Present) \in SUBSET all(d)
      OBVIOUS
    <3> QED BY <1>4, <3>1 DEF HumanTakeover
  <2> QED BY <2>1 DEF HumanTakeover, Vectors
<1>7. ASSUME human # None, NEW d \in human.mask
      PROVE  /\ HumanPriority(Present)[d] = human.action[d]
             /\ HumanTakeover(Present)[d] = human.action[d]
  <2>1. d \in Dims
    BY <1>7 DEF TypeOK, Snapshots
  <2>2. all(d) \cap Humans(Present) = {1}
    BY <1>1, <1>7 DEF Claimants
  <2>3. Earliest({1}) = 1 /\ Last({1}) = 1
    BY Extremes
  <2>4. \E i \in Humans(Present) : Present[i].mask # {}
    BY <1>1, <1>7
  <2>5. HumanPriority(Present)[d] = human.action[d]
    BY <1>1, <1>7, <2>1, <2>2, <2>3 DEF HumanPriority
  <2>6. HumanTakeover(Present)[d] = human.action[d]
    BY <1>1, <1>7, <2>1, <2>2, <2>3, <2>4 DEF HumanTakeover
  <2> QED BY <2>5, <2>6
<1> QED BY <1>5, <1>6, <1>7 DEF Merged

LEMMA InitInv == Init => InputInv
<1> SUFFICES ASSUME Init PROVE InputInv
  OBVIOUS
<1>1. Neutral \in Vectors
  BY DEF Neutral, Vectors
<1>2. TypeOK
  BY <1>1 DEF Init, TypeOK, Modes
<1>3. Speakers /\ TickInv /\ LatchInv
  BY DEF Init, Speakers, TickInv, LatchInv
<1>4. OffInv /\ HumanNeverOverruled
  BY DEF Init, OffInv, HumanNeverOverruled
<1> QED BY <1>2, <1>3, <1>4 DEF InputInv

\* The page's vectors stay vectors, and a press that is latched is in the
\* snapshot that is taken.
LEMMA Reading ==
  ASSUME TypeOK
  PROVE  /\ \A v \in PageVectors : Clean(v) \in Vectors
         /\ ReaderSnapshot \in Snapshots
         /\ ReaderSnapshot.human
         /\ \A b \in latched : b \in ReaderSnapshot.mask /\ ReaderSnapshot.action[b] >= 5
<1> DEFINE v == [d \in Dims |-> IF d \in latched THEN Max0(action[d], 10) ELSE action[d]]
<1>1. \A w \in PageVectors : Clean(w) \in Vectors
  <2> TAKE w \in PageVectors
  <2>1. \A d \in Dims : w[d] \in Int
    BY HumanInputAssumption DEF Vectors
  <2> QED BY <2>1 DEF Clean, Vectors
<1>2. v \in Vectors /\ \A b \in latched : b \in Dims /\ v[b] >= 5 /\ b \in Buttons
  <2>1. \A d \in Dims : action[d] \in Int
    BY DEF TypeOK, Vectors
  <2>2. \A d \in Dims : Max0(action[d], 10) \in Int /\ Max0(action[d], 10) >= 5
    BY <2>1 DEF Max0
  <2>3. latched \subseteq Buttons /\ Buttons \subseteq Dims
    BY DEF TypeOK, Dims
  <2> QED BY <2>1, <2>2, <2>3 DEF Vectors
<1>3. Pressed(v) \cup {s \in Sticks : v[s] # 0} \subseteq Dims
  BY DEF Pressed, Dims
<1>4. ReaderSnapshot = [human |-> TRUE, action |-> v,
                        mask |-> Pressed(v) \cup {s \in Sticks : v[s] # 0}]
  BY DEF ReaderSnapshot
<1>5. \A b \in latched : b \in Pressed(v)
  BY <1>2 DEF Pressed
<1> HIDE DEF v
<1> QED BY <1>1, <1>2, <1>3, <1>4, <1>5 DEF Snapshots

LEMMA PageStep ==
  ASSUME InputInv, (\E v \in PageVectors : PushAction(v)) \/ GoStale
  PROVE  InputInv'
<1> USE DEF InputInv, TypeOK, Speakers, TickInv, LatchInv, OffInv, HumanNeverOverruled,
        runtime, tick, recorder, history
<1>1. ASSUME NEW v \in PageVectors, PushAction(v) PROVE InputInv'
  <2>1. action' \in Vectors
    BY <1>1, Reading DEF PushAction
  <2>2. Pressed(action') \subseteq Buttons
    BY DEF Pressed
  <2> QED BY <1>1, <2>1, <2>2 DEF PushAction
<1>2. CASE GoStale
  BY <1>2 DEF GoStale
<1> QED BY <1>1, <1>2

LEMMA SwitchStep ==
  ASSUME InputInv,
         \/ \E v \in AiVectors : Infer(v)
         \/ \E on \in BOOLEAN : SetAiEnabled(on)
         \/ \E m \in Modes : SetMode(m)
  PROVE  InputInv'
<1> USE DEF InputInv, TypeOK, Speakers, TickInv, LatchInv, OffInv, HumanNeverOverruled,
        reader, tick, recorder, history
<1>1. ASSUME NEW v \in AiVectors, Infer(v) PROVE InputInv'
  BY <1>1 DEF Infer
<1>2. ASSUME NEW on \in BOOLEAN, SetAiEnabled(on) PROVE InputInv'
  BY <1>2 DEF SetAiEnabled
<1>3. ASSUME NEW m \in Modes, SetMode(m) PROVE InputInv'
  BY <1>3 DEF SetMode
<1> QED BY <1>1, <1>2, <1>3

LEMMA RecorderStep ==
  ASSUME InputInv, RecordStart \/ RecordEnd
  PROVE  InputInv'
<1> USE DEF InputInv, TypeOK, Speakers, TickInv, LatchInv, OffInv, HumanNeverOverruled,
        reader, runtime, tick, history
<1> QED BY DEF RecordStart, RecordEnd

LEMMA TickStep ==
  ASSUME InputInv, Tick
  PROVE  InputInv'
<1> USE DEF InputInv, TypeOK, Speakers, TickInv, LatchInv, OffInv, HumanNeverOverruled,
        reader, runtime, recorder, history
<1>1. CASE ReadHuman
  <2>1. CASE age = "live"
    <3>1. /\ at' = "ai" /\ human' = ReaderSnapshot /\ latched' = {} /\ owed' = {} /\ due' = owed
          /\ UNCHANGED <<action, age, runtime, ai, posted, recorder, sent, late>>
      BY <1>1, <2>1 DEF ReadHuman
    <3>2. \A b \in due' : b \in human'.mask /\ human'.action[b] >= 5
      BY <3>1, Reading
    <3>3. human' \in Snapshots /\ human' # None /\ human'.human
      BY <3>1, Reading, HumanInputAssumption
    <3> HIDE DEF HumanNeverOverruled
    <3>4. HumanNeverOverruled'
      BY <3>1 DEF HumanNeverOverruled
    <3>5. TypeOK'
      BY <3>1, <3>3
    <3>6. Speakers'
      BY <3>1, <3>3
    <3>7. TickInv'
      BY <1>1, <3>1, <3>2, <3>3 DEF ReadHuman
    <3>8. LatchInv' /\ OffInv'
      BY <1>1, <3>1 DEF ReadHuman
    <3> QED BY <3>4, <3>5, <3>6, <3>7, <3>8
  <2>2. CASE age # "live"
    BY <1>1, <2>2 DEF ReadHuman
  <2> QED BY <2>1, <2>2
<1>2. CASE ReadAi
  <2>1. ASSUME NEW a \in AiVectors
        PROVE  /\ [human |-> FALSE, action |-> a, mask |-> Dims] \in Snapshots
               /\ ~[human |-> FALSE, action |-> a, mask |-> Dims].human
    BY HumanInputAssumption DEF Snapshots
  <2>2. ai' \in Snapshots \cup {None} /\ (ai' # None => ~ai'.human) /\ (~enabled => ai' = None)
    BY <1>2, <2>1 DEF ReadAi, AiSnapshot
  <2> QED BY <1>2, <2>2 DEF ReadAi
<1>3. CASE Post
  <2>1. CASE /\ posted' = Merged /\ sent' = TRUE
             /\ late' = IF ai # None /\ ~enabled THEN late + 1 ELSE late
    BY <1>3, <2>1, Merging DEF Post
  <2>2. CASE UNCHANGED <<posted, sent, late>>
    BY <1>3, <2>2 DEF Post
  <2> QED BY <1>3, <2>1, <2>2 DEF Post
<1>4. CASE Tape
  <2>1. Intent \in Vectors
    <3>1. ASSUME NEW d \in Dims PROVE Intent[d] \in Int
      BY DEF Intent, Snapshots, Vectors
    <3> QED BY <3>1 DEF Intent, Vectors
  <2> QED BY <1>4, <2>1, HumanInputAssumption DEF Tape
<1> QED BY <1>1, <1>2, <1>3, <1>4 DEF Tick

LEMMA InputInvariant == Spec => []InputInv
<1>1. InputInv /\ [Next]_vars => InputInv'
  <2> SUFFICES ASSUME InputInv, [Next]_vars PROVE InputInv'
    OBVIOUS
  <2>1. CASE UNCHANGED vars
    BY <2>1 DEF vars, reader, runtime, tick, recorder, history, InputInv, TypeOK, Speakers,
       TickInv, LatchInv, OffInv, HumanNeverOverruled
  <2> QED BY <2>1, PageStep, SwitchStep, TickStep, RecorderStep DEF Next
<1> QED BY <1>1, InitInv, PTL DEF Spec

\* The types of the readers, the switches, the tick and the recorder.
THEOREM InputTypeCorrect == Spec => []TypeOK
<1>1. InputInv => TypeOK
  BY DEF InputInv
<1> QED BY <1>1, InputInvariant, PTL

\* web_gamepad_reader.py: a tap between two reads of the loop is in the action
\* the tick posts, whatever the AI posts and whoever changes the mode in between,
\* unless that POST fails.
THEOREM TapsArrive == Spec => []NoTapLost
<1>1. InputInv => NoTapLost
  BY DEF InputInv, TypeOK, TickInv, HumanNeverOverruled, NoTapLost, Pressed
<1> QED BY <1>1, InputInvariant, PTL

\* No dimension the human contributes is ever changed by the AI.
THEOREM HumanWins == Spec => []HumanNeverOverruled
<1>1. InputInv => HumanNeverOverruled
  BY DEF InputInv
<1> QED BY <1>1, InputInvariant, PTL

\* At most the tick in flight posts the action of an AI that was switched off.
THEOREM AiFallsSilent == Spec => []AiOffPromptly
<1>1. InputInv => AiOffPromptly
  BY DEF InputInv, OffInv, AiOffPromptly
<1> QED BY <1>1, InputInvariant, PTL

-----------------------------------------------------------------------------
(* The gamepad                                                             *)

\* A mapper sends keys and axes to buttons, sticks to sticks, and every code
\* to one place.
MapperOK(m) ==
  /\ \A c \in DOMAIN m.buttons : c \in KeyCodes /\ m.buttons[c] \in Buttons
  /\ \A c \in DOMAIN m.sticks : c \in AxisCodes /\ m.sticks[c].target \in Sticks
  /\ \A c \in DOMAIN m.triggers : c \in AxisCodes /\ m.triggers[c].target \in Buttons
  /\ \A c \in DOMAIN m.hats : /\ c \in AxisCodes
                              /\ m.hats[c].targets[1] \in Buttons
                              /\ m.hats[c].targets[2] \in Buttons
  /\ DOMAIN m.sticks \cap DOMAIN m.triggers = {}
  /\ DOMAIN m.sticks \cap DOMAIN m.hats = {}
  /\ DOMAIN m.triggers \cap DOMAIN m.hats = {}

\* The vectors a reader holds: its buttons are up or down.
Held == {v \in Vectors : \A b \in Buttons : v[b] \in {0, 10}}

Events == [code : {"SYN_DROPPED"} \cup DOMAIN controls, value : Int]

PadTypeOK ==
  /\ mapper # None => MapperOK(mapper) /\ device \in Numbers
  /\ known \in Held
  /\ thread \in {"none", "reading", "ended"} /\ thread # "none" => mapper # None
  /\ thread = "none" => events = <<>> /\ heard = {}
  /\ plugged /\ thread # "none" => thread = "reading"
  /\ mapper # None =>
       /\ DOMAIN controls = DOMAIN Listing[device].moves
       /\ \A c \in DOMAIN controls : controls[c] \in Int
  /\ events \in Seq(Events)
  /\ heard \subseteq DOMAIN controls

\* No queued event from the i-th on is of the control c.
NoneFrom(i, c) == \A j \in i .. Len(events) : events[j].code # c

\* The vector shows a control where it would stand at v, but for what another
\* control has for a target too.
Shows(c, v) ==
  \A d \in Targets(c) :
    (\A e \in DOMAIN controls \ {c} : d \notin Targets(e)) =>
      known[d] = Handled(Untouched, [code |-> c, value |-> v])[d]

\* The last queued event of a control says where it stands; where none is
\* queued the vector does.
MirrorOf(c) ==
  /\ \A i \in 1 .. Len(events) :
       events[i].code = c /\ NoneFrom(i + 1, c) => events[i].value = controls[c]
  /\ NoneFrom(1, c) => \A v \in {controls[c]} : Shows(c, v)

MirrorInv == plugged => \A c \in heard : MirrorOf(c)

\* What the loop took from a gamepad has its buttons up or down.
SnapInv == human # None => human.action \in Held

PadInv == source = "evdev" => PadTypeOK /\ MirrorInv /\ SnapInv

DeviceInv == InputInv /\ PadInv

LEMMA LeastExists ==
  ASSUME NEW S, S \subseteq Nat, S # {}
  PROVE  \E j \in S : \A l \in S : j <= l
<1> DEFINE R == StrictSubsetOrdering(Nat)
           T == {0 .. l : l \in S}
<1>1. \A l \in S : 0 .. l \in FiniteSubsetsOf(Nat)
  <2> TAKE l \in S
  <2>1. l \in Int /\ 0 \in Int /\ 0 .. l \in SUBSET Nat
    OBVIOUS
  <2>2. IsFiniteSet(0 .. l)
    BY <2>1, FS_Interval
  <2> QED BY <2>1, <2>2 DEF FiniteSubsetsOf
<1>2. T \subseteq FiniteSubsetsOf(Nat) /\ T # {}
  BY <1>1
<1>3. PICK x \in T : \A y \in T : ~ (<<y, x>> \in R)
  <2> HIDE DEF T, R
  <2>1. IsWellFoundedOn(R, FiniteSubsetsOf(Nat))
    BY FS_StrictSubsetOrderingWellFounded DEF R
  <2> QED BY <1>2, <2>1, WFMin
<1>4. PICK j \in S : x = 0 .. j
  OBVIOUS
<1>5. ASSUME NEW l \in S PROVE j <= l
  <2>1. j \in Nat /\ l \in Nat /\ <<0 .. l, 0 .. j>> \notin R
    BY <1>3, <1>4
  <2>2. CASE l < j
    <3>1. 0 .. l \subseteq 0 .. j /\ j \in 0 .. j /\ j \notin 0 .. l
      BY <2>1, <2>2
    <3>2. 0 .. l # 0 .. j /\ 0 .. l \in SUBSET Nat /\ 0 .. j \in SUBSET Nat
      BY <2>1, <3>1
    <3> QED BY <2>1, <3>1, <3>2 DEF StrictSubsetOrdering
  <2> QED BY <2>1, <2>2
<1> QED BY <1>5

\* The last one of finitely many.
LEMMA GreatestExists ==
  ASSUME NEW n \in Nat, NEW S, S \subseteq 0 .. n, S # {}
  PROVE  \E j \in S : \A l \in S : l <= j
<1> DEFINE T == {n - s : s \in S}
<1>1. T \subseteq Nat /\ T # {}
  <2>1. \A s \in S : n - s \in Nat
    OBVIOUS
  <2>2. T \subseteq Nat
    BY <2>1
  <2>3. PICK s \in S : TRUE
    OBVIOUS
  <2>4. n - s \in T
    BY <2>3
  <2> QED BY <2>2, <2>4
<1>2. PICK t \in T : \A u \in T : t <= u
  BY <1>1, LeastExists
<1>3. PICK j \in S : t = n - j
  OBVIOUS
<1>4. ASSUME NEW l \in S PROVE l <= j
  <2>1. n - l \in T
    OBVIOUS
  <2>2. n - j <= n - l /\ l \in Nat /\ j \in Nat
    BY <1>2, <1>3, <2>1
  <2> QED BY <2>2
<1> QED BY <1>4

\* What load_mapper() makes of a file it accepts.
LEMMA LoadedOK ==
  ASSUME NEW i \in DOMAIN Files
  PROVE  MapperOK(LoadMapper(Files[i]))
<1> DEFINE file == Files[i]
           raw == LoadRaw(file)
<1>1. file \in Raws /\ RawOK(file)
  BY DeviceInputAssumption DEF DevicesOK, Raws
<1>2. /\ \A c \in DOMAIN raw.buttons : c \in KeyCodes /\ raw.buttons[c] \in Buttons
      /\ \A c \in DOMAIN raw.axes : c \in AxisCodes /\ AxisOK(raw.axes[c])
  <2>1. CASE file.parent = None
    <3>1. raw = file
      BY <2>1 DEF LoadRaw
    <3>2. DOMAIN file.buttons \subseteq KeyCodes /\ DOMAIN file.axes \subseteq AxisCodes
      BY <1>1 DEF KeyCodes, AxisCodes
    <3> QED BY <1>1, <3>1, <3>2 DEF RawOK
  <2>2. CASE file.parent # None
    <3> DEFINE parent == file.parent
    <3>1. parent \in Raws /\ RawOK(parent)
      BY <2>2, DeviceInputAssumption DEF DevicesOK, Raws
    <3>2. raw = Merge(parent, file)
      BY <2>2 DEF LoadRaw
    <3>3. /\ DOMAIN file.buttons \subseteq KeyCodes /\ DOMAIN file.axes \subseteq AxisCodes
          /\ DOMAIN parent.buttons \subseteq KeyCodes /\ DOMAIN parent.axes \subseteq AxisCodes
      <4> HIDE DEF file, parent
      <4> QED BY <1>1, <3>1 DEF KeyCodes, AxisCodes
    <3>4. raw.buttons = Update(parent.buttons, file.buttons)
      <4>1. DOMAIN file = {"stem", "id", "parent", "matches", "buttons", "axes"}
        BY <1>1 DEF RawOK
      <4> HIDE DEF file, parent, raw
      <4> QED BY <3>2, <4>1 DEF Merge
    <3>5. raw.axes = Update(parent.axes, file.axes)
      <4>1. DOMAIN file = {"stem", "id", "parent", "matches", "buttons", "axes"}
        BY <1>1 DEF RawOK
      <4> HIDE DEF file, parent, raw
      <4> QED BY <3>2, <4>1 DEF Merge
    <3> HIDE DEF file, parent, raw
    <3>6. \A c \in DOMAIN raw.buttons : c \in KeyCodes /\ raw.buttons[c] \in Buttons
      BY <1>1, <3>1, <3>3, <3>4 DEF Update, RawOK
    <3>7. \A c \in DOMAIN raw.axes : c \in AxisCodes /\ AxisOK(raw.axes[c])
      BY <1>1, <3>1, <3>3, <3>5 DEF Update, RawOK
    <3> QED BY <3>6, <3>7
  <2> QED BY <2>1, <2>2
<1> DEFINE OfKind(kind) == {c \in DOMAIN raw.axes : raw.axes[c].kind = kind}
           m == LoadMapper(file)
<1>3. /\ m.buttons = raw.buttons
      /\ m.sticks = [c \in OfKind("stick") |-> raw.axes[c]]
      /\ m.triggers = [c \in OfKind("trigger") |-> raw.axes[c]]
      /\ m.hats = [c \in OfKind("hat_pair") |-> raw.axes[c]]
  BY DEF LoadMapper
<1> HIDE DEF m, raw, file
<1>4. \A c \in OfKind("stick") : c \in AxisCodes /\ raw.axes[c].target \in Sticks
  BY <1>2 DEF AxisOK
<1>5. \A c \in OfKind("trigger") : c \in AxisCodes /\ raw.axes[c].target \in Buttons
  BY <1>2 DEF AxisOK
<1>6. \A c \in OfKind("hat_pair") : /\ c \in AxisCodes
                                   /\ raw.axes[c].targets[1] \in Buttons
                                   /\ raw.axes[c].targets[2] \in Buttons
  BY <1>2 DEF AxisOK
<1>7. MapperOK(m)
  BY <1>2, <1>3, <1>4, <1>5, <1>6 DEF MapperOK
<1> QED BY <1>7 DEF m, file

LEMMA RegistryOK ==
  /\ \A i \in DOMAIN Registry : MapperOK(Registry[i])
  /\ \E n \in Nat : DOMAIN Registry \subseteq 0 .. n
<1> DEFINE loaded == [i \in DOMAIN Files |-> LoadMapper(Files[i])]
           Same(i) == {j \in DOMAIN Files : loaded[j].id = loaded[i].id}
           places == {i \in DOMAIN Files : \A j \in Same(i) : i <= j}
           newest(i) == CHOOSE j \in Same(i) : \A k \in Same(i) : k <= j
<1>1. PICK n \in Nat : DOMAIN Files = 1 .. n
  BY DeviceInputAssumption, LenProperties DEF DevicesOK
<1>2. Registry = [i \in places |-> loaded[newest(i)]]
  BY DEF Registry
<1>3. ASSUME NEW i \in DOMAIN Files PROVE newest(i) \in DOMAIN Files
  <2>1. Same(i) \subseteq 0 .. n /\ Same(i) # {}
    BY <1>1
  <2>2. \E j \in Same(i) : \A k \in Same(i) : k <= j
    <3> HIDE DEF Same
    <3> QED BY <2>1, GreatestExists
  <2> QED BY <2>2
<1>4. \A i \in DOMAIN Files : MapperOK(loaded[i])
  BY LoadedOK
<1> HIDE DEF loaded, newest
<1> QED BY <1>1, <1>2, <1>3, <1>4

\* The device and the mapper the runner begins with.
LEMMA PickOK ==
  ASSUME NEW input, NEW path \in Numbers \cup {None}, Pick(input, path) # None
  PROVE  Pick(input, path).device \in Numbers /\ MapperOK(Pick(input, path).mapper)
<1>1. \A S : S \subseteq DOMAIN Registry /\ S # {} => Least(S) \in S
  <2> TAKE S
  <2> HAVE S \subseteq DOMAIN Registry /\ S # {}
  <2>1. S \subseteq Nat
    BY RegistryOK
  <2> QED BY <2>1, LeastExists DEF Least
<1>2. ASSUME NEW name, Detect(name) # None PROVE MapperOK(Detect(name))
  <2> DEFINE claims == {i \in DOMAIN Registry : name \in Registry[i].matches}
  <2>1. claims # {} /\ Detect(name) = Registry[Least(claims)]
    BY <1>2 DEF Detect
  <2>2. Least(claims) \in DOMAIN Registry
    BY <1>1, <2>1
  <2> QED BY <2>1, <2>2, RegistryOK
<1>3. ASSUME NEW id, Get(id) # None PROVE MapperOK(Get(id))
  <2> DEFINE found == {i \in DOMAIN Registry : Registry[i].id = id}
  <2>1. found # {} /\ Get(id) = Registry[Least(found)]
    BY <1>3 DEF Get
  <2>2. Least(found) \in DOMAIN Registry
    BY <1>1, <2>1
  <2> QED BY <2>1, <2>2, RegistryOK
<1> DEFINE claimed == {n \in Numbers : Listing[n].opens /\ Detect(Listing[n].name) # None}
           Found(n, m) == IF m = None THEN None ELSE [device |-> n, mapper |-> m]
<1>4. claimed # {} => Least(claimed) \in claimed
  <2>1. claimed \subseteq Nat
    BY DEF Numbers
  <2> HIDE DEF claimed
  <2> QED BY <2>1, LeastExists DEF Least
<1>5. CASE input = "auto" /\ path # None
  <2>1. Pick(input, path) = Found(path, Detect(Listing[path].name)) /\ path \in Numbers
    BY <1>5 DEF Pick
  <2> QED BY <1>2, <2>1
<1>6. CASE input = "auto" /\ path = None
  <2>1. claimed # {} /\ Pick(input, path) =
          Found(Least(claimed), Detect(Listing[Least(claimed)].name))
    BY <1>6 DEF Pick
  <2> QED BY <1>2, <1>4, <2>1
<1>7. CASE input # "auto"
  <2>1. path # None /\ Pick(input, path) = Found(path, Get(input))
    BY <1>7 DEF Pick
  <2> QED BY <1>3, <2>1
<1> QED BY <1>5, <1>6, <1>7

\* Writing one dimension.
LEMMA WrittenOK ==
  ASSUME NEW h \in Held, NEW t \in Dims, NEW x \in Int, t \in Buttons => x \in {0, 10}
  PROVE  /\ [h EXCEPT ![t] = x] \in Held
         /\ [h EXCEPT ![t] = x][t] = x
         /\ \A d \in Dims \ {t} : [h EXCEPT ![t] = x][d] = h[d]
<1>1. h \in [Dims -> Int] /\ \A b \in Buttons : h[b] \in {0, 10} /\ b \in Dims
  BY DEF Held, Vectors, Dims
<1> DEFINE g == [h EXCEPT ![t] = x]
<1>2. g \in [Dims -> Int] /\ g[t] = x /\ \A d \in Dims \ {t} : g[d] = h[d]
  BY <1>1
<1>3. \A b \in Buttons : g[b] \in {0, 10}
  <2> TAKE b \in Buttons
  <2>1. CASE b = t
    BY <1>2, <2>1
  <2>2. CASE b # t
    BY <1>1, <1>2, <2>2
  <2> QED BY <2>1, <2>2
<1> QED BY <1>2, <1>3 DEF Held, Vectors

\* An event changes the targets of its control, and what it leaves there does
\* not depend on what was there.
Effect(c, v) ==
  \A h \in Held :
    LET e == [code |-> c, value |-> v] IN
    /\ Handled(h, e) \in Held
    /\ \A d \in Dims \ Targets(c) : Handled(h, e)[d] = h[d]
    /\ \A d \in Targets(c) : Handled(h, e)[d] = Handled(Untouched, e)[d]

LEMMA EmptyHanded == Untouched \in Held
BY DEF Untouched, Held, Vectors, Dims

LEMMA OneTarget ==
  ASSUME NEW c, NEW v, NEW t \in Dims, NEW x \in Int, t \in Buttons => x \in {0, 10},
         Targets(c) = {t},
         \A h : Handled(h, [code |-> c, value |-> v]) = [h EXCEPT ![t] = x]
  PROVE  Effect(c, v)
<1> DEFINE e == [code |-> c, value |-> v]
<1>1. SUFFICES ASSUME NEW h \in Held
      PROVE  /\ Handled(h, e) \in Held
             /\ \A d \in Dims \ Targets(c) : Handled(h, e)[d] = h[d]
             /\ \A d \in Targets(c) : Handled(h, e)[d] = Handled(Untouched, e)[d]
  BY DEF Effect
<1>2. Handled(h, e) = [h EXCEPT ![t] = x] /\ Handled(Untouched, e) = [Untouched EXCEPT ![t] = x]
  OBVIOUS
<1>3. [Untouched EXCEPT ![t] = x][t] = x
  <2>1. \A g \in Held : [g EXCEPT ![t] = x][t] = x
    BY DEF Held, Vectors
  <2> QED BY <2>1, EmptyHanded
<1>4. /\ [h EXCEPT ![t] = x] \in Held
      /\ [h EXCEPT ![t] = x][t] = x
      /\ \A d \in Dims \ {t} : [h EXCEPT ![t] = x][d] = h[d]
  BY WrittenOK
<1> QED BY <1>2, <1>3, <1>4

LEMMA HandledOK ==
  ASSUME MapperOK(mapper), device \in Numbers, NEW c, NEW v \in Int
  PROVE  Effect(c, v)
<1> DEFINE e == [code |-> c, value |-> v]
<1>0. /\ Buttons \subseteq Dims /\ Sticks \subseteq Dims /\ Buttons \cap Sticks = {}
      /\ KeyCodes \cap AxisCodes = {}
  BY HumanInputAssumption, DeviceInputAssumption DEF Dims, DevicesOK
<1>1. CASE c \in DOMAIN mapper.buttons
  <2> DEFINE t == mapper.buttons[c]
             x == IF v # 0 THEN 10 ELSE 0
  <2>1. Targets(c) = {t} /\ t \in Buttons
    BY <1>0, <1>1 DEF Targets, MapperOK
  <2>2. \A h : Handled(h, e) = [h EXCEPT ![t] = x]
    BY <1>0, <1>1 DEF Handled, Key, MapperOK
  <2>3. x \in {0, 10}
    OBVIOUS
  <2> HIDE DEF x, t
  <2> QED BY <1>0, <2>1, <2>2, <2>3, OneTarget
<1>2. CASE c \in DOMAIN mapper.sticks
  <2> DEFINE t == mapper.sticks[c].target
             n == Normalized(c, v)
             w == IF mapper.sticks[c].invert THEN -n ELSE n
             x == IF Magnitude(w) < mapper.sticks[c].deadzone THEN 0 ELSE w
  <2>1. Targets(c) = {t} /\ t \in Sticks
    BY <1>0, <1>2 DEF Targets, MapperOK
  <2>2. \A h : Handled(h, e) = [h EXCEPT ![t] = x]
    <3>1. \A h : Handled(h, e) = Stick(h, c, v)
      BY <1>0, <1>2 DEF Handled, MapperOK
    <3> QED BY <3>1 DEF Stick
  <2>3. n \in Int
    <3> DEFINE infos == Listing[device].info
               info == IF c \in DOMAIN infos THEN infos[c] ELSE <<-1, 1>>
               range == IF info[1] = info[2] THEN 2 ELSE info[2] - info[1]
    <3>1. info[1] \in Int /\ info[2] \in Int /\ info[1] <= info[2]
      BY DeviceInputAssumption DEF DevicesOK
    <3>3. n = Clamp(((2 * v - (info[1] + info[2])) * 10) \div range)
      BY DEF Normalized
    <3> HIDE DEF info, n
    <3>2. range \in Nat \ {0}
      BY <3>1
    <3> HIDE DEF range
    <3>4. ((2 * v - (info[1] + info[2])) * 10) \div range \in Int
      <4> DEFINE m == (2 * v - (info[1] + info[2])) * 10
      <4>1. m \in Int
        BY <3>1
      <4> HIDE DEF m
      <4>2. m \div range \in Int
        BY <3>2, <4>1
      <4> QED BY <4>2 DEF m
    <3> QED BY <3>3, <3>4 DEF Clamp
  <2>4. x \in Int
    <3> HIDE DEF n
    <3> QED BY <2>3
  <2> HIDE DEF x, t
  <2> QED BY <1>0, <2>1, <2>2, <2>4, OneTarget
<1>3. CASE c \in DOMAIN mapper.triggers
  <2> DEFINE m == mapper.triggers[c]
             t == m.target
             n == Normalized(c, v)
             x == IF (IF m.invert THEN 10 - n ELSE 10 + n) \div 2 >= m.threshold
                  THEN 10 ELSE 0
  <2>1. Targets(c) = {t} /\ t \in Buttons
    BY <1>0, <1>3 DEF Targets, MapperOK
  <2>2. \A h : Handled(h, e) = [h EXCEPT ![t] = x]
    <3>1. \A h : Handled(h, e) = Trigger(h, c, v)
      BY <1>0, <1>3 DEF Handled, MapperOK
    <3> QED BY <3>1 DEF Trigger
  <2>3. x \in {0, 10}
    OBVIOUS
  <2> HIDE DEF x, t
  <2> QED BY <1>0, <2>1, <2>2, <2>3, OneTarget
<1>4. CASE c \in DOMAIN mapper.hats
  <2> DEFINE t == mapper.hats[c].targets[1]
             u == mapper.hats[c].targets[2]
             x == IF v < 0 THEN 10 ELSE 0
             y == IF v > 0 THEN 10 ELSE 0
             One(h) == [h EXCEPT ![t] = x]
  <2>1. Targets(c) = {t, u} /\ t \in Buttons /\ u \in Buttons
    BY <1>0, <1>4 DEF Targets, MapperOK
  <2>2. \A h : Handled(h, e) = [One(h) EXCEPT ![u] = y]
    <3>1. \A h : Handled(h, e) = Hat(h, c, v)
      BY <1>0, <1>4 DEF Handled, MapperOK
    <3> QED BY <3>1 DEF Hat
  <2>3. x \in {0, 10} /\ y \in {0, 10}
    OBVIOUS
  <2> HIDE DEF x, y, t, u
  <2>4. \A h \in Held : /\ One(h) \in Held /\ One(h)[t] = x
                        /\ \A d \in Dims \ {t} : One(h)[d] = h[d]
    BY <1>0, <2>1, <2>3, WrittenOK
  <2>5. \A h \in Held : /\ [One(h) EXCEPT ![u] = y] \in Held
                        /\ [One(h) EXCEPT ![u] = y][u] = y
                        /\ \A d \in Dims \ {u} : [One(h) EXCEPT ![u] = y][d] = One(h)[d]
    <3> TAKE h \in Held
    <3>1. One(h) \in Held /\ u \in Dims /\ y \in Int
      BY <1>0, <2>1, <2>3, <2>4
    <3> HIDE DEF One
    <3> QED BY <2>3, <3>1, WrittenOK
  <2> HIDE DEF One, e
  <2>6. ASSUME NEW h \in Held
        PROVE  /\ Handled(h, e) \in Held
               /\ \A d \in Dims \ {t, u} : Handled(h, e)[d] = h[d]
               /\ Handled(h, e)[u] = y
               /\ t # u => Handled(h, e)[t] = x
    <3>1. Handled(h, e) = [One(h) EXCEPT ![u] = y]
      BY <2>2
    <3>2. t \in Dims /\ u \in Dims
      BY <1>0, <2>1
    <3>3. \A d \in Dims \ {t, u} : Handled(h, e)[d] = h[d]
      <4> TAKE d \in Dims \ {t, u}
      <4>1. Handled(h, e)[d] = One(h)[d] /\ One(h)[d] = h[d]
        BY <2>4, <2>5, <3>1
      <4> QED BY <4>1
    <3>4. t # u => Handled(h, e)[t] = One(h)[t]
      BY <2>5, <3>1, <3>2
    <3> QED BY <2>4, <2>5, <3>1, <3>3, <3>4
  <2>7. \A h \in Held : \A d \in Targets(c) : Handled(h, e)[d] = Handled(Untouched, e)[d]
    BY <2>1, <2>6, EmptyHanded
  <2> QED BY <2>1, <2>6, <2>7 DEF Effect, e
<1>5. CASE c \notin DOMAIN mapper.buttons \cup DOMAIN mapper.sticks
                  \cup DOMAIN mapper.triggers \cup DOMAIN mapper.hats
  BY <1>5 DEF Handled, Targets, Effect
<1> QED BY <1>1, <1>2, <1>3, <1>4, <1>5

\* What the gamepad's snapshot hands to the loop.
LEMMA PadSnapshotOK ==
  ASSUME known \in Held
  PROVE  /\ PadSnapshot \in Snapshots \cup {None}
         /\ PadSnapshot # None => PadSnapshot.human /\ PadSnapshot.action \in Held
<1> DEFINE m == {b \in Buttons : known[b] >= 5} \cup {s \in Sticks : known[s] # 0}
<1>1. known \in Vectors /\ m \in SUBSET Dims
  BY DEF Held, Dims
<1>2. CASE stamped
  <2>1. PadSnapshot = [human |-> TRUE, action |-> known, mask |-> m]
    BY <1>2 DEF PadSnapshot
  <2> HIDE DEF m
  <2> QED BY <1>1, <2>1 DEF Snapshots
<1>3. CASE ~stamped
  BY <1>3 DEF PadSnapshot
<1> QED BY <1>2, <1>3

LEMMA DeviceInit == InputInit => DeviceInv
<1> SUFFICES ASSUME InputInit PROVE DeviceInv
  OBVIOUS
<1>1. InputInv
  BY InitInv DEF InputInit
<1>2. ASSUME source = "evdev" PROVE PadTypeOK /\ MirrorInv /\ SnapInv
  <2>1. DevicesInit /\ human = None
    BY <1>2 DEF InputInit, Init
  <2>2. mapper # None => MapperOK(mapper) /\ device \in Numbers
    <3> HAVE mapper # None
    <3>1. PICK input \in {"auto"} \cup {Registry[i].id : i \in DOMAIN Registry},
               path \in Numbers \cup {None} :
            LET picked == Pick(input, path)
            IN IF picked = None THEN device = 1 /\ mapper = None
               ELSE device = picked.device /\ mapper = picked.mapper
      BY <2>1 DEF DevicesInit
    <3>2. Pick(input, path) # None
      BY <3>1
    <3> QED BY <3>1, <3>2, PickOK
  <2>3. mapper # None => /\ DOMAIN controls = DOMAIN Listing[device].moves
                         /\ \A c \in DOMAIN controls : controls[c] \in Int
    BY <2>1, <2>2, DeviceInputAssumption DEF DevicesInit, Positions, DevicesOK
  <2>4. events = <<>> /\ known = Untouched /\ thread = "none" /\ heard = {}
    BY <2>1 DEF DevicesInit
  <2>5. PadTypeOK
    BY <2>2, <2>3, <2>4, EmptyHanded DEF PadTypeOK
  <2> QED BY <2>1, <2>4, <2>5 DEF MirrorInv, SnapInv
<1> QED BY <1>1, <1>2 DEF DeviceInv, PadInv

\* The page's loop is that of HumanInput.
LEMMA WebStep == DeviceInv /\ WebLoop => DeviceInv'
<1> SUFFICES ASSUME DeviceInv, WebLoop PROVE DeviceInv'
  OBVIOUS
<1>1. InputInv'
  BY PageStep, SwitchStep, TickStep, RecorderStep DEF WebLoop, Next, DeviceInv
<1>2. source' # "evdev"
  BY DEF WebLoop
<1> QED BY <1>1, <1>2 DEF DeviceInv, PadInv

\* What an event does is fixed by the mapper and the device.
LEMMA SameMapper ==
  ASSUME UNCHANGED <<device, mapper>>, NEW c
  PROVE  /\ Targets(c)' = Targets(c)
         /\ \A v : Handled(Untouched, [code |-> c, value |-> v])'
                  = Handled(Untouched, [code |-> c, value |-> v])
<1>1. Targets(c)' = Targets(c)
  BY DEF Targets
<1>2. ASSUME NEW v PROVE Handled(Untouched, [code |-> c, value |-> v])'
                         = Handled(Untouched, [code |-> c, value |-> v])
  BY DEF Handled, Key, Stick, Trigger, Hat, Normalized
<1> QED BY <1>1, <1>2

LEMMA ShownOn ==
  ASSUME UNCHANGED <<device, mapper, known>>, DOMAIN controls' = DOMAIN controls, NEW c, NEW v,
         Shows(c, v)
  PROVE  Shows(c, v)'
<1>1. \A e : Targets(e)' = Targets(e)
  BY SameMapper
<1>2. Handled(Untouched, [code |-> c, value |-> v])' = Handled(Untouched, [code |-> c, value |-> v])
  BY SameMapper
<1> QED BY <1>1, <1>2 DEF Shows

LEMMA PadUnchanged ==
  ASSUME PadTypeOK, MirrorInv, UNCHANGED padVars
  PROVE  PadTypeOK' /\ MirrorInv'
<1>1. PadTypeOK'
  BY DEF PadTypeOK, padVars, Events
<1>2. ASSUME NEW c \in heard, MirrorOf(c) PROVE MirrorOf(c)'
  <2>1. \A v : Shows(c, v) => Shows(c, v)'
    BY ShownOn DEF padVars
  <2> QED BY <1>2, <2>1 DEF MirrorOf, padVars, NoneFrom
<1>3. MirrorInv'
  BY <1>2 DEF MirrorInv, padVars
<1> QED BY <1>1, <1>3

\* The loop with a gamepad: its snapshot takes the place of the page's.
LEMMA PadLoopStep == DeviceInv /\ PadLoop => DeviceInv'
<1> SUFFICES ASSUME DeviceInv, PadLoop PROVE DeviceInv'
  OBVIOUS
<1>1. /\ source = "evdev" /\ source' = "evdev" /\ UNCHANGED padVars
      /\ InputInv /\ PadTypeOK /\ MirrorInv /\ SnapInv
  BY DEF PadLoop, DeviceInv, PadInv
<1>2. PadTypeOK' /\ MirrorInv'
  BY <1>1, PadUnchanged
<1>3. CASE ReadPad
  <2>1. /\ human' \in Snapshots \cup {None}
        /\ human' # None => human'.human /\ human'.action \in Held
    BY <1>1, <1>3, PadSnapshotOK DEF ReadPad, PadTypeOK
  <2>2. SnapInv'
    BY <2>1 DEF SnapInv, Held, Vectors
  <2>3. InputInv'
    <3> USE DEF ReadPad, reader, runtime, recorder
    <3>1. TypeOK'
      BY <1>1, <1>3, <2>1 DEF InputInv, TypeOK
    <3>2. Speakers'
      BY <1>1, <1>3, <2>1 DEF InputInv, Speakers
    <3>3. TickInv'
      BY <1>1, <1>3 DEF InputInv, TickInv
    <3>4. LatchInv' /\ OffInv' /\ HumanNeverOverruled'
      BY <1>1, <1>3 DEF InputInv, LatchInv, OffInv, HumanNeverOverruled
    <3> QED BY <3>1, <3>2, <3>3, <3>4 DEF InputInv
  <2> QED BY <1>1, <1>2, <2>2, <2>3 DEF DeviceInv, PadInv
<1>4. CASE ReadAi \/ Post \/ Tape
  <2>1. InputInv'
    BY <1>1, <1>4, TickStep DEF Tick
  <2>2. human' \in {human, None}
    BY <1>4 DEF ReadAi, Post, Tape
  <2>3. SnapInv'
    BY <1>1, <2>2 DEF SnapInv
  <2> QED BY <1>1, <1>2, <2>1, <2>3 DEF DeviceInv, PadInv
<1>5. CASE \E v \in PadAi : Infer(v)
  <2>1. PICK v \in PadAi : Infer(v)
    BY <1>5
  <2>2. v \in AiVectors
    BY DeviceInputAssumption
  <2>3. InputInv'
    BY <1>1, <2>1, <2>2, SwitchStep
  <2>4. SnapInv'
    BY <1>1, <2>1 DEF Infer, tick, SnapInv
  <2> QED BY <1>1, <1>2, <2>3, <2>4 DEF DeviceInv, PadInv
<1> QED BY <1>3, <1>4, <1>5 DEF PadLoop, PadTick

LEMMA OpenStep ==
  ASSUME PadTypeOK, MirrorInv, StartReader \/ Unplug
  PROVE  PadTypeOK' /\ MirrorInv'
<1>1. CASE StartReader
  BY <1>1 DEF StartReader, PadTypeOK, MirrorInv, Events
<1>2. CASE Unplug
  BY <1>2 DEF Unplug, PadTypeOK, MirrorInv, Events
<1> QED BY <1>1, <1>2

\* The reader takes the oldest event off the queue.
LEMMA EventStep ==
  ASSUME PadTypeOK, MirrorInv, ReadEvent
  PROVE  PadTypeOK' /\ MirrorInv'
<1> DEFINE first == events[1]
<1>1. /\ mapper # None /\ MapperOK(mapper) /\ device \in Numbers
      /\ events \in Seq(Events) /\ events # <<>>
      /\ UNCHANGED <<device, mapper, controls, thread, plugged, heard>>
      /\ events' = Tail(events) /\ known' = Handled(known, first)
  BY DEF ReadEvent, PadTypeOK
<1>2. /\ Len(events) \in Nat \ {0} /\ Tail(events) \in Seq(Events)
      /\ Len(Tail(events)) = Len(events) - 1
      /\ \A i \in 1 .. Len(events) - 1 : Tail(events)[i] = events[i + 1]
  BY <1>1, EmptySeq
<1>3. first \in Events /\ first = [code |-> first.code, value |-> first.value]
  <2>1. first \in Events
    BY <1>1, <1>2
  <2> QED BY <2>1 DEF Events
<1>4. Effect(first.code, first.value)
  BY <1>1, <1>3, HandledOK DEF Events
<1> HIDE DEF first
<1>5. /\ known' \in Held
      /\ \A d \in Dims \ Targets(first.code) : known'[d] = known[d]
      /\ \A d \in Targets(first.code) :
           known'[d] = Handled(Untouched, [code |-> first.code, value |-> first.value])[d]
  BY <1>1, <1>3, <1>4 DEF Effect, PadTypeOK
<1>6. PadTypeOK'
  BY <1>1, <1>2, <1>5 DEF PadTypeOK, Events, ReadEvent
<1>7. ASSUME NEW c \in heard, MirrorOf(c), plugged PROVE MirrorOf(c)'
  <2>1. \A i \in Nat \ {0} : NoneFrom(i, c)' => NoneFrom(i + 1, c)
    <3> SUFFICES ASSUME NEW i \in Nat \ {0}, NoneFrom(i, c)' PROVE NoneFrom(i + 1, c)
      OBVIOUS
    <3>1. \A j \in i .. Len(events) - 1 : Tail(events)[j].code # c
      BY <1>1, <1>2 DEF NoneFrom
    <3>2. ASSUME NEW j \in i + 1 .. Len(events) PROVE events[j].code # c
      <4>1. j - 1 \in i .. Len(events) - 1 /\ j - 1 \in 1 .. Len(events) - 1
        BY <1>2
      <4>2. Tail(events)[j - 1] = events[j]
        BY <1>2, <4>1
      <4> QED BY <3>1, <4>1, <4>2
    <3> QED BY <3>2 DEF NoneFrom
  <2>2. \A i \in 1 .. Len(events') :
          events'[i].code = c /\ NoneFrom(i + 1, c)' => events'[i].value = controls'[c]
    <3> SUFFICES ASSUME NEW i \in 1 .. Len(events'), events'[i].code = c, NoneFrom(i + 1, c)'
                 PROVE  events'[i].value = controls'[c]
      OBVIOUS
    <3>1. events'[i] = events[i + 1] /\ i + 1 \in 1 .. Len(events) /\ i + 1 \in Nat \ {0}
      BY <1>1, <1>2
    <3>2. NoneFrom((i + 1) + 1, c)
      BY <2>1, <3>1
    <3> QED BY <1>1, <1>7, <3>1, <3>2 DEF MirrorOf
  <2>3. ASSUME NoneFrom(1, c)', NEW v \in {controls'[c]} PROVE Shows(c, v)'
    <3>1. NoneFrom(2, c) /\ v = controls[c]
      BY <1>1, <2>1, <2>3
    <3>2. \A e : Targets(e)' = Targets(e)
      BY <1>1, SameMapper
    <3>3. Handled(Untouched, [code |-> c, value |-> v])'
            = Handled(Untouched, [code |-> c, value |-> v])
      BY <1>1, SameMapper
    <3>4. CASE first.code = c
      <4>1. 1 \in 1 .. Len(events) /\ events[1].code = c /\ NoneFrom(1 + 1, c)
        BY <1>2, <3>1, <3>4 DEF first
      <4>2. first.value = controls[c]
        BY <1>7, <4>1 DEF MirrorOf, first
      <4> QED BY <1>5, <3>1, <3>2, <3>3, <3>4, <4>2 DEF Shows
    <3>5. CASE first.code # c
      <4>1. NoneFrom(1, c)
        BY <1>2, <3>1, <3>5 DEF NoneFrom, first
      <4>2. Shows(c, v)
        BY <1>7, <3>1, <4>1 DEF MirrorOf
      <4>3. Targets(c) \subseteq Dims
        BY <1>1 DEF Targets, MapperOK, Dims
      <4>4. first.code \in DOMAIN controls \/ Targets(first.code) = {}
        <5>1. CASE first.code = "SYN_DROPPED"
          <6>1. "SYN_DROPPED" \notin KeyCodes \cup AxisCodes
            BY DeviceInputAssumption DEF DevicesOK
          <6>2. "SYN_DROPPED" \notin DOMAIN mapper.buttons \cup DOMAIN mapper.sticks
                                   \cup DOMAIN mapper.triggers \cup DOMAIN mapper.hats
            BY <1>1, <6>1 DEF MapperOK
          <6> QED BY <5>1, <6>2 DEF Targets
        <5> QED BY <1>3, <5>1 DEF Events
      <4>5. ASSUME NEW d \in Targets(c), \A e \in DOMAIN controls \ {c} : d \notin Targets(e)
            PROVE  known'[d] = Handled(Untouched, [code |-> c, value |-> v])[d]
        <5>1. d \in Dims \ Targets(first.code)
          BY <3>5, <4>3, <4>4, <4>5
        <5> QED BY <1>5, <4>2, <4>5, <5>1 DEF Shows
      <4> QED BY <1>1, <3>2, <3>3, <4>5 DEF Shows
    <3> QED BY <3>4, <3>5
  <2> QED BY <2>2, <2>3 DEF MirrorOf
<1>8. MirrorInv'
  BY <1>1, <1>7 DEF MirrorInv
<1> QED BY <1>6, <1>8

\* The player moves a control: the event goes to the end of the queue, or, on
\* an overflow, is all that is left of it.
LEMMA MoveStep ==
  ASSUME PadTypeOK, MirrorInv, NEW c \in DOMAIN controls,
         NEW p \in Listing[device].moves[c], MoveControl(c, p)
  PROVE  PadTypeOK' /\ MirrorInv'
<1> DEFINE e == [code |-> c, value |-> p]
<1>1. /\ plugged /\ controls' = [controls EXCEPT ![c] = p] /\ DOMAIN controls' = DOMAIN controls
      /\ UNCHANGED <<device, mapper, known, thread, plugged>>
  BY DEF MoveControl
<1>2. mapper # None => p \in Int /\ controls'[c] = p
  BY <1>1, DeviceInputAssumption DEF PadTypeOK, DevicesOK
<1>3. mapper # None => \A x \in DOMAIN controls : controls'[x] \in Int
  BY <1>1, <1>2 DEF PadTypeOK
<1>4. ASSUME NEW x \in DOMAIN controls \ {c} PROVE controls'[x] = controls[x]
  BY <1>1
<1>5. CASE thread # "reading"
  <2>1. UNCHANGED <<events, heard>> /\ thread = "none" /\ heard = {}
    BY <1>1, <1>5 DEF MoveControl, PadTypeOK
  <2>2. PadTypeOK'
    BY <1>1, <1>3, <2>1 DEF PadTypeOK, Events
  <2> QED BY <2>1, <2>2 DEF MirrorInv
<1>6. CASE thread = "reading" /\ Len(events) < QueueSize
  <2>1. /\ events' = Append(events, e) /\ heard' = heard \cup {c}
        /\ mapper # None /\ events \in Seq(Events) /\ e \in Events
    BY <1>2, <1>6 DEF MoveControl, PadTypeOK, Events
  <2>2. /\ Append(events, e) \in Seq(Events) /\ Len(Append(events, e)) = Len(events) + 1
        /\ \A i \in 1 .. Len(events) : Append(events, e)[i] = events[i]
        /\ Append(events, e)[Len(events) + 1] = e
        /\ Len(events) \in Nat
    <3> HIDE DEF e
    <3> QED BY <2>1
  <2>3. PadTypeOK'
    BY <1>1, <1>3, <1>6, <2>1, <2>2 DEF PadTypeOK, Events
  <2>4. MirrorOf(c)'
    <3>1. ~NoneFrom(1, c)'
      BY <2>1, <2>2 DEF NoneFrom
    <3>2. ASSUME NEW i \in 1 .. Len(events'), events'[i].code = c, NoneFrom(i + 1, c)'
          PROVE  events'[i].value = controls'[c]
      <4>1. i = Len(events) + 1
        BY <2>1, <2>2, <3>2 DEF NoneFrom
      <4> QED BY <1>2, <2>1, <2>2, <4>1
    <3> QED BY <3>1, <3>2 DEF MirrorOf
  <2>5. ASSUME NEW x \in heard \ {c}, MirrorOf(x) PROVE MirrorOf(x)'
    <3>1. \A i \in Nat : i > 0 => (NoneFrom(i, x)' => NoneFrom(i, x))
      <4> SUFFICES ASSUME NEW i \in Nat, NoneFrom(i, x)', NEW j \in i .. Len(events)
                   PROVE  i > 0 => events[j].code # x
        BY DEF NoneFrom
      <4> HAVE i > 0
      <4>1. j \in i .. Len(events') /\ events'[j] = events[j]
        BY <2>1, <2>2
      <4> QED BY <4>1 DEF NoneFrom
    <3>2. x \in DOMAIN controls /\ controls'[x] = controls[x]
      BY <1>4, <2>5 DEF PadTypeOK
    <3>3. ASSUME NEW i \in 1 .. Len(events'), events'[i].code = x, NoneFrom(i + 1, x)'
          PROVE  events'[i].value = controls'[x]
      <4>1. i \in 1 .. Len(events) /\ events'[i] = events[i]
        BY <2>1, <2>2, <2>5, <3>3
      <4>2. NoneFrom(i + 1, x)
        BY <2>2, <3>1, <3>3, <4>1
      <4> QED BY <2>5, <3>2, <3>3, <4>1, <4>2 DEF MirrorOf
    <3>4. ASSUME NoneFrom(1, x)', NEW v \in {controls'[x]} PROVE Shows(x, v)'
      <4>1. NoneFrom(1, x)
        BY <2>2, <3>1, <3>4
      <4>2. Shows(x, v)
        BY <2>5, <3>2, <3>4, <4>1 DEF MirrorOf
      <4> QED BY <1>1, <4>2, ShownOn
    <3> QED BY <3>3, <3>4 DEF MirrorOf
  <2> QED BY <1>1, <2>1, <2>3, <2>4, <2>5 DEF MirrorInv
<1>7. CASE thread = "reading" /\ ~(Len(events) < QueueSize)
  <2> DEFINE dropped == [code |-> "SYN_DROPPED", value |-> 0]
  <2>1. /\ events' = <<dropped, e>> /\ mapper # None
        /\ heard' = (heard \ {events[i].code : i \in DOMAIN events}) \cup {c}
        /\ dropped \in Events /\ e \in Events
    BY <1>2, <1>7 DEF MoveControl, PadTypeOK, Events
  <2>2. /\ <<dropped, e>> \in Seq(Events) /\ Len(<<dropped, e>>) = 2
        /\ <<dropped, e>>[1] = dropped /\ <<dropped, e>>[2] = e
    <3> HIDE DEF e, dropped
    <3> QED BY <2>1
  <2>3. PadTypeOK'
    <3>1. heard' \subseteq DOMAIN controls'
      BY <1>1, <2>1 DEF PadTypeOK
    <3>2. events' \in Seq(Events')
      BY <1>1, <2>1, <2>2 DEF Events
    <3> QED BY <1>1, <1>3, <1>7, <2>1, <3>1, <3>2 DEF PadTypeOK
  <2>4. c # "SYN_DROPPED"
    BY <2>1, DeviceInputAssumption DEF PadTypeOK, DevicesOK
  <2>5. MirrorOf(c)'
    <3>1. ~NoneFrom(1, c)'
      BY <2>1, <2>2 DEF NoneFrom
    <3>2. ASSUME NEW i \in 1 .. Len(events'), events'[i].code = c
          PROVE  events'[i].value = controls'[c]
      <4>1. i = 1 \/ i = 2
        BY <2>1, <2>2
      <4>2. i # 1
        BY <2>1, <2>2, <2>4, <3>2
      <4> QED BY <1>2, <2>1, <2>2, <4>1, <4>2
    <3> QED BY <3>1, <3>2 DEF MirrorOf
  <2>6. ASSUME NEW x \in heard' \ {c}, x \in heard => MirrorOf(x) PROVE MirrorOf(x)'
    <3>1. x \in heard /\ x \in DOMAIN controls /\ \A i \in DOMAIN events : events[i].code # x
      BY <2>1, <2>6 DEF PadTypeOK
    <3>2. x # "SYN_DROPPED" /\ controls'[x] = controls[x]
      BY <1>4, <2>1, <2>6, <3>1, DeviceInputAssumption DEF PadTypeOK, DevicesOK
    <3>3. Shows(x, controls[x])
      <4>1. DOMAIN events = 1 .. Len(events)
        BY DEF PadTypeOK
      <4>2. NoneFrom(1, x)
        BY <3>1, <4>1 DEF NoneFrom
      <4> QED BY <2>6, <3>1, <4>2 DEF MirrorOf
    <3>4. \A i \in 1 .. Len(events') : events'[i].code # x
      <4> TAKE i \in 1 .. Len(events')
      <4>1. i = 1 \/ i = 2
        BY <2>1, <2>2
      <4> QED BY <2>1, <2>2, <2>6, <3>2, <4>1
    <3>5. Shows(x, controls[x])'
      BY <1>1, <3>2, <3>3, ShownOn
    <3> QED BY <3>4, <3>5 DEF MirrorOf
  <2> QED BY <1>1, <2>1, <2>3, <2>5, <2>6 DEF MirrorInv
<1> QED BY <1>5, <1>6, <1>7

LEMMA PadMovesStep == DeviceInv /\ PadMoves => DeviceInv'
<1> SUFFICES ASSUME DeviceInv, PadMoves PROVE DeviceInv'
  OBVIOUS
<1>1. /\ source = "evdev" /\ source' = "evdev" /\ UNCHANGED vars
      /\ InputInv /\ PadTypeOK /\ MirrorInv /\ SnapInv
  BY DEF PadMoves, DeviceInv, PadInv
<1>2. InputInv'
  BY <1>1 DEF vars, reader, runtime, tick, recorder, history, InputInv, TypeOK, Speakers,
     TickInv, LatchInv, OffInv, HumanNeverOverruled
<1>3. SnapInv'
  BY <1>1 DEF SnapInv, vars, tick
<1>4. PadTypeOK' /\ MirrorInv'
  BY <1>1, OpenStep, EventStep, MoveStep DEF PadMoves
<1> QED BY <1>1, <1>2, <1>3, <1>4 DEF DeviceInv, PadInv

LEMMA DeviceInvariant == InputSpec => []DeviceInv
<1>1. DeviceInv /\ [InputNext]_inputVars => DeviceInv'
  <2> SUFFICES ASSUME DeviceInv, [InputNext]_inputVars PROVE DeviceInv'
    OBVIOUS
  <2>1. CASE UNCHANGED inputVars
    <3>1. UNCHANGED vars /\ UNCHANGED padVars /\ source' = source
      BY <2>1 DEF inputVars
    <3>2. InputInv'
      BY <3>1 DEF vars, reader, runtime, tick, recorder, history, DeviceInv, InputInv, TypeOK,
         Speakers, TickInv, LatchInv, OffInv, HumanNeverOverruled
    <3>3. SnapInv => SnapInv'
      BY <3>1 DEF SnapInv, vars, tick
    <3> QED BY <3>1, <3>2, <3>3, PadUnchanged DEF DeviceInv, PadInv
  <2> QED BY <2>1, WebStep, PadLoopStep, PadMovesStep DEF InputNext
<1> QED BY <1>1, DeviceInit, PTL DEF InputSpec

\* evdev_reader.py: once the events of a gamepad are handled its vector is where
\* every control stands that has moved since the reader began and has lost its
\* newest event to no overflow; and the console gets what the vector holds,
\* through the packet and back, for any mappers, devices and queue size.
THEOREM GamepadArrives == InputSpec => []PadReachesConsole
<1>1. DeviceInv => PadMirrored
  <2> SUFFICES ASSUME DeviceInv, source = "evdev", events = <<>>, plugged, NEW c \in heard
               PROVE  \A d \in Targets(c) :
                        (\A e \in DOMAIN controls \ {c} : d \notin Targets(e)) =>
                          known[d] = Handled(Untouched, [code |-> c, value |-> controls[c]])[d]
    BY DEF PadMirrored
  <2>1. MirrorOf(c) /\ NoneFrom(1, c)
    BY DEF DeviceInv, PadInv, MirrorInv, NoneFrom
  <2>2. Shows(c, controls[c])
    BY <2>1 DEF MirrorOf
  <2> QED BY <2>2 DEF Shows
<1>2. DeviceInv => HeldIsSent
  <2> SUFFICES ASSUME DeviceInv, source = "evdev", at = "tape", sent, human # None,
                      NEW d \in human.mask
               PROVE  PacketToAction(ActionToPacket(posted))[d] = human.action[d]
    BY DEF HeldIsSent
  <2>1. /\ d \in Dims /\ posted[d] = human.action[d] /\ human.action \in Held
        /\ posted \in Vectors
    BY DEF DeviceInv, PadInv, SnapInv, InputInv, TypeOK, HumanNeverOverruled, Snapshots
  <2>2. posted[d] \in Int
    BY <2>1 DEF Vectors
  <2>3. CASE d \in Sticks
    <3>1. PacketToAction(ActionToPacket(posted))[d] = (posted[d] * 10) \div 10
      BY <2>1, <2>3 DEF PacketToAction, ActionToPacket
    <3> QED BY <2>1, <2>2, <3>1
  <2>4. CASE d \notin Sticks
    <3>1. d \in Buttons /\ posted[d] \in {0, 10}
      BY <2>1, <2>4 DEF Dims, Held
    <3>2. PacketToAction(ActionToPacket(posted))[d] = IF posted[d] > 5 THEN 10 ELSE 0
      BY <2>1, <2>4, <3>1 DEF PacketToAction, ActionToPacket
    <3> QED BY <2>1, <3>1, <3>2
  <2> QED BY <2>3, <2>4
<1>3. DeviceInv => PadReachesConsole
  BY <1>1, <1>2 DEF PadReachesConsole
<1> QED BY <1>3, DeviceInvariant, PTL

\* What is proved of the page's loop above holds with a gamepad in its place.
THEOREM EitherSource == InputSpec => [](NoTapLost /\ HumanNeverOverruled /\ AiOffPromptly)
<1>1. DeviceInv => NoTapLost /\ HumanNeverOverruled /\ AiOffPromptly
  BY DEF DeviceInv, InputInv, TypeOK, TickInv, HumanNeverOverruled, NoTapLost, Pressed,
     OffInv, AiOffPromptly
<1> QED BY <1>1, DeviceInvariant, PTL
=============================================================================
