------------------------------- MODULE Devices -------------------------------
(***************************************************************************)
(* A gamepad behind evdev: how a mapper is loaded and chosen for a device, *)
(* the kernel's event queue, and the thread of EvdevReader that turns the  *)
(* events into an action vector. Positions are integers, actions and       *)
(* thresholds tenths.                                                      *)
(***************************************************************************)
EXTENDS Integers, Sequences, FiniteSets

CONSTANTS
  Buttons, Sticks,  \* BUTTON_RANGE and STICK_RANGE
  None,
  Files,            \* the bundled mapper files in the order of their names
  Listing,          \* the devices, sorted by path: [name, opens, info, moves]
  QueueSize         \* events the kernel holds for a reader

Numbers == 1..Len(Listing)

VARIABLES
  device,    \* what _pick_device_and_mapper returned: a number in Listing
  mapper,    \* and its mapper; None: no device, the runner was not built
  controls,  \* positions of the controls
  events,    \* queued for the reader
  known,     \* _action
  stamped,   \* _latest_ts was set
  thread,    \* of the reader: "none", "reading", "ended"
  plugged,   \* the device is there
  heard      \* history: controls whose newest event was queued, and not lost since

-----------------------------------------------------------------------------
(* Mappers. A raw file: [stem, id, parent, matches, buttons, axes]; parent   *)
(* is the raw file it extends (one level here), and None what is left out.  *)

Update(old, new) ==
  [k \in DOMAIN old \cup DOMAIN new |-> IF k \in DOMAIN new THEN new[k] ELSE old[k]]

\* _merge(): sub-keys of the child win; an id or a device_match it leaves out
\* is the parent's.
Merge(parent, child) ==
  [child EXCEPT !.buttons = Update(parent.buttons, child.buttons),
                !.axes = Update(parent.axes, child.axes),
                !.id = IF child.id = None THEN parent.id ELSE child.id,
                !.matches = IF child.matches = None THEN parent.matches ELSE child.matches]

\* _load_raw(): `extends` is resolved first.
LoadRaw(file) == IF file.parent = None THEN file ELSE Merge(file.parent, file)

\* load_mapper(): the axes are told apart by kind.
LoadMapper(file) ==
  LET raw == LoadRaw(file)
      OfKind(kind) == {c \in DOMAIN raw.axes : raw.axes[c].kind = kind}
  IN [id |-> IF raw.id = None THEN raw.stem ELSE raw.id,
      matches |-> IF raw.matches = None THEN {} ELSE raw.matches,
      buttons |-> raw.buttons,
      sticks |-> [c \in OfKind("stick") |-> raw.axes[c]],
      triggers |-> [c \in OfKind("trigger") |-> raw.axes[c]],
      hats |-> [c \in OfKind("hat_pair") |-> raw.axes[c]]]

\* register(): a later mapper of the same id takes the place of the earlier.
Registry ==
  LET loaded == [i \in DOMAIN Files |-> LoadMapper(Files[i])]
      Same(i) == {j \in DOMAIN Files : loaded[j].id = loaded[i].id}
      places == {i \in DOMAIN Files : \A j \in Same(i) : i <= j}
  IN [i \in places |-> loaded[CHOOSE j \in Same(i) : \A k \in Same(i) : k <= j]]

\* What load_mapper() accepts: a button, an axis with a target of its kind.
AxisOK(a) ==
  CASE a.kind = "stick" -> a.target \in Sticks
    [] a.kind = "trigger" -> a.target \in Buttons
    [] a.kind = "hat_pair" -> a.targets[1] \in Buttons /\ a.targets[2] \in Buttons
    [] OTHER -> FALSE
RawOK(f) ==
  /\ DOMAIN f = {"stem", "id", "parent", "matches", "buttons", "axes"}
  /\ \A c \in DOMAIN f.buttons : f.buttons[c] \in Buttons
  /\ \A c \in DOMAIN f.axes : AxisOK(f.axes[c])

\* The files and those they extend, and the codes they name.
Raws == {Files[i] : i \in DOMAIN Files}
        \cup ({Files[i].parent : i \in DOMAIN Files} \ {None})
KeyCodes == UNION {DOMAIN f.buttons : f \in Raws}
AxisCodes == UNION {DOMAIN f.axes : f \in Raws}

\* evdev's names of keys, axes and SYN events differ, and an axis has a range.
DevicesOK ==
  /\ Files \in Seq(Raws) /\ \A f \in Raws : RawOK(f)
  /\ KeyCodes \cap AxisCodes = {} /\ "SYN_DROPPED" \notin KeyCodes \cup AxisCodes
  /\ \A n \in Numbers :
       LET infos == Listing[n].info
           moves == Listing[n].moves
       IN /\ \A c \in DOMAIN infos :
               infos[c][1] \in Int /\ infos[c][2] \in Int /\ infos[c][1] <= infos[c][2]
          /\ "SYN_DROPPED" \notin DOMAIN moves
          /\ \A c \in DOMAIN moves : moves[c] \subseteq Int

Least(S) == CHOOSE x \in S : \A y \in S : x <= y

\* detect_mapper_for_name(): the first registered one that matches.
Detect(name) ==
  LET claims == {i \in DOMAIN Registry : name \in Registry[i].matches}
  IN IF claims = {} THEN None ELSE Registry[Least(claims)]

\* get(): by id.
Get(id) ==
  LET found == {i \in DOMAIN Registry : Registry[i].id = id}
  IN IF found = {} THEN None ELSE Registry[Least(found)]

\* _pick_device_and_mapper(): [device, mapper] or None for a RuntimeError.
Pick(input, path) ==
  LET claimed == {n \in Numbers : Listing[n].opens /\ Detect(Listing[n].name) # None}
      Found(n, m) == IF m = None THEN None ELSE [device |-> n, mapper |-> m]
  IN IF input = "auto"
     THEN IF path # None
          THEN IF Listing[path].opens THEN Found(path, Detect(Listing[path].name)) ELSE None
          ELSE IF claimed = {} THEN None
               ELSE Found(Least(claimed), Detect(Listing[Least(claimed)].name))
     ELSE IF path = None THEN None ELSE Found(path, Get(input))

-----------------------------------------------------------------------------
(* The reader.                                                             *)

Clamp(n) == IF n > 10 THEN 10 ELSE IF n < -10 THEN -10 ELSE n
Magnitude(n) == IF n < 0 THEN -n ELSE n

\* start(): middle and half of an axis, from its absinfo; -1 to 1 where the
\* device has none, and a half of 1 where the range is a point.
Normalized(code, value) ==
  LET infos == Listing[device].info
      info == IF code \in DOMAIN infos THEN infos[code] ELSE <<-1, 1>>
      range == IF info[1] = info[2] THEN 2 ELSE info[2] - info[1]
  IN Clamp(((2 * value - (info[1] + info[2])) * 10) \div range)

Key(h, code, value) == [h EXCEPT ![mapper.buttons[code]] = IF value # 0 THEN 10 ELSE 0]

Stick(h, code, value) ==
  LET m == mapper.sticks[code]
      v == IF m.invert THEN -Normalized(code, value) ELSE Normalized(code, value)
  IN [h EXCEPT ![m.target] = IF Magnitude(v) < m.deadzone THEN 0 ELSE v]

\* A trigger rests at its minimum.
Trigger(h, code, value) ==
  LET m == mapper.triggers[code]
      n == Normalized(code, value)
      pressure == (IF m.invert THEN 10 - n ELSE 10 + n) \div 2
  IN [h EXCEPT ![m.target] = IF pressure >= m.threshold THEN 10 ELSE 0]

\* Fault: the opposite direction keeps its state.
HatOneSided(h, code, value) ==
  LET m == mapper.hats[code]
  IN [h EXCEPT ![IF value < 0 THEN m.targets[1] ELSE m.targets[2]] =
                 IF value = 0 THEN 0 ELSE 10]
Hat(h, code, value) ==
  LET m == mapper.hats[code]
  IN [h EXCEPT ![m.targets[1]] = IF value < 0 THEN 10 ELSE 0,
               ![m.targets[2]] = IF value > 0 THEN 10 ELSE 0]

\* _handle(): the vector after an event; unmapped codes and SYN events (a
\* dropped queue is one) do not change it.
Handled(h, event) ==
  LET c == event.code
      v == event.value
  IN CASE c \in DOMAIN mapper.buttons -> Key(h, c, v)
       [] c \in DOMAIN mapper.sticks -> Stick(h, c, v)
       [] c \in DOMAIN mapper.triggers -> Trigger(h, c, v)
       [] c \in DOMAIN mapper.hats -> Hat(h, c, v)
       [] OTHER -> h

Mapped(code) == code \in DOMAIN mapper.buttons \cup DOMAIN mapper.sticks
                          \cup DOMAIN mapper.triggers \cup DOMAIN mapper.hats

\* Every way the controls of a device may stand.
Positions(moves) ==
  {at \in [DOMAIN moves -> UNION {moves[c] : c \in DOMAIN moves}] :
     \A c \in DOMAIN moves : at[c] \in moves[c]}

Untouched == [d \in Buttons \cup Sticks |-> 0]

\* start(): the queue begins here; what is held already is not asked for.
StartReader ==
  /\ thread = "none" /\ mapper # None /\ plugged /\ Listing[device].opens
  /\ thread' = "reading" /\ events' = <<>> /\ heard' = {}
  /\ UNCHANGED <<device, mapper, controls, known, stamped, plugged>>

\* The player moves a control: an event, or an overflow, which empties the
\* queue and says so with SYN_DROPPED before the newest event.  The reader does
\* not ask the device where the controls stand after that.
MoveControl(code, value) ==
  /\ plugged /\ controls[code] # value
  /\ controls' = [controls EXCEPT ![code] = value]
  /\ IF thread # "reading" THEN UNCHANGED <<events, heard>>
     ELSE IF Len(events) < QueueSize
     THEN /\ events' = Append(events, [code |-> code, value |-> value])
          /\ heard' = heard \cup {code}
     ELSE /\ events' = <<[code |-> "SYN_DROPPED", value |-> 0],
                         [code |-> code, value |-> value]>>
          /\ heard' = (heard \ {events[i].code : i \in DOMAIN events}) \cup {code}
  /\ UNCHANGED <<device, mapper, known, stamped, thread, plugged>>

\* _loop() and _handle() of one event.
ReadEvent ==
  /\ thread = "reading" /\ events # <<>>
  /\ events' = Tail(events)
  /\ known' = Handled(known, Head(events))
  /\ stamped' = (stamped \/ Mapped(Head(events).code))
  /\ UNCHANGED <<device, mapper, controls, thread, plugged, heard>>

\* The device goes away: read_loop raises OSError and the thread ends, as
\* after stop(). The vector stays as it is.
Unplug ==
  /\ plugged /\ plugged' = FALSE
  /\ thread' = IF thread = "reading" THEN "ended" ELSE thread
  /\ events' = <<>>
  /\ UNCHANGED <<device, mapper, controls, known, stamped, heard>>

\* latest(): the mask holds what is pressed and what is off centre.
PadSnapshot ==
  IF ~stamped THEN None
  ELSE [human |-> TRUE, action |-> known,
        mask |-> {b \in Buttons : known[b] >= 5} \cup {s \in Sticks : known[s] # 0}]

-----------------------------------------------------------------------------

DevicesInit ==
  /\ \E input \in {"auto"} \cup {Registry[i].id : i \in DOMAIN Registry},
       path \in Numbers \cup {None} :
       LET picked == Pick(input, path)
       IN IF picked = None THEN device = 1 /\ mapper = None
          ELSE device = picked.device /\ mapper = picked.mapper
  /\ controls \in Positions(Listing[device].moves)
  /\ events = <<>> /\ known = Untouched /\ stamped = FALSE
  /\ thread = "none" /\ plugged = TRUE /\ heard = {}

Targets(c) ==
  CASE c \in DOMAIN mapper.buttons -> {mapper.buttons[c]}
    [] c \in DOMAIN mapper.sticks -> {mapper.sticks[c].target}
    [] c \in DOMAIN mapper.triggers -> {mapper.triggers[c].target}
    [] c \in DOMAIN mapper.hats ->
         {mapper.hats[c].targets[1], mapper.hats[c].targets[2]}
    [] OTHER -> {}
=============================================================================
