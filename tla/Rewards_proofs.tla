--------------------------- MODULE Rewards_proofs ---------------------------
(***************************************************************************)
(* Proofs about the reward of nxrl's PPO as a component of Training, for   *)
(* any components, thresholds, scenes and rollouts. RewardsInv says of     *)
(* each component what it has paid, frame by frame of this rollout, and    *)
(* ties the counters and latches it keeps to the frames it has seen.       *)
(***************************************************************************)
EXTENDS Training, SequenceTheorems, FiniteSetTheorems, WellFoundedInduction, TLAPS

\* The first one there is.
LEMMA LeastExists ==
  ASSUME NEW S, S \subseteq Nat, S # {}
  PROVE  \E j \in S : \A l \in S : j <= l
<1> DEFINE R == StrictSubsetOrdering(Nat)
           T == {0 .. l : l \in S}
<1>1. \A l \in S : 0 .. l \in FiniteSubsetsOf(Nat)
  <2> TAKE l \in S
  <2>1. l \in Int /\ 0 \in Int /\ 0 .. l \in SUBSET Nat
    OBVIOUS
  <2>2. IsFiniteSet(0 .. l)
    BY <2>1, FS_Interval
  <2> QED BY <2>1, <2>2 DEF FiniteSubsetsOf
<1>2. T \subseteq FiniteSubsetsOf(Nat) /\ T # {}
  BY <1>1
<1>3. PICK x \in T : \A y \in T : ~ (<<y, x>> \in R)
  <2> HIDE DEF T, R
  <2>1. IsWellFoundedOn(R, FiniteSubsetsOf(Nat))
    BY FS_StrictSubsetOrderingWellFounded DEF R
  <2> QED BY <1>2, <2>1, WFMin
<1>4. PICK j \in S : x = 0 .. j
  OBVIOUS
<1>5. ASSUME NEW l \in S PROVE j <= l
  <2>1. j \in Nat /\ l \in Nat /\ <<0 .. l, 0 .. j>> \notin R
    BY <1>3, <1>4
  <2>2. CASE l < j
    <3>1. 0 .. l \subseteq 0 .. j /\ j \in 0 .. j /\ j \notin 0 .. l
      BY <2>1, <2>2
    <3>2. 0 .. l # 0 .. j /\ 0 .. l \in SUBSET Nat /\ 0 .. j \in SUBSET Nat
      BY <2>1, <3>1
    <3> QED BY <2>1, <3>1, <3>2 DEF StrictSubsetOrdering
  <2> QED BY <2>1, <2>2
<1> QED BY <1>5

\* A row exists and is unique: it goes back to the last frame that is not in S.
LEMMA RowIs ==
  ASSUME NEW S, 0 \notin S, NEW n \in Nat
  PROVE  /\ Row(S, n) \in 0 .. n
         /\ n - Row(S, n) + 1 .. n \subseteq S
         /\ n - Row(S, n) \notin S
<1> DEFINE T == {r \in Nat : r <= n /\ n - r \notin S}
<1>1. n \in T /\ T \subseteq Nat
  OBVIOUS
<1>2. PICK m \in T : \A r \in T : m <= r
  BY <1>1, LeastExists
<1>3. m \in 0 .. n /\ n - m \notin S
  BY <1>2
<1>4. ASSUME NEW i \in n - m + 1 .. n PROVE i \in S
  <2>1. n - i \in Nat /\ n - i <= n /\ n - i < m /\ n - (n - i) = i
    BY <1>3
  <2>2. n - i \in T => m <= n - i
    BY <1>2
  <2>3. n - i \notin T
    BY <1>3, <2>1, <2>2
  <2>4. n - (n - i) \in S
    BY <2>1, <2>3
  <2> QED
    BY <2>1, <2>4
<1>5. \E r \in 0 .. n : n - r + 1 .. n \subseteq S /\ n - r \notin S
  BY <1>3, <1>4
<1> QED
  BY <1>5 DEF Row

LEMMA RowIsOnly ==
  ASSUME NEW S, 0 \notin S, NEW n \in Nat, NEW r \in 0 .. n,
         n - r + 1 .. n \subseteq S, n - r \notin S
  PROVE  Row(S, n) = r
<1> DEFINE m == Row(S, n)
<1>1. /\ m \in 0 .. n
      /\ n - m + 1 .. n \subseteq S
      /\ n - m \notin S
  BY RowIs
<1> HIDE DEF m
<1>2. ~(m < r)
  <2>1. SUFFICES ASSUME m < r PROVE FALSE
    OBVIOUS
  <2>2. n - m \in n - r + 1 .. n
    BY <1>1, <2>1
  <2> QED
    BY <1>1, <2>2
<1>3. ~(r < m)
  <2>1. SUFFICES ASSUME r < m PROVE FALSE
    OBVIOUS
  <2>2. n - r \in n - m + 1 .. n
    BY <1>1, <2>1
  <2> QED
    BY <1>1, <2>2
<1>4. m = r
  BY <1>1, <1>2, <1>3
<1> QED
  BY <1>4 DEF m

\* A row counts what Count counts, frame by frame.
LEMMA RowCounts ==
  ASSUME NEW S, NEW T, 0 \notin S, 0 \notin T, NEW n \in Nat,
         \A i \in 1 .. n : i \in S <=> i \in T
  PROVE  Row(T, n + 1) = Count(n + 1 \in T, Row(S, n))
<1> DEFINE m == Row(S, n)
<1>1. /\ m \in 0 .. n
      /\ n - m + 1 .. n \subseteq S
      /\ n - m \notin S
  BY RowIs
<1> HIDE DEF m
<1>2. CASE n + 1 \in T
  <2>1. m + 1 \in 0 .. n + 1 /\ n + 1 - (m + 1) = n - m
    BY <1>1
  <2>2. n - m \notin T
    <3>1. n - m = 0 \/ n - m \in 1 .. n
      BY <1>1
    <3> QED
      BY <1>1, <3>1
  <2>3. ASSUME NEW i \in n + 1 - (m + 1) + 1 .. n + 1 PROVE i \in T
    <3>1. i = n + 1 \/ (i \in n - m + 1 .. n /\ i \in 1 .. n)
      BY <1>1, <2>1
    <3> QED
      BY <1>1, <1>2, <3>1
  <2>4. Row(T, n + 1) = m + 1
    <3>1. n + 1 \in Nat
      OBVIOUS
    <3>2. n + 1 - (m + 1) + 1 .. n + 1 \subseteq T
      BY <2>3
    <3>3. n + 1 - (m + 1) \notin T
      BY <2>1, <2>2
    <3> DEFINE q == n + 1
               r == m + 1
    <3>4. q \in Nat /\ r \in 0 .. q /\ q - r + 1 .. q \subseteq T /\ q - r \notin T
      BY <2>1, <3>1, <3>2, <3>3
    <3> HIDE DEF q, r
    <3>5. Row(T, q) = r
      BY <3>4, RowIsOnly
    <3> QED
      BY <3>5 DEF q, r
  <2> QED
    BY <1>2, <2>4 DEF Count, m
<1>3. CASE n + 1 \notin T
  <2>1. n + 1 \in Nat /\ 0 \in 0 .. n + 1 /\ n + 1 - 0 = n + 1
    OBVIOUS
  <2>2. n + 1 - 0 + 1 .. n + 1 \subseteq T
    OBVIOUS
  <2>3. Row(T, n + 1) = 0
    BY <1>3, <2>1, <2>2, RowIsOnly
  <2> QED
    BY <1>3, <2>3 DEF Count
<1> QED
  BY <1>2, <1>3

LEMMA RowStays ==
  ASSUME NEW S, NEW T, 0 \notin S, 0 \notin T, NEW n \in Nat,
         \A i \in 1 .. n : i \in S <=> i \in T
  PROVE  Row(T, n) = Row(S, n)
<1> DEFINE m == Row(S, n)
<1>1. /\ m \in 0 .. n
      /\ n - m + 1 .. n \subseteq S
      /\ n - m \notin S
  BY RowIs
<1> HIDE DEF m
<1>2. n - m \notin T
  <2>1. n - m = 0 \/ n - m \in 1 .. n
    BY <1>1
  <2> QED
    BY <1>1, <2>1
<1>3. ASSUME NEW i \in n - m + 1 .. n PROVE i \in T
  <2>1. i \in 1 .. n
    BY <1>1
  <2> QED
    BY <1>1, <2>1
<1>4. Row(T, n) = m
  BY <1>1, <1>2, <1>3, RowIsOnly
<1> QED
  BY <1>4 DEF m

LEMMA RowEmpty ==
  ASSUME NEW S, 0 \notin S
  PROVE  Row(S, 0) = 0
BY RowIs

\* A row lies before its last frame, and as many frames back as it counts.
LEMMA RowAhead ==
  ASSUME NEW S, 0 \notin S, NEW n \in Nat
  PROVE  /\ Row(S, n) \in Nat
         /\ Row(S, n) > 0 <=> n \in S
<1>1. /\ Row(S, n) \in 0 .. n
      /\ n - Row(S, n) + 1 .. n \subseteq S
      /\ n - Row(S, n) \notin S
  BY RowIs
<1>2. Row(S, n) > 0 => n \in n - Row(S, n) + 1 .. n
  BY <1>1
<1>3. Row(S, n) = 0 => n - Row(S, n) = n
  BY <1>1
<1> QED
  BY <1>1, <1>2, <1>3

\* A bounded history holds the last entries, the oldest first.
LEMMA KeepIs ==
  ASSUME NEW S, NEW h \in Seq(S), NEW x \in S, NEW n \in Nat, Len(h) <= n
  PROVE  /\ Keep(h, x, n) \in Seq(S)
         /\ Len(Keep(h, x, n)) = IF Len(h) < n THEN Len(h) + 1 ELSE n
         /\ Len(h) < n => /\ \A i \in 1 .. Len(h) : Keep(h, x, n)[i] = h[i]
                          /\ Keep(h, x, n)[Len(h) + 1] = x
         /\ Len(h) = n => /\ \A i \in 1 .. n - 1 : Keep(h, x, n)[i] = h[i + 1]
                          /\ n > 0 => Keep(h, x, n)[n] = x
<1> DEFINE g == Append(h, x)
<1>1. /\ g \in Seq(S) /\ Len(g) = Len(h) + 1 /\ Len(h) \in Nat
      /\ \A i \in 1 .. Len(h) : g[i] = h[i]
      /\ g[Len(h) + 1] = x
  OBVIOUS
<1>2. CASE Len(h) < n
  <2>1. Keep(h, x, n) = g
    BY <1>1, <1>2 DEF Keep
  <2> QED
    BY <1>1, <1>2, <2>1
<1>3. CASE Len(h) = n
  <2>1. Keep(h, x, n) = Tail(g)
    BY <1>1, <1>3 DEF Keep
  <2> HIDE DEF g
  <2>2. g # <<>>
    BY <1>1
  <2>3. /\ Tail(g) \in Seq(S) /\ Len(Tail(g)) = Len(g) - 1
        /\ \A i \in 1 .. Len(Tail(g)) : Tail(g)[i] = g[i + 1]
    BY <1>1, <2>2, HeadTailProperties
  <2>4. Len(Tail(g)) = n
    BY <1>1, <1>3, <2>3
  <2>5. ASSUME NEW i \in 1 .. n - 1 PROVE Tail(g)[i] = h[i + 1]
    <3>1. i \in 1 .. Len(Tail(g)) /\ i + 1 \in 1 .. Len(h)
      BY <1>1, <1>3, <2>4
    <3> QED
      BY <1>1, <2>3, <3>1
  <2>6. ASSUME n > 0 PROVE Tail(g)[n] = x
    <3>1. n \in 1 .. Len(Tail(g)) /\ n + 1 = Len(h) + 1
      BY <1>1, <1>3, <2>4, <2>6
    <3> QED
      BY <1>1, <2>3, <3>1
  <2> QED
    BY <1>1, <1>3, <2>1, <2>3, <2>4, <2>5, <2>6
<1> QED
  BY <1>1, <1>2, <1>3

-----------------------------------------------------------------------------
(* What a component of the reward touches                                  *)

Fields ==
  {"streak", "start", "forward", "stuckForward", "turn", "latents", "stagnant",
   "pending", "pendingAge", "prevLocked", "uniqueCount", "lastLockBegin", "unlocked",
   "lockBegin", "pressed", "escapePaid", "nearStart", "startFrames", "slideLatents",
   "slideStreak",
   "unstuckLatents", "unstuckStreak", "beenStuck", "penaltyStreak", "attacks", "paid"}

Shaped(s) == s = [c \in Fields |-> s[c]]

\* t is s but for the fields in own.
Alters(s, t, own) == Shaped(t) /\ \A c \in Fields \ own : t[c] = s[c]

\* t pays what s pays, but for the components in own.
PaysAlike(s, t, own) == \A c : c \notin own => (c \in t.paid <=> c \in s.paid)

LEMMA ProgressAlters ==
  ASSUME NEW s, Shaped(s), NEW f
  PROVE  /\ Alters(s, Progress(s, f), {"forward", "paid"})
         /\ PaysAlike(s, Progress(s, f), {"progress"})
BY DEF Shaped, Alters, PaysAlike, Progress, Pay, Fields

LEMMA StuckForwardAlters ==
  ASSUME NEW s, Shaped(s), NEW f
  PROVE  /\ Alters(s, StuckForward(s, f), {"stuckForward", "turn", "paid"})
         /\ PaysAlike(s, StuckForward(s, f), {"stuck_turn"})
BY DEF Shaped, Alters, PaysAlike, StuckForward, Pay, Fields

LEMMA StuckStagnationIs ==
  ASSUME NEW s, Shaped(s), NEW f
  PROVE  LET seeing == s.streak > 0
             latents == Keep(s.latents, f.place, Cfg.window + 1)
             far == ~seeing /\ Len(latents) > Cfg.window
                      /\ f.place # latents[Len(latents) - Cfg.window]
             still == Count(far, s.stagnant)
             held == s.pending /\ ~seeing
             latch == held \/ still >= Cfg.stuckFrames
             age == (IF held THEN s.pendingAge ELSE 0) + 1
             expired == latch /\ age > Cfg.sweepTimeout
             armed == latch /\ ~expired
             before == IF expired THEN 0 ELSE s.turn
             turned == IF f.turning THEN before + (IF armed THEN 1 ELSE 0) ELSE 0
             done == armed /\ turned >= Cfg.turnFrames
             u == StuckStagnation(s, f)
         IN  /\ Alters(s, u, {"latents", "stagnant", "pending", "pendingAge", "turn", "paid"})
             /\ PaysAlike(s, u, {"stuck_turn"})
             /\ u.latents = latents
             /\ u.stagnant = IF expired \/ done THEN 0 ELSE still
             /\ u.pending = (armed /\ ~done)
             /\ u.pendingAge = IF armed /\ ~done THEN age ELSE 0
             /\ u.turn = IF done THEN 0 ELSE turned
             /\ "stuck_turn" \in u.paid <=> done \/ "stuck_turn" \in s.paid
<1> DEFINE seeing == s.streak > 0
           latents == Keep(s.latents, f.place, Cfg.window + 1)
           far == ~seeing /\ Len(latents) > Cfg.window
                    /\ f.place # latents[Len(latents) - Cfg.window]
           still == Count(far, s.stagnant)
           held == s.pending /\ ~seeing
           latch == held \/ still >= Cfg.stuckFrames
           age == (IF held THEN s.pendingAge ELSE 0) + 1
           expired == latch /\ age > Cfg.sweepTimeout
           armed == latch /\ ~expired
           before == IF expired THEN 0 ELSE s.turn
           turned == IF f.turning THEN before + (IF armed THEN 1 ELSE 0) ELSE 0
           done == armed /\ turned >= Cfg.turnFrames
           u == StuckStagnation(s, f)
           b == IF expired \/ done THEN 0 ELSE still
           c == armed /\ ~done
           g == IF armed /\ ~done THEN age ELSE 0
           h == IF done THEN 0 ELSE turned
           t == [s EXCEPT !.latents = latents, !.stagnant = b, !.pending = c,
                          !.pendingAge = g, !.turn = h]
<1>1. u = IF done THEN Pay(t, "stuck_turn") ELSE t
  BY DEF StuckStagnation
<1> SUFFICES /\ Alters(s, u, {"latents", "stagnant", "pending", "pendingAge", "turn", "paid"})
             /\ PaysAlike(s, u, {"stuck_turn"})
             /\ u.latents = latents /\ u.stagnant = b /\ u.pending = c
             /\ u.pendingAge = g /\ u.turn = h
             /\ "stuck_turn" \in u.paid <=> done \/ "stuck_turn" \in s.paid
  OBVIOUS
<1> HIDE DEF latents, b, c, g, h, done, u
<1>2. /\ Shaped(t)
      /\ \A x \in Fields \ {"latents", "stagnant", "pending", "pendingAge", "turn"} :
           t[x] = s[x]
      /\ t.latents = latents /\ t.stagnant = b /\ t.pending = c
      /\ t.pendingAge = g /\ t.turn = h
  BY DEF Shaped, Fields
<1> HIDE DEF t
<1>3. t.paid = s.paid
  BY <1>2 DEF Fields
<1>4. /\ Alters(t, u, {"paid"}) /\ PaysAlike(t, u, {"stuck_turn"})
      /\ "stuck_turn" \in u.paid <=> done \/ "stuck_turn" \in t.paid
  <2>1. CASE done
    <3>1. u = [t EXCEPT !.paid = @ \cup {"stuck_turn"}]
      BY <1>1, <2>1 DEF Pay
    <3>2. /\ Shaped(u) /\ \A x \in Fields \ {"paid"} : u[x] = t[x]
          /\ u.paid = t.paid \cup {"stuck_turn"}
      BY <1>2, <3>1 DEF Shaped, Fields
    <3> QED
      BY <2>1, <3>2 DEF Alters, PaysAlike
  <2>2. CASE ~done
    BY <1>1, <1>2, <2>2 DEF Alters, PaysAlike
  <2> QED
    BY <2>1, <2>2
<1> QED
  BY <1>2, <1>3, <1>4 DEF Alters, PaysAlike, Fields

LEMMA LockedAttackAlters ==
  ASSUME NEW s, Shaped(s), NEW f
  PROVE  /\ Alters(s, LockedAttack(s, f), {"paid"})
         /\ PaysAlike(s, LockedAttack(s, f), {"locked_attack"})
BY DEF Shaped, Alters, PaysAlike, LockedAttack, Pay, Fields

LEMMA TargetUIAlters ==
  ASSUME NEW s, Shaped(s), NEW f
  PROVE  /\ Alters(s, TargetUI(s, f), {"streak", "paid"})
         /\ PaysAlike(s, TargetUI(s, f), {"target_ui"})
BY DEF Shaped, Alters, PaysAlike, TargetUI, Pay, Fields

LEMMA EscapeAlters ==
  ASSUME NEW s, Shaped(s), NEW f, NEW n
  PROVE  /\ Alters(s, Escape(s, f, n), {"escapePaid", "nearStart", "startFrames", "paid"})
         /\ PaysAlike(s, Escape(s, f, n), {"escape", "escape_sustain"})
<1> DEFINE near == f.place = s.start
           early == n < Cfg.initialWindow
           a == s.nearStart + (IF early /\ near THEN 1 ELSE 0)
           b == s.startFrames + (IF early THEN 1 ELSE 0)
           u == [s EXCEPT !.nearStart = @ + (IF early /\ near THEN 1 ELSE 0),
                          !.startFrames = @ + (IF early THEN 1 ELSE 0)]
           v == [u EXCEPT !.escapePaid = TRUE]
<1>1. Escape(s, f, n) \in {u, Pay(u, "escape_sustain"), Pay(v, "escape")}
  BY DEF Escape
<1>2. u = [s EXCEPT !.nearStart = a, !.startFrames = b]
  OBVIOUS
<1> HIDE DEF a, b, u
<1>3. Shaped(u) /\ \A c \in Fields \ {"nearStart", "startFrames"} : u[c] = s[c]
  BY <1>2 DEF Shaped, Fields
<1>4. Shaped(v) /\ \A c \in Fields \ {"escapePaid"} : v[c] = u[c]
  BY <1>3 DEF Shaped, Fields
<1> HIDE DEF v
<1>5. u.paid = s.paid /\ v.paid = s.paid
  BY <1>3, <1>4 DEF Fields
<1>6. ASSUME NEW w, Shaped(w), NEW c
      PROVE  /\ Shaped(Pay(w, c)) /\ \A x \in Fields \ {"paid"} : Pay(w, c)[x] = w[x]
             /\ Pay(w, c).paid = w.paid \cup {c}
  BY <1>6 DEF Pay, Shaped, Fields
<1>7. /\ Alters(s, u, {"escapePaid", "nearStart", "startFrames", "paid"})
      /\ PaysAlike(s, u, {"escape", "escape_sustain"})
  BY <1>3, <1>5 DEF Alters, PaysAlike
<1>8. /\ Alters(s, Pay(u, "escape_sustain"), {"escapePaid", "nearStart", "startFrames", "paid"})
      /\ PaysAlike(s, Pay(u, "escape_sustain"), {"escape", "escape_sustain"})
  BY <1>3, <1>5, <1>6 DEF Alters, PaysAlike
<1>9. /\ Alters(s, Pay(v, "escape"), {"escapePaid", "nearStart", "startFrames", "paid"})
      /\ PaysAlike(s, Pay(v, "escape"), {"escape", "escape_sustain"})
  BY <1>3, <1>4, <1>5, <1>6 DEF Alters, PaysAlike
<1> QED
  BY <1>1, <1>7, <1>8, <1>9

LEMMA SlidingAlters ==
  ASSUME NEW s, Shaped(s), NEW f, NEW n
  PROVE  /\ Alters(s, SlidingStagnation(s, f, n), {"slideLatents", "slideStreak", "paid"})
         /\ PaysAlike(s, SlidingStagnation(s, f, n), {"slide_stag"})
BY DEF Shaped, Alters, PaysAlike, SlidingStagnation, Pay, Fields

LEMMA UnstuckAlters ==
  ASSUME NEW s, Shaped(s), NEW f, NEW n
  PROVE  /\ Alters(s, Unstuck(s, f, n),
                   {"unstuckLatents", "unstuckStreak", "beenStuck", "paid"})
         /\ PaysAlike(s, Unstuck(s, f, n), {"unstuck"})
BY DEF Shaped, Alters, PaysAlike, Unstuck, Pay, Fields

UniqueFields ==
  {"prevLocked", "uniqueCount", "lastLockBegin", "unlocked", "lockBegin", "pressed", "paid"}

LEMMA UniqueAlters ==
  ASSUME NEW s, Shaped(s), NEW f, NEW late
  PROVE  /\ Alters(s, UniqueAcquisition(s, f, late), UniqueFields)
         /\ PaysAlike(s, UniqueAcquisition(s, f, late), {"unique_acq"})
<1> DEFINE locked == s.streak >= Cfg.minHits
           t == IF late THEN UniqueOnRelease(s, f, locked) ELSE UniqueOnBegin(s, f, locked)
           u == [t EXCEPT !.unlocked = Count(~locked, @), !.prevLocked = locked]
<1>1. u = UniqueAcquisition(s, f, late)
  BY DEF UniqueAcquisition
<1>2. Alters(s, UniqueOnBegin(s, f, locked), UniqueFields)
      /\ PaysAlike(s, UniqueOnBegin(s, f, locked), {"unique_acq"})
  BY DEF Shaped, Alters, PaysAlike, UniqueOnBegin, Acquire, Pay, Fields, UniqueFields
<1>3. Alters(s, UniqueOnRelease(s, f, locked), UniqueFields)
      /\ PaysAlike(s, UniqueOnRelease(s, f, locked), {"unique_acq"})
  <2> DEFINE began == IF locked /\ ~s.prevLocked
                      THEN [s EXCEPT !.lockBegin = f.place, !.pressed = FALSE] ELSE s
             held == [began EXCEPT !.pressed = @ \/ (locked /\ f.attack)]
             got == Acquire(held, held.lockBegin)
             v == IF held.pressed /\ held.lockBegin # NoPlace
                     /\ AcquisitionGate(held, held.lockBegin) THEN got ELSE held
             w == IF s.prevLocked /\ ~locked
                  THEN [v EXCEPT !.lockBegin = NoPlace, !.pressed = FALSE] ELSE held
  <2>1. w = UniqueOnRelease(s, f, locked)
    BY DEF UniqueOnRelease
  <2>2. Alters(s, held, {"lockBegin", "pressed"}) /\ held.paid = s.paid
    BY DEF Shaped, Alters, Fields
  <2> HIDE DEF held
  <2>3. Alters(held, got, {"uniqueCount", "lastLockBegin", "paid"})
        /\ PaysAlike(held, got, {"unique_acq"})
    BY <2>2 DEF Shaped, Alters, PaysAlike, Acquire, Pay, Fields
  <2> HIDE DEF got
  <2>4. Alters(s, v, UniqueFields) /\ PaysAlike(s, v, {"unique_acq"})
    BY <2>2, <2>3 DEF Alters, PaysAlike, Fields, UniqueFields
  <2> HIDE DEF v
  <2>5. Alters(s, w, UniqueFields) /\ PaysAlike(s, w, {"unique_acq"})
    BY <2>2, <2>4 DEF Shaped, Alters, PaysAlike, Fields, UniqueFields
  <2> QED
    BY <2>1, <2>5
<1>4. Alters(s, t, UniqueFields) /\ PaysAlike(s, t, {"unique_acq"})
  BY <1>2, <1>3
<1> HIDE DEF t, locked
<1>5. Alters(t, u, {"unlocked", "prevLocked"}) /\ u.paid = t.paid
  BY <1>4 DEF Shaped, Alters, Fields
<1> HIDE DEF u
<1> QED
  BY <1>1, <1>4, <1>5 DEF Alters, PaysAlike, Fields, UniqueFields

LEMMA PngAlters ==
  ASSUME NEW s, Shaped(s), NEW f
  PROVE  /\ Alters(s, PngPenalty(s, f), {"penaltyStreak", "paid"})
         /\ PaysAlike(s, PngPenalty(s, f), {"png_pen"})
BY DEF Shaped, Alters, PaysAlike, PngPenalty, Pay, Fields

LEMMA TerminalAlters ==
  ASSUME NEW s, Shaped(s), NEW f
  PROVE  /\ Alters(s, Terminal(s, f), {"attacks", "paid"})
         /\ PaysAlike(s, Terminal(s, f), {"terminal"})
BY DEF Shaped, Alters, PaysAlike, Terminal, Pay, Fields

-----------------------------------------------------------------------------
(* What the frames of a rollout show, frame by frame                       *)

Shot == [target : BOOLEAN, attack : BOOLEAN, forward : BOOLEAN, turning : BOOLEAN,
         place : Places]

LEMMA InputsAreShots == Inputs(mix) \subseteq Shot
<1> SUFFICES ASSUME NEW f \in Inputs(mix) PROVE f \in Shot
  OBVIOUS
<1>1. BadPlace \in Places
  BY RewardsAssumption
<1> QED
  BY <1>1 DEF Inputs, Shot

\* r is q and one more frame.
Grown(q, f, r) ==
  /\ q \in Seq(Shot) /\ f \in Shot /\ r \in Seq(Shot)
  /\ Len(q) \in Nat /\ Len(r) = Len(q) + 1
  /\ \A i \in 1 .. Len(q) : r[i] = q[i]
  /\ r[Len(q) + 1] = f

LEMMA Grows ==
  ASSUME NEW q \in Seq(Shot), NEW f \in Shot
  PROVE  Grown(q, f, Append(q, f))
BY DEF Grown

\* A set of frames that each frame joins or not on its own account.
LEMMA VisibleGrows ==
  ASSUME NEW q, NEW f, NEW r, Grown(q, f, r)
  PROVE  /\ Visible(q) \subseteq 1 .. Len(q) /\ 0 \notin Visible(q) /\ 0 \notin Visible(r)
         /\ \A i \in 1 .. Len(q) : i \in Visible(q) <=> i \in Visible(r)
         /\ Len(q) + 1 \in Visible(r) <=> f.target
BY DEF Grown, Visible

LEMMA EngagedGrows ==
  ASSUME NEW q, NEW f, NEW r, Grown(q, f, r)
  PROVE  /\ Engaged(q) \subseteq 1 .. Len(q) /\ Engaged(r) \subseteq 1 .. Len(r)
         /\ \A i \in 1 .. Len(q) : i \in Engaged(q) <=> i \in Engaged(r)
         /\ Len(q) + 1 \in Engaged(r) <=> f.target /\ f.attack
BY DEF Grown, Engaged

LEMMA PenalisedGrows ==
  ASSUME NEW q, NEW f, NEW r, Grown(q, f, r)
  PROVE  /\ Penalised(q) \subseteq 1 .. Len(q) /\ 0 \notin Penalised(q) /\ 0 \notin Penalised(r)
         /\ \A i \in 1 .. Len(q) : i \in Penalised(q) <=> i \in Penalised(r)
         /\ Len(q) + 1 \in Penalised(r) <=> f.place = BadPlace
BY DEF Grown, Penalised

LEMMA PinnedGrows ==
  ASSUME NEW q, NEW f, NEW r, Grown(q, f, r)
  PROVE  /\ Pinned(q) \subseteq 1 .. Len(q) /\ 0 \notin Pinned(q) /\ 0 \notin Pinned(r)
         /\ \A i \in 1 .. Len(q) : i \in Pinned(q) <=> i \in Pinned(r)
         /\ Len(q) + 1 \in Pinned(r) <=>
              Len(q) >= Cfg.window /\ Len(q) >= Cfg.grace
                /\ f.place = r[Len(q) + 1 - Cfg.window].place
<1>1. Cfg.window \in Nat \ {0} /\ Cfg.grace \in Nat
  BY RewardsAssumption
<1>2. ASSUME NEW i \in 1 .. Len(q) PROVE i \in Pinned(q) <=> i \in Pinned(r)
  <2>1. i > Cfg.window => i - Cfg.window \in 1 .. Len(q)
    BY <1>1 DEF Grown
  <2> QED
    BY <1>1, <2>1 DEF Grown, Pinned
<1> QED
  BY <1>1, <1>2 DEF Grown, Pinned

LEMMA LockedGrows ==
  ASSUME NEW q, NEW f, NEW r, Grown(q, f, r)
  PROVE  /\ Locked(q) \subseteq 1 .. Len(q) /\ Locked(r) \subseteq 1 .. Len(q) + 1
         /\ \A i \in 1 .. Len(q) : i \in Locked(q) <=> i \in Locked(r)
         /\ Len(q) + 1 \in Locked(r) <=> Row(Visible(r), Len(q) + 1) >= Cfg.minHits
<1>1. ASSUME NEW i \in 1 .. Len(q) PROVE Row(Visible(r), i) = Row(Visible(q), i)
  <2>1. i \in Nat /\ \A j \in 1 .. i : j \in 1 .. Len(q)
    BY DEF Grown
  <2>2. /\ 0 \notin Visible(q) /\ 0 \notin Visible(r)
        /\ \A j \in 1 .. i : j \in Visible(q) <=> j \in Visible(r)
    BY <2>1, VisibleGrows
  <2> QED
    BY <2>1, <2>2, RowStays
<1> QED
  BY <1>1 DEF Grown, Locked

LEMMA StuckGrows ==
  ASSUME NEW q, NEW f, NEW r, Grown(q, f, r)
  PROVE  /\ Stuck(q) \subseteq 1 .. Len(q) /\ Stuck(r) \subseteq 1 .. Len(q) + 1
         /\ \A i \in 1 .. Len(q) : i \in Stuck(q) <=> i \in Stuck(r)
         /\ Len(q) + 1 \in Stuck(r) <=> Row(Pinned(r), Len(q) + 1) >= Cfg.minHits
<1>1. ASSUME NEW i \in 1 .. Len(q) PROVE Row(Pinned(r), i) = Row(Pinned(q), i)
  <2>1. i \in Nat /\ \A j \in 1 .. i : j \in 1 .. Len(q)
    BY DEF Grown
  <2>2. /\ 0 \notin Pinned(q) /\ 0 \notin Pinned(r)
        /\ \A j \in 1 .. i : j \in Pinned(q) <=> j \in Pinned(r)
    BY <2>1, PinnedGrows
  <2> QED
    BY <2>1, <2>2, RowStays
<1> QED
  BY <1>1 DEF Grown, Stuck

\* The latents a component keeps are those of the newest frames.
Remembers(h, q) ==
  /\ h \in Seq(Places)
  /\ Len(h) = Least(Len(q), Cfg.window + 1)
  /\ \A i \in 1 .. Len(h) : h[i] = q[Len(q) - Len(h) + i].place

LEMMA RemembersOn ==
  ASSUME NEW q, NEW f, NEW r, Grown(q, f, r), NEW h, Remembers(h, q),
         NEW g, g = Keep(h, f.place, Cfg.window + 1)
  PROVE  /\ Remembers(g, r)
         /\ Len(g) > Cfg.window <=> Len(q) >= Cfg.window
         /\ Len(g) > Cfg.window => /\ Len(g) - Cfg.window = 1
                                   /\ g[1] = r[Len(q) + 1 - Cfg.window].place
<1> DEFINE m == Cfg.window + 1
           n == Len(q)
<1>1. Cfg.window \in Nat \ {0} /\ m \in Nat /\ n \in Nat /\ f.place \in Places
      /\ m > 0 /\ Cfg.window = m - 1 /\ Len(r) = n + 1
  <2>1. Cfg.window \in Nat \ {0}
    BY RewardsAssumption
  <2>2. Len(q) \in Nat /\ Len(r) = Len(q) + 1 /\ f \in Shot
    BY DEF Grown
  <2>3. f.place \in Places
    BY <2>2 DEF Shot
  <2> QED
    BY <2>1, <2>2, <2>3
<1>2. h \in Seq(Places) /\ Len(h) = Least(n, m) /\ Len(h) \in Nat
      /\ \A i \in 1 .. Len(h) : h[i] = q[n - Len(h) + i].place
  BY DEF Remembers
<1>3. Len(h) <= m /\ Len(h) <= n /\ (Len(h) < m => Len(h) = n)
  BY <1>1, <1>2 DEF Least
<1>4. g = Keep(h, f.place, m)
  OBVIOUS
<1> HIDE DEF m, n
<1>5. /\ g \in Seq(Places)
      /\ Len(g) = IF Len(h) < m THEN Len(h) + 1 ELSE m
      /\ Len(h) < m => /\ \A i \in 1 .. Len(h) : g[i] = h[i]
                       /\ g[Len(h) + 1] = f.place
      /\ Len(h) = m => /\ \A i \in 1 .. m - 1 : g[i] = h[i + 1]
                       /\ g[m] = f.place
  <2> DEFINE x == f.place
  <2>1. m \in Nat /\ h \in Seq(Places) /\ x \in Places /\ Len(h) <= m
    BY <1>1, <1>2, <1>3
  <2>2. g = Keep(h, x, m)
    BY <1>4
  <2> HIDE DEF x
  <2>3. /\ Keep(h, x, m) \in Seq(Places)
        /\ Len(Keep(h, x, m)) = IF Len(h) < m THEN Len(h) + 1 ELSE m
        /\ Len(h) < m => /\ \A i \in 1 .. Len(h) : Keep(h, x, m)[i] = h[i]
                         /\ Keep(h, x, m)[Len(h) + 1] = x
        /\ Len(h) = m => /\ \A i \in 1 .. m - 1 : Keep(h, x, m)[i] = h[i + 1]
                         /\ m > 0 => Keep(h, x, m)[m] = x
    BY <2>1, KeepIs
  <2> QED
    BY <1>1, <2>2, <2>3 DEF x
<1>6. /\ \A i \in 1 .. n : r[i] = q[i]
      /\ r[n + 1] = f
  BY DEF Grown, n
<1>7. Len(g) = Least(n + 1, m) /\ Len(g) \in Nat
  BY <1>1, <1>2, <1>3, <1>5 DEF Least
<1>8. ASSUME NEW i \in 1 .. Len(g) PROVE g[i] = r[n + 1 - Len(g) + i].place
  <2>1. CASE Len(h) < m
    <3>1. Len(h) = n /\ Len(g) = n + 1 /\ n + 1 - Len(g) + i = i
      BY <1>1, <1>3, <1>5, <2>1
    <3>2. CASE i = n + 1
      BY <1>5, <1>6, <2>1, <3>1, <3>2
    <3>3. CASE i # n + 1
      <4>1. i \in 1 .. n /\ n - Len(h) + i = i
        BY <1>1, <3>1, <3>3
      <4>2. g[i] = h[i]
        BY <1>5, <2>1, <3>1, <4>1
      <4>3. h[i] = q[i].place
        BY <1>2, <3>1, <4>1
      <4> QED
        BY <1>6, <3>1, <4>1, <4>2, <4>3
    <3> QED
      BY <3>2, <3>3
  <2>2. CASE Len(h) = m
    <3>1. Len(g) = m /\ n >= m
      BY <1>3, <1>5, <2>2
    <3>2. CASE i = m
      <4>1. n + 1 - Len(g) + i = n + 1
        BY <1>1, <3>1, <3>2
      <4> QED
        BY <1>5, <1>6, <2>2, <3>2, <4>1
    <3>3. CASE i # m
      <4>1. i \in 1 .. m - 1 /\ i + 1 \in 1 .. Len(h)
            /\ n + 1 - Len(g) + i = n - Len(h) + (i + 1)
            /\ n - Len(h) + (i + 1) \in 1 .. n
        BY <1>1, <2>2, <3>1, <3>3
      <4>2. g[i] = h[i + 1]
        BY <1>5, <2>2, <4>1
      <4>3. h[i + 1] = q[n - Len(h) + (i + 1)].place
        BY <1>2, <4>1
      <4> QED
        BY <1>6, <4>1, <4>2, <4>3
    <3> QED
      BY <3>2, <3>3
  <2> QED
    <3>1. Len(h) < m \/ Len(h) = m
      BY <1>1, <1>2, <1>3
    <3> QED
      BY <2>1, <2>2, <3>1
<1>9. Remembers(g, r)
  BY <1>1, <1>5, <1>7, <1>8 DEF Remembers, m
<1>10. Len(g) > Cfg.window <=> n >= Cfg.window
  BY <1>1, <1>7 DEF Least
<1>11. ASSUME Len(g) > Cfg.window
       PROVE  Len(g) - Cfg.window = 1 /\ g[1] = r[n + 1 - Cfg.window].place
  <2>1. Len(g) = m /\ 1 \in 1 .. Len(g)
    BY <1>1, <1>7, <1>11 DEF Least
  <2>2. n + 1 - Len(g) + 1 = n + 1 - Cfg.window
    BY <1>1, <2>1
  <2>3. g[1] = r[n + 1 - Len(g) + 1].place
    BY <1>8, <2>1
  <2>4. Len(g) - Cfg.window = 1
    BY <1>1, <2>1
  <2> QED
    BY <2>2, <2>3, <2>4
<1> QED
  BY <1>9, <1>10, <1>11 DEF n

\* d is e and what the new frame is paid.
Booked(q, e, x, d) ==
  /\ Len(d) = Len(q) + 1
  /\ \A i \in 1 .. Len(q) : d[i] = e[i]
  /\ d[Len(q) + 1] = x

LEMMA BookedIs ==
  ASSUME NEW q, NEW f, NEW r, Grown(q, f, r), NEW e, NEW x, NEW d, Booked(q, e, x, d), NEW c
  PROVE  /\ Pays(c, d) <=> c \in x
         /\ \A S : S \subseteq 1 .. Len(q) => (PaidIn(c, d, S) <=> PaidIn(c, e, S))
<1>1. Pays(c, d) <=> c \in x
  BY DEF Pays, Booked
<1>2. ASSUME NEW S, S \subseteq 1 .. Len(q) PROVE PaidIn(c, d, S) <=> PaidIn(c, e, S)
  BY <1>2 DEF PaidIn, Booked
<1> QED
  BY <1>1, <1>2

-----------------------------------------------------------------------------
(* The detector                                                            *)

SeesInv(s, q) ==
  /\ s.streak = Row(Visible(q), Len(q))
  /\ "target_ui" \notin mix => Visible(q) = {}

\* Before a frame is decoded, the streak tells whether the one before showed
\* a target.
LEMMA StreakTells ==
  ASSUME NEW q, Len(q) \in Nat, NEW s, SeesInv(s, q)
  PROVE  s.streak \in Nat /\ (s.streak > 0 <=> Len(q) \in Visible(q))
<1>1. 0 \notin Visible(q)
  BY DEF Visible
<1> QED
  BY <1>1, RowAhead DEF SeesInv

LEMMA SeesOn ==
  ASSUME NEW q, NEW f, NEW r, Grown(q, f, r), NEW s, SeesInv(s, q), NEW t,
         t.streak = IF "target_ui" \in mix THEN Count(f.target, s.streak) ELSE s.streak,
         "target_ui" \notin mix => ~f.target
  PROVE  SeesInv(t, r)
<1>1. Len(q) \in Nat /\ Len(r) = Len(q) + 1
  BY DEF Grown
<1>2. Row(Visible(r), Len(q) + 1) = Count(f.target, s.streak)
  <2>1. /\ 0 \notin Visible(q) /\ 0 \notin Visible(r)
        /\ \A i \in 1 .. Len(q) : i \in Visible(q) <=> i \in Visible(r)
        /\ Len(q) + 1 \in Visible(r) <=> f.target
    BY VisibleGrows
  <2>2. Row(Visible(r), Len(q) + 1) = Count(Len(q) + 1 \in Visible(r), Row(Visible(q), Len(q)))
    BY <1>1, <2>1, RowCounts
  <2> QED
    BY <2>1, <2>2 DEF SeesInv, Count
<1>3. CASE "target_ui" \in mix
  BY <1>1, <1>2, <1>3 DEF SeesInv
<1>4. CASE "target_ui" \notin mix
  <2>1. Visible(q) = {} /\ ~f.target
    BY <1>4 DEF SeesInv
  <2>2. Visible(r) = {}
    BY <2>1 DEF Visible, Grown
  <2>3. s.streak = 0
    <3>1. s.streak \in Nat /\ (s.streak > 0 <=> Len(q) \in Visible(q))
      BY <1>1, StreakTells
    <3> QED
      BY <2>1, <3>1
  <2>4. Count(f.target, s.streak) = 0
    BY <2>1 DEF Count
  <2> QED
    BY <1>1, <1>2, <1>4, <2>2, <2>3, <2>4 DEF SeesInv
<1> QED
  BY <1>3, <1>4

-----------------------------------------------------------------------------
(* Turns                                                                   *)

\* A turn of no frames, or frames in a row of which one is none, is no hurdle.
TurnsTakeTime == Cfg.stuckFrames # 0 /\ Cfg.turnFrames # 0

\* The newest m frames turn, and none of them was paid for it.
Turning(m, q, e) ==
  \A i \in Len(q) - m + 1 .. Len(q) : q[i].turning /\ "stuck_turn" \notin e[i]

LEMMA TurningOn ==
  ASSUME NEW q, NEW f, NEW r, Grown(q, f, r), NEW e, NEW x, NEW d, Booked(q, e, x, d),
         NEW m \in 0 .. Len(q), Turning(m, q, e), f.turning, "stuck_turn" \notin x
  PROVE  Turning(m + 1, r, d) /\ Turning(m, r, d)
<1>1. /\ Len(q) \in Nat /\ m \in Nat /\ Len(r) = Len(q) + 1
      /\ \A i \in 1 .. Len(q) : r[i] = q[i] /\ d[i] = e[i]
      /\ r[Len(q) + 1] = f /\ d[Len(q) + 1] = x
  BY DEF Grown, Booked
<1>2. ASSUME NEW i \in Len(q) + 1 - (m + 1) + 1 .. Len(q) + 1
      PROVE  r[i].turning /\ "stuck_turn" \notin d[i]
  <2>1. CASE i = Len(q) + 1
    BY <1>1, <2>1
  <2>2. CASE i # Len(q) + 1
    <3>1. i \in Len(q) - m + 1 .. Len(q) /\ i \in 1 .. Len(q)
      BY <1>1, <2>2
    <3> QED
      BY <1>1, <3>1 DEF Turning
  <2> QED
    BY <2>1, <2>2
<1>3. ASSUME NEW i \in Len(q) + 1 - m + 1 .. Len(q) + 1
      PROVE  i \in Len(q) + 1 - (m + 1) + 1 .. Len(q) + 1
  BY <1>1
<1> QED
  BY <1>1, <1>2, <1>3 DEF Turning

LEMMA NotTurning ==
  ASSUME NEW q, NEW e, Len(q) \in Nat
  PROVE  Turning(0, q, e)
BY DEF Turning

\* The frames of a whole turn.
LEMMA Turned ==
  ASSUME TurnsTakeTime, NEW q, NEW f, NEW r, Grown(q, f, r),
         NEW e, NEW x, NEW d, Booked(q, e, x, d),
         NEW m \in 0 .. Len(q), Turning(m, q, e), f.turning, m + 1 >= Cfg.turnFrames
  PROVE  /\ Len(r) >= Cfg.turnFrames
         /\ \A i \in Lately(r, Cfg.turnFrames) : r[i].turning
         /\ ~PaidIn("stuck_turn", d, Lately(r, Cfg.turnFrames) \ {Len(r)})
<1> DEFINE n == Len(q)
           w == Cfg.turnFrames
<1>1. /\ n \in Nat /\ m \in Nat /\ Len(r) = n + 1 /\ w \in Nat /\ w # 0 /\ m <= n
      /\ \A i \in 1 .. n : r[i] = q[i] /\ d[i] = e[i]
      /\ r[n + 1] = f /\ m + 1 >= w
      /\ \A i \in n - m + 1 .. n : q[i].turning /\ "stuck_turn" \notin e[i]
  BY RewardsAssumption DEF Grown, Booked, Turning, TurnsTakeTime
<1> HIDE DEF n, w
<1>2. ASSUME NEW i \in Lately(r, w)
      PROVE  i = n + 1 \/ (i \in n - m + 1 .. n /\ i \in 1 .. n)
  BY <1>1 DEF Lately, Most
<1>3. ASSUME NEW i \in Lately(r, w) PROVE r[i].turning
  BY <1>1, <1>2
<1>4. ASSUME NEW i \in Lately(r, w) \ {Len(r)} PROVE "stuck_turn" \notin d[i]
  BY <1>1, <1>2
<1>5. Len(r) >= w
  BY <1>1
<1> QED
  BY <1>3, <1>4, <1>5 DEF w, PaidIn

\* The counters of the forward trigger count frames of this rollout, and a
\* turn began when the push was long enough.
PushInv(s, q, e) ==
  /\ s.stuckForward \in 0 .. Len(q) /\ s.turn \in 0 .. Len(q)
  /\ \A i \in Len(q) - s.stuckForward + 1 .. Len(q) : q[i].forward /\ i - 1 \notin Visible(q)
  /\ Turning(s.turn, q, e)
  /\ s.turn > 0 => s.stuckForward >= s.turn + Cfg.stuckFrames - 1

LEMMA StuckForwardKeeps ==
  ASSUME TurnsTakeTime, NEW q, NEW f, NEW r, Grown(q, f, r),
         NEW e, NEW x, NEW d, Booked(q, e, x, d),
         NEW s, Shaped(s), SeesInv(s, q), PushInv(s, q, e), "stuck_turn" \notin s.paid,
         NEW t, t = StuckForward(s, f), "stuck_turn" \in x <=> "stuck_turn" \in t.paid,
         "stuck_forward" \in mix
  PROVE  PushInv(t, r, d) /\ TurnEarned(r, d)
<1> DEFINE n == Len(q)
           w == Cfg.turnFrames
           z == Cfg.stuckFrames
           pushed == Count(s.streak = 0 /\ f.forward, s.stuckForward)
           turned == Count(pushed >= z /\ f.turning, s.turn)
<1>1. /\ n \in Nat /\ Len(r) = n + 1 /\ w \in Nat \ {0} /\ z \in Nat \ {0}
      /\ s.stuckForward \in 0 .. n /\ s.turn \in 0 .. n /\ f \in Shot
      /\ \A i \in 1 .. n : r[i] = q[i]
      /\ r[n + 1] = f
  BY RewardsAssumption DEF Grown, PushInv, TurnsTakeTime
<1>2. pushed \in 0 .. n + 1 /\ turned \in 0 .. n + 1
  BY <1>1 DEF Count
<1>3. /\ turned >= w => t.stuckForward = 0 /\ t.turn = 0 /\ "stuck_turn" \in x
      /\ turned < w => t.stuckForward = pushed /\ t.turn = turned /\ "stuck_turn" \notin x
  <2>1. t = IF turned >= w
            THEN Pay([s EXCEPT !.stuckForward = 0, !.turn = 0], "stuck_turn")
            ELSE [s EXCEPT !.stuckForward = pushed, !.turn = turned]
    BY DEF StuckForward
  <2> HIDE DEF pushed, turned, w
  <2>2. CASE turned >= w
    <3> DEFINE p == [s EXCEPT !.stuckForward = 0, !.turn = 0]
    <3>1. Shaped(p) /\ p.stuckForward = 0 /\ p.turn = 0
      BY DEF Shaped, Fields
    <3>2. t = Pay(p, "stuck_turn")
      BY <2>1, <2>2
    <3> HIDE DEF p
    <3>3. t.stuckForward = 0 /\ t.turn = 0 /\ "stuck_turn" \in t.paid
      BY <3>1, <3>2 DEF Shaped, Fields, Pay
    <3> QED
      BY <1>1, <1>2, <2>2, <3>3
  <2>3. CASE ~(turned >= w)
    <3>1. t = [s EXCEPT !.stuckForward = pushed, !.turn = turned]
      BY <2>1, <2>3
    <3>2. t.stuckForward = pushed /\ t.turn = turned /\ t.paid = s.paid
      BY <3>1 DEF Shaped, Fields
    <3> QED
      BY <2>3, <3>2
  <2> QED
    BY <2>2, <2>3
<1>4. ASSUME NEW i \in n + 1 - pushed + 1 .. n + 1
      PROVE  r[i].forward /\ i - 1 \notin Visible(r)
  <2>1. s.streak = 0 /\ f.forward /\ pushed = s.stuckForward + 1
    BY <1>1, <1>2 DEF Count
  <2>2. CASE i = n + 1
    <3>1. n \notin Visible(q)
      BY <1>1, <2>1, StreakTells
    <3>2. n \notin Visible(r)
      <4>1. n = 0 \/ n \in 1 .. n
        BY <1>1
      <4> QED
        BY <3>1, <4>1, VisibleGrows
    <3> QED
      BY <1>1, <2>1, <2>2, <3>2
  <2>3. CASE i # n + 1
    <3>1. i \in n - s.stuckForward + 1 .. n /\ i \in 1 .. n
      BY <1>1, <2>1, <2>3
    <3>2. q[i].forward /\ i - 1 \notin Visible(q)
      BY <3>1 DEF PushInv
    <3>3. i - 1 = 0 \/ i - 1 \in 1 .. n
      BY <1>1, <3>1
    <3> QED
      BY <1>1, <3>1, <3>2, <3>3, VisibleGrows
  <2> QED
    BY <2>2, <2>3
<1>5. turned > 0 => /\ f.turning /\ turned = s.turn + 1
                    /\ pushed >= turned + z - 1
  <2>1. ASSUME turned > 0
        PROVE  f.turning /\ turned = s.turn + 1 /\ pushed >= z /\ pushed = s.stuckForward + 1
    BY <1>1, <2>1 DEF Count
  <2> HIDE DEF pushed, turned
  <2>2. ASSUME turned > 0 PROVE pushed >= turned + z - 1
    <3>1. s.turn > 0 => s.stuckForward >= s.turn + z - 1
      BY DEF PushInv
    <3> QED
      BY <1>1, <2>1, <2>2, <3>1
  <2> QED
    BY <2>1, <2>2
<1> HIDE DEF pushed, turned
<1>6. CASE turned >= w
  <2>1. PushInv(t, r, d)
    BY <1>1, <1>3, <1>6, NotTurning DEF PushInv
  <2>2. /\ Len(r) >= w
        /\ \A i \in Lately(r, w) : r[i].turning
        /\ ~PaidIn("stuck_turn", d, Lately(r, w) \ {Len(r)})
    <3>1. Turning(s.turn, q, e) /\ f.turning /\ s.turn + 1 >= w
      BY <1>1, <1>2, <1>5, <1>6 DEF PushInv
    <3> QED
      BY <1>1, <3>1, Turned DEF n, w
  <2>3. pushed >= w + z - 1 /\ pushed <= n + 1
    BY <1>1, <1>2, <1>5, <1>6
  <2>4. ASSUME NEW i \in Lately(r, w + z - 1) PROVE r[i].forward /\ i - 1 \notin Visible(r)
    <3>1. i \in n + 1 - pushed + 1 .. n + 1
      BY <1>1, <1>2, <2>3 DEF Lately, Most
    <3> QED
      BY <1>4, <3>1
  <2>5. Len(r) >= w + z - 1
    BY <1>1, <1>2, <2>3
  <2>6. ASSUME NEW i \in Lately(r, w + z - 1), i # Len(r) PROVE i \notin Visible(r)
    <3>1. i + 1 \in n + 1 - pushed + 1 .. n + 1 /\ (i + 1) - 1 = i
      BY <1>1, <1>2, <2>3, <2>6 DEF Lately, Most
    <3>2. (i + 1) - 1 \notin Visible(r)
      BY <1>4, <3>1
    <3> QED
      BY <3>1, <3>2
  <2> QED
    BY <2>1, <2>2, <2>4, <2>5, <2>6 DEF TurnEarned
<1>7. CASE turned < w
  <2>1. t.stuckForward = pushed /\ t.turn = turned /\ "stuck_turn" \notin x
    BY <1>3, <1>7
  <2>2. Turning(turned, r, d)
    <3>1. CASE turned > 0
      BY <1>1, <1>5, <2>1, <3>1, TurningOn DEF PushInv
    <3>2. CASE turned = 0
      BY <1>1, <3>2, NotTurning
    <3> QED
      BY <1>2, <3>1, <3>2
  <2>3. PushInv(t, r, d)
    BY <1>1, <1>2, <1>4, <1>5, <2>1, <2>2 DEF PushInv
  <2>4. TurnEarned(r, d)
    BY <2>1, BookedIs DEF TurnEarned
  <2> QED
    BY <2>3, <2>4
<1> QED
  BY <1>1, <1>2, <1>6, <1>7

\* No target at frame i - 1, and the latent of frame i has moved on.
Moving(q, i) == i > Cfg.window /\ q[i].place # q[i - Cfg.window].place

\* The latch was set at frame i, after enough such frames, and no target has
\* been seen since.
LatchedAt(q, i) ==
  /\ i \in 1 .. Len(q) /\ i >= Cfg.stuckFrames + Cfg.window
  /\ \A j \in i - Cfg.stuckFrames + 1 .. i : Moving(q, j)
  /\ Visible(q) \cap (i - 1 .. Len(q) - 1) = {}

SweepInv(s, q, e) ==
  /\ Remembers(s.latents, q)
  /\ s.stagnant \in 0 .. Len(q) /\ s.turn \in 0 .. Len(q)
  /\ \A i \in Len(q) - s.stagnant + 1 .. Len(q) : Moving(q, i)
  /\ Turning(s.turn, q, e)
  /\ s.pending \in BOOLEAN /\ s.pendingAge \in Nat
  /\ s.pending => /\ s.pendingAge \in 1 .. Cfg.sweepTimeout
                  /\ LatchedAt(q, Len(q) - s.pendingAge + 1)

LEMMA MovingGrows ==
  ASSUME NEW q, NEW f, NEW r, Grown(q, f, r), NEW i \in 1 .. Len(q), Moving(q, i)
  PROVE  Moving(r, i)
<1>1. Cfg.window \in Nat /\ Len(q) \in Nat /\ Cfg.window > 0
  BY RewardsAssumption DEF Grown
<1>2. i - Cfg.window \in 1 .. Len(q)
  BY <1>1 DEF Moving
<1> QED
  BY <1>2 DEF Moving, Grown

LEMMA LatchStays ==
  ASSUME NEW q, NEW f, NEW r, Grown(q, f, r), NEW i, LatchedAt(q, i), Len(q) \notin Visible(q)
  PROVE  LatchedAt(r, i)
<1>1. /\ Cfg.window \in Nat \ {0} /\ Cfg.stuckFrames \in Nat
      /\ Len(q) \in Nat /\ Len(r) = Len(q) + 1 /\ i \in 1 .. Len(q)
      /\ i >= Cfg.stuckFrames + Cfg.window
      /\ \A j \in i - Cfg.stuckFrames + 1 .. i : Moving(q, j)
      /\ Visible(q) \cap (i - 1 .. Len(q) - 1) = {}
  BY RewardsAssumption DEF Grown, LatchedAt
<1>2. ASSUME NEW j \in i - Cfg.stuckFrames + 1 .. i PROVE Moving(r, j)
  <2>1. j \in 1 .. Len(q)
    BY <1>1
  <2> QED
    BY <1>1, <2>1, MovingGrows
<1>3. ASSUME NEW j \in i - 1 .. Len(q) PROVE j \notin Visible(r)
  <2>1. j \notin Visible(q)
    <3>1. CASE j = Len(q)
      BY <3>1
    <3>2. CASE j # Len(q)
      <4>1. j \in i - 1 .. Len(q) - 1
        BY <1>1, <3>2
      <4> QED
        BY <1>1, <4>1
    <3> QED
      BY <3>1, <3>2
  <2>2. j = 0 \/ j \in 1 .. Len(q)
    BY <1>1
  <2> QED
    BY <2>1, <2>2, VisibleGrows
<1>4. i \in 1 .. Len(r) /\ Len(r) - 1 = Len(q)
  BY <1>1
<1> QED
  BY <1>1, <1>2, <1>3, <1>4 DEF LatchedAt

LEMMA StuckStagnationKeeps ==
  ASSUME TurnsTakeTime, NEW q, NEW f, NEW r, Grown(q, f, r),
         NEW e, NEW x, NEW d, Booked(q, e, x, d),
         NEW s, Shaped(s), SeesInv(s, q), SweepInv(s, q, e), "stuck_turn" \notin s.paid,
         NEW t, t = StuckStagnation(s, f), "stuck_turn" \in x <=> "stuck_turn" \in t.paid,
         "stuck_forward" \notin mix
  PROVE  SweepInv(t, r, d) /\ TurnEarned(r, d)
<1> DEFINE n == Len(q)
           w == Cfg.turnFrames
           seeing == s.streak > 0
           latents == Keep(s.latents, f.place, Cfg.window + 1)
           far == ~seeing /\ Len(latents) > Cfg.window
                    /\ f.place # latents[Len(latents) - Cfg.window]
           still == Count(far, s.stagnant)
           held == s.pending /\ ~seeing
           latch == held \/ still >= Cfg.stuckFrames
           age == (IF held THEN s.pendingAge ELSE 0) + 1
           expired == latch /\ age > Cfg.sweepTimeout
           armed == latch /\ ~expired
           before == IF expired THEN 0 ELSE s.turn
           turned == IF f.turning THEN before + (IF armed THEN 1 ELSE 0) ELSE 0
           done == armed /\ turned >= Cfg.turnFrames
<1>1. /\ n \in Nat /\ Len(r) = n + 1 /\ w \in Nat \ {0} /\ Cfg.stuckFrames \in Nat \ {0}
      /\ Cfg.window \in Nat \ {0} /\ Cfg.sweepTimeout \in Nat
      /\ f \in Shot /\ f.turning \in BOOLEAN
      /\ \A i \in 1 .. n : r[i] = q[i]
      /\ r[n + 1] = f
  BY RewardsAssumption DEF Grown, TurnsTakeTime, Shot
<1>2. /\ Remembers(s.latents, q)
      /\ s.stagnant \in 0 .. n /\ s.turn \in 0 .. n
      /\ \A i \in n - s.stagnant + 1 .. n : Moving(q, i)
      /\ Turning(s.turn, q, e)
      /\ s.pending \in BOOLEAN /\ s.pendingAge \in Nat
      /\ s.pending => /\ s.pendingAge \in 1 .. Cfg.sweepTimeout
                      /\ LatchedAt(q, n - s.pendingAge + 1)
  BY DEF SweepInv
<1>3. /\ t.latents = latents
      /\ t.stagnant = IF expired \/ done THEN 0 ELSE still
      /\ t.pending = (armed /\ ~done)
      /\ t.pendingAge = IF armed /\ ~done THEN age ELSE 0
      /\ t.turn = IF done THEN 0 ELSE turned
      /\ "stuck_turn" \in x <=> done
  BY StuckStagnationIs
<1>4. seeing <=> n \in Visible(q)
  BY <1>1, StreakTells
<1>5. Remembers(latents, r) /\ (far => ~seeing /\ Moving(r, n + 1))
  <2> HIDE DEF seeing, latents
  <2>1. latents = Keep(s.latents, f.place, Cfg.window + 1)
    BY DEF latents
  <2>2. /\ Remembers(latents, r)
        /\ Len(latents) > Cfg.window <=> n >= Cfg.window
        /\ Len(latents) > Cfg.window => /\ Len(latents) - Cfg.window = 1
                                        /\ latents[1] = r[n + 1 - Cfg.window].place
    BY <1>2, <2>1, RemembersOn
  <2> QED
    BY <1>1, <2>2 DEF Moving
<1>6. still \in 0 .. n + 1 /\ \A i \in n + 1 - still + 1 .. n + 1 : Moving(r, i)
  <2>1. CASE far
    <3>1. still = s.stagnant + 1
      BY <2>1 DEF Count
    <3> HIDE DEF still, far
    <3>2. ASSUME NEW i \in n + 1 - still + 1 .. n + 1 PROVE Moving(r, i)
      <4>1. CASE i = n + 1
        BY <1>5, <2>1, <4>1
      <4>2. CASE i # n + 1
        <5>1. i \in n - s.stagnant + 1 .. n /\ i \in 1 .. n
          <6>1. n \in Nat /\ s.stagnant \in 0 .. n
            BY <1>1, <1>2
          <6>2. n + 1 - still + 1 = n - s.stagnant + 1
            BY <3>1, <6>1
          <6>3. i \in n - s.stagnant + 1 .. n + 1
            BY <6>2
          <6> QED
            BY <4>2, <6>1, <6>3
        <5> QED
          BY <1>2, <5>1, MovingGrows
      <4> QED
        BY <4>1, <4>2
    <3> QED
      BY <1>1, <1>2, <3>1, <3>2
  <2>2. CASE ~far
    <3>1. still = 0
      BY <2>2 DEF Count
    <3> HIDE DEF still
    <3> QED
      BY <1>1, <3>1
  <2> QED
    BY <2>1, <2>2
<1>7. still >= Cfg.stuckFrames => ~seeing
  BY <1>1, <1>5 DEF Count
<1>8. ASSUME latch
      PROVE  age \in 1 .. n + 1 /\ LatchedAt(r, n + 1 - age + 1)
  <2>1. CASE held
    <3>1. age = s.pendingAge + 1 /\ s.pending /\ n \notin Visible(q)
      BY <1>4, <2>1
    <3> HIDE DEF age
    <3>2. LatchedAt(q, n - s.pendingAge + 1)
      BY <1>2, <3>1
    <3>3. n + 1 - age + 1 = n - s.pendingAge + 1
      BY <1>1, <1>2, <3>1
    <3>4. LatchedAt(r, n - s.pendingAge + 1)
      BY <3>1, <3>2, LatchStays
    <3>5. n - s.pendingAge + 1 \in 1 .. n
      BY <3>2 DEF LatchedAt
    <3>6. age \in 1 .. n + 1
      BY <1>1, <1>2, <3>1, <3>5
    <3> QED
      BY <3>3, <3>4, <3>6
  <2>2. CASE ~held
    <3>1. age = 1 /\ still >= Cfg.stuckFrames /\ n \notin Visible(q)
      BY <1>4, <1>7, <1>8, <2>2
    <3> HIDE DEF age, still
    <3>2. ASSUME NEW j \in n + 1 - Cfg.stuckFrames + 1 .. n + 1 PROVE Moving(r, j)
      <4>1. j \in n + 1 - still + 1 .. n + 1
        BY <1>1, <1>6, <3>1
      <4> QED
        BY <1>6, <4>1
    <3>3. n + 1 >= Cfg.stuckFrames + Cfg.window
      <4>1. Moving(r, n + 1 - Cfg.stuckFrames + 1)
        <5>1. n + 1 - Cfg.stuckFrames + 1 \in n + 1 - Cfg.stuckFrames + 1 .. n + 1
          BY <1>1
        <5> QED
          BY <3>2, <5>1
      <4> QED
        BY <1>1, <4>1 DEF Moving
    <3>4. Visible(r) \cap (n + 1 - 1 .. n + 1 - 1) = {}
      <4>1. n \notin Visible(r)
        <5>1. n = 0 \/ n \in 1 .. n
          BY <1>1
        <5> QED
          BY <3>1, <5>1, VisibleGrows
      <4> QED
        BY <1>1, <4>1
    <3>5. LatchedAt(r, n + 1)
      BY <1>1, <3>2, <3>3, <3>4 DEF LatchedAt
    <3>6. n + 1 - age + 1 = n + 1 /\ age \in 1 .. n + 1
      BY <1>1, <3>1
    <3> QED
      BY <3>5, <3>6
  <2> QED
    BY <2>1, <2>2
<1>9. /\ turned > 0 => f.turning
      /\ turned \in 0 .. s.turn + 1
      /\ armed /\ turned > 0 => turned = s.turn + 1
      /\ ~armed => turned <= s.turn
      /\ ~expired \/ turned = 0
  <2>1. expired => ~armed
    OBVIOUS
  <2> HIDE DEF expired, armed
  <2> QED
    BY <1>1, <1>2, <2>1
<1>10. armed => latch /\ age <= Cfg.sweepTimeout /\ age \in Nat
  BY <1>1, <1>2
<1>13. armed \in BOOLEAN
  OBVIOUS
<1> HIDE DEF seeing, latents, far, still, held, latch, age, expired, armed, before, turned
<1>11. CASE done
  <2>1. armed /\ turned >= w /\ turned > 0
    BY <1>1, <1>9, <1>11, <1>2
  <2>2. f.turning /\ turned = s.turn + 1
    BY <1>9, <2>1
  <2>3. /\ Len(r) >= w
        /\ \A i \in Lately(r, w) : r[i].turning
        /\ ~PaidIn("stuck_turn", d, Lately(r, w) \ {Len(r)})
    <3>1. s.turn \in 0 .. Len(q) /\ Turning(s.turn, q, e) /\ s.turn + 1 >= w
      BY <1>2, <2>1, <2>2
    <3> QED
      BY <2>2, <3>1, Turned DEF w
  <2> DEFINE l == n + 1 - age + 1
  <2>4. LatchedAt(r, l) /\ l \in Lately(r, Cfg.sweepTimeout)
    <3>1. age \in 1 .. n + 1 /\ LatchedAt(r, l)
      BY <1>8, <1>10, <2>1
    <3> QED
      BY <1>1, <1>10, <2>1, <3>1 DEF Lately, Most
  <2> HIDE DEF l
  <2>5. TurnEarned(r, d)
    <3>1. l \in Nat /\ l >= Cfg.stuckFrames + Cfg.window /\ Len(r) \in Nat
          /\ Visible(r) \cap (l - 1 .. Len(r) - 1) = {}
      BY <1>1, <2>4 DEF LatchedAt
    <3>2. Visible(r) \cap (l .. Len(r) - 1) = {}
      BY <3>1
    <3> QED
      BY <2>3, <2>4, <3>1, <3>2 DEF TurnEarned, w
  <2>6. SweepInv(t, r, d)
    <3>1. t.latents = latents /\ t.stagnant = 0 /\ t.pending = FALSE /\ t.pendingAge = 0 /\ t.turn = 0
      BY <1>3, <1>11
    <3>2. Turning(t.turn, r, d)
      BY <1>1, <3>1, NotTurning
    <3>3. \A i \in Len(r) - t.stagnant + 1 .. Len(r) : Moving(r, i)
      BY <1>1, <3>1
    <3>4. Remembers(t.latents, r)
      BY <1>5, <3>1
    <3>5. t.stagnant \in 0 .. Len(r) /\ t.turn \in 0 .. Len(r) /\ t.pendingAge \in Nat
      BY <1>1, <3>1
    <3>6. t.pending \in BOOLEAN /\ ~t.pending
      BY <3>1
    <3> QED
      BY <3>2, <3>3, <3>4, <3>5, <3>6 DEF SweepInv
  <2> QED
    BY <2>5, <2>6
<1>12. CASE ~done
  <2>1. "stuck_turn" \notin x /\ t.latents = latents /\ t.turn = turned
        /\ t.stagnant = (IF expired THEN 0 ELSE still)
        /\ t.pending = armed /\ t.pendingAge = IF armed THEN age ELSE 0
    <3>1. t.pending = armed
      <4>1. t.pending = (armed /\ ~done)
        BY <1>3
      <4> HIDE DEF done
      <4> QED
        BY <1>12, <1>13, <4>1
    <3> HIDE DEF done
    <3> QED
      BY <1>3, <1>12, <1>13, <3>1
  <2>2. TurnEarned(r, d)
    BY <2>1, BookedIs DEF TurnEarned
  <2>3. Turning(turned, r, d) /\ turned \in 0 .. n + 1
    <3>1. CASE turned = 0
      BY <1>1, <3>1, NotTurning
    <3>2. CASE turned # 0
      <4>1. f.turning
        BY <1>2, <1>9, <3>2
      <4>2. Turning(s.turn + 1, r, d) /\ Turning(s.turn, r, d)
        BY <1>2, <2>1, <4>1, TurningOn
      <4>3. \A i \in Len(r) - turned + 1 .. Len(r) : i \in Len(r) - (s.turn + 1) + 1 .. Len(r)
        BY <1>1, <1>2, <1>9
      <4> QED
        BY <1>1, <1>2, <1>9, <4>2, <4>3 DEF Turning
    <3> QED
      BY <3>1, <3>2
  <2>4. /\ t.stagnant \in 0 .. n + 1
        /\ \A i \in n + 1 - t.stagnant + 1 .. n + 1 : Moving(r, i)
    <3>1. CASE t.stagnant = still
      BY <1>6, <3>1
    <3>2. CASE t.stagnant = 0
      BY <1>1, <3>2
    <3> QED
      BY <2>1, <3>1, <3>2
  <2>5. /\ t.pending \in BOOLEAN /\ t.pendingAge \in Nat
        /\ t.pending => /\ t.pendingAge \in 1 .. Cfg.sweepTimeout
                        /\ LatchedAt(r, n + 1 - t.pendingAge + 1)
    <3>1. armed \in BOOLEAN
      BY <1>13
    <3>2. CASE armed
      <4>1. age \in 1 .. n + 1 /\ LatchedAt(r, n + 1 - age + 1)
        BY <1>8, <1>10, <3>2
      <4> QED
        BY <1>1, <1>10, <2>1, <3>2, <4>1
    <3>3. CASE ~armed
      BY <2>1, <3>1, <3>3
    <3> QED
      BY <3>2, <3>3
  <2>6. SweepInv(t, r, d)
    BY <1>1, <1>5, <2>1, <2>3, <2>4, <2>5 DEF SweepInv
  <2> QED
    BY <2>2, <2>6
<1> QED
  BY <1>11, <1>12

-----------------------------------------------------------------------------
(* Targets paid for one by one                                             *)

\* How often a lock was paid for, since when there is none, and whether the
\* attack was pressed in the one there is.
UniqueInv(s, q, e) ==
  /\ s.prevLocked \in BOOLEAN /\ (s.prevLocked <=> Len(q) \in Locked(q))
  /\ s.uniqueCount \in Nat
  /\ PaidIn("unique_acq", e, 1 .. Len(q)) => s.uniqueCount # 0
  /\ s.unlocked \in 0 .. Len(q)
  /\ Locked(q) \cap (Len(q) - s.unlocked + 1 .. Len(q)) = {}
  /\ s.pressed \in BOOLEAN
  /\ "unique_press" \in mix /\ s.pressed =>
       \E i \in 1 .. Len(q) : q[i].attack /\ i .. Len(q) \subseteq Locked(q)

LEMMA AcquireIs ==
  ASSUME NEW s, Shaped(s), NEW p
  PROVE  LET u == Acquire(s, p)
         IN /\ Alters(s, u, {"uniqueCount", "lastLockBegin", "paid"})
            /\ u.uniqueCount = s.uniqueCount + 1 /\ "unique_acq" \in u.paid
<1> DEFINE v == [s EXCEPT !.uniqueCount = @ + 1, !.lastLockBegin = p]
           u == Pay(v, "unique_acq")
<1>1. u = Acquire(s, p)
  BY DEF Acquire
<1>2. /\ Shaped(v) /\ v.uniqueCount = s.uniqueCount + 1
      /\ \A c \in Fields \ {"uniqueCount", "lastLockBegin"} : v[c] = s[c]
  BY DEF Shaped, Fields
<1> HIDE DEF v
<1>3. Alters(v, u, {"paid"}) /\ "unique_acq" \in u.paid
  BY <1>2 DEF Shaped, Fields, Alters, Pay
<1> HIDE DEF u
<1> QED
  BY <1>1, <1>2, <1>3 DEF Alters, Fields

LEMMA OnBeginIs ==
  ASSUME NEW s, Shaped(s), NEW f, NEW locked \in BOOLEAN, "unique_acq" \notin s.paid,
         s.prevLocked \in BOOLEAN, s.uniqueCount \in Nat,
         NEW u, u = UniqueOnBegin(s, f, locked)
  PROVE  /\ Shaped(u) /\ u.pressed = s.pressed /\ u.unlocked = s.unlocked
         /\ u.prevLocked = s.prevLocked
         /\ u.uniqueCount = s.uniqueCount + (IF "unique_acq" \in u.paid THEN 1 ELSE 0)
         /\ "unique_acq" \in u.paid =>
              locked /\ ~s.prevLocked /\ (s.uniqueCount = 0 \/ s.unlocked >= Cfg.minUnlocked)
<1>1. CASE locked /\ ~s.prevLocked /\ AcquisitionGate(s, f.place)
  <2>1. u = Acquire(s, f.place)
    BY <1>1 DEF UniqueOnBegin
  <2>2. /\ Alters(s, u, {"uniqueCount", "lastLockBegin", "paid"})
        /\ u.uniqueCount = s.uniqueCount + 1 /\ "unique_acq" \in u.paid
    BY <2>1, AcquireIs
  <2> QED
    BY <1>1, <2>2 DEF AcquisitionGate, Alters, Fields
<1>2. CASE ~(locked /\ ~s.prevLocked /\ AcquisitionGate(s, f.place))
  <2>1. u = s
    BY <1>2 DEF UniqueOnBegin
  <2> QED
    BY <2>1
<1> QED
  BY <1>1, <1>2

LEMMA OnReleaseIs ==
  ASSUME NEW s, Shaped(s), NEW f \in Shot, NEW locked \in BOOLEAN, "unique_acq" \notin s.paid,
         s.prevLocked \in BOOLEAN, s.uniqueCount \in Nat, s.pressed \in BOOLEAN,
         NEW w, w = UniqueOnRelease(s, f, locked)
  PROVE  /\ Shaped(w) /\ w.unlocked = s.unlocked /\ w.pressed \in BOOLEAN
         /\ w.prevLocked = s.prevLocked
         /\ w.uniqueCount = s.uniqueCount + (IF "unique_acq" \in w.paid THEN 1 ELSE 0)
         /\ "unique_acq" \in w.paid => s.prevLocked /\ ~locked /\ s.pressed
         /\ w.pressed => \/ locked /\ (f.attack \/ (s.prevLocked /\ s.pressed))
                         \/ ~locked /\ ~s.prevLocked /\ s.pressed
<1> DEFINE began == IF locked /\ ~s.prevLocked
                    THEN [s EXCEPT !.lockBegin = f.place, !.pressed = FALSE] ELSE s
           held == [began EXCEPT !.pressed = @ \/ (locked /\ f.attack)]
           got == Acquire(held, held.lockBegin)
           v == IF held.pressed /\ held.lockBegin # NoPlace
                   /\ AcquisitionGate(held, held.lockBegin) THEN got ELSE held
<1>1. w = IF s.prevLocked /\ ~locked
          THEN [v EXCEPT !.lockBegin = NoPlace, !.pressed = FALSE] ELSE held
  BY DEF UniqueOnRelease
<1>2. /\ Alters(s, began, {"lockBegin", "pressed"})
      /\ began.pressed = IF locked /\ ~s.prevLocked THEN FALSE ELSE s.pressed
  BY DEF Alters, Shaped, Fields
<1> HIDE DEF began
<1>3. /\ Alters(s, held, {"lockBegin", "pressed"})
      /\ held.pressed = (began.pressed \/ (locked /\ f.attack))
  BY <1>2 DEF Alters, Shaped, Fields
<1> HIDE DEF held
<1>4. held.pressed \in BOOLEAN
  BY <1>3
<1>5. held.pressed => (locked /\ f.attack) \/ (s.pressed /\ (~locked \/ s.prevLocked))
  <2>1. began.pressed => s.pressed /\ (~locked \/ s.prevLocked)
    BY <1>2
  <2> QED
    BY <1>3, <2>1
<1>6. /\ Shaped(held) /\ held.unlocked = s.unlocked /\ held.prevLocked = s.prevLocked
      /\ held.uniqueCount = s.uniqueCount /\ held.paid = s.paid
  BY <1>3 DEF Alters, Fields
<1>7. CASE s.prevLocked /\ ~locked
  <2>1. /\ Shaped(v) /\ v.unlocked = s.unlocked /\ v.prevLocked = s.prevLocked
        /\ v.uniqueCount = s.uniqueCount + (IF "unique_acq" \in v.paid THEN 1 ELSE 0)
        /\ "unique_acq" \in v.paid => held.pressed
    <3>1. CASE v = got /\ held.pressed
      <4>1. /\ Alters(held, got, {"uniqueCount", "lastLockBegin", "paid"})
            /\ got.uniqueCount = held.uniqueCount + 1 /\ "unique_acq" \in got.paid
        BY <1>6, AcquireIs
      <4> HIDE DEF got
      <4> QED
        BY <1>6, <3>1, <4>1 DEF Alters, Fields
    <3>2. CASE v = held
      BY <1>6, <3>2
    <3> QED
      BY <3>1, <3>2
  <2> HIDE DEF v
  <2>2. w = [v EXCEPT !.lockBegin = NoPlace, !.pressed = FALSE]
    BY <1>1, <1>7
  <2>3. /\ Shaped(w) /\ w.unlocked = v.unlocked /\ w.pressed = FALSE
        /\ w.prevLocked = v.prevLocked /\ w.uniqueCount = v.uniqueCount /\ w.paid = v.paid
    BY <2>1, <2>2 DEF Shaped, Fields
  <2> QED
    BY <1>5, <1>7, <2>1, <2>3
<1>8. CASE ~(s.prevLocked /\ ~locked)
  <2>1. w = held
    BY <1>1, <1>8
  <2> QED
    BY <1>4, <1>5, <1>6, <1>8, <2>1
<1> QED
  BY <1>7, <1>8

LEMMA UniqueKeeps ==
  ASSUME NEW q, NEW f, NEW r, Grown(q, f, r), NEW e, NEW x, NEW d, Booked(q, e, x, d),
         NEW s, Shaped(s), SeesInv(s, r), UniqueInv(s, q, e), "unique_acq" \notin s.paid,
         NEW late \in BOOLEAN, late <=> "unique_press" \in mix,
         NEW t, t = UniqueAcquisition(s, f, late),
         "unique_acq" \in x <=> "unique_acq" \in t.paid
  PROVE  UniqueInv(t, r, d) /\ TargetEarned(r, d)
<1> DEFINE n == Len(q)
           locked == s.streak >= Cfg.minHits
           u == IF late THEN UniqueOnRelease(s, f, locked) ELSE UniqueOnBegin(s, f, locked)
<1>1. /\ n \in Nat /\ Len(r) = n + 1 /\ f \in Shot /\ Cfg.minUnlocked \in Nat
      /\ \A i \in 1 .. n : r[i] = q[i]
      /\ r[n + 1] = f /\ f.attack \in BOOLEAN
  BY RewardsAssumption DEF Grown, Shot
<1>2. /\ s.prevLocked \in BOOLEAN /\ (s.prevLocked <=> n \in Locked(q))
      /\ s.uniqueCount \in Nat
      /\ PaidIn("unique_acq", e, 1 .. n) => s.uniqueCount # 0
      /\ s.unlocked \in 0 .. n
      /\ Locked(q) \cap (n - s.unlocked + 1 .. n) = {}
      /\ s.pressed \in BOOLEAN
      /\ late /\ s.pressed => \E i \in 1 .. n : q[i].attack /\ i .. n \subseteq Locked(q)
  BY DEF UniqueInv
<1>3. locked \in BOOLEAN /\ (locked <=> n + 1 \in Locked(r))
  BY <1>1, LockedGrows DEF SeesInv
<1>4. /\ Locked(q) \subseteq 1 .. n /\ Locked(r) \subseteq 1 .. n + 1
      /\ \A i \in 1 .. n : i \in Locked(q) <=> i \in Locked(r)
  BY LockedGrows
<1>5. t = [u EXCEPT !.unlocked = Count(~locked, @), !.prevLocked = locked]
  BY DEF UniqueAcquisition
<1> HIDE DEF locked
<1>6. /\ Shaped(u) /\ u.unlocked = s.unlocked /\ u.pressed \in BOOLEAN
      /\ u.uniqueCount = s.uniqueCount + (IF "unique_acq" \in u.paid THEN 1 ELSE 0)
  <2>1. CASE late
    BY <1>1, <1>2, <1>3, <2>1, OnReleaseIs
  <2>2. CASE ~late
    BY <1>2, <1>3, <2>2, OnBeginIs
  <2> QED
    BY <2>1, <2>2
<1>7. ~late => ("unique_acq" \in u.paid =>
        locked /\ ~s.prevLocked /\ (s.uniqueCount = 0 \/ s.unlocked >= Cfg.minUnlocked))
  BY <1>2, <1>3, OnBeginIs
<1>8. late => /\ "unique_acq" \in u.paid => s.prevLocked /\ ~locked /\ s.pressed
              /\ u.pressed => \/ locked /\ (f.attack \/ (s.prevLocked /\ s.pressed))
                              \/ ~locked /\ ~s.prevLocked /\ s.pressed
  BY <1>1, <1>2, <1>3, OnReleaseIs
<1> HIDE DEF u
<1>9. /\ t.prevLocked = locked /\ t.unlocked = Count(~locked, s.unlocked)
      /\ t.uniqueCount = u.uniqueCount /\ t.pressed = u.pressed /\ t.paid = u.paid
  <2> DEFINE m == Count(~locked, u.unlocked)
  <2>1. t = [u EXCEPT !.unlocked = m, !.prevLocked = locked]
    BY <1>5
  <2> HIDE DEF m
  <2>2. /\ t.prevLocked = locked /\ t.unlocked = m
        /\ t.uniqueCount = u.uniqueCount /\ t.pressed = u.pressed /\ t.paid = u.paid
    BY <1>6, <2>1 DEF Shaped, Fields
  <2> QED
    BY <1>6, <2>2 DEF m
<1>10. "unique_acq" \in x <=> "unique_acq" \in u.paid
  BY <1>9
<1>11. /\ t.prevLocked \in BOOLEAN /\ (t.prevLocked <=> n + 1 \in Locked(r))
  BY <1>3, <1>9
<1>12. /\ t.uniqueCount \in Nat
       /\ PaidIn("unique_acq", d, 1 .. n + 1) => t.uniqueCount # 0
  <2>1. t.uniqueCount \in Nat
    BY <1>2, <1>6, <1>9
  <2>2. ASSUME NEW i \in 1 .. n + 1, "unique_acq" \in d[i] PROVE t.uniqueCount # 0
    <3>1. CASE i = n + 1
      <4>1. "unique_acq" \in x
        BY <2>2, <3>1 DEF Booked
      <4> QED
        BY <1>2, <1>6, <1>9, <1>10, <4>1
    <3>2. CASE i # n + 1
      <4>1. i \in 1 .. n
        BY <1>1, <3>2
      <4>2. "unique_acq" \in e[i]
        BY <2>2, <4>1 DEF Booked
      <4>3. s.uniqueCount # 0
        BY <1>2, <4>1, <4>2 DEF PaidIn
      <4> QED
        BY <1>2, <1>6, <1>9, <4>3
    <3> QED
      BY <3>1, <3>2
  <2> QED
    BY <2>1, <2>2 DEF PaidIn
<1>13. /\ t.unlocked \in 0 .. n + 1
       /\ Locked(r) \cap (n + 1 - t.unlocked + 1 .. n + 1) = {}
  <2>1. CASE locked
    <3>1. t.unlocked = 0
      BY <1>9, <2>1 DEF Count
    <3> QED
      BY <1>1, <3>1
  <2>2. CASE ~locked
    <3>1. t.unlocked = s.unlocked + 1
      BY <1>9, <2>2 DEF Count
    <3>2. ASSUME NEW i \in n + 1 - t.unlocked + 1 .. n + 1 PROVE i \notin Locked(r)
      <4>1. CASE i = n + 1
        BY <1>3, <2>2, <4>1
      <4>2. CASE i # n + 1
        <5>1. n + 1 - t.unlocked + 1 = n - s.unlocked + 1
          BY <1>1, <1>2, <3>1
        <5>2. i \in n - s.unlocked + 1 .. n /\ i \in 1 .. n
          <6>1. i \in n - s.unlocked + 1 .. n + 1
            BY <5>1
          <6> QED
            BY <1>1, <1>2, <4>2, <6>1
        <5> QED
          BY <1>2, <1>4, <5>2
      <4> QED
        BY <4>1, <4>2
    <3> QED
      BY <1>1, <1>2, <3>1, <3>2
  <2> QED
    BY <2>1, <2>2
<1>14. ASSUME late, s.pressed
       PROVE  \E i \in 1 .. n : r[i].attack /\ i .. n \subseteq Locked(r) /\ n \in Locked(q)
  <2>1. PICK i \in 1 .. n : q[i].attack /\ i .. n \subseteq Locked(q)
    BY <1>2, <1>14
  <2>2. n \in i .. n
    BY <1>1
  <2>3. r[i].attack
    BY <1>1, <2>1
  <2>4. i .. n \subseteq Locked(r)
    BY <1>4, <2>1
  <2> QED
    BY <2>1, <2>2, <2>3, <2>4
<1>15. ASSUME late, t.pressed
       PROVE  \E i \in 1 .. n + 1 : r[i].attack /\ i .. n + 1 \subseteq Locked(r)
  <2>1. locked /\ (f.attack \/ (s.prevLocked /\ s.pressed))
    <3>1. \/ locked /\ (f.attack \/ (s.prevLocked /\ s.pressed))
          \/ ~locked /\ ~s.prevLocked /\ s.pressed
      BY <1>8, <1>9, <1>15
    <3>2. s.pressed => s.prevLocked
      BY <1>2, <1>14, <1>15
    <3> QED
      BY <3>1, <3>2
  <2>2. n + 1 \in Locked(r)
    BY <1>3, <2>1
  <2>3. CASE f.attack
    <3>1. r[n + 1].attack /\ n + 1 \in 1 .. n + 1 /\ n + 1 .. n + 1 = {n + 1}
      BY <1>1, <2>3
    <3> QED
      BY <2>2, <3>1
  <2>4. CASE s.pressed
    <3>1. PICK i \in 1 .. n : r[i].attack /\ i .. n \subseteq Locked(r)
      BY <1>14, <1>15, <2>4
    <3>2. ASSUME NEW j \in i .. n + 1 PROVE j \in Locked(r)
      <4>1. j = n + 1 \/ j \in i .. n
        BY <1>1
      <4> QED
        BY <2>2, <3>1, <4>1
    <3>3. i \in 1 .. n + 1
      BY <1>1
    <3> QED
      BY <3>1, <3>2, <3>3
  <2> QED
    BY <2>1, <2>3, <2>4
<1>16. UniqueInv(t, r, d)
  <2>1. t.pressed \in BOOLEAN
    BY <1>6, <1>9
  <2> QED
    BY <1>1, <1>11, <1>12, <1>13, <1>15, <2>1 DEF UniqueInv
<1>17. ASSUME "unique_acq" \in x, late
       PROVE  /\ n \in Locked(r) /\ n + 1 \notin Locked(r)
              /\ \E i \in 1 .. n : r[i].attack /\ i .. n \subseteq Locked(r)
  <2>1. s.prevLocked /\ ~locked /\ s.pressed
    BY <1>8, <1>10, <1>17
  <2>2. n \in Locked(q)
    BY <1>2, <2>1
  <2> QED
    BY <1>3, <1>4, <1>14, <1>17, <2>1, <2>2
<1>18. ASSUME "unique_acq" \in x, ~late
       PROVE  /\ n + 1 \in Locked(r) /\ n \notin Locked(r)
              /\ PaidIn("unique_acq", d, 1 .. n) =>
                   Locked(r) \cap (n + 1 - Cfg.minUnlocked .. n) = {}
  <2>1. locked /\ ~s.prevLocked /\ (s.uniqueCount = 0 \/ s.unlocked >= Cfg.minUnlocked)
    BY <1>7, <1>10, <1>18
  <2>2. n + 1 \in Locked(r)
    BY <1>3, <2>1
  <2>3. n \notin Locked(r)
    <3>1. n = 0 \/ n \in 1 .. n
      BY <1>1
    <3> QED
      BY <1>2, <1>4, <2>1, <3>1
  <2>4. ASSUME PaidIn("unique_acq", d, 1 .. n),
               NEW i \in n + 1 - Cfg.minUnlocked .. n
        PROVE  i \notin Locked(r)
    <3>1. PaidIn("unique_acq", e, 1 .. n)
      BY <2>4, BookedIs
    <3>2. s.unlocked >= Cfg.minUnlocked
      BY <1>2, <2>1, <3>1
    <3>3. i \in n - s.unlocked + 1 .. n
      BY <1>1, <1>2, <3>2
    <3>4. i \in 1 .. n
      BY <1>1, <1>2, <3>3
    <3> QED
      BY <1>2, <1>4, <3>3, <3>4
  <2> QED
    BY <2>2, <2>3, <2>4
<1>19. TargetEarned(r, d)
  <2>1. Pays("unique_acq", d) <=> "unique_acq" \in x
    BY BookedIs
  <2>2. Len(r) - 1 = n /\ Len(r) - Cfg.minUnlocked = n + 1 - Cfg.minUnlocked
    <3> HIDE DEF n
    <3>1. n \in Nat /\ Len(r) = n + 1 /\ Cfg.minUnlocked \in Nat
      BY <1>1
    <3> QED
      BY <3>1
  <2> HIDE DEF n
  <2> QED
    BY <1>1, <1>17, <1>18, <2>1, <2>2 DEF TargetEarned
<1> QED
  BY <1>16, <1>19

-----------------------------------------------------------------------------
(* The two gates of the terminal                                           *)

\* The bits the closure keeps tell in which of the newest frames the agent
\* attacked a target it saw.
Tallied(h, q) ==
  /\ h \in Seq(BOOLEAN)
  /\ Len(h) = Least(Len(q), Cfg.attackWindow)
  /\ \A i \in 1 .. Len(h) : h[i] <=> Len(q) - Len(h) + i \in Engaged(q)

TallyInv(s, q) == "target_ui" \in mix /\ "verified" \in mix => Tallied(s.attacks, q)

Bit(x, f) == x \in BOOLEAN /\ (x <=> f.attack /\ f.target)

LEMMA TallyOn ==
  ASSUME NEW q, NEW f, NEW r, Grown(q, f, r), NEW h, Tallied(h, q), NEW x, Bit(x, f),
         NEW g, g = Keep(h, x, Cfg.attackWindow)
  PROVE  Tallied(g, r)
<1> DEFINE m == Cfg.attackWindow
           n == Len(q)
           B == BOOLEAN
<1>1. m \in Nat /\ n \in Nat /\ Len(r) = n + 1 /\ x \in B
  BY RewardsAssumption DEF Grown, Bit
<1>2. h \in Seq(B) /\ Len(h) = Least(n, m)
      /\ \A i \in 1 .. Len(h) : h[i] <=> n - Len(h) + i \in Engaged(q)
  BY DEF Tallied
<1> HIDE DEF m, n, B
<1>3. Len(h) <= m /\ Len(h) <= n /\ (Len(h) < m => Len(h) = n) /\ Len(h) \in Nat
  BY <1>1, <1>2 DEF Least
<1>4. /\ g \in Seq(B)
      /\ Len(g) = IF Len(h) < m THEN Len(h) + 1 ELSE m
      /\ Len(h) < m => /\ \A i \in 1 .. Len(h) : g[i] = h[i]
                       /\ g[Len(h) + 1] = x
      /\ Len(h) = m => /\ \A i \in 1 .. m - 1 : g[i] = h[i + 1]
                       /\ m > 0 => g[m] = x
  <2>1. g = Keep(h, x, m)
    BY DEF m
  <2>2. /\ Keep(h, x, m) \in Seq(B)
        /\ Len(Keep(h, x, m)) = IF Len(h) < m THEN Len(h) + 1 ELSE m
        /\ Len(h) < m => /\ \A i \in 1 .. Len(h) : Keep(h, x, m)[i] = h[i]
                         /\ Keep(h, x, m)[Len(h) + 1] = x
        /\ Len(h) = m => /\ \A i \in 1 .. m - 1 : Keep(h, x, m)[i] = h[i + 1]
                         /\ m > 0 => Keep(h, x, m)[m] = x
    <3>1. h \in Seq(B) /\ x \in B /\ m \in Nat /\ Len(h) <= m
      BY <1>1, <1>2, <1>3
    <3> QED
      BY <3>1, KeepIs
  <2> QED
    BY <2>1, <2>2
<1>5. /\ \A i \in 1 .. n : i \in Engaged(q) <=> i \in Engaged(r)
      /\ n + 1 \in Engaged(r) <=> x
  BY EngagedGrows DEF n, Bit
<1>6. Len(g) = Least(n + 1, m) /\ Len(g) \in Nat
  BY <1>1, <1>2, <1>3, <1>4 DEF Least
<1>7. ASSUME NEW i \in 1 .. Len(g) PROVE g[i] <=> n + 1 - Len(g) + i \in Engaged(r)
  <2>1. CASE Len(h) < m
    <3>1. Len(h) = n /\ Len(g) = n + 1 /\ n + 1 - Len(g) + i = i
      BY <1>1, <1>3, <1>4, <2>1
    <3>2. CASE i = n + 1
      BY <1>4, <1>5, <2>1, <3>1, <3>2
    <3>3. CASE i # n + 1
      <4>1. i \in 1 .. n /\ n - Len(h) + i = i
        BY <1>1, <3>1, <3>3
      <4>2. g[i] = h[i]
        BY <1>4, <2>1, <3>1, <4>1
      <4>3. h[i] <=> i \in Engaged(q)
        BY <1>2, <3>1, <4>1
      <4> QED
        BY <1>5, <3>1, <4>1, <4>2, <4>3
    <3> QED
      BY <3>2, <3>3
  <2>2. CASE Len(h) = m
    <3>1. Len(g) = m /\ n >= m /\ m > 0
      BY <1>1, <1>3, <1>4, <2>2
    <3>2. CASE i = m
      <4>1. n + 1 - Len(g) + i = n + 1
        BY <1>1, <3>1, <3>2
      <4>2. g[i] = x
        BY <1>4, <2>2, <3>1, <3>2
      <4> QED
        BY <1>5, <4>1, <4>2
    <3>3. CASE i # m
      <4>1. i \in 1 .. m - 1 /\ i + 1 \in 1 .. Len(h)
            /\ n + 1 - Len(g) + i = n - Len(h) + (i + 1)
            /\ n - Len(h) + (i + 1) \in 1 .. n
        BY <1>1, <2>2, <3>1, <3>3
      <4>2. g[i] = h[i + 1]
        BY <1>4, <2>2, <4>1
      <4>3. h[i + 1] <=> n - Len(h) + (i + 1) \in Engaged(q)
        BY <1>2, <4>1
      <4> QED
        BY <1>5, <4>1, <4>2, <4>3
    <3> QED
      BY <3>2, <3>3
  <2>3. Len(h) < m \/ Len(h) = m
    BY <1>1, <1>2, <1>3
  <2> QED
    BY <2>1, <2>2, <2>3
<1> QED
  <2>1. g \in Seq(BOOLEAN)
    BY <1>4 DEF B
  <2>2. Len(g) = Least(Len(r), Cfg.attackWindow)
    BY <1>1, <1>6 DEF m
  <2>3. \A i \in 1 .. Len(g) : g[i] <=> Len(r) - Len(g) + i \in Engaged(r)
    BY <1>1, <1>7
  <2> QED
    BY <2>1, <2>2, <2>3 DEF Tallied

\* As many bits are set as frames were attacked in.
LEMMA TallyCounts ==
  ASSUME NEW q, Len(q) \in Nat, NEW g, Tallied(g, q)
  PROVE  Cardinality({i \in DOMAIN g : g[i]})
           = Cardinality(Lately(q, Cfg.attackWindow) \cap Engaged(q))
<1> DEFINE m == Cfg.attackWindow
           n == Len(q)
           P == {i \in DOMAIN g : g[i]}
           T == Lately(q, m) \cap Engaged(q)
           z == n - Len(g)
           b == [i \in P |-> z + i]
<1>1. /\ m \in Nat /\ n \in Nat /\ Len(g) = Least(n, m)
      /\ DOMAIN g = 1 .. Len(g) /\ Len(g) \in Nat
      /\ \A i \in 1 .. Len(g) : g[i] <=> n - Len(g) + i \in Engaged(q)
      /\ Engaged(q) \subseteq 1 .. n
  <2>1. m \in Nat /\ n \in Nat
    BY RewardsAssumption
  <2>2. Engaged(q) \subseteq 1 .. n
    BY DEF Engaged
  <2>3. /\ g \in Seq(BOOLEAN) /\ Len(g) = Least(n, m)
        /\ \A i \in 1 .. Len(g) : g[i] <=> n - Len(g) + i \in Engaged(q)
    BY DEF Tallied
  <2>4. DOMAIN g = 1 .. Len(g) /\ Len(g) \in Nat
    BY <2>3
  <2> QED
    BY <2>1, <2>2, <2>3, <2>4
<1> HIDE DEF m, n
<1>2. z \in Nat /\ Lately(q, m) = z + 1 .. n /\ Len(g) = n - z
  <2>1. CASE n < m
    <3>1. Len(g) = n /\ z = 0 /\ n - m + 1 <= 1
      BY <1>1, <2>1 DEF Least
    <3>2. Most(1, n - m + 1) = 1
      BY <1>1, <2>1 DEF Most
    <3> QED
      BY <1>1, <3>1, <3>2 DEF Lately, n
  <2>2. CASE ~(n < m)
    <3>1. Len(g) = m /\ z = n - m
      BY <1>1, <2>2 DEF Least
    <3>2. Most(1, n - m + 1) = n - m + 1
      BY <1>1, <2>2 DEF Most
    <3> QED
      BY <1>1, <2>2, <3>1, <3>2 DEF Lately, n
  <2> QED
    BY <2>1, <2>2
<1>3. \A i \in 1 .. Len(g) : g[i] <=> z + i \in Engaged(q)
  BY <1>1
<1> HIDE DEF z
<1>4. IsFiniteSet(P)
  <2>1. IsFiniteSet(1 .. Len(g))
    BY <1>1, FS_Interval
  <2> QED
    BY <1>1, <2>1, FS_Subset
<1>5. b \in [P -> T]
  <2>1. ASSUME NEW i \in P PROVE z + i \in T
    BY <1>1, <1>2, <1>3
  <2> QED
    BY <2>1
<1>6. b \in Injection(P, T)
  <2>1. ASSUME NEW i \in P, NEW j \in P, b[i] = b[j] PROVE i = j
    BY <1>1, <1>2, <2>1
  <2> QED
    BY <1>5, <2>1 DEF Injection, IsInjective
<1>7. b \in Surjection(P, T)
  <2>1. ASSUME NEW j \in T PROVE \E i \in P : b[i] = j
    <3>1. j - z \in 1 .. Len(g) /\ z + (j - z) = j
      BY <1>1, <1>2
    <3>2. j - z \in P
      BY <1>1, <1>3, <3>1
    <3> QED
      BY <3>1, <3>2
  <2> QED
    BY <1>5, <2>1 DEF Surjection
<1>8. ExistsBijection(P, T)
  BY <1>6, <1>7 DEF ExistsBijection, Bijection
<1>9. Cardinality(T) = Cardinality(P)
  BY <1>4, <1>8, FS_Bijection
<1> QED
  BY <1>9 DEF m

LEMMA TerminalKeeps ==
  ASSUME NEW q, NEW f, NEW r, Grown(q, f, r), NEW e, NEW x, NEW d, Booked(q, e, x, d),
         NEW s, Shaped(s), SeesInv(s, r), TallyInv(s, q), "terminal" \notin s.paid,
         NEW t, t = Terminal(s, f), "terminal" \in x <=> "terminal" \in t.paid
  PROVE  TallyInv(t, r) /\ TerminalEarned(r, d)
<1>1. /\ Len(r) = Len(q) + 1 /\ Len(q) \in Nat /\ f \in Shot
      /\ f.attack \in BOOLEAN /\ f.target \in BOOLEAN
  BY DEF Grown, Shot
<1>2. s.streak >= Cfg.minHits <=> Len(r) \in Locked(r)
  BY <1>1, LockedGrows DEF SeesInv
<1>3. Pays("terminal", d) <=> "terminal" \in t.paid
  BY BookedIs
<1>4. CASE "target_ui" \notin mix
  BY <1>3, <1>4 DEF Terminal, TerminalEarned, TallyInv
<1>5. CASE "target_ui" \in mix /\ "verified" \notin mix
  <2>1. "terminal" \in t.paid <=>
          mix \cap {"unique", "unique_press"} = {} /\ s.streak >= Cfg.minHits
    BY <1>5 DEF Terminal, Pay, Shaped, Fields
  <2> QED
    BY <1>2, <1>3, <1>5, <2>1 DEF TerminalEarned, TallyInv
<1>6. CASE "target_ui" \in mix /\ "verified" \in mix
  <2> DEFINE engaged == f.attack /\ s.streak > 0
             g == Keep(s.attacks, engaged, Cfg.attackWindow)
             u == [s EXCEPT !.attacks = g]
             presses == {i \in DOMAIN u.attacks : u.attacks[i]}
             gates == u.streak >= Cfg.minHits /\ Cardinality(presses) >= Cfg.minAttacks
  <2>1. t = IF gates THEN Pay(u, "terminal") ELSE u
    BY <1>6 DEF Terminal
  <2>2. Bit(engaged, f)
    <3>1. s.streak > 0 <=> Len(r) \in Visible(r)
      BY <1>1, StreakTells
    <3> QED
      BY <1>1, <3>1, VisibleGrows DEF Bit
  <2> HIDE DEF engaged
  <2>3. Shaped(u) /\ u.attacks = g /\ u.streak = s.streak /\ u.paid = s.paid
    BY DEF Shaped, Fields
  <2> HIDE DEF u
  <2>4. Tallied(u.attacks, r)
    BY <1>6, <2>2, <2>3, TallyOn DEF TallyInv, g
  <2>5. Cardinality(presses)
          = Cardinality(Lately(r, Cfg.attackWindow) \cap Engaged(r))
    BY <1>1, <2>4, TallyCounts
  <2> HIDE DEF g, presses
  <2>6. gates <=> Len(r) \in Locked(r)
          /\ Cardinality(Lately(r, Cfg.attackWindow) \cap Engaged(r)) >= Cfg.minAttacks
    BY <1>2, <2>3, <2>5
  <2> HIDE DEF gates
  <2>7. t.attacks = u.attacks /\ ("terminal" \in t.paid <=> gates)
    BY <2>1, <2>3 DEF Pay, Shaped, Fields
  <2>8. TallyInv(t, r)
    BY <2>4, <2>7 DEF TallyInv
  <2> QED
    BY <1>3, <1>6, <2>6, <2>7, <2>8 DEF TerminalEarned
<1> QED
  BY <1>4, <1>5, <1>6

-----------------------------------------------------------------------------
(* Attacks, escapes and stagnation                                         *)

LEMMA LockedAttackPays ==
  ASSUME NEW q, NEW f, NEW r, Grown(q, f, r), NEW e, NEW x, NEW d, Booked(q, e, x, d),
         NEW s, SeesInv(s, q), "locked_attack" \notin s.paid,
         NEW t, t = LockedAttack(s, f), Shaped(s),
         "locked_attack" \in x => "locked_attack" \in t.paid
  PROVE  AttackEarned(r, d)
<1>1. Len(r) = Len(q) + 1 /\ Len(q) \in Nat /\ r[Len(q) + 1] = f
  BY DEF Grown
<1>2. ASSUME "locked_attack" \in x PROVE s.streak >= 1 /\ f.attack
  BY <1>2 DEF LockedAttack
<1>3. ASSUME "locked_attack" \in x PROVE Len(q) \in Visible(r)
  <2>1. Len(q) \in Visible(q)
    <3>1. s.streak \in Nat /\ (s.streak > 0 <=> Len(q) \in Visible(q))
      BY <1>1, StreakTells
    <3> QED
      BY <1>2, <1>3, <3>1
  <2> QED
    BY <2>1, VisibleGrows
<1>4. Len(r) - 1 = Len(q)
  BY <1>1
<1> QED
  BY <1>1, <1>2, <1>3, <1>4, BookedIs DEF AttackEarned

Applied(c, u, f, n) == IF c \in mix THEN Component(c, u, f, n) ELSE u

\* What escape remembers of the rollout: whether it has been paid for.
EscapeInv(s, q, e) ==
  /\ s.escapePaid \in BOOLEAN
  /\ s.escapePaid <=> PaidIn("escape", e, 1 .. Len(q))

LEMMA EscapeIs ==
  ASSUME NEW s, Shaped(s), s.escapePaid \in BOOLEAN,
         "escape" \notin s.paid, "escape_sustain" \notin s.paid,
         NEW f, NEW n \in Nat, NEW t, t = Applied("escape", s, f, n)
  PROVE  /\ t.escapePaid \in BOOLEAN
         /\ t.escapePaid <=> s.escapePaid \/ "escape" \in t.paid
         /\ "escape" \in t.paid => ~s.escapePaid /\ n >= Cfg.grace
         /\ "escape_sustain" \in t.paid => s.escapePaid
<1> DEFINE near == f.place = s.start
           early == n < Cfg.initialWindow
           a == s.nearStart + (IF early /\ near THEN 1 ELSE 0)
           b == s.startFrames + (IF early THEN 1 ELSE 0)
           u == [s EXCEPT !.nearStart = @ + (IF early /\ near THEN 1 ELSE 0),
                          !.startFrames = @ + (IF early THEN 1 ELSE 0)]
           v == [u EXCEPT !.escapePaid = TRUE]
<1>1. \/ t = s \/ t = u
      \/ t = Pay(u, "escape_sustain") /\ s.escapePaid
      \/ t = Pay(v, "escape") /\ ~s.escapePaid /\ n >= Cfg.grace
  <2>1. t = s \/ t = Escape(s, f, n)
    <3>1. Component("escape", s, f, n) = IF s.start = NoPlace THEN s ELSE Escape(s, f, n)
      BY DEF Component
    <3> QED
      BY <3>1 DEF Applied
  <2> QED
    BY <2>1 DEF Escape
<1>2. u = [s EXCEPT !.nearStart = a, !.startFrames = b]
  OBVIOUS
<1> HIDE DEF a, b, u
<1>3. Shaped(u) /\ u.escapePaid = s.escapePaid /\ u.paid = s.paid
  BY <1>2 DEF Shaped, Fields
<1>4. Shaped(v) /\ v.escapePaid = TRUE /\ v.paid = s.paid
  BY <1>3 DEF Shaped, Fields
<1> HIDE DEF v
<1>5. ASSUME NEW w, Shaped(w), NEW c
      PROVE  Pay(w, c).escapePaid = w.escapePaid /\ Pay(w, c).paid = w.paid \cup {c}
  BY <1>5 DEF Pay, Shaped, Fields
<1>6. CASE t = s \/ t = u
  <2>1. t.escapePaid = s.escapePaid /\ t.paid = s.paid
    BY <1>3, <1>6
  <2> QED
    BY <2>1
<1>7. CASE t = Pay(u, "escape_sustain") /\ s.escapePaid
  <2>4. t = Pay(u, "escape_sustain")
    BY <1>7
  <2>5. t.escapePaid = u.escapePaid /\ t.paid = u.paid \cup {"escape_sustain"}
    BY <1>3, <1>5, <2>4
  <2>1. t.escapePaid = s.escapePaid /\ t.paid = s.paid \cup {"escape_sustain"}
    BY <1>3, <2>5
  <2>2. "escape" \notin t.paid
    BY <2>1
  <2>3. t.escapePaid \in BOOLEAN /\ t.escapePaid
    BY <1>7, <2>1
  <2> QED
    BY <1>7, <2>2, <2>3
<1>8. CASE t = Pay(v, "escape") /\ ~s.escapePaid /\ n >= Cfg.grace
  <2>1. t.escapePaid = TRUE /\ t.paid = s.paid \cup {"escape"}
    BY <1>4, <1>5, <1>8
  <2> QED
    BY <1>8, <2>1
<1> QED
  BY <1>1, <1>6, <1>7, <1>8

LEMMA EscapeKeeps ==
  ASSUME NEW q, NEW f, NEW r, Grown(q, f, r), NEW e, NEW x, NEW d, Booked(q, e, x, d),
         NEW s, Shaped(s), EscapeInv(s, q, e),
         "escape" \notin s.paid, "escape_sustain" \notin s.paid,
         NEW t, t = Applied("escape", s, f, Len(q)), "escape" \in x <=> "escape" \in t.paid,
         "escape_sustain" \in x <=> "escape_sustain" \in t.paid
  PROVE  EscapeInv(t, r, d) /\ EscapeEarned(r, d)
<1> DEFINE n == Len(q)
<1>1. n \in Nat /\ Len(r) = n + 1 /\ Cfg.grace \in Nat
  BY RewardsAssumption DEF Grown
<1>2. s.escapePaid \in BOOLEAN /\ (s.escapePaid <=> PaidIn("escape", e, 1 .. n))
  BY DEF EscapeInv
<1>3. /\ t.escapePaid \in BOOLEAN /\ (t.escapePaid <=> s.escapePaid \/ "escape" \in x)
      /\ "escape" \in x => ~s.escapePaid /\ n >= Cfg.grace
      /\ "escape_sustain" \in x => s.escapePaid
  BY <1>1, <1>2, EscapeIs
<1>4. PaidIn("escape", d, 1 .. n) <=> s.escapePaid
  BY <1>2, BookedIs
<1>5. EscapeEarned(r, d)
  <2>1. (Pays("escape", d) <=> "escape" \in x)
        /\ (Pays("escape_sustain", d) <=> "escape_sustain" \in x)
    BY BookedIs
  <2>2. Len(r) - 1 = n /\ (n >= Cfg.grace => Len(r) > Cfg.grace)
    BY <1>1
  <2> HIDE DEF n
  <2> QED
    BY <1>3, <1>4, <2>1, <2>2 DEF EscapeEarned
<1>6. t.escapePaid <=> PaidIn("escape", d, 1 .. n + 1)
  <2>1. "escape" \in x <=> "escape" \in d[n + 1]
    BY DEF Booked
  <2>2. PaidIn("escape", d, 1 .. n + 1) <=> PaidIn("escape", d, 1 .. n) \/ "escape" \in d[n + 1]
    <3>1. \A i \in 1 .. n + 1 : i = n + 1 \/ i \in 1 .. n
      BY <1>1
    <3>2. n + 1 \in 1 .. n + 1 /\ \A i \in 1 .. n : i \in 1 .. n + 1
      BY <1>1
    <3> QED
      BY <3>1, <3>2 DEF PaidIn
  <2> QED
    BY <1>3, <1>4, <2>1, <2>2
<1> QED
  BY <1>1, <1>3, <1>5, <1>6 DEF EscapeInv

PinnedInv(h, streak, q) == Remembers(h, q) /\ streak = Row(Pinned(q), Len(q))

LEMMA PinnedOn ==
  ASSUME NEW q, NEW f, NEW r, Grown(q, f, r), NEW h, NEW c, PinnedInv(h, c, q)
  PROVE  LET g == Keep(h, f.place, Cfg.window + 1)
             ready == Len(q) >= Cfg.grace /\ Len(g) > Cfg.window
             z == Count(ready /\ g[1] = f.place, c)
         IN PinnedInv(g, z, r) /\ (z >= Cfg.minHits <=> Len(r) \in Stuck(r))
<1> DEFINE g == Keep(h, f.place, Cfg.window + 1)
           ready == Len(q) >= Cfg.grace /\ Len(g) > Cfg.window
           z == Count(ready /\ g[1] = f.place, c)
           n == Len(q)
<1>1. Remembers(h, q) /\ c = Row(Pinned(q), n)
  BY DEF PinnedInv
<1>2. /\ Remembers(g, r)
      /\ Len(g) > Cfg.window <=> n >= Cfg.window
      /\ Len(g) > Cfg.window => g[1] = r[n + 1 - Cfg.window].place
  BY <1>1, RemembersOn
<1>3. /\ 0 \notin Pinned(q) /\ 0 \notin Pinned(r)
      /\ \A i \in 1 .. n : i \in Pinned(q) <=> i \in Pinned(r)
      /\ n + 1 \in Pinned(r) <=>
           n >= Cfg.window /\ n >= Cfg.grace /\ f.place = r[n + 1 - Cfg.window].place
  BY PinnedGrows
<1>4. n \in Nat /\ Len(r) = n + 1
  BY DEF Grown
<1> HIDE DEF n, g
<1>5. (ready /\ g[1] = f.place) <=> n + 1 \in Pinned(r)
  BY <1>2, <1>3 DEF n
<1> HIDE DEF ready
<1>6. Row(Pinned(r), n + 1) = Count(n + 1 \in Pinned(r), Row(Pinned(q), n))
  BY <1>3, <1>4, RowCounts
<1>7. z = Row(Pinned(r), n + 1)
  BY <1>1, <1>5, <1>6 DEF Count
<1> HIDE DEF z
<1>8. n + 1 \in Stuck(r) <=> Row(Pinned(r), n + 1) >= Cfg.minHits
  BY StuckGrows DEF n
<1>9. PinnedInv(g, z, r) /\ (z >= Cfg.minHits <=> Len(r) \in Stuck(r))
  BY <1>2, <1>4, <1>7, <1>8 DEF PinnedInv
<1> QED
  BY <1>9 DEF z, ready, g

SlidingEarned(q, e) == Pays("slide_stag", e) <=> Len(q) \in Stuck(q)
UnstuckEarned(q, e) == Pays("unstuck", e) <=> Len(q) \notin Stuck(q) /\ Stuck(q) # {}
PngEarned(q, e) == Pays("png_pen", e) <=> Row(Penalised(q), Len(q)) >= Cfg.minHits

LEMMA SlidingKeeps ==
  ASSUME NEW q, NEW f, NEW r, Grown(q, f, r), NEW e, NEW x, NEW d, Booked(q, e, x, d),
         NEW s, Shaped(s), PinnedInv(s.slideLatents, s.slideStreak, q),
         "slide_stag" \notin s.paid, NEW t, t = SlidingStagnation(s, f, Len(q)),
         "slide_stag" \in x <=> "slide_stag" \in t.paid
  PROVE  PinnedInv(t.slideLatents, t.slideStreak, r) /\ SlidingEarned(r, d)
<1> DEFINE g == Keep(s.slideLatents, f.place, Cfg.window + 1)
           ready == Len(q) >= Cfg.grace /\ Len(g) > Cfg.window
           z == Count(ready /\ g[1] = f.place, s.slideStreak)
           u == [s EXCEPT !.slideLatents = g, !.slideStreak = z]
<1>1. PinnedInv(g, z, r) /\ (z >= Cfg.minHits <=> Len(r) \in Stuck(r))
  BY PinnedOn
<1>2. t = IF z >= Cfg.minHits THEN Pay(u, "slide_stag") ELSE u
  BY DEF SlidingStagnation
<1> HIDE DEF z, g
<1>3. t.slideLatents = g /\ t.slideStreak = z /\ ("slide_stag" \in t.paid <=> z >= Cfg.minHits)
  BY <1>2 DEF Pay, Shaped, Fields
<1>4. PinnedInv(t.slideLatents, t.slideStreak, r)
  BY <1>1, <1>3
<1> QED
  BY <1>1, <1>3, <1>4, BookedIs DEF SlidingEarned

\* Unstuck also remembers whether the rollout has been stuck.
UnstuckInv(s, q) ==
  /\ PinnedInv(s.unstuckLatents, s.unstuckStreak, q)
  /\ s.beenStuck \in BOOLEAN /\ (s.beenStuck <=> Stuck(q) # {})

LEMMA UnstuckKeeps ==
  ASSUME NEW q, NEW f, NEW r, Grown(q, f, r), NEW e, NEW x, NEW d, Booked(q, e, x, d),
         NEW s, Shaped(s), UnstuckInv(s, q),
         "unstuck" \notin s.paid, NEW t, t = Unstuck(s, f, Len(q)),
         "unstuck" \in x <=> "unstuck" \in t.paid
  PROVE  UnstuckInv(t, r) /\ UnstuckEarned(r, d)
<1> DEFINE n == Len(q)
           g == Keep(s.unstuckLatents, f.place, Cfg.window + 1)
           ready == n >= Cfg.grace /\ Len(g) > Cfg.window
           z == Count(ready /\ g[1] = f.place, s.unstuckStreak)
           c == Count(g[1] = f.place, s.unstuckStreak)
           v == [s EXCEPT !.unstuckLatents = g]
           u == [v EXCEPT !.unstuckStreak = c]
<1>1. PinnedInv(g, z, r) /\ (z >= Cfg.minHits <=> Len(r) \in Stuck(r))
  BY PinnedOn DEF UnstuckInv
<1>2. /\ n \in Nat /\ Len(r) = n + 1 /\ Cfg.window \in Nat /\ Cfg.grace \in Nat
      /\ Cfg.minHits \in Nat \ {0} /\ Len(g) \in Nat
      /\ Len(g) > Cfg.window <=> n >= Cfg.window
  <2>1. Remembers(s.unstuckLatents, q)
    BY DEF UnstuckInv, PinnedInv
  <2>2. Remembers(g, r) /\ (Len(g) > Cfg.window <=> n >= Cfg.window)
    BY <2>1, RemembersOn
  <2>3. Len(g) \in Nat
    BY <2>2 DEF Remembers
  <2> QED
    BY <2>2, <2>3, RewardsAssumption DEF Grown
<1>3. t = IF n < Cfg.grace \/ Len(g) <= Cfg.window THEN v
          ELSE IF c >= Cfg.minHits THEN [u EXCEPT !.beenStuck = TRUE]
          ELSE IF s.beenStuck THEN Pay(u, "unstuck") ELSE u
  <2>1. v.unstuckStreak = s.unstuckStreak
    BY DEF Shaped, Fields
  <2> QED
    BY DEF Unstuck
<1>4. /\ s.beenStuck \in BOOLEAN /\ (s.beenStuck <=> Stuck(q) # {})
      /\ s.unstuckStreak = Row(Pinned(q), n)
  BY DEF UnstuckInv, PinnedInv
<1>5. Stuck(r) # {} <=> Stuck(q) # {} \/ n + 1 \in Stuck(r)
  <2>1. /\ Stuck(q) \subseteq 1 .. n /\ Stuck(r) \subseteq 1 .. n + 1
        /\ \A i \in 1 .. n : i \in Stuck(q) <=> i \in Stuck(r)
    BY StuckGrows
  <2>2. ASSUME Stuck(r) # {}, n + 1 \notin Stuck(r) PROVE Stuck(q) # {}
    <3>1. PICK i \in Stuck(r) : TRUE
      BY <2>2
    <3>2. i \in 1 .. n
      BY <1>2, <2>1, <2>2
    <3> QED
      BY <2>1, <3>2
  <2> QED
    BY <2>1, <2>2
<1>6. (n < Cfg.grace \/ Len(g) <= Cfg.window) <=> ~ready
  BY <1>2
<1> HIDE DEF g
<1>7. v.unstuckLatents = g /\ v.unstuckStreak = s.unstuckStreak
      /\ v.beenStuck = s.beenStuck /\ v.paid = s.paid /\ Shaped(v)
  BY DEF Shaped, Fields
<1> HIDE DEF v, c
<1>8. u.unstuckLatents = g /\ u.unstuckStreak = c
      /\ u.beenStuck = s.beenStuck /\ u.paid = s.paid /\ Shaped(u)
  BY <1>7 DEF Shaped, Fields
<1> HIDE DEF u
<1>9. Pays("unstuck", d) <=> "unstuck" \in t.paid
  BY BookedIs
<1>10. CASE ~ready
  <2>1. n \notin Pinned(q) /\ Stuck(q) = {}
    <3>1. n < Cfg.grace \/ n < Cfg.window
      BY <1>2, <1>10
    <3>2. Pinned(q) = {}
      BY <1>2, <3>1 DEF Pinned
    <3>3. 0 \notin Pinned(q)
      BY <3>2
    <3>4. ASSUME NEW i \in Nat PROVE Row(Pinned(q), i) = 0
      <4>1. Row(Pinned(q), i) \in Nat /\ (Row(Pinned(q), i) > 0 <=> i \in Pinned(q))
        BY <3>3, RowAhead
      <4> QED
        BY <3>2, <4>1
    <3> QED
      BY <1>2, <3>2, <3>4 DEF Stuck
  <2>2. 0 \notin Pinned(q)
    BY DEF Pinned
  <2>3. s.unstuckStreak = 0
    BY <1>2, <1>4, <2>1, <2>2, RowAhead
  <2>4. z = 0
    BY <1>10 DEF Count
  <2>5. t = v
    BY <1>3, <1>6, <1>10
  <2>6. PinnedInv(t.unstuckLatents, t.unstuckStreak, r)
    BY <1>1, <1>7, <2>3, <2>4, <2>5
  <2>7. n + 1 \notin Stuck(r)
    BY <1>1, <1>2, <2>4
  <2> HIDE DEF z
  <2> QED
    BY <1>2, <1>4, <1>5, <1>7, <1>9, <2>1, <2>5, <2>6, <2>7 DEF UnstuckInv, UnstuckEarned
<1>11. CASE ready
  <2>1. z = c
    BY <1>11 DEF Count, c
  <2> HIDE DEF z
  <2>2. CASE c >= Cfg.minHits
    <3>1. t = [u EXCEPT !.beenStuck = TRUE]
      BY <1>3, <1>6, <1>11, <2>2
    <3>2. t.unstuckLatents = g /\ t.unstuckStreak = c /\ t.beenStuck = TRUE /\ t.paid = s.paid
      BY <1>8, <3>1 DEF Shaped, Fields
    <3>3. n + 1 \in Stuck(r)
      BY <1>1, <1>2, <2>1, <2>2
    <3>4. PinnedInv(t.unstuckLatents, t.unstuckStreak, r)
      BY <1>1, <2>1, <3>2
    <3> QED
      BY <1>2, <1>5, <1>9, <3>2, <3>3, <3>4 DEF UnstuckInv, UnstuckEarned
  <2>3. CASE ~(c >= Cfg.minHits)
    <3>1. t = IF s.beenStuck THEN Pay(u, "unstuck") ELSE u
      BY <1>3, <1>6, <1>11, <2>3
    <3>2. t.unstuckLatents = g /\ t.unstuckStreak = c /\ t.beenStuck = s.beenStuck
          /\ ("unstuck" \in t.paid <=> s.beenStuck)
      <4>1. CASE s.beenStuck
        <5>1. t = [u EXCEPT !.paid = @ \cup {"unstuck"}]
          BY <3>1, <4>1 DEF Pay
        <5>2. t.unstuckLatents = g /\ t.unstuckStreak = c /\ t.beenStuck = s.beenStuck
              /\ t.paid = s.paid \cup {"unstuck"}
          BY <1>8, <5>1 DEF Shaped, Fields
        <5> QED
          BY <4>1, <5>2
      <4>2. CASE ~s.beenStuck
        BY <1>8, <3>1, <4>2
      <4> QED
        BY <4>1, <4>2
    <3>3. n + 1 \notin Stuck(r)
      BY <1>1, <1>2, <2>1, <2>3
    <3>4. PinnedInv(t.unstuckLatents, t.unstuckStreak, r)
      BY <1>1, <2>1, <3>2
    <3> QED
      BY <1>2, <1>4, <1>5, <1>9, <3>2, <3>3, <3>4 DEF UnstuckInv, UnstuckEarned
  <2> QED
    BY <2>2, <2>3
<1> QED
  BY <1>10, <1>11

PngInv(s, q) == s.penaltyStreak = Row(Penalised(q), Len(q))

LEMMA PngKeeps ==
  ASSUME NEW q, NEW f, NEW r, Grown(q, f, r), NEW e, NEW x, NEW d, Booked(q, e, x, d),
         NEW s, Shaped(s), PngInv(s, q),
         "png_pen" \notin s.paid, NEW t, t = PngPenalty(s, f),
         "png_pen" \in x <=> "png_pen" \in t.paid
  PROVE  PngInv(t, r) /\ PngEarned(r, d)
<1> DEFINE n == Len(q)
           c == Count(f.place = BadPlace, s.penaltyStreak)
           u == [s EXCEPT !.penaltyStreak = c]
<1>1. n \in Nat /\ Len(r) = n + 1
  BY DEF Grown
<1>2. Row(Penalised(r), n + 1) = c
  <2>1. /\ 0 \notin Penalised(q) /\ 0 \notin Penalised(r)
        /\ \A i \in 1 .. n : i \in Penalised(q) <=> i \in Penalised(r)
        /\ n + 1 \in Penalised(r) <=> f.place = BadPlace
    BY PenalisedGrows
  <2> HIDE DEF n
  <2>2. Row(Penalised(r), n + 1) = Count(n + 1 \in Penalised(r), Row(Penalised(q), n))
    BY <1>1, <2>1, RowCounts
  <2> QED
    BY <2>1, <2>2 DEF PngInv, Count, n
<1> HIDE DEF n
<1>3. t = IF u.penaltyStreak >= Cfg.minHits THEN Pay(u, "png_pen") ELSE u
  <2>1. u = [s EXCEPT !.penaltyStreak = Count(f.place = BadPlace, @)]
    OBVIOUS
  <2> HIDE DEF u
  <2> QED
    BY <2>1 DEF PngPenalty
<1> HIDE DEF c
<1>4. u.penaltyStreak = c /\ u.paid = s.paid /\ Shaped(u)
  BY DEF Shaped, Fields
<1> HIDE DEF u
<1>5. t.penaltyStreak = c /\ ("png_pen" \in t.paid <=> c >= Cfg.minHits)
  BY <1>3, <1>4 DEF Pay, Shaped, Fields
<1> QED
  BY <1>1, <1>2, <1>5, BookedIs DEF PngInv, PngEarned

-----------------------------------------------------------------------------
(* The components, one after the other                                     *)

\* The shaper before and after each component.
Stages(w, s, f, n) ==
  /\ w[0] = [s EXCEPT !.paid = {}]
  /\ \A i \in 1 .. 11 : w[i] = Applied(Order[i], w[i - 1], f, n)

LEMMA ComputeRewardIs ==
  ASSUME NEW s, NEW f, NEW n
  PROVE  \E w : Stages(w, s, f, n) /\ ComputeReward(s, f, n) = w[11]
<1> DEFINE w0 == [s EXCEPT !.paid = {}]
           w1 == Applied("progress", w0, f, n)
           w2 == Applied("stuck_forward", w1, f, n)
           w3 == Applied("stuck_stagnation", w2, f, n)
           w4 == Applied("locked_attack", w3, f, n)
           w5 == Applied("target_ui", w4, f, n)
           w6 == Applied("escape", w5, f, n)
           w7 == Applied("sliding", w6, f, n)
           w8 == Applied("unstuck", w7, f, n)
           w9 == Applied("unique", w8, f, n)
           w10 == Applied("unique_press", w9, f, n)
           w11 == Applied("png", w10, f, n)
           W(i) == CASE i = 0 -> w0 [] i = 1 -> w1 [] i = 2 -> w2 [] i = 3 -> w3
                     [] i = 4 -> w4 [] i = 5 -> w5 [] i = 6 -> w6 [] i = 7 -> w7
                     [] i = 8 -> w8 [] i = 9 -> w9 [] i = 10 -> w10 [] i = 11 -> w11
           g == [i \in 0 .. Len(Order) |-> W(i)]
           Is(h) == h = [i \in 0 .. Len(Order) |->
                          IF i = 0 THEN w0
                          ELSE IF Order[i] \in mix
                          THEN Component(Order[i], h[i - 1], f, n) ELSE h[i - 1]]
<1>1. /\ Len(Order) = 11 /\ Order[1] = "progress" /\ Order[2] = "stuck_forward"
      /\ Order[3] = "stuck_stagnation" /\ Order[4] = "locked_attack"
      /\ Order[5] = "target_ui" /\ Order[6] = "escape" /\ Order[7] = "sliding"
      /\ Order[8] = "unstuck" /\ Order[9] = "unique" /\ Order[10] = "unique_press"
      /\ Order[11] = "png"
  BY DEF Order
<1>2. ComputeReward(s, f, n) = (CHOOSE h : Is(h))[11]
  BY <1>1 DEF ComputeReward
<1> HIDE DEF w0, w1, w2, w3, w4, w5, w6, w7, w8, w9, w10, w11
<1>3. Is(g)
  <2>1. ASSUME NEW i \in 0 .. 11, i # 0
        PROVE  W(i) = Applied(Order[i], W(i - 1), f, n)
    <3>1. CASE i = 1
      <4>1. i - 1 = 0 /\ W(1) = w1 /\ W(0) = w0
        BY <3>1
      <4> QED
        BY <1>1, <3>1, <4>1 DEF w1
    <3>2. CASE i = 2
      <4>1. i - 1 = 1 /\ W(2) = w2 /\ W(1) = w1
        BY <3>2
      <4> QED
        BY <1>1, <3>2, <4>1 DEF w2
    <3>3. CASE i = 3
      <4>1. i - 1 = 2 /\ W(3) = w3 /\ W(2) = w2
        BY <3>3
      <4> QED
        BY <1>1, <3>3, <4>1 DEF w3
    <3>4. CASE i = 4
      <4>1. i - 1 = 3 /\ W(4) = w4 /\ W(3) = w3
        BY <3>4
      <4> QED
        BY <1>1, <3>4, <4>1 DEF w4
    <3>5. CASE i = 5
      <4>1. i - 1 = 4 /\ W(5) = w5 /\ W(4) = w4
        BY <3>5
      <4> QED
        BY <1>1, <3>5, <4>1 DEF w5
    <3>6. CASE i = 6
      <4>1. i - 1 = 5 /\ W(6) = w6 /\ W(5) = w5
        BY <3>6
      <4> QED
        BY <1>1, <3>6, <4>1 DEF w6
    <3>7. CASE i = 7
      <4>1. i - 1 = 6 /\ W(7) = w7 /\ W(6) = w6
        BY <3>7
      <4> QED
        BY <1>1, <3>7, <4>1 DEF w7
    <3>8. CASE i = 8
      <4>1. i - 1 = 7 /\ W(8) = w8 /\ W(7) = w7
        BY <3>8
      <4> QED
        BY <1>1, <3>8, <4>1 DEF w8
    <3>9. CASE i = 9
      <4>1. i - 1 = 8 /\ W(9) = w9 /\ W(8) = w8
        BY <3>9
      <4> QED
        BY <1>1, <3>9, <4>1 DEF w9
    <3>10. CASE i = 10
      <4>1. i - 1 = 9 /\ W(10) = w10 /\ W(9) = w9
        BY <3>10
      <4> QED
        BY <1>1, <3>10, <4>1 DEF w10
    <3>11. CASE i = 11
      <4>1. i - 1 = 10 /\ W(11) = w11 /\ W(10) = w10
        BY <3>11
      <4> QED
        BY <1>1, <3>11, <4>1 DEF w11
    <3>12. i \in 1 .. 11
      BY <2>1
    <3> QED
      BY <3>1, <3>2, <3>3, <3>4, <3>5, <3>6, <3>7, <3>8, <3>9, <3>10, <3>11, <3>12
  <2>2. W(0) = w0
    OBVIOUS
  <2> HIDE DEF W
  <2>3. ASSUME NEW i \in 0 .. 11
        PROVE  g[i] = IF i = 0 THEN w0
                      ELSE IF Order[i] \in mix
                      THEN Component(Order[i], g[i - 1], f, n) ELSE g[i - 1]
    <3>1. g[i] = W(i) /\ (i # 0 => g[i - 1] = W(i - 1))
      BY <1>1
    <3> HIDE DEF g
    <3> QED
      BY <2>1, <2>2, <3>1 DEF Applied
  <2>4. g = [i \in 0 .. Len(Order) |-> g[i]]
    OBVIOUS
  <2> HIDE DEF g
  <2> QED
    BY <1>1, <2>3, <2>4
<1> DEFINE h == CHOOSE h : Is(h)
<1>4. Is(h)
  BY <1>3
<1> HIDE DEF h, g, W
<1>5. h[0] = w0 /\ \A i \in 1 .. 11 : h[i] = Applied(Order[i], h[i - 1], f, n)
  <2>1. h[0] = w0
    BY <1>1, <1>4
  <2>2. ASSUME NEW i \in 1 .. 11 PROVE h[i] = Applied(Order[i], h[i - 1], f, n)
    <3>1. i \in 0 .. Len(Order) /\ i # 0
      BY <1>1
    <3> QED
      BY <1>4, <3>1 DEF Applied
  <2> QED
    BY <2>1, <2>2
<1> HIDE DEF Is
<1> QED
  BY <1>2, <1>5 DEF Stages, h, w0

LEMMA ComponentIs ==
  ASSUME NEW s, NEW f, NEW n
  PROVE  /\ Component("progress", s, f, n) = Progress(s, f)
         /\ Component("stuck_forward", s, f, n) = StuckForward(s, f)
         /\ Component("stuck_stagnation", s, f, n) = StuckStagnation(s, f)
         /\ Component("locked_attack", s, f, n) = LockedAttack(s, f)
         /\ Component("target_ui", s, f, n) = TargetUI(s, f)
         /\ Component("escape", s, f, n) \in {s, Escape(s, f, n)}
         /\ Component("sliding", s, f, n) = SlidingStagnation(s, f, n)
         /\ Component("unstuck", s, f, n) = Unstuck(s, f, n)
         /\ Component("unique", s, f, n) = UniqueAcquisition(s, f, FALSE)
         /\ Component("unique_press", s, f, n) = UniqueAcquisition(s, f, TRUE)
         /\ Component("png", s, f, n) = PngPenalty(s, f)
<1>1. /\ Component("progress", s, f, n) = Progress(s, f)
      /\ Component("stuck_forward", s, f, n) = StuckForward(s, f)
      /\ Component("stuck_stagnation", s, f, n) = StuckStagnation(s, f)
      /\ Component("locked_attack", s, f, n) = LockedAttack(s, f)
      /\ Component("target_ui", s, f, n) = TargetUI(s, f)
      /\ Component("escape", s, f, n) \in {s, Escape(s, f, n)}
      /\ Component("sliding", s, f, n) = SlidingStagnation(s, f, n)
      /\ Component("unstuck", s, f, n) = Unstuck(s, f, n)
      /\ Component("png", s, f, n) = PngPenalty(s, f)
  BY DEF Component
<1>2. Component("unique", s, f, n) = UniqueAcquisition(s, f, FALSE)
  <2>1. ("unique" = "unique_press") = FALSE
    OBVIOUS
  <2>2. Component("unique", s, f, n) = UniqueAcquisition(s, f, "unique" = "unique_press")
    BY DEF Component
  <2> QED
    BY <2>1, <2>2
<1>3. Component("unique_press", s, f, n) = UniqueAcquisition(s, f, TRUE)
  <2>1. ("unique_press" = "unique_press") = TRUE
    OBVIOUS
  <2>2. Component("unique_press", s, f, n)
          = UniqueAcquisition(s, f, "unique_press" = "unique_press")
    BY DEF Component
  <2> QED
    BY <2>1, <2>2
<1> QED
  BY <1>1, <1>2, <1>3

\* What a component touches and what it pays for.
StepAlters(c, s, t, own, labels) ==
  /\ Alters(s, t, own) /\ PaysAlike(s, t, labels)
  /\ c \notin mix => t = s

LEMMA StepsAlter ==
  ASSUME NEW s, Shaped(s), NEW f, NEW n
  PROVE  /\ StepAlters("progress", s, Applied("progress", s, f, n),
                       {"forward", "paid"}, {"progress"})
         /\ StepAlters("stuck_forward", s, Applied("stuck_forward", s, f, n),
                       {"stuckForward", "turn", "paid"}, {"stuck_turn"})
         /\ StepAlters("stuck_stagnation", s, Applied("stuck_stagnation", s, f, n),
              {"latents", "stagnant", "pending", "pendingAge", "turn", "paid"}, {"stuck_turn"})
         /\ StepAlters("locked_attack", s, Applied("locked_attack", s, f, n),
                       {"paid"}, {"locked_attack"})
         /\ StepAlters("target_ui", s, Applied("target_ui", s, f, n),
                       {"streak", "paid"}, {"target_ui"})
         /\ StepAlters("escape", s, Applied("escape", s, f, n),
              {"escapePaid", "nearStart", "startFrames", "paid"}, {"escape", "escape_sustain"})
         /\ StepAlters("sliding", s, Applied("sliding", s, f, n),
                       {"slideLatents", "slideStreak", "paid"}, {"slide_stag"})
         /\ StepAlters("unstuck", s, Applied("unstuck", s, f, n),
              {"unstuckLatents", "unstuckStreak", "beenStuck", "paid"}, {"unstuck"})
         /\ StepAlters("unique", s, Applied("unique", s, f, n), UniqueFields, {"unique_acq"})
         /\ StepAlters("unique_press", s, Applied("unique_press", s, f, n),
                       UniqueFields, {"unique_acq"})
         /\ StepAlters("png", s, Applied("png", s, f, n), {"penaltyStreak", "paid"}, {"png_pen"})
<1>1. ASSUME NEW own, NEW labels, NEW c, NEW t,
             Alters(s, t, own) /\ PaysAlike(s, t, labels), Component(c, s, f, n) = t
      PROVE  StepAlters(c, s, Applied(c, s, f, n), own, labels)
  <2>1. CASE c \in mix
    BY <1>1, <2>1 DEF Applied, StepAlters
  <2>2. CASE c \notin mix
    BY <2>2 DEF Applied, StepAlters, Alters, PaysAlike
  <2> QED
    BY <2>1, <2>2
<1>12. /\ Component("progress", s, f, n) = Progress(s, f)
       /\ Component("stuck_forward", s, f, n) = StuckForward(s, f)
       /\ Component("stuck_stagnation", s, f, n) = StuckStagnation(s, f)
       /\ Component("locked_attack", s, f, n) = LockedAttack(s, f)
       /\ Component("target_ui", s, f, n) = TargetUI(s, f)
  BY ComponentIs
<1>2. StepAlters("progress", s, Applied("progress", s, f, n), {"forward", "paid"}, {"progress"})
  BY <1>1, <1>12, ProgressAlters
<1>3. StepAlters("stuck_forward", s, Applied("stuck_forward", s, f, n),
                 {"stuckForward", "turn", "paid"}, {"stuck_turn"})
  BY <1>1, <1>12, StuckForwardAlters
<1>4. StepAlters("stuck_stagnation", s, Applied("stuck_stagnation", s, f, n),
        {"latents", "stagnant", "pending", "pendingAge", "turn", "paid"}, {"stuck_turn"})
  <2>1. /\ Alters(s, StuckStagnation(s, f),
                  {"latents", "stagnant", "pending", "pendingAge", "turn", "paid"})
        /\ PaysAlike(s, StuckStagnation(s, f), {"stuck_turn"})
    BY StuckStagnationIs
  <2> QED
    BY <1>1, <2>1, <1>12
<1>5. StepAlters("locked_attack", s, Applied("locked_attack", s, f, n),
                 {"paid"}, {"locked_attack"})
  BY <1>1, <1>12, LockedAttackAlters
<1>6. StepAlters("target_ui", s, Applied("target_ui", s, f, n),
                 {"streak", "paid"}, {"target_ui"})
  BY <1>1, <1>12, TargetUIAlters
<1>7. StepAlters("escape", s, Applied("escape", s, f, n),
        {"escapePaid", "nearStart", "startFrames", "paid"}, {"escape", "escape_sustain"})
  <2>1. Component("escape", s, f, n) \in {s, Escape(s, f, n)}
    BY ComponentIs
  <2>2. /\ Alters(s, Escape(s, f, n), {"escapePaid", "nearStart", "startFrames", "paid"})
        /\ PaysAlike(s, Escape(s, f, n), {"escape", "escape_sustain"})
    BY EscapeAlters
  <2>3. /\ Alters(s, s, {"escapePaid", "nearStart", "startFrames", "paid"})
        /\ PaysAlike(s, s, {"escape", "escape_sustain"})
    BY DEF Alters, PaysAlike
  <2> QED
    BY <1>1, <2>1, <2>2, <2>3
<1>8. StepAlters("sliding", s, Applied("sliding", s, f, n),
                 {"slideLatents", "slideStreak", "paid"}, {"slide_stag"})
  <2>1. Component("sliding", s, f, n) = SlidingStagnation(s, f, n)
    BY ComponentIs
  <2>2. /\ Alters(s, SlidingStagnation(s, f, n), {"slideLatents", "slideStreak", "paid"})
        /\ PaysAlike(s, SlidingStagnation(s, f, n), {"slide_stag"})
    BY SlidingAlters
  <2> QED
    BY <1>1, <2>1, <2>2
<1>9. StepAlters("unstuck", s, Applied("unstuck", s, f, n),
        {"unstuckLatents", "unstuckStreak", "beenStuck", "paid"}, {"unstuck"})
  <2>1. Component("unstuck", s, f, n) = Unstuck(s, f, n)
    BY ComponentIs
  <2>2. /\ Alters(s, Unstuck(s, f, n), {"unstuckLatents", "unstuckStreak", "beenStuck", "paid"})
        /\ PaysAlike(s, Unstuck(s, f, n), {"unstuck"})
    BY UnstuckAlters
  <2> QED
    BY <1>1, <2>1, <2>2
<1>10. /\ StepAlters("unique", s, Applied("unique", s, f, n), UniqueFields, {"unique_acq"})
       /\ StepAlters("unique_press", s, Applied("unique_press", s, f, n),
                     UniqueFields, {"unique_acq"})
  <2>1. ASSUME NEW late
        PROVE  /\ Alters(s, UniqueAcquisition(s, f, late), UniqueFields)
               /\ PaysAlike(s, UniqueAcquisition(s, f, late), {"unique_acq"})
    BY UniqueAlters
  <2>2. /\ Component("unique", s, f, n) = UniqueAcquisition(s, f, FALSE)
        /\ Component("unique_press", s, f, n) = UniqueAcquisition(s, f, TRUE)
    BY ComponentIs
  <2>3. StepAlters("unique", s, Applied("unique", s, f, n), UniqueFields, {"unique_acq"})
    <3>1. /\ Alters(s, UniqueAcquisition(s, f, FALSE), UniqueFields)
          /\ PaysAlike(s, UniqueAcquisition(s, f, FALSE), {"unique_acq"})
      BY <2>1
    <3> QED
      BY <1>1, <2>2, <3>1
  <2>4. StepAlters("unique_press", s, Applied("unique_press", s, f, n),
                   UniqueFields, {"unique_acq"})
    <3>1. /\ Alters(s, UniqueAcquisition(s, f, TRUE), UniqueFields)
          /\ PaysAlike(s, UniqueAcquisition(s, f, TRUE), {"unique_acq"})
      BY <2>1
    <3> QED
      BY <1>1, <2>2, <3>1
  <2> QED
    BY <2>3, <2>4
<1>11. StepAlters("png", s, Applied("png", s, f, n), {"penaltyStreak", "paid"}, {"png_pen"})
  <2>1. Component("png", s, f, n) = PngPenalty(s, f)
    BY ComponentIs
  <2>2. /\ Alters(s, PngPenalty(s, f), {"penaltyStreak", "paid"})
        /\ PaysAlike(s, PngPenalty(s, f), {"png_pen"})
    BY PngAlters
  <2> QED
    BY <1>1, <2>1, <2>2
<1> QED
  BY <1>2, <1>3, <1>4, <1>5, <1>6, <1>7, <1>8, <1>9, <1>10, <1>11

LEMMA StagesAlter ==
  ASSUME NEW s, Shaped(s), NEW f, NEW n, NEW w, Stages(w, s, f, n)
  PROVE  /\ Alters(s, w[0], {"paid"}) /\ w[0].paid = {}
         /\ StepAlters("progress", w[0], w[1], {"forward", "paid"}, {"progress"})
         /\ StepAlters("stuck_forward", w[1], w[2],
              {"stuckForward", "turn", "paid"}, {"stuck_turn"})
         /\ StepAlters("stuck_stagnation", w[2], w[3],
              {"latents", "stagnant", "pending", "pendingAge", "turn", "paid"}, {"stuck_turn"})
         /\ StepAlters("locked_attack", w[3], w[4], {"paid"}, {"locked_attack"})
         /\ StepAlters("target_ui", w[4], w[5], {"streak", "paid"}, {"target_ui"})
         /\ StepAlters("escape", w[5], w[6],
              {"escapePaid", "nearStart", "startFrames", "paid"}, {"escape", "escape_sustain"})
         /\ StepAlters("sliding", w[6], w[7],
              {"slideLatents", "slideStreak", "paid"}, {"slide_stag"})
         /\ StepAlters("unstuck", w[7], w[8],
              {"unstuckLatents", "unstuckStreak", "beenStuck", "paid"}, {"unstuck"})
         /\ StepAlters("unique", w[8], w[9], UniqueFields, {"unique_acq"})
         /\ StepAlters("unique_press", w[9], w[10], UniqueFields, {"unique_acq"})
         /\ StepAlters("png", w[10], w[11], {"penaltyStreak", "paid"}, {"png_pen"})
<1>1. \A i \in 1 .. 11 : w[i] = Applied(Order[i], w[i - 1], f, n)
  BY DEF Stages
<1>2. /\ Alters(s, w[0], {"paid"}) /\ w[0].paid = {}
      /\ Shaped(w[0])
  <2>1. w[0] = [s EXCEPT !.paid = {}]
    BY DEF Stages
  <2> QED
    BY <2>1 DEF Alters, Shaped, Fields
<1>3. /\ StepAlters("progress", w[0], w[1], {"forward", "paid"}, {"progress"})
      /\ Shaped(w[1])
  <2>1. w[1] = Applied("progress", w[0], f, n)
    <3>1. Order[1] = "progress" /\ 1 \in 1 .. 11 /\ 1 - 1 = 0
      BY DEF Order
    <3> QED
      BY <1>1, <3>1
  <2>2. StepAlters("progress", w[0], w[1], {"forward", "paid"}, {"progress"})
    BY <1>2, <2>1, StepsAlter
  <2> QED
    BY <1>2, <2>2 DEF StepAlters, Alters, Fields
<1>4. /\ StepAlters("stuck_forward", w[1], w[2],
           {"stuckForward", "turn", "paid"}, {"stuck_turn"})
      /\ Shaped(w[2])
  <2>1. w[2] = Applied("stuck_forward", w[1], f, n)
    <3>1. Order[2] = "stuck_forward" /\ 2 \in 1 .. 11 /\ 2 - 1 = 1
      BY DEF Order
    <3> QED
      BY <1>1, <3>1
  <2>2. StepAlters("stuck_forward", w[1], w[2],
          {"stuckForward", "turn", "paid"}, {"stuck_turn"})
    BY <1>3, <2>1, StepsAlter
  <2> QED
    BY <1>3, <2>2 DEF StepAlters, Alters, Fields
<1>5. /\ StepAlters("stuck_stagnation", w[2], w[3],
           {"latents", "stagnant", "pending", "pendingAge", "turn", "paid"}, {"stuck_turn"})
      /\ Shaped(w[3])
  <2>1. w[3] = Applied("stuck_stagnation", w[2], f, n)
    <3>1. Order[3] = "stuck_stagnation" /\ 3 \in 1 .. 11 /\ 3 - 1 = 2
      BY DEF Order
    <3> QED
      BY <1>1, <3>1
  <2>2. StepAlters("stuck_stagnation", w[2], w[3],
          {"latents", "stagnant", "pending", "pendingAge", "turn", "paid"}, {"stuck_turn"})
    BY <1>4, <2>1, StepsAlter
  <2> QED
    BY <1>4, <2>2 DEF StepAlters, Alters, Fields
<1>6. /\ StepAlters("locked_attack", w[3], w[4], {"paid"}, {"locked_attack"})
      /\ Shaped(w[4])
  <2>1. w[4] = Applied("locked_attack", w[3], f, n)
    <3>1. Order[4] = "locked_attack" /\ 4 \in 1 .. 11 /\ 4 - 1 = 3
      BY DEF Order
    <3> QED
      BY <1>1, <3>1
  <2>2. StepAlters("locked_attack", w[3], w[4], {"paid"}, {"locked_attack"})
    BY <1>5, <2>1, StepsAlter
  <2> QED
    BY <1>5, <2>2 DEF StepAlters, Alters, Fields
<1>7. /\ StepAlters("target_ui", w[4], w[5], {"streak", "paid"}, {"target_ui"})
      /\ Shaped(w[5])
  <2>1. w[5] = Applied("target_ui", w[4], f, n)
    <3>1. Order[5] = "target_ui" /\ 5 \in 1 .. 11 /\ 5 - 1 = 4
      BY DEF Order
    <3> QED
      BY <1>1, <3>1
  <2>2. StepAlters("target_ui", w[4], w[5], {"streak", "paid"}, {"target_ui"})
    BY <1>6, <2>1, StepsAlter
  <2> QED
    BY <1>6, <2>2 DEF StepAlters, Alters, Fields
<1>8. /\ StepAlters("escape", w[5], w[6],
           {"escapePaid", "nearStart", "startFrames", "paid"}, {"escape", "escape_sustain"})
      /\ Shaped(w[6])
  <2>1. w[6] = Applied("escape", w[5], f, n)
    <3>1. Order[6] = "escape" /\ 6 \in 1 .. 11 /\ 6 - 1 = 5
      BY DEF Order
    <3> QED
      BY <1>1, <3>1
  <2>2. StepAlters("escape", w[5], w[6],
          {"escapePaid", "nearStart", "startFrames", "paid"}, {"escape", "escape_sustain"})
    BY <1>7, <2>1, StepsAlter
  <2> QED
    BY <1>7, <2>2 DEF StepAlters, Alters, Fields
<1>9. /\ StepAlters("sliding", w[6], w[7],
           {"slideLatents", "slideStreak", "paid"}, {"slide_stag"})
      /\ Shaped(w[7])
  <2>1. w[7] = Applied("sliding", w[6], f, n)
    <3>1. Order[7] = "sliding" /\ 7 \in 1 .. 11 /\ 7 - 1 = 6
      BY DEF Order
    <3> QED
      BY <1>1, <3>1
  <2>2. StepAlters("sliding", w[6], w[7],
          {"slideLatents", "slideStreak", "paid"}, {"slide_stag"})
    BY <1>8, <2>1, StepsAlter
  <2> QED
    BY <1>8, <2>2 DEF StepAlters, Alters, Fields
<1>10. /\ StepAlters("unstuck", w[7], w[8],
           {"unstuckLatents", "unstuckStreak", "beenStuck", "paid"}, {"unstuck"})
      /\ Shaped(w[8])
  <2>1. w[8] = Applied("unstuck", w[7], f, n)
    <3>1. Order[8] = "unstuck" /\ 8 \in 1 .. 11 /\ 8 - 1 = 7
      BY DEF Order
    <3> QED
      BY <1>1, <3>1
  <2>2. StepAlters("unstuck", w[7], w[8],
          {"unstuckLatents", "unstuckStreak", "beenStuck", "paid"}, {"unstuck"})
    BY <1>9, <2>1, StepsAlter
  <2> QED
    BY <1>9, <2>2 DEF StepAlters, Alters, Fields
<1>11. /\ StepAlters("unique", w[8], w[9], UniqueFields, {"unique_acq"})
      /\ Shaped(w[9])
  <2>1. w[9] = Applied("unique", w[8], f, n)
    <3>1. Order[9] = "unique" /\ 9 \in 1 .. 11 /\ 9 - 1 = 8
      BY DEF Order
    <3> QED
      BY <1>1, <3>1
  <2>2. StepAlters("unique", w[8], w[9], UniqueFields, {"unique_acq"})
    BY <1>10, <2>1, StepsAlter
  <2> QED
    BY <1>10, <2>2 DEF StepAlters, Alters, Fields, UniqueFields
<1>12. /\ StepAlters("unique_press", w[9], w[10], UniqueFields, {"unique_acq"})
      /\ Shaped(w[10])
  <2>1. w[10] = Applied("unique_press", w[9], f, n)
    <3>1. Order[10] = "unique_press" /\ 10 \in 1 .. 11 /\ 10 - 1 = 9
      BY DEF Order
    <3> QED
      BY <1>1, <3>1
  <2>2. StepAlters("unique_press", w[9], w[10], UniqueFields, {"unique_acq"})
    BY <1>11, <2>1, StepsAlter
  <2> QED
    BY <1>11, <2>2 DEF StepAlters, Alters, Fields, UniqueFields
<1>13. /\ StepAlters("png", w[10], w[11], {"penaltyStreak", "paid"}, {"png_pen"})
      /\ Shaped(w[11])
  <2>1. w[11] = Applied("png", w[10], f, n)
    <3>1. Order[11] = "png" /\ 11 \in 1 .. 11 /\ 11 - 1 = 10
      BY DEF Order
    <3> QED
      BY <1>1, <3>1
  <2>2. StepAlters("png", w[10], w[11], {"penaltyStreak", "paid"}, {"png_pen"})
    BY <1>12, <2>1, StepsAlter
  <2> QED
    BY <1>12, <2>2 DEF StepAlters, Alters, Fields
<1> QED
  BY <1>2, <1>3, <1>4, <1>5, <1>6, <1>7, <1>8, <1>9, <1>10, <1>11, <1>12, <1>13

\* What each component finds, ...
LEMMA StagesFind ==
  ASSUME NEW s, Shaped(s), NEW f, NEW n, NEW w, Stages(w, s, f, n)
  PROVE  /\ Shaped(w[1]) /\ w[1].streak = s.streak /\ w[1].stuckForward = s.stuckForward
         /\ w[1].turn = s.turn
         /\ Shaped(w[2]) /\ w[2].streak = s.streak /\ w[2].latents = s.latents
         /\ w[2].stagnant = s.stagnant /\ w[2].pending = s.pending
         /\ w[2].pendingAge = s.pendingAge
         /\ "stuck_forward" \notin mix => w[2].turn = s.turn
         /\ Shaped(w[3]) /\ w[3].streak = s.streak
         /\ Shaped(w[4]) /\ w[4].streak = s.streak
         /\ Shaped(w[5]) /\ w[5].escapePaid = s.escapePaid
         /\ Shaped(w[6]) /\ w[6].slideLatents = s.slideLatents
         /\ w[6].slideStreak = s.slideStreak
         /\ Shaped(w[7]) /\ w[7].unstuckLatents = s.unstuckLatents
         /\ w[7].unstuckStreak = s.unstuckStreak /\ w[7].beenStuck = s.beenStuck
         /\ Shaped(w[8]) /\ w[8].prevLocked = s.prevLocked /\ w[8].uniqueCount = s.uniqueCount
         /\ w[8].unlocked = s.unlocked /\ w[8].pressed = s.pressed
         /\ w[8].streak = w[5].streak
         /\ Shaped(w[9]) /\ w[9].streak = w[5].streak
         /\ "unique" \notin mix => w[9] = w[8]
         /\ Shaped(w[10]) /\ w[10].penaltyStreak = s.penaltyStreak
         /\ Shaped(w[11]) /\ w[11].attacks = s.attacks /\ w[11].streak = w[5].streak
<1> USE StagesAlter DEF StepAlters, Alters, Fields, UniqueFields
<1>1. /\ Shaped(w[1]) /\ w[1].streak = s.streak /\ w[1].stuckForward = s.stuckForward
      /\ w[1].turn = s.turn
  OBVIOUS
<1>2. /\ Shaped(w[2]) /\ w[2].streak = s.streak /\ w[2].latents = s.latents
      /\ w[2].stagnant = s.stagnant /\ w[2].pending = s.pending
      /\ w[2].pendingAge = s.pendingAge
      /\ "stuck_forward" \notin mix => w[2].turn = s.turn
  BY <1>1
<1>3. /\ Shaped(w[3]) /\ w[3].streak = s.streak
      /\ Shaped(w[4]) /\ w[4].streak = s.streak
  OBVIOUS
<1>4. Shaped(w[5]) /\ w[5].escapePaid = s.escapePaid
  OBVIOUS
<1>5. /\ Shaped(w[6]) /\ w[6].slideLatents = s.slideLatents
      /\ w[6].slideStreak = s.slideStreak
  OBVIOUS
<1>6. /\ Shaped(w[7]) /\ w[7].unstuckLatents = s.unstuckLatents
      /\ w[7].unstuckStreak = s.unstuckStreak /\ w[7].beenStuck = s.beenStuck
  OBVIOUS
<1>7. /\ Shaped(w[8]) /\ w[8].prevLocked = s.prevLocked /\ w[8].uniqueCount = s.uniqueCount
      /\ w[8].unlocked = s.unlocked /\ w[8].pressed = s.pressed
      /\ w[8].streak = w[5].streak
  OBVIOUS
<1>8. /\ Shaped(w[9]) /\ w[9].streak = w[5].streak
      /\ "unique" \notin mix => w[9] = w[8]
  BY <1>7
<1>9. Shaped(w[10]) /\ w[10].penaltyStreak = s.penaltyStreak
  OBVIOUS
<1>10. Shaped(w[11]) /\ w[11].attacks = s.attacks /\ w[11].streak = w[5].streak
  OBVIOUS
<1> QED
  BY <1>1, <1>2, <1>3, <1>4, <1>5, <1>6, <1>7, <1>8, <1>9, <1>10

\* ... what remains of its work at the end, ...
LEMMA StagesLeave ==
  ASSUME NEW s, Shaped(s), NEW f, NEW n, NEW w, Stages(w, s, f, n),
         NEW t, t = Terminal(w[11], f)
  PROVE  /\ Shaped(t) /\ t.stuckForward = w[2].stuckForward
         /\ "stuck_stagnation" \notin mix => t.turn = w[2].turn
         /\ t.turn = w[3].turn /\ t.latents = w[3].latents /\ t.stagnant = w[3].stagnant
         /\ t.pending = w[3].pending /\ t.pendingAge = w[3].pendingAge
         /\ t.streak = w[5].streak /\ t.escapePaid = w[6].escapePaid
         /\ t.slideLatents = w[7].slideLatents /\ t.slideStreak = w[7].slideStreak
         /\ t.unstuckLatents = w[8].unstuckLatents /\ t.unstuckStreak = w[8].unstuckStreak
         /\ t.beenStuck = w[8].beenStuck
         /\ t.prevLocked = w[10].prevLocked /\ t.uniqueCount = w[10].uniqueCount
         /\ t.unlocked = w[10].unlocked /\ t.pressed = w[10].pressed
         /\ "unique_press" \notin mix => w[10] = w[9]
         /\ t.penaltyStreak = w[11].penaltyStreak
<1> DEFINE before == Shaped(w[11])
<1>1. before
  BY StagesFind
<1>2. Alters(w[11], t, {"attacks", "paid"})
  BY <1>1, TerminalAlters
<1> USE <1>2, StagesAlter DEF StepAlters, Alters, Fields, UniqueFields
<1>3. Shaped(t) /\ t.penaltyStreak = w[11].penaltyStreak
  OBVIOUS
<1>4. /\ t.prevLocked = w[10].prevLocked /\ t.uniqueCount = w[10].uniqueCount
      /\ t.unlocked = w[10].unlocked /\ t.pressed = w[10].pressed
      /\ "unique_press" \notin mix => w[10] = w[9]
  OBVIOUS
<1>5. /\ t.unstuckLatents = w[8].unstuckLatents /\ t.unstuckStreak = w[8].unstuckStreak
      /\ t.beenStuck = w[8].beenStuck
  OBVIOUS
<1>6. t.slideLatents = w[7].slideLatents /\ t.slideStreak = w[7].slideStreak
  OBVIOUS
<1>7. t.streak = w[5].streak /\ t.escapePaid = w[6].escapePaid
  OBVIOUS
<1>8. /\ t.turn = w[3].turn /\ t.latents = w[3].latents /\ t.stagnant = w[3].stagnant
      /\ t.pending = w[3].pending /\ t.pendingAge = w[3].pendingAge
  OBVIOUS
<1>9. /\ t.stuckForward = w[2].stuckForward
      /\ "stuck_stagnation" \notin mix => t.turn = w[2].turn
  BY <1>8
<1> QED
  BY <1>3, <1>4, <1>5, <1>6, <1>7, <1>8, <1>9

\* ... and who pays for what.
LEMMA StagesPay ==
  ASSUME NEW s, Shaped(s), NEW f, NEW n, NEW w, Stages(w, s, f, n),
         NEW t, t = Terminal(w[11], f)
  PROVE  /\ "stuck_turn" \notin w[1].paid
         /\ "stuck_forward" \notin mix => "stuck_turn" \notin w[2].paid
         /\ "stuck_stagnation" \notin mix =>
              ("stuck_turn" \in t.paid <=> "stuck_turn" \in w[2].paid)
         /\ "stuck_turn" \in t.paid <=> "stuck_turn" \in w[3].paid
         /\ "locked_attack" \notin w[3].paid
         /\ "locked_attack" \in t.paid <=> "locked_attack" \in w[4].paid
         /\ "locked_attack" \notin mix => "locked_attack" \notin t.paid
         /\ "escape" \notin w[5].paid /\ "escape_sustain" \notin w[5].paid
         /\ "escape" \in t.paid <=> "escape" \in w[6].paid
         /\ "escape_sustain" \in t.paid <=> "escape_sustain" \in w[6].paid
         /\ "slide_stag" \notin w[6].paid
         /\ "slide_stag" \in t.paid <=> "slide_stag" \in w[7].paid
         /\ "unstuck" \notin w[7].paid
         /\ "unstuck" \in t.paid <=> "unstuck" \in w[8].paid
         /\ "unique_acq" \notin w[8].paid
         /\ "unique_press" \notin mix =>
              ("unique_acq" \in t.paid <=> "unique_acq" \in w[9].paid)
         /\ "unique_acq" \in t.paid <=> "unique_acq" \in w[10].paid
         /\ "png_pen" \notin w[10].paid
         /\ "png_pen" \in t.paid <=> "png_pen" \in w[11].paid
         /\ "terminal" \notin w[11].paid
<1> DEFINE before == Shaped(w[11])
<1>1. before
  BY StagesFind
<1>2. PaysAlike(w[11], t, {"terminal"})
  BY <1>1, TerminalAlters
<1> USE <1>2, StagesAlter DEF StepAlters, PaysAlike
<1>3. /\ "stuck_turn" \notin w[1].paid
      /\ "stuck_forward" \notin mix => "stuck_turn" \notin w[2].paid
      /\ "stuck_turn" \in t.paid <=> "stuck_turn" \in w[3].paid
      /\ "stuck_stagnation" \notin mix =>
           ("stuck_turn" \in t.paid <=> "stuck_turn" \in w[2].paid)
  OBVIOUS
<1>4. /\ "locked_attack" \notin w[3].paid
      /\ "locked_attack" \in t.paid <=> "locked_attack" \in w[4].paid
      /\ "locked_attack" \notin mix => "locked_attack" \notin t.paid
  OBVIOUS
<1>5. /\ "escape" \notin w[5].paid /\ "escape_sustain" \notin w[5].paid
      /\ "escape" \in t.paid <=> "escape" \in w[6].paid
      /\ "escape_sustain" \in t.paid <=> "escape_sustain" \in w[6].paid
  OBVIOUS
<1>6. /\ "slide_stag" \notin w[6].paid
      /\ "slide_stag" \in t.paid <=> "slide_stag" \in w[7].paid
  OBVIOUS
<1>7. /\ "unstuck" \notin w[7].paid
      /\ "unstuck" \in t.paid <=> "unstuck" \in w[8].paid
  OBVIOUS
<1>8. /\ "unique_acq" \notin w[8].paid
      /\ "unique_acq" \in t.paid <=> "unique_acq" \in w[10].paid
      /\ "unique_press" \notin mix =>
           ("unique_acq" \in t.paid <=> "unique_acq" \in w[9].paid)
  OBVIOUS
<1>9. /\ "png_pen" \notin w[10].paid
      /\ "png_pen" \in t.paid <=> "png_pen" \in w[11].paid
  OBVIOUS
<1>10. "terminal" \notin w[11].paid
  OBVIOUS
<1> QED
  BY <1>3, <1>4, <1>5, <1>6, <1>7, <1>8, <1>9, <1>10

\* The shaper knows the frames q of its rollout, and nothing else.
ShaperInv(s, q, e) ==
  /\ Shaped(s) /\ SeesInv(s, q) /\ TallyInv(s, q) /\ EscapeInv(s, q, e)
  /\ "stuck_forward" \in mix => PushInv(s, q, e)
  /\ "stuck_stagnation" \in mix => SweepInv(s, q, e)
  /\ "sliding" \in mix => PinnedInv(s.slideLatents, s.slideStreak, q)
  /\ "unstuck" \in mix => UnstuckInv(s, q)
  /\ mix \cap {"unique", "unique_press"} # {} => UniqueInv(s, q, e)
  /\ "png" \in mix => PngInv(s, q)

AllEarned(q, e) ==
  /\ TerminalEarned(q, e) /\ AttackEarned(q, e) /\ TargetEarned(q, e)
  /\ TurnEarned(q, e) /\ EscapeEarned(q, e) /\ StillEarned(q, e)

LEMMA ShaperKeeps ==
  ASSUME TurnsTakeTime, mix \in Mixes,
         NEW q, NEW f \in Inputs(mix), NEW r, Grown(q, f, r),
         NEW e, NEW s, ShaperInv(s, q, e),
         NEW t, t = Terminal(ComputeReward(s, f, Len(q)), f),
         NEW d, Booked(q, e, t.paid, d)
  PROVE  ShaperInv(t, r, d) /\ AllEarned(r, d)
<1> DEFINE n == Len(q)
           x == t.paid
<1>1. PICK w : Stages(w, s, f, n) /\ ComputeReward(s, f, n) = w[11]
  BY ComputeRewardIs
<1>2. t = Terminal(w[11], f) /\ Shaped(s)
  BY <1>1 DEF ShaperInv
<1>3. w[1] = Applied("progress", w[0], f, n) /\ w[2] = Applied("stuck_forward", w[1], f, n)
      /\ w[3] = Applied("stuck_stagnation", w[2], f, n)
      /\ w[4] = Applied("locked_attack", w[3], f, n) /\ w[5] = Applied("target_ui", w[4], f, n)
      /\ w[6] = Applied("escape", w[5], f, n) /\ w[7] = Applied("sliding", w[6], f, n)
      /\ w[8] = Applied("unstuck", w[7], f, n) /\ w[9] = Applied("unique", w[8], f, n)
      /\ w[10] = Applied("unique_press", w[9], f, n) /\ w[11] = Applied("png", w[10], f, n)
  <2>1. \A i \in 1 .. 11 : w[i] = Applied(Order[i], w[i - 1], f, n)
    BY <1>1 DEF Stages
  <2>2. /\ w[1] = Applied(Order[1], w[0], f, n) /\ w[2] = Applied(Order[2], w[1], f, n)
        /\ w[3] = Applied(Order[3], w[2], f, n) /\ w[4] = Applied(Order[4], w[3], f, n)
        /\ w[5] = Applied(Order[5], w[4], f, n) /\ w[6] = Applied(Order[6], w[5], f, n)
        /\ w[7] = Applied(Order[7], w[6], f, n) /\ w[8] = Applied(Order[8], w[7], f, n)
        /\ w[9] = Applied(Order[9], w[8], f, n) /\ w[10] = Applied(Order[10], w[9], f, n)
        /\ w[11] = Applied(Order[11], w[10], f, n)
    BY <2>1
  <2> QED
    BY <2>2 DEF Order
<1> HIDE DEF x
<1>4. Booked(q, e, x, d)
  BY DEF x
<1>5. ~({"stuck_forward", "stuck_stagnation"} \subseteq mix)
      /\ ~({"unique", "unique_press"} \subseteq mix)
  BY RewardsAssumption DEF Variants
<1>6. "target_ui" \notin mix => ~f.target
  BY DEF Inputs, Reads
\* Before and after target_ui.
<1>7. SeesInv(w[1], q) /\ SeesInv(w[2], q) /\ SeesInv(w[3], q)
  <2>1. SeesInv(s, q)
    BY DEF ShaperInv
  <2>2. w[1].streak = s.streak /\ w[2].streak = s.streak /\ w[3].streak = s.streak
    BY <1>1, <1>2, StagesFind
  <2> QED
    BY <2>1, <2>2 DEF SeesInv
<1>8. SeesInv(w[5], r)
  <2>1. SeesInv(s, q)
    BY DEF ShaperInv
  <2>2. w[4].streak = s.streak /\ Shaped(w[4])
    BY <1>1, <1>2, StagesFind
  <2>3. w[5].streak = IF "target_ui" \in mix THEN Count(f.target, s.streak) ELSE s.streak
    <3>1. CASE "target_ui" \in mix
      <4>1. w[5] = TargetUI(w[4], f)
        BY <1>3, <3>1, ComponentIs DEF Applied
      <4>2. w[5].streak = Count(f.target, w[4].streak)
        BY <2>2, <4>1 DEF TargetUI, Pay, Shaped, Fields
      <4> QED
        BY <2>2, <3>1, <4>2
    <3>2. CASE "target_ui" \notin mix
      BY <1>3, <2>2, <3>2 DEF Applied
    <3> QED
      BY <3>1, <3>2
  <2> QED
    BY <1>6, <2>1, <2>3, SeesOn
<1>9. SeesInv(w[8], r) /\ SeesInv(w[9], r) /\ SeesInv(w[11], r) /\ SeesInv(t, r)
  <2>1. w[8].streak = w[5].streak /\ w[9].streak = w[5].streak /\ w[11].streak = w[5].streak
    BY <1>1, <1>2, StagesFind
  <2>2. t.streak = w[5].streak
    BY <1>1, <1>2, StagesLeave
  <2> QED
    BY <1>8, <2>1, <2>2 DEF SeesInv
\* One component after the other.
<1>10. ("stuck_forward" \in mix => PushInv(t, r, d))
       /\ ("stuck_stagnation" \in mix => SweepInv(t, r, d)) /\ TurnEarned(r, d)
  <2>1. CASE "stuck_forward" \in mix
    <3>1. "stuck_stagnation" \notin mix
      BY <1>5, <2>1
    <3>2. w[2] = StuckForward(w[1], f)
      BY <1>3, <2>1, ComponentIs DEF Applied
    <3>3. /\ Shaped(w[1]) /\ w[1].stuckForward = s.stuckForward /\ w[1].turn = s.turn
      BY <1>1, <1>2, StagesFind
    <3>4. PushInv(w[1], q, e)
      BY <2>1, <3>3 DEF ShaperInv, PushInv
    <3>5. "stuck_turn" \notin w[1].paid /\ ("stuck_turn" \in x <=> "stuck_turn" \in w[2].paid)
      BY <1>1, <1>2, <3>1, StagesPay DEF x
    <3>6. PushInv(w[2], r, d) /\ TurnEarned(r, d)
      BY <1>4, <1>7, <2>1, <3>2, <3>3, <3>4, <3>5, StuckForwardKeeps
    <3>7. t.stuckForward = w[2].stuckForward /\ t.turn = w[2].turn
      BY <1>1, <1>2, <3>1, StagesLeave
    <3>8. PushInv(t, r, d)
      BY <3>6, <3>7 DEF PushInv
    <3> QED
      BY <3>1, <3>6, <3>8
  <2>2. CASE "stuck_stagnation" \in mix
    <3>1. "stuck_forward" \notin mix
      BY <1>5, <2>2
    <3>2. w[3] = StuckStagnation(w[2], f)
      BY <1>3, <2>2, ComponentIs DEF Applied
    <3>3. /\ Shaped(w[2]) /\ w[2].latents = s.latents /\ w[2].stagnant = s.stagnant
          /\ w[2].pending = s.pending /\ w[2].pendingAge = s.pendingAge /\ w[2].turn = s.turn
      BY <1>1, <1>2, <3>1, StagesFind
    <3>4. SweepInv(w[2], q, e)
      BY <2>2, <3>3 DEF ShaperInv, SweepInv
    <3>5. "stuck_turn" \notin w[2].paid /\ ("stuck_turn" \in x <=> "stuck_turn" \in w[3].paid)
      BY <1>1, <1>2, <3>1, StagesPay DEF x
    <3>6. SweepInv(w[3], r, d) /\ TurnEarned(r, d)
      BY <1>4, <1>7, <3>1, <3>2, <3>3, <3>4, <3>5, StuckStagnationKeeps
    <3>7. /\ t.turn = w[3].turn /\ t.latents = w[3].latents /\ t.stagnant = w[3].stagnant
          /\ t.pending = w[3].pending /\ t.pendingAge = w[3].pendingAge
      BY <1>1, <1>2, StagesLeave
    <3>8. SweepInv(t, r, d)
      BY <3>6, <3>7 DEF SweepInv
    <3> QED
      BY <3>1, <3>6, <3>8
  <2>3. CASE "stuck_forward" \notin mix /\ "stuck_stagnation" \notin mix
    <3>1. "stuck_turn" \notin x
      BY <1>1, <1>2, <2>3, StagesPay DEF x
    <3> QED
      BY <1>4, <2>3, <3>1, BookedIs DEF TurnEarned
  <2> QED
    BY <2>1, <2>2, <2>3
<1>11. AttackEarned(r, d)
  <2>1. CASE "locked_attack" \in mix
    <3>1. w[4] = LockedAttack(w[3], f)
      BY <1>3, <2>1, ComponentIs DEF Applied
    <3>2. Shaped(w[3])
      BY <1>1, <1>2, StagesFind
    <3>3. "locked_attack" \notin w[3].paid
          /\ ("locked_attack" \in x => "locked_attack" \in w[4].paid)
      BY <1>1, <1>2, StagesPay DEF x
    <3> QED
      BY <1>4, <1>7, <3>1, <3>2, <3>3, LockedAttackPays
  <2>2. CASE "locked_attack" \notin mix
    <3>1. "locked_attack" \notin x
      BY <1>1, <1>2, <2>2, StagesPay DEF x
    <3> QED
      BY <1>4, <3>1, BookedIs DEF AttackEarned
  <2> QED
    BY <2>1, <2>2
<1>12. EscapeInv(t, r, d) /\ EscapeEarned(r, d)
  <2>1. Shaped(w[5]) /\ w[5].escapePaid = s.escapePaid
    BY <1>1, <1>2, StagesFind
  <2>2. EscapeInv(w[5], q, e)
    BY <2>1 DEF ShaperInv, EscapeInv
  <2>3. /\ "escape" \notin w[5].paid /\ "escape_sustain" \notin w[5].paid
        /\ "escape" \in x <=> "escape" \in w[6].paid
        /\ "escape_sustain" \in x <=> "escape_sustain" \in w[6].paid
    BY <1>1, <1>2, StagesPay DEF x
  <2>4. w[6] = Applied("escape", w[5], f, Len(q))
    BY <1>3
  <2>5. EscapeInv(w[6], r, d) /\ EscapeEarned(r, d)
    BY <1>4, <2>1, <2>2, <2>3, <2>4, EscapeKeeps
  <2>6. t.escapePaid = w[6].escapePaid
    BY <1>1, <1>2, StagesLeave
  <2> QED
    BY <2>5, <2>6 DEF EscapeInv
<1>13. ASSUME "sliding" \in mix
       PROVE  PinnedInv(t.slideLatents, t.slideStreak, r) /\ SlidingEarned(r, d)
  <2>1. w[7] = SlidingStagnation(w[6], f, n)
    <3>1. w[7] = Component("sliding", w[6], f, n)
      BY <1>3, <1>13 DEF Applied
    <3> HIDE DEF n
    <3> QED
      BY <3>1 DEF Component
  <2>2. Shaped(w[6]) /\ w[6].slideLatents = s.slideLatents /\ w[6].slideStreak = s.slideStreak
    BY <1>1, <1>2, StagesFind
  <2>3. PinnedInv(w[6].slideLatents, w[6].slideStreak, q)
    BY <1>13, <2>2 DEF ShaperInv
  <2>4. "slide_stag" \notin w[6].paid /\ ("slide_stag" \in x <=> "slide_stag" \in w[7].paid)
    BY <1>1, <1>2, StagesPay DEF x
  <2>5. PinnedInv(w[7].slideLatents, w[7].slideStreak, r) /\ SlidingEarned(r, d)
    BY <1>4, <2>1, <2>2, <2>3, <2>4, SlidingKeeps
  <2>6. t.slideLatents = w[7].slideLatents /\ t.slideStreak = w[7].slideStreak
    BY <1>1, <1>2, StagesLeave
  <2> QED
    BY <2>5, <2>6
<1>14. ASSUME "unstuck" \in mix PROVE UnstuckInv(t, r) /\ UnstuckEarned(r, d)
  <2>1. w[8] = Unstuck(w[7], f, n)
    <3>1. w[8] = Component("unstuck", w[7], f, n)
      BY <1>3, <1>14 DEF Applied
    <3> HIDE DEF n
    <3> QED
      BY <3>1 DEF Component
  <2>2. Shaped(w[7]) /\ w[7].unstuckLatents = s.unstuckLatents
        /\ w[7].unstuckStreak = s.unstuckStreak /\ w[7].beenStuck = s.beenStuck
    BY <1>1, <1>2, StagesFind
  <2>3. UnstuckInv(w[7], q)
    BY <1>14, <2>2 DEF ShaperInv, UnstuckInv
  <2>4. "unstuck" \notin w[7].paid /\ ("unstuck" \in x <=> "unstuck" \in w[8].paid)
    BY <1>1, <1>2, StagesPay DEF x
  <2>5. UnstuckInv(w[8], r) /\ UnstuckEarned(r, d)
    BY <1>4, <2>1, <2>2, <2>3, <2>4, UnstuckKeeps
  <2>6. t.unstuckLatents = w[8].unstuckLatents /\ t.unstuckStreak = w[8].unstuckStreak
        /\ t.beenStuck = w[8].beenStuck
    BY <1>1, <1>2, StagesLeave
  <2> QED
    BY <2>5, <2>6 DEF UnstuckInv
<1>15. (mix \cap {"unique", "unique_press"} # {} => UniqueInv(t, r, d)) /\ TargetEarned(r, d)
  <2>1. Shaped(w[8]) /\ w[8].prevLocked = s.prevLocked /\ w[8].uniqueCount = s.uniqueCount
        /\ w[8].unlocked = s.unlocked /\ w[8].pressed = s.pressed
        /\ ("unique" \notin mix => w[9] = w[8])
    BY <1>1, <1>2, StagesFind
  <2>2. t.prevLocked = w[10].prevLocked /\ t.uniqueCount = w[10].uniqueCount
        /\ t.unlocked = w[10].unlocked /\ t.pressed = w[10].pressed
        /\ ("unique_press" \notin mix => w[10] = w[9])
    BY <1>1, <1>2, StagesLeave
  <2>3. "unique_acq" \notin w[8].paid /\ ("unique_acq" \in x <=> "unique_acq" \in w[10].paid)
    BY <1>1, <1>2, StagesPay DEF x
  <2>4. CASE mix \cap {"unique", "unique_press"} # {}
    <3> DEFINE late == "unique_press" \in mix
    <3>1. w[10] = UniqueAcquisition(w[8], f, late)
      <4>1. CASE late
        <5>1. "unique" \notin mix
          BY <1>5, <4>1
        <5>2. w[10] = UniqueAcquisition(w[9], f, TRUE)
          BY <1>3, <4>1, ComponentIs DEF Applied
        <5>3. late = TRUE
          BY <4>1
        <5> HIDE DEF late
        <5> QED
          BY <2>1, <5>1, <5>2, <5>3
      <4>2. CASE ~late
        <5>1. "unique" \in mix
          BY <2>4, <4>2
        <5>2. w[9] = UniqueAcquisition(w[8], f, FALSE)
          BY <1>3, <5>1, ComponentIs DEF Applied
        <5>3. late = FALSE /\ w[10] = w[9]
          BY <2>2, <4>2
        <5> HIDE DEF late
        <5> QED
          BY <5>2, <5>3
      <4> QED
        BY <4>1, <4>2
    <3>2. UniqueInv(w[8], q, e)
      BY <2>1, <2>4 DEF ShaperInv, UniqueInv
    <3>3. late \in BOOLEAN /\ (late <=> "unique_press" \in mix)
      OBVIOUS
    <3> HIDE DEF late
    <3>4. UniqueInv(w[10], r, d) /\ TargetEarned(r, d)
      BY <1>4, <1>9, <2>1, <2>3, <3>1, <3>2, <3>3, UniqueKeeps
    <3>5. UniqueInv(t, r, d)
      BY <2>2, <3>4 DEF UniqueInv
    <3> QED
      BY <3>4, <3>5
  <2>5. CASE ~(mix \cap {"unique", "unique_press"} # {})
    <3>1. "unique_acq" \notin x
      BY <2>1, <2>2, <2>3, <2>5
    <3> QED
      BY <1>4, <2>5, <3>1, BookedIs DEF TargetEarned
  <2> QED
    BY <2>4, <2>5
<1>16. ASSUME "png" \in mix PROVE PngInv(t, r) /\ PngEarned(r, d)
  <2>1. w[11] = PngPenalty(w[10], f)
    BY <1>3, <1>16, ComponentIs DEF Applied
  <2>2. Shaped(w[10]) /\ w[10].penaltyStreak = s.penaltyStreak
    BY <1>1, <1>2, StagesFind
  <2>3. PngInv(w[10], q)
    BY <1>16, <2>2 DEF ShaperInv, PngInv
  <2>4. "png_pen" \notin w[10].paid /\ ("png_pen" \in x <=> "png_pen" \in w[11].paid)
    BY <1>1, <1>2, StagesPay DEF x
  <2>5. PngInv(w[11], r) /\ PngEarned(r, d)
    BY <1>4, <2>1, <2>2, <2>3, <2>4, PngKeeps
  <2>6. t.penaltyStreak = w[11].penaltyStreak
    BY <1>1, <1>2, StagesLeave
  <2> QED
    BY <2>5, <2>6 DEF PngInv
<1>17. TallyInv(t, r) /\ TerminalEarned(r, d)
  <2>1. Shaped(w[11]) /\ w[11].attacks = s.attacks
    BY <1>1, <1>2, StagesFind
  <2>2. TallyInv(w[11], q)
    BY <2>1 DEF ShaperInv, TallyInv
  <2>3. "terminal" \notin w[11].paid
    BY <1>1, <1>2, StagesPay
  <2>4. "terminal" \in x <=> "terminal" \in t.paid
    BY DEF x
  <2> QED
    BY <1>2, <1>4, <1>9, <2>1, <2>2, <2>3, <2>4, TerminalKeeps
<1>18. StillEarned(r, d)
  BY <1>13, <1>14, <1>16 DEF StillEarned, SlidingEarned, UnstuckEarned, PngEarned
<1>19. Shaped(t)
  BY <1>1, <1>2, StagesLeave
<1>20. ShaperInv(t, r, d)
  BY <1>9, <1>10, <1>12, <1>13, <1>14, <1>15, <1>16, <1>17, <1>19 DEF ShaperInv
<1> QED
  BY <1>10, <1>11, <1>12, <1>15, <1>17, <1>18, <1>20 DEF AllEarned

-----------------------------------------------------------------------------
(* Rollouts                                                                *)

\* The shaper a frame is rewarded with.
Fresh(s, n, here) ==
  IF n # 0 THEN s
  ELSE IF here = NoPlace THEN Reset(s) ELSE [Reset(s) EXCEPT !.start = here]

LEMMA RewardFnIs ==
  ASSUME NEW s, NEW f, NEW n, NEW here
  PROVE  RewardFn(s, f, n, here) = Terminal(ComputeReward(Fresh(s, n, here), f, n), f)
BY DEF RewardFn, Fresh

LEMMA BlankIsShaped == Shaped(Blank)
BY DEF Blank, Shaped, Fields

\* What reset leaves, but for the start latent, is what was there at first.
LEMMA ResetIs ==
  ASSUME NEW s, NEW here
  PROVE  /\ Alters(Blank, Fresh(s, 0, here), {"start"})
         /\ here # NoPlace => Fresh(s, 0, here) = [Blank EXCEPT !.start = here]
<1>1. Alters(Blank, Reset(s), {"start"})
  BY BlankIsShaped DEF Reset, Alters, Shaped, Fields
<1>2. /\ Shaped([Reset(s) EXCEPT !.start = here])
      /\ \A c \in Fields \ {"start"} : [Reset(s) EXCEPT !.start = here][c] = Reset(s)[c]
      /\ [Reset(s) EXCEPT !.start = here].start = here
  BY <1>1 DEF Alters, Shaped, Fields
<1>3. /\ Shaped([Blank EXCEPT !.start = here])
      /\ \A c \in Fields \ {"start"} : [Blank EXCEPT !.start = here][c] = Blank[c]
      /\ [Blank EXCEPT !.start = here].start = here
  BY BlankIsShaped DEF Shaped, Fields
<1>4. [Reset(s) EXCEPT !.start = here] = [Blank EXCEPT !.start = here]
  <2> DEFINE a == [Reset(s) EXCEPT !.start = here]
             b == [Blank EXCEPT !.start = here]
  <2>1. \A c \in Fields : a[c] = b[c]
    BY <1>1, <1>2, <1>3 DEF Alters
  <2>2. a = [c \in Fields |-> a[c]] /\ b = [c \in Fields |-> b[c]]
    BY <1>2, <1>3 DEF Shaped
  <2> HIDE DEF a, b
  <2>3. a = b
    BY <2>1, <2>2
  <2> QED
    BY <2>3 DEF a, b
<1> QED
  BY <1>1, <1>2, <1>4 DEF Fresh, Alters

\* What reset leaves knows the frames of a rollout that has none.
LEMMA ResetForgets ==
  ASSUME NEW s, NEW here, NEW t, t = Fresh(s, 0, here)
  PROVE  ShaperInv(t, <<>>, <<>>)
<1> DEFINE q == <<>>
<1>1. /\ Shaped(t) /\ t.streak = 0 /\ t.attacks = <<>>
      /\ t.stuckForward = 0 /\ t.turn = 0 /\ t.latents = <<>> /\ t.stagnant = 0
      /\ t.pending = FALSE /\ t.pendingAge = 0 /\ t.escapePaid = FALSE
      /\ t.slideLatents = <<>> /\ t.slideStreak = 0
      /\ t.unstuckLatents = <<>> /\ t.unstuckStreak = 0 /\ t.beenStuck = FALSE
      /\ t.prevLocked = FALSE /\ t.uniqueCount = 0 /\ t.unlocked = 0 /\ t.pressed = FALSE
      /\ t.penaltyStreak = 0
  <2>1. Alters(Blank, t, {"start"})
    BY ResetIs
  <2> QED
    BY <2>1 DEF Alters, Blank, Fields
<1>2. /\ Len(q) = 0 /\ q \in Seq(Places) /\ q \in Seq(BOOLEAN)
      /\ Cfg.window \in Nat /\ Cfg.attackWindow \in Nat /\ Cfg.initialWindow \in Nat
  BY RewardsAssumption
<1>3. /\ Visible(q) = {} /\ Pinned(q) = {} /\ Penalised(q) = {} /\ Locked(q) = {} /\ Stuck(q) = {}
  BY <1>2 DEF Visible, Pinned, Penalised, Locked, Stuck
<1>4. /\ Row(Visible(q), 0) = 0 /\ Row(Pinned(q), 0) = 0 /\ Row(Penalised(q), 0) = 0
  BY <1>3, RowEmpty
<1>5. Remembers(q, q)
  BY <1>2 DEF Remembers, Least
<1>6. \A c : ~PaidIn(c, q, 1 .. 0)
  BY DEF PaidIn
<1>7. Turning(0, q, q)
  BY <1>2, NotTurning
<1>16. /\ t.pending \in BOOLEAN /\ ~t.pending /\ t.escapePaid \in BOOLEAN /\ ~t.escapePaid
       /\ t.beenStuck \in BOOLEAN /\ ~t.beenStuck /\ t.prevLocked \in BOOLEAN /\ ~t.prevLocked
       /\ t.pressed \in BOOLEAN /\ ~t.pressed
  BY <1>1
<1> HIDE DEF q
<1>8. SeesInv(t, q)
  BY <1>1, <1>2, <1>3, <1>4 DEF SeesInv
<1>9. TallyInv(t, q)
  <2>1. Tallied(q, q)
    BY <1>2 DEF Tallied, Least
  <2>2. t.attacks = q
    BY <1>1 DEF q
  <2> QED
    BY <2>1, <2>2 DEF TallyInv
<1>10. PushInv(t, q, q)
  BY <1>1, <1>2, <1>7 DEF PushInv
<1>11. SweepInv(t, q, q)
  <2>1. t.latents = q
    BY <1>1 DEF q
  <2>2. Remembers(t.latents, q) /\ Turning(t.turn, q, q)
    BY <1>1, <1>5, <1>7, <2>1
  <2>3. /\ t.stagnant \in 0 .. Len(q) /\ t.turn \in 0 .. Len(q) /\ t.pendingAge \in Nat
        /\ \A i \in Len(q) - t.stagnant + 1 .. Len(q) : Moving(q, i)
    BY <1>1, <1>2
  <2> QED
    BY <1>16, <2>2, <2>3 DEF SweepInv
<1>12. EscapeInv(t, q, q)
  <2>1. ~PaidIn("escape", q, 1 .. Len(q))
    BY <1>2, <1>6
  <2> QED
    BY <1>16, <2>1 DEF EscapeInv
<1>13. PinnedInv(t.slideLatents, t.slideStreak, q) /\ UnstuckInv(t, q)
  <2>1. t.slideLatents = q /\ t.unstuckLatents = q
    BY <1>1 DEF q
  <2>2. t.slideStreak = Row(Pinned(q), Len(q)) /\ t.unstuckStreak = Row(Pinned(q), Len(q))
    BY <1>1, <1>2, <1>4
  <2>3. PinnedInv(t.slideLatents, t.slideStreak, q)
        /\ PinnedInv(t.unstuckLatents, t.unstuckStreak, q)
    BY <1>5, <2>1, <2>2 DEF PinnedInv
  <2> QED
    BY <1>3, <1>16, <2>3 DEF UnstuckInv
<1>14. UniqueInv(t, q, q)
  <2>1. ~PaidIn("unique_acq", q, 1 .. Len(q))
    BY <1>2, <1>6
  <2>2. t.uniqueCount = 0 /\ t.unlocked = 0
    BY <1>1
  <2> QED
    BY <1>2, <1>3, <1>16, <2>1, <2>2 DEF UniqueInv
<1>15. PngInv(t, q)
  BY <1>1, <1>2, <1>4 DEF PngInv
<1>17. ShaperInv(t, q, q)
  BY <1>1, <1>8, <1>9, <1>10, <1>11, <1>12, <1>13, <1>14, <1>15 DEF ShaperInv
<1> QED
  BY <1>17 DEF q

\* Between rollouts the shaper may hold anything: the first frame resets it.
RewardsInv ==
  /\ mix \in Mixes /\ origin \in Places \cup {NoPlace} /\ seen \in Seq(Shot)
  /\ Len(earned) = Len(seen) /\ \E S : earned \in Seq(S)
  /\ seen # <<>> => ShaperInv(shaper, seen, earned) /\ AllEarned(seen, earned)
  /\ seen # <<>> /\ origin # NoPlace =>
       shaper = alone /\ earned[Len(earned)] = alone.paid

LEMMA RolloutKeeps ==
  ASSUME TurnsTakeTime, RewardsInv, RolloutStep
  PROVE  RewardsInv'
<1>1. PICK f \in Inputs(mix) :
        LET s == RewardFn(shaper, f, Len(seen), origin)
        IN /\ seen' = Append(seen, f) /\ earned' = Append(earned, s.paid) /\ shaper' = s
           /\ alone' = RewardFn(alone, f, Len(seen), origin)
  BY DEF RolloutStep
<1> DEFINE n == Len(seen)
           fresh == Fresh(shaper, n, origin)
           t == Terminal(ComputeReward(fresh, f, n), f)
<1>2. t = RewardFn(shaper, f, Len(seen), origin)
  BY RewardFnIs
<1>3. mix' = mix /\ origin' = origin /\ seen' = Append(seen, f)
      /\ earned' = Append(earned, t.paid) /\ shaper' = t
      /\ alone' = RewardFn(alone, f, Len(seen), origin)
  BY <1>1, <1>2 DEF RolloutStep
\* A closure of its own would start from the same blank shaper.
<1>16. origin # NoPlace => Fresh(alone, n, origin) = fresh
  <2>1. CASE n = 0
    BY <2>1, ResetIs
  <2>2. CASE n # 0
    BY <2>2 DEF Fresh, RewardsInv
  <2> QED
    BY <2>1, <2>2
<1>17. origin # NoPlace => alone' = t
  BY <1>3, <1>16, RewardFnIs
<1>4. f \in Shot /\ seen \in Seq(Shot)
  BY InputsAreShots DEF RewardsInv
<1>5. Grown(seen, f, seen')
  BY <1>3, <1>4, Grows
<1>6. ShaperInv(fresh, seen, earned)
  <2>1. CASE n = 0
    <3>1. seen = <<>> /\ earned = <<>>
      BY <1>4, <2>1 DEF RewardsInv
    <3>2. fresh = Fresh(shaper, 0, origin)
      BY <2>1
    <3> HIDE DEF fresh
    <3> QED
      BY <3>1, <3>2, ResetForgets
  <2>2. CASE n # 0
    <3>1. seen # <<>> /\ fresh = shaper
      BY <1>4, <2>2 DEF Fresh
    <3> HIDE DEF fresh
    <3> QED
      BY <3>1 DEF RewardsInv
  <2> QED
    BY <2>1, <2>2
<1> HIDE DEF fresh
<1>7. PICK S : earned \in Seq(S)
  BY DEF RewardsInv
<1> DEFINE x == t.paid
<1>8. /\ earned' = Append(earned, x) /\ Len(earned) = n /\ n \in Nat
  BY <1>3, <1>4 DEF RewardsInv
<1> HIDE DEF x, t
<1>9. earned' \in Seq(S \cup {x}) /\ Len(earned') = n + 1
      /\ (\A i \in 1 .. n : earned'[i] = earned[i]) /\ earned'[n + 1] = x
  <2>1. earned \in Seq(S \cup {x}) /\ x \in S \cup {x}
    BY <1>7
  <2> QED
    BY <1>8, <2>1
<1>10. Booked(seen, earned, t.paid, earned')
  BY <1>8, <1>9 DEF Booked, x
<1>11. ShaperInv(t, seen', earned') /\ AllEarned(seen', earned')
  <2>1. mix \in Mixes /\ t = Terminal(ComputeReward(fresh, f, Len(seen)), f)
    BY DEF RewardsInv, t
  <2> QED
    BY <1>5, <1>6, <1>10, <2>1, ShaperKeeps
<1>12. ShaperInv(shaper', seen', earned') /\ AllEarned(seen', earned')
  BY <1>3, <1>11 DEF x, t
<1>13. (ShaperInv(shaper, seen, earned) /\ AllEarned(seen, earned))'
  <2>1. mix' = mix /\ origin' = origin
    BY <1>3
  <2>2. (ShaperInv(shaper, seen, earned))'
    BY <1>12, <2>1 DEF ShaperInv, SeesInv, TallyInv, EscapeInv, UniqueInv
  <2>3. (AllEarned(seen, earned))'
    BY <1>12, <2>1
    DEF AllEarned, TerminalEarned, AttackEarned, TargetEarned, TurnEarned, EscapeEarned,
        StillEarned
  <2> QED
    BY <2>2, <2>3
<1>14. seen' \in Seq(Shot) /\ Len(earned') = Len(seen')
  BY <1>4, <1>5, <1>9 DEF Grown
<1>15. mix' \in Mixes /\ origin' \in Places \cup {NoPlace}
  BY <1>3 DEF RewardsInv
<1>18. origin' # NoPlace => shaper' = alone' /\ earned'[Len(earned')] = alone'.paid
  BY <1>3, <1>9, <1>17 DEF x
<1> QED
  BY <1>9, <1>13, <1>14, <1>15, <1>18 DEF RewardsInv

LEMMA RewardsOpen ==
  RewardsInit => RewardsInv
<1> SUFFICES ASSUME RewardsInit PROVE RewardsInv
  OBVIOUS
<1>1. seen \in Seq(Shot) /\ earned \in Seq({}) /\ Len(earned) = Len(seen)
  BY DEF RewardsInit
<1> QED
  BY <1>1 DEF RewardsInit, RewardsInv

LEMMA RewardsKeep ==
  ASSUME TurnsTakeTime, RewardsInv, [RewardsNext]_rewardVars
  PROVE  RewardsInv'
<1>1. CASE BeginRollout
  <2>1. mix' = mix /\ seen' = <<>> /\ earned' = <<>>
    BY <1>1 DEF BeginRollout
  <2>2. origin' \in Places \cup {NoPlace}
    BY <1>1, RewardsAssumption DEF BeginRollout
  <2>3. seen' \in Seq(Shot) /\ earned' \in Seq({}) /\ Len(earned') = Len(seen')
    BY <2>1
  <2> QED
    BY <2>1, <2>2, <2>3 DEF RewardsInv
<1>2. CASE RolloutStep
  BY <1>2, RolloutKeeps
<1>3. CASE UNCHANGED rewardVars
  <2>1. mix' = mix /\ origin' = origin /\ shaper' = shaper /\ seen' = seen /\ earned' = earned
        /\ alone' = alone
    BY <1>3 DEF rewardVars
  <2> QED
    BY <2>1
    DEF RewardsInv, ShaperInv, SeesInv, TallyInv, EscapeInv, UniqueInv,
        AllEarned, TerminalEarned, AttackEarned, TargetEarned, TurnEarned, EscapeEarned,
        StillEarned
<1> QED
  BY <1>1, <1>2, <1>3 DEF RewardsNext

\* What a frame is paid is what a closure made for its own rollout would pay,
\* when the seed has the frame start_frame_idx, and what the frames of its own
\* rollout bear out, whatever the shaper held before the first of them: for any
\* enabled components, thresholds, scenes and lengths, in any number of
\* rollouts, where being stuck and turning take at least a frame.
THEOREM PaysForThisRollout ==
  TurnsTakeTime => (Spec => []PaidByThisRollout)
<1> SUFFICES ASSUME TurnsTakeTime PROVE Spec => []PaidByThisRollout
  OBVIOUS
<1>1. Init => RewardsInv
  BY RewardsOpen DEF Init
<1>2. RewardsInv /\ [Next]_trainingVars => RewardsInv'
  <2>1. ASSUME [Next]_trainingVars PROVE [RewardsNext]_rewardVars
    BY <2>1
    DEF Next, Runs, Rolls, Trains, Iterates, Imagines, Streams, Crashes, trainingVars
  <2> QED
    BY <2>1, RewardsKeep
<1>3. RewardsInv => PaidByThisRollout
  BY DEF RewardsInv, AllEarned, PaidByThisRollout
<1> QED
  BY <1>1, <1>2, <1>3, PTL DEF Spec

-----------------------------------------------------------------------------
(* The types of the rollouts, for any thresholds                           *)

\* Counters no frame of the rollout can have raised further.
Counts(s, n) ==
  /\ Shaped(s) /\ s.streak \in 0 .. n /\ s.uniqueCount \in 0 .. n
  /\ s.attacks \in Seq(BOOLEAN) /\ Len(s.attacks) <= Cfg.attackWindow

\* A rollout has frames left to take while it is under way, and the first of
\* them resets what the one before counted.
RolloutsTyped ==
  /\ mix \in Mixes /\ origin \in Places \cup {NoPlace}
  /\ planned \in 0 .. Frames /\ rollouts \in 0 .. MaxRollouts
  /\ seen \in Seq(Shot) /\ Len(seen) <= Frames
  /\ (\E S : earned \in Seq(S)) /\ Len(earned) = Len(seen)
  /\ planned # 0 => Len(seen) < planned
  /\ Counts(shaper, Frames)
  /\ seen # <<>> => Counts(shaper, Len(seen))

LEMMA RolloutLengthIs ==
  ASSUME NEW seed \in Seeds
  PROVE  RolloutLength(seed) \in 1 .. Frames
<1> DEFINE pad == IF seed.start < Context THEN Context - seed.start ELSE 0
           head == IF seed.start < Context THEN 0 ELSE seed.start - Context
           needed == Context - pad + Frames + GoalOffset
           from == IF head + needed <= seed.frames THEN head
                   ELSE IF seed.frames < needed THEN 0 ELSE seed.frames - needed
           used == from + Context - pad
<1>1. /\ Context \in Nat /\ Frames \in Nat /\ Frames >= 1 /\ GoalOffset \in Nat
      /\ seed.frames \in Nat /\ seed.start \in Nat
  BY RewardsAssumption
<1>2. pad \in 0 .. Context /\ head \in Nat
  BY <1>1
<1> HIDE DEF pad, head
<1>3. needed \in Nat
  BY <1>1, <1>2
<1> HIDE DEF needed
<1>4. from \in Nat
  BY <1>1, <1>2, <1>3
<1> HIDE DEF from
<1>5. used \in Nat
  BY <1>1, <1>2, <1>4
<1>6. RolloutLength(seed) = IF seed.frames < used + Frames
                            THEN (IF seed.frames <= used THEN 1 ELSE seed.frames - used)
                            ELSE Frames
  BY DEF RolloutLength, pad, head, needed, from
<1> HIDE DEF used
<1> QED BY <1>1, <1>5, <1>6

\* A frame is one more target acquired at most.
LEMMA UniqueCounts ==
  ASSUME NEW s, Shaped(s), s.uniqueCount \in Nat, NEW f, NEW late
  PROVE  UniqueAcquisition(s, f, late).uniqueCount \in {s.uniqueCount, s.uniqueCount + 1}
<1> DEFINE locked == s.streak >= Cfg.minHits
           t == IF late THEN UniqueOnRelease(s, f, locked) ELSE UniqueOnBegin(s, f, locked)
           u == [t EXCEPT !.unlocked = Count(~locked, @), !.prevLocked = locked]
<1>1. u = UniqueAcquisition(s, f, late)
  BY DEF UniqueAcquisition
<1> HIDE DEF locked
<1>2. /\ Shaped(UniqueOnBegin(s, f, locked))
      /\ UniqueOnBegin(s, f, locked).uniqueCount \in {s.uniqueCount, s.uniqueCount + 1}
  <2>1. Alters(s, Acquire(s, f.place), {"uniqueCount", "lastLockBegin", "paid"})
        /\ Acquire(s, f.place).uniqueCount = s.uniqueCount + 1
    BY AcquireIs
  <2>2. UniqueOnBegin(s, f, locked) = s \/ UniqueOnBegin(s, f, locked) = Acquire(s, f.place)
    BY DEF UniqueOnBegin
  <2> QED BY <2>1, <2>2 DEF Alters
<1>3. /\ Shaped(UniqueOnRelease(s, f, locked))
      /\ UniqueOnRelease(s, f, locked).uniqueCount \in {s.uniqueCount, s.uniqueCount + 1}
  <2> DEFINE began == IF locked /\ ~s.prevLocked
                      THEN [s EXCEPT !.lockBegin = f.place, !.pressed = FALSE] ELSE s
             held == [began EXCEPT !.pressed = @ \/ (locked /\ f.attack)]
             got == Acquire(held, held.lockBegin)
             v == IF held.pressed /\ held.lockBegin # NoPlace
                     /\ AcquisitionGate(held, held.lockBegin) THEN got ELSE held
             w == IF s.prevLocked /\ ~locked
                  THEN [v EXCEPT !.lockBegin = NoPlace, !.pressed = FALSE] ELSE held
  <2>1. w = UniqueOnRelease(s, f, locked)
    BY DEF UniqueOnRelease
  <2>2. Shaped(held) /\ held.uniqueCount = s.uniqueCount
    BY DEF Shaped, Fields
  <2> HIDE DEF held
  <2>3. Shaped(got) /\ got.uniqueCount = s.uniqueCount + 1
    BY <2>2, AcquireIs DEF Alters
  <2> HIDE DEF got
  <2>4. Shaped(v) /\ v.uniqueCount \in {s.uniqueCount, s.uniqueCount + 1}
    BY <2>2, <2>3
  <2> HIDE DEF v
  <2>5. Shaped(w) /\ w.uniqueCount \in {s.uniqueCount, s.uniqueCount + 1}
    BY <2>2, <2>4 DEF Shaped, Fields
  <2> QED BY <2>1, <2>5
<1>4. Shaped(t) /\ t.uniqueCount \in {s.uniqueCount, s.uniqueCount + 1}
  BY <1>2, <1>3
<1> HIDE DEF t
<1>5. u.uniqueCount = t.uniqueCount
  BY <1>4 DEF Shaped, Fields
<1> HIDE DEF u
<1> QED BY <1>1, <1>4, <1>5

LEMMA TerminalCounts ==
  ASSUME NEW s, Shaped(s), s.attacks \in Seq(BOOLEAN), Len(s.attacks) <= Cfg.attackWindow,
         s.streak \in Nat, NEW f \in Shot
  PROVE  /\ Terminal(s, f).attacks \in Seq(BOOLEAN)
         /\ Len(Terminal(s, f).attacks) <= Cfg.attackWindow
<1> DEFINE engaged == f.attack /\ s.streak > 0
           newest == Keep(s.attacks, engaged, Cfg.attackWindow)
           t == [s EXCEPT !.attacks = Keep(@, engaged, Cfg.attackWindow)]
<1>1. engaged \in BOOLEAN /\ Cfg.attackWindow \in Nat
  BY RewardsAssumption
<1> HIDE DEF engaged
<1>2. newest \in Seq(BOOLEAN) /\ Len(newest) <= Cfg.attackWindow
  BY <1>1, KeepIs
<1>3. Shaped(t) /\ t.attacks = newest
  BY DEF Shaped, Fields
<1> HIDE DEF newest, t
<1>4. \/ Terminal(s, f) \in {s, Pay(s, "terminal")}
      \/ Terminal(s, f) \in {t, Pay(t, "terminal")}
  BY DEF Terminal, engaged, t
<1>5. Pay(s, "terminal").attacks = s.attacks /\ Pay(t, "terminal").attacks = t.attacks
  BY <1>3 DEF Pay, Shaped, Fields
<1> QED BY <1>2, <1>3, <1>4, <1>5

\* A frame raises each counter by one at most.
LEMMA FrameCounts ==
  ASSUME mix \in Mixes, NEW n \in Nat, NEW f \in Shot, NEW s, Counts(s, n),
         NEW t, t = Terminal(ComputeReward(s, f, n), f)
  PROVE  Counts(t, n + 1)
<1>1. PICK w : Stages(w, s, f, n) /\ ComputeReward(s, f, n) = w[11]
  BY ComputeRewardIs
<1>2. t = Terminal(w[11], f) /\ Shaped(s)
  BY <1>1 DEF Counts
<1>3. /\ w[5] = Applied("target_ui", w[4], f, n) /\ w[9] = Applied("unique", w[8], f, n)
      /\ w[10] = Applied("unique_press", w[9], f, n)
  <2>1. \A i \in 1 .. 11 : w[i] = Applied(Order[i], w[i - 1], f, n)
    BY <1>1 DEF Stages
  <2>2. /\ w[5] = Applied(Order[5], w[4], f, n) /\ w[9] = Applied(Order[9], w[8], f, n)
        /\ w[10] = Applied(Order[10], w[9], f, n)
    BY <2>1
  <2> QED BY <2>2 DEF Order
<1>4. ~({"unique", "unique_press"} \subseteq mix)
  BY RewardsAssumption DEF Variants
<1>5. w[5].streak \in 0 .. n + 1
  <2>1. w[4].streak = s.streak /\ Shaped(w[4]) /\ s.streak \in 0 .. n
    BY <1>1, <1>2, StagesFind DEF Counts
  <2>2. CASE "target_ui" \in mix
    <3>1. w[5] = TargetUI(w[4], f)
      BY <1>3, <2>2, ComponentIs DEF Applied
    <3>2. w[5].streak = Count(f.target, w[4].streak)
      BY <2>1, <3>1 DEF TargetUI, Pay, Shaped, Fields
    <3> QED BY <2>1, <3>2 DEF Count
  <2>3. CASE "target_ui" \notin mix
    <3>1. w[5].streak = w[4].streak
      BY <1>3, <2>3 DEF Applied
    <3> QED BY <2>1, <3>1
  <2> QED BY <2>2, <2>3
<1>6. w[10].uniqueCount \in 0 .. n + 1
  <2>1. /\ w[8].uniqueCount = s.uniqueCount /\ s.uniqueCount \in 0 .. n
        /\ Shaped(w[8]) /\ Shaped(w[9])
        /\ "unique" \notin mix => w[9] = w[8]
        /\ "unique_press" \notin mix => w[10] = w[9]
    BY <1>1, <1>2, StagesFind, StagesLeave DEF Counts
  <2>2. /\ "unique" \in mix => w[9] = UniqueAcquisition(w[8], f, FALSE)
        /\ "unique_press" \in mix => w[10] = UniqueAcquisition(w[9], f, TRUE)
    BY <1>3, ComponentIs DEF Applied
  <2>3. w[8].uniqueCount \in Nat
    BY <2>1
  <2>4. ASSUME "unique" \in mix
        PROVE  w[10].uniqueCount \in {s.uniqueCount, s.uniqueCount + 1}
    <3>1. w[10] = UniqueAcquisition(w[8], f, FALSE)
      BY <1>4, <2>1, <2>2, <2>4
    <3>2. w[10].uniqueCount \in {w[8].uniqueCount, w[8].uniqueCount + 1}
      BY <2>1, <2>3, <3>1, UniqueCounts
    <3> QED BY <2>1, <3>2
  <2>5. ASSUME "unique_press" \in mix
        PROVE  w[10].uniqueCount \in {s.uniqueCount, s.uniqueCount + 1}
    <3>1. w[10] = UniqueAcquisition(w[8], f, TRUE)
      BY <1>4, <2>1, <2>2, <2>5
    <3>2. w[10].uniqueCount \in {w[8].uniqueCount, w[8].uniqueCount + 1}
      BY <2>1, <2>3, <3>1, UniqueCounts
    <3> QED BY <2>1, <3>2
  <2>6. CASE "unique" \notin mix /\ "unique_press" \notin mix
    <3>1. w[10].uniqueCount = s.uniqueCount
      BY <2>1, <2>6
    <3> QED BY <2>1, <3>1
  <2> QED BY <2>1, <2>4, <2>5, <2>6
<1>7. /\ Shaped(w[11]) /\ w[11].attacks = s.attacks /\ w[11].streak = w[5].streak
  BY <1>1, <1>2, StagesFind
<1>8. t.attacks \in Seq(BOOLEAN) /\ Len(t.attacks) <= Cfg.attackWindow
  <2>1. /\ w[11].attacks \in Seq(BOOLEAN) /\ Len(w[11].attacks) <= Cfg.attackWindow
        /\ w[11].streak \in Nat
    BY <1>5, <1>7 DEF Counts
  <2> QED BY <1>2, <1>7, <2>1, TerminalCounts
<1>9. Shaped(t) /\ t.streak = w[5].streak /\ t.uniqueCount = w[10].uniqueCount
  BY <1>1, <1>2, StagesLeave
<1> QED BY <1>5, <1>6, <1>8, <1>9 DEF Counts

LEMMA RolloutStepTyped ==
  ASSUME RolloutsTyped, RolloutStep
  PROVE  RolloutsTyped'
<1>1. PICK f \in Inputs(mix) :
        LET s == RewardFn(shaper, f, Len(seen), origin)
        IN /\ seen' = Append(seen, f) /\ earned' = Append(earned, s.paid) /\ shaper' = s
           /\ planned' = IF "terminal" \in s.paid \/ Len(seen) + 1 = planned
                         THEN 0 ELSE planned
  BY DEF RolloutStep
<1> DEFINE n == Len(seen)
           fresh == Fresh(shaper, n, origin)
           t == Terminal(ComputeReward(fresh, f, n), f)
<1>2. t = RewardFn(shaper, f, Len(seen), origin)
  BY RewardFnIs
<1>3. /\ UNCHANGED <<mix, origin, rollouts>> /\ seen' = Append(seen, f)
      /\ earned' = Append(earned, t.paid) /\ shaper' = t
      /\ planned' = planned \/ planned' = 0
      /\ planned' # 0 => n + 1 # planned
      /\ planned > 0
  BY <1>1, <1>2 DEF RolloutStep
<1>4. f \in Shot /\ seen \in Seq(Shot) /\ n \in Nat
  BY InputsAreShots DEF RolloutsTyped
<1>5. Counts(fresh, n)
  <2>1. CASE n = 0
    <3>1. Alters(Blank, fresh, {"start"})
      BY <2>1, ResetIs
    <3> HIDE DEF fresh
    <3>2. /\ Shaped(fresh) /\ fresh.streak = 0 /\ fresh.uniqueCount = 0
          /\ fresh.attacks = <<>>
      BY <3>1 DEF Alters, Blank, Fields
    <3>3. <<>> \in Seq(BOOLEAN) /\ Len(<<>>) = 0 /\ Cfg.attackWindow \in Nat
      BY RewardsAssumption
    <3>4. fresh.attacks \in Seq(BOOLEAN) /\ Len(fresh.attacks) <= Cfg.attackWindow
      BY <3>2, <3>3
    <3> QED BY <1>4, <3>2, <3>4 DEF Counts
  <2>2. CASE n # 0
    <3>1. fresh = shaper /\ seen # <<>>
      BY <1>4, <2>2 DEF Fresh
    <3> HIDE DEF fresh
    <3> QED BY <3>1 DEF RolloutsTyped
  <2> QED BY <2>1, <2>2
<1> HIDE DEF fresh
<1>6. mix \in Mixes /\ planned \in 0 .. Frames /\ planned # 0 /\ n < planned /\ Frames \in Nat
  BY <1>3, RewardsAssumption DEF RolloutsTyped
<1>7. Counts(t, n + 1)
  BY <1>4, <1>5, <1>6, FrameCounts
<1>8. PICK S : earned \in Seq(S)
  BY DEF RolloutsTyped
<1> DEFINE x == t.paid
<1>9. earned' = Append(earned, x) /\ Len(earned) = n
  BY <1>3 DEF RolloutsTyped
<1> HIDE DEF x, t
<1>10. earned' \in Seq(S \cup {x}) /\ Len(earned') = n + 1
  <2>1. earned \in Seq(S \cup {x}) /\ x \in S \cup {x}
    BY <1>8
  <2> QED BY <1>9, <2>1
<1>11. seen' \in Seq(Shot) /\ Len(seen') = n + 1 /\ seen' # <<>>
  BY <1>3, <1>4
<1>12. n + 1 <= Frames /\ Counts(t, Frames)
  <2>1. n + 1 <= Frames
    BY <1>4, <1>6
  <2> QED BY <1>4, <1>6, <1>7, <2>1 DEF Counts
<1>13. planned' \in 0 .. Frames /\ (planned' # 0 => n + 1 < planned')
  BY <1>3, <1>4, <1>6
<1> HIDE DEF n
<1>14. Counts(shaper', Frames) /\ Counts(shaper', Len(seen'))
  BY <1>3, <1>7, <1>11, <1>12 DEF t
<1>15. (Counts(shaper, Frames) /\ (seen # <<>> => Counts(shaper, Len(seen))))'
  BY <1>14 DEF Counts, Shaped
<1>16. mix' \in Mixes /\ origin' \in Places \cup {NoPlace} /\ rollouts' \in 0 .. MaxRollouts
  BY <1>3 DEF RolloutsTyped
<1> QED BY <1>10, <1>11, <1>12, <1>13, <1>15, <1>16 DEF RolloutsTyped

LEMMA RolloutBeginTyped ==
  ASSUME RolloutsTyped, BeginRollout
  PROVE  RolloutsTyped'
<1>1. /\ seen' = <<>> /\ earned' = <<>> /\ UNCHANGED <<mix, shaper>>
      /\ rollouts' = rollouts + 1 /\ rollouts < MaxRollouts
      /\ \E seed \in Seeds : planned' = RolloutLength(seed)
  BY DEF BeginRollout
<1>2. planned' \in 1 .. Frames /\ Frames \in Nat
  BY <1>1, RolloutLengthIs, RewardsAssumption
<1>3. origin' \in Places \cup {NoPlace}
  BY RewardsAssumption DEF BeginRollout
<1>4. rollouts' \in 0 .. MaxRollouts
  BY <1>1, RewardsAssumption DEF RolloutsTyped
<1>5. (Counts(shaper, Frames))'
  BY <1>1 DEF RolloutsTyped, Counts, Shaped
<1>6. seen' \in Seq(Shot) /\ earned' \in Seq({}) /\ Len(earned') = Len(seen') /\ Len(seen') = 0
  BY <1>1
<1> QED BY <1>1, <1>2, <1>3, <1>4, <1>5, <1>6 DEF RolloutsTyped

\* The types of a rollout under a reward: it is never paid for more frames
\* than it has, nor for more than there are, and the streak, the targets
\* counted and the attack history keep within them, whatever the components,
\* thresholds and scenes.
THEOREM RewardsTypes == Spec => []RewardsTypeOK
<1>1. Init => RolloutsTyped
  <2> SUFFICES ASSUME RewardsInit PROVE RolloutsTyped
    BY DEF Init
  <2>1. /\ Shaped(shaper) /\ shaper.streak = 0 /\ shaper.uniqueCount = 0 /\ shaper.attacks = <<>>
    BY DEF RewardsInit, Blank, Shaped, Fields
  <2>2. /\ Frames \in Nat /\ MaxRollouts \in Nat /\ Cfg.attackWindow \in Nat
        /\ <<>> \in Seq(BOOLEAN) /\ Len(<<>>) = 0
    BY RewardsAssumption
  <2>3. Counts(shaper, Frames)
    BY <2>1, <2>2 DEF Counts
  <2>4. seen \in Seq(Shot) /\ earned \in Seq({}) /\ Len(earned) = Len(seen) /\ Len(seen) = 0
        /\ seen = <<>>
    BY DEF RewardsInit
  <2> QED BY <2>2, <2>3, <2>4 DEF RewardsInit, RolloutsTyped
<1>2. RolloutsTyped /\ [Next]_trainingVars => RolloutsTyped'
  <2> SUFFICES ASSUME RolloutsTyped, [Next]_trainingVars PROVE RolloutsTyped'
    OBVIOUS
  <2>1. [RewardsNext]_rewardVars
    BY DEF Next, Runs, Rolls, Trains, Iterates, Imagines, Streams, Crashes, trainingVars
  <2>2. CASE UNCHANGED rewardVars
    BY <2>2 DEF rewardVars, RolloutsTyped, Counts, Shaped
  <2> QED BY <2>1, <2>2, RolloutStepTyped, RolloutBeginTyped DEF RewardsNext
<1>3. RolloutsTyped => RewardsTypeOK
  BY DEF RolloutsTyped, Counts, RewardsTypeOK
<1> QED BY <1>1, <1>2, <1>3, PTL DEF Spec
=============================================================================
