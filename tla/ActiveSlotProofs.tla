-------------------------- MODULE ActiveSlotProofs --------------------------
(***************************************************************************)
(* Proofs about Schedule and ActiveSlot, for every length of the           *)
(* slotframe, every size of the schedule and every set of neighbors.       *)
(***************************************************************************)
EXTENDS ActiveSlot, FiniteSetTheorems, WellFoundedInduction, TLAPS

-----------------------------------------------------------------------------
(* Numbers.                                                                *)
-----------------------------------------------------------------------------

(* A set of naturals that is not empty has a least element.                *)
LEMMA LeastNatural ==
  ASSUME NEW S, S \subseteq Nat, S # {}
  PROVE  \E n \in S : \A m \in S : n <= m
<1>1. PICK n \in S : \A m \in S : <<m, n>> \notin OpToRel(<, Nat)
  BY WFMin, NatLessThanWellFounded
<1>2. \A m \in S : ~(m < n)
  BY <1>1 DEF OpToRel
<1>. QED
  BY <1>2

(* What holds of 0 and passes on from each number to the next holds of all.*)
LEMMA UpToAll ==
  ASSUME NEW N \in Nat, NEW S, 0 \in S,
         \A k \in 1 .. N : k - 1 \in S => k \in S
  PROVE  \A k \in 0 .. N : k \in S
<1>. DEFINE T == {k \in 0 .. N : k \notin S}
<1>1. CASE T = {}
  BY <1>1
<1>2. CASE T # {}
  <2>1. T \subseteq Nat
    OBVIOUS
  <2>. HIDE DEF T
  <2>2. PICK k \in T : \A m \in T : k <= m
    BY <1>2, <2>1, LeastNatural
  <2>3. k \in 0 .. N /\ k \notin S
    BY DEF T
  <2>4. k \in 1 .. N /\ k - 1 \in 0 .. N
    BY <2>3
  <2>5. k - 1 \notin T
    BY <2>2, <2>4
  <2>6. k - 1 \in S
    BY <2>4, <2>5 DEF T
  <2>. QED
    BY <2>3, <2>4, <2>6
<1>. QED
  BY <1>1, <1>2

(* g is what a recursion over 0 .. N defines: it begins with x, and each   *)
(* value is made by step from the one before it.                           *)
Iterates(g, N, X, x, step) ==
  /\ g \in [0 .. N -> X] /\ g[0] = x
  /\ \A k \in 1 .. N : g[k] = step[<<k, g[k - 1]>>]

LEMMA Iteration ==
  ASSUME NEW N \in Nat, NEW X, NEW x \in X, NEW step,
         \A k \in 1 .. N, y \in X : step[<<k, y>>] \in X
  PROVE  \E g : Iterates(g, N, X, x, step)
<1>. DEFINE Runs(n, g) == /\ g \in [0 .. n -> X] /\ g[0] = x
                          /\ \A k \in 1 .. n : g[k] = step[<<k, g[k - 1]>>]
            S == {n \in 0 .. N : \E g : Runs(n, g)}
<1>1. 0 \in S
  <2>. DEFINE h == [k \in 0 .. 0 |-> x]
  <2>1. h \in [0 .. 0 -> X] /\ h[0] = x /\ 1 .. 0 = {}
    OBVIOUS
  <2>. HIDE DEF h
  <2>2. Runs(0, h)
    BY <2>1
  <2>3. 0 \in 0 .. N
    OBVIOUS
  <2>. HIDE DEF Runs
  <2>. QED
    BY <2>2, <2>3
<1>2. ASSUME NEW n \in 1 .. N, n - 1 \in S PROVE n \in S
  <2>1. PICK g : Runs(n - 1, g)
    BY <1>2
  <2>. DEFINE y == step[<<n, g[n - 1]>>]
              h == [k \in 0 .. n |-> IF k = n THEN y ELSE g[k]]
  <2>2. g \in [0 .. n - 1 -> X] /\ n - 1 \in 0 .. n - 1
    BY <2>1
  <2>3. y \in X
    BY <2>2
  <2>4. \A k \in 0 .. n - 1 : k \in 0 .. n /\ k # n /\ g[k] \in X
    BY <2>2
  <2>. HIDE DEF y
  <2>5. h \in [0 .. n -> X]
    BY <2>3, <2>4
  <2>6. h[0] = x
    BY <2>1
  <2>7. ASSUME NEW k \in 1 .. n PROVE h[k] = step[<<k, h[k - 1]>>]
    <3>1. k \in 0 .. n /\ k - 1 \in 0 .. n /\ k - 1 # n
      OBVIOUS
    <3>2. h[k - 1] = g[k - 1]
      BY <3>1
    <3>3. CASE k = n
      BY <3>1, <3>2, <3>3 DEF y
    <3>4. CASE k # n
      <4>1. k \in 1 .. n - 1
        BY <3>4
      <4>2. g[k] = step[<<k, g[k - 1]>>]
        BY <2>1, <4>1
      <4>3. h[k] = g[k]
        BY <3>1, <3>4
      <4>. QED
        BY <4>2, <4>3, <3>2
    <3>. QED
      BY <3>3, <3>4
  <2>. HIDE DEF h
  <2>8. Runs(n, h)
    BY <2>5, <2>6, <2>7
  <2>9. n \in 0 .. N
    OBVIOUS
  <2>. HIDE DEF Runs
  <2>. QED
    BY <2>8, <2>9
<1>3. N \in S
  <2>. HIDE DEF S
  <2>. QED
    BY <1>1, <1>2, UpToAll
<1>. QED
  BY <1>3 DEF Iterates

LEMMA MinIsLeast ==
  ASSUME NEW S, S \subseteq Nat, S # {}
  PROVE  Min(S) \in S /\ \A m \in S : Min(S) <= m
<1>1. \E n \in S : \A m \in S : n <= m
  BY LeastNatural
<1>. QED
  BY <1>1 DEF Min

LEMMA PlusIs ==
  ASSUME NEW so \in Slots, NEW n \in 0 .. SLOTFRAME_LENGTH
  PROVE  /\ Plus(so, n) = IF so + n < SLOTFRAME_LENGTH THEN so + n
                          ELSE so + n - SLOTFRAME_LENGTH
         /\ Plus(so, n) \in Slots
<1>1. SLOTFRAME_LENGTH \in Nat /\ SLOTFRAME_LENGTH >= 2
  BY ScheduleAssumption
<1>2. CASE so + n < SLOTFRAME_LENGTH
  BY <1>1, <1>2 DEF Plus, Slots
<1>3. CASE so + n >= SLOTFRAME_LENGTH
  <2>1. so + n < 2 * SLOTFRAME_LENGTH
    BY <1>1 DEF Slots
  <2>2. (so + n) % SLOTFRAME_LENGTH = so + n - SLOTFRAME_LENGTH
    BY <1>1, <1>3, <2>1 DEF Slots
  <2>. QED
    BY <1>1, <1>3, <2>1, <2>2 DEF Plus, Slots
<1>. QED
  BY <1>1, <1>2, <1>3 DEF Slots

-----------------------------------------------------------------------------
(* The list.                                                               *)
-----------------------------------------------------------------------------

InUse(s) == {r \in Rows : s.buf[r].type # "OFF"}

(* A sound schedule: the entries in use point at each other, the current   *)
(* one is among them, no two have the same slot offset, and each points at *)
(* the one whose slot comes next.                                          *)
Sound(s) ==
  /\ s \in Schedules /\ s.maxActiveSlots = MAXACTIVESLOTS
  /\ \A r \in Rows \ InUse(s) : s.buf[r].neighbor = "none"
  /\ IF s.current = NULL THEN InUse(s) = {} ELSE s.current \in InUse(s)
  /\ \A r \in InUse(s) : s.buf[r].next \in InUse(s)
  /\ \A r, q \in InUse(s) :
       s.buf[r].slotOffset = s.buf[q].slotOffset => r = q
  /\ \A r, q \in InUse(s) :
       SlotsUntil(s.buf[r].slotOffset, s.buf[s.buf[r].next].slotOffset)
         <= SlotsUntil(s.buf[r].slotOffset, s.buf[q].slotOffset)

(* The types of what the proofs below use of a schedule.                   *)
LEMMA SoundTypes ==
  ASSUME NEW s, Sound(s)
  PROVE  /\ s.buf \in [Rows -> Entries]
         /\ \A r \in Rows : /\ s.buf[r] \in Entries
                            /\ s.buf[r].slotOffset \in Slots
                            /\ s.buf[r].next \in Rows \cup {NULL}
         /\ InUse(s) \subseteq Rows
         /\ SLOTFRAME_LENGTH \in Nat /\ SLOTFRAME_LENGTH >= 2
         /\ MAXACTIVESLOTS \in Nat /\ MAXACTIVESLOTS >= 2
BY ScheduleAssumption DEF Sound, Schedules, Entries, InUse

(* Of the entries in use, one is the last before a given slot.             *)
LEMMA LastBefore ==
  ASSUME NEW s, Sound(s), InUse(s) # {}, NEW so \in Slots
  PROVE  \E r \in InUse(s) : \A q \in InUse(s) :
           SlotsUntil(s.buf[r].slotOffset, so)
             <= SlotsUntil(s.buf[q].slotOffset, so)
<1>. DEFINE D(r) == SlotsUntil(s.buf[r].slotOffset, so)
            S == {D(r) : r \in InUse(s)}
<1>1. \A r \in InUse(s) : D(r) \in Nat
  BY SoundTypes DEF SlotsUntil, Slots
<1>. HIDE DEF D
<1>2. S \subseteq Nat /\ S # {}
  BY <1>1
<1>3. PICK n \in S : \A m \in S : n <= m
  BY <1>2, LeastNatural
<1>4. PICK r \in InUse(s) : n = D(r)
  BY <1>3
<1>5. \A q \in InUse(s) : D(r) <= D(q)
  BY <1>3, <1>4
<1>. QED
  BY <1>5 DEF D

(* Every entry in use follows one in use, and only one.                    *)
LEMMA HasPredecessor ==
  ASSUME NEW s, Sound(s), NEW c \in InUse(s)
  PROVE  \E p \in InUse(s) : s.buf[p].next = c
<1>. DEFINE so == s.buf[c].slotOffset
<1>1. PICK p \in InUse(s) : \A q \in InUse(s) :
        SlotsUntil(s.buf[p].slotOffset, so)
          <= SlotsUntil(s.buf[q].slotOffset, so)
  BY LastBefore, SoundTypes
<1>. DEFINE n == s.buf[p].next
<1>2. /\ n \in InUse(s)
      /\ SlotsUntil(s.buf[p].slotOffset, s.buf[n].slotOffset)
           <= SlotsUntil(s.buf[p].slotOffset, so)
      /\ s.buf[n].slotOffset = so => n = c
  BY DEF Sound
<1>3. /\ s.buf[p].slotOffset \in Slots /\ s.buf[n].slotOffset \in Slots
      /\ so \in Slots /\ SLOTFRAME_LENGTH \in Nat
  BY <1>2, SoundTypes
<1>4. SlotsUntil(s.buf[p].slotOffset, so) <= SlotsUntil(s.buf[n].slotOffset, so)
  BY <1>1, <1>2
<1>5. s.buf[n].slotOffset = so
  BY <1>2, <1>3, <1>4 DEF SlotsUntil, Slots
<1>. QED
  BY <1>2, <1>5

LEMMA OnePredecessor ==
  ASSUME NEW s, Sound(s), NEW p \in InUse(s), NEW q \in InUse(s),
         s.buf[p].next = s.buf[q].next
  PROVE  p = q
<1>. DEFINE n == s.buf[p].next
<1>1. n \in InUse(s)
  BY DEF Sound
<1>2. /\ s.buf[p].slotOffset \in Slots /\ s.buf[q].slotOffset \in Slots
      /\ s.buf[n].slotOffset \in Slots /\ SLOTFRAME_LENGTH \in Nat
  BY <1>1, SoundTypes
<1>3. /\ SlotsUntil(s.buf[p].slotOffset, s.buf[n].slotOffset)
           <= SlotsUntil(s.buf[p].slotOffset, s.buf[q].slotOffset)
      /\ SlotsUntil(s.buf[q].slotOffset, s.buf[n].slotOffset)
           <= SlotsUntil(s.buf[q].slotOffset, s.buf[p].slotOffset)
  BY DEF Sound
<1>4. s.buf[p].slotOffset = s.buf[q].slotOffset
  BY <1>2, <1>3 DEF SlotsUntil, Slots
<1>. QED
  BY <1>4 DEF Sound

(* The walk along the list, as a recursion.                                *)
LEMMA WalkSteps ==
  ASSUME NEW s, Sound(s), s.current # NULL
  PROVE  /\ Walk(s)[0] = s.current
         /\ \A k \in 1 .. MAXACTIVESLOTS : Walk(s)[k] = s.buf[Walk(s)[k - 1]].next
         /\ \A k \in 0 .. MAXACTIVESLOTS : Walk(s)[k] \in InUse(s)
<1>. DEFINE M == MAXACTIVESLOTS
            step == [e \in (1 .. M) \X InUse(s) |-> s.buf[e[2]].next]
            Eq(at) == at = [k \in 0 .. M |->
                        IF k = 0 THEN s.current ELSE s.buf[at[k - 1]].next]
<1>1. M \in Nat /\ s.current \in InUse(s)
  BY SoundTypes DEF Sound
<1>2. \A k \in 1 .. M, y \in InUse(s) : step[<<k, y>>] = s.buf[y].next
  OBVIOUS
<1>. HIDE DEF step
<1>3. \A k \in 1 .. M, y \in InUse(s) : step[<<k, y>>] \in InUse(s)
  BY <1>2 DEF Sound
<1>4. PICK g : Iterates(g, M, InUse(s), s.current, step)
  BY <1>1, <1>3, Iteration
<1>5. \A k \in 0 .. M : k # 0 => k \in 1 .. M /\ k - 1 \in 0 .. M
  BY <1>1
<1>6. \A k \in 0 .. M : g[k] = IF k = 0 THEN s.current ELSE s.buf[g[k - 1]].next
  BY <1>2, <1>4, <1>5 DEF Iterates
<1>7. Eq(g)
  BY <1>4, <1>6 DEF Iterates
<1>. HIDE DEF Eq
<1>8. Walk(s) = CHOOSE at : Eq(at)
  BY DEF Walk, Eq
<1>9. Eq(Walk(s))
  BY <1>7, <1>8
<1>10. \A k \in 0 .. M : Walk(s)[k] = IF k = 0 THEN s.current
                                      ELSE s.buf[Walk(s)[k - 1]].next
  BY <1>9 DEF Eq
<1>11. /\ Walk(s)[0] = s.current
       /\ \A k \in 1 .. M : Walk(s)[k] = s.buf[Walk(s)[k - 1]].next
  BY <1>1, <1>10
<1>. DEFINE S == {k \in 0 .. M : Walk(s)[k] \in InUse(s)}
<1>12. 0 \in S
  BY <1>1, <1>11
<1>13. \A k \in 1 .. M : k - 1 \in S => k \in S
  BY <1>1, <1>11 DEF Sound
<1>14. \A k \in 0 .. M : k \in S
  <2>. HIDE DEF S
  <2>. QED
    BY <1>1, <1>12, <1>13, UpToAll
<1>. QED
  BY <1>11, <1>14

(* The slots from the current entry's to that of entry r.                  *)
Ahead(s, r) ==
  LET a == s.buf[s.current].slotOffset
      b == s.buf[r].slotOffset
  IN IF a <= b THEN b - a ELSE SLOTFRAME_LENGTH + b - a

(* From one entry to the next, the slots ahead grow, and no entry is       *)
(* passed over, until the walk is back at the current entry.               *)
LEMMA NextAhead ==
  ASSUME NEW s, Sound(s), s.current # NULL, NEW x \in InUse(s)
  PROVE  LET n == s.buf[x].next IN
         /\ Ahead(s, x) \in Nat /\ Ahead(s, n) \in Nat
         /\ \/ \A q \in InUse(s) : Ahead(s, q) <= Ahead(s, x)
            \/ /\ Ahead(s, x) < Ahead(s, n)
               /\ \A q \in InUse(s) :
                    Ahead(s, q) <= Ahead(s, n) => Ahead(s, q) <= Ahead(s, x) \/ q = n
<1>. DEFINE n == s.buf[x].next
            so(r) == s.buf[r].slotOffset
<1>1. n \in InUse(s) /\ s.current \in InUse(s)
  BY DEF Sound
<1>2. SLOTFRAME_LENGTH \in Nat /\ \A r \in InUse(s) : so(r) \in 0 .. SLOTFRAME_LENGTH - 1
  BY SoundTypes DEF Slots
<1>3. \A q \in InUse(s) : SlotsUntil(so(x), so(n)) <= SlotsUntil(so(x), so(q))
  BY DEF Sound
<1>4. \A r \in InUse(s) : so(r) = so(n) => r = n
  BY <1>1 DEF Sound
<1>5. SlotsUntil(so(x), so(n)) <= SlotsUntil(so(x), so(s.current))
  BY <1>1, <1>3
<1>6. \A r \in InUse(s) :
        Ahead(s, r) = IF so(s.current) <= so(r) THEN so(r) - so(s.current)
                                        ELSE SLOTFRAME_LENGTH + so(r) - so(s.current)
  BY DEF Ahead
<1>. HIDE DEF so, n
<1>7. Ahead(s, x) \in Nat /\ Ahead(s, n) \in Nat
  BY <1>1, <1>2, <1>6
<1>8. CASE so(n) = so(s.current)
  <2>1. ASSUME NEW q \in InUse(s) PROVE Ahead(s, q) <= Ahead(s, x)
    <3>1. SlotsUntil(so(x), so(n)) <= SlotsUntil(so(x), so(q))
      BY <1>3
    <3>. QED
      BY <1>1, <1>2, <1>6, <1>8, <3>1 DEF SlotsUntil
  <2>. QED
    BY <2>1, <1>7 DEF n
<1>9. CASE so(n) # so(s.current)
  <2>1. Ahead(s, x) < Ahead(s, n)
    BY <1>1, <1>2, <1>5, <1>6, <1>9 DEF SlotsUntil
  <2>2. ASSUME NEW q \in InUse(s), Ahead(s, q) <= Ahead(s, n), q # n
        PROVE  Ahead(s, q) <= Ahead(s, x)
    <3>1. SlotsUntil(so(x), so(n)) <= SlotsUntil(so(x), so(q)) /\ so(q) # so(n)
      BY <1>3, <1>4, <2>2
    <3>. QED
      BY <1>1, <1>2, <1>5, <1>6, <1>9, <2>2, <3>1 DEF SlotsUntil
  <2>. QED
    BY <2>1, <2>2, <1>7 DEF n
<1>. QED
  BY <1>8, <1>9

LEMMA RowsFinite == IsFiniteSet(Rows) /\ Cardinality(Rows) = MAXACTIVESLOTS
<1>1. MAXACTIVESLOTS \in Nat /\ MAXACTIVESLOTS >= 2
  BY ScheduleAssumption
<1>2. /\ IsFiniteSet(0 .. MAXACTIVESLOTS - 1)
      /\ Cardinality(0 .. MAXACTIVESLOTS - 1) =
           IF 0 > MAXACTIVESLOTS - 1 THEN 0 ELSE MAXACTIVESLOTS - 1 - 0 + 1
  BY <1>1, FS_Interval
<1>. QED
  BY <1>1, <1>2 DEF Rows

(* The walk gets to all entries in use: as long as it has not, each step   *)
(* is to an entry not seen before, and there are as many steps as entries. *)
LEMMA ListedIsInUse ==
  ASSUME NEW s, Sound(s)
  PROVE  Listed(s) = InUse(s)
<1>1. CASE s.current = NULL
  BY <1>1 DEF Sound, Listed
<1>2. CASE s.current # NULL
  <2>. DEFINE M == MAXACTIVESLOTS
              W(k) == Walk(s)[k]
              V(k) == {W(j) : j \in 0 .. k}
              A(r) == Ahead(s, r)
              New(k) == /\ \A q \in V(k) : A(q) <= A(W(k))
                        /\ \A q \in InUse(s) : A(q) <= A(W(k)) => q \in V(k)
                        /\ IsFiniteSet(V(k)) /\ Cardinality(V(k)) = k + 1
              S == {k \in 0 .. M - 1 : InUse(s) \subseteq V(k) \/ New(k)}
  <2>1. M \in Nat /\ M >= 2
    BY SoundTypes
  <2>2. /\ W(0) = s.current
        /\ \A k \in 1 .. M : W(k) = s.buf[W(k - 1)].next
        /\ \A k \in 0 .. M : W(k) \in InUse(s)
    BY <1>2, WalkSteps
  <2>3. \A r \in InUse(s) : A(r) \in Nat
    BY <1>2, NextAhead
  <2>. HIDE DEF W, A
  <2>4. 0 \in S
    <3>1. V(0) = {s.current}
      BY <2>1, <2>2
    <3>2. A(s.current) = 0
      BY SoundTypes, <1>2 DEF A, Ahead, Sound, Slots
    <3>3. s.current \in InUse(s)
      BY <1>2 DEF Sound
    <3>4. ASSUME NEW q \in InUse(s), A(q) <= 0 PROVE q = s.current
      <4>. DEFINE a == s.buf[s.current].slotOffset
                  b == s.buf[q].slotOffset
      <4>0. a \in Slots /\ b \in Slots /\ SLOTFRAME_LENGTH \in Nat
        BY SoundTypes, <3>3
      <4>2. (IF a <= b THEN b - a ELSE SLOTFRAME_LENGTH + b - a) <= 0
        BY <3>4 DEF A, Ahead
      <4>. HIDE DEF a, b
      <4>3. a = b
        BY <4>0, <4>2 DEF Slots
      <4>1. s.buf[q].slotOffset = s.buf[s.current].slotOffset
        BY <4>3 DEF a, b
      <4>. QED
        BY <4>1, <3>3 DEF Sound
    <3>5. IsFiniteSet(V(0)) /\ Cardinality(V(0)) = 1
      BY <3>1, FS_Singleton
    <3>6. New(0)
      BY <2>2, <3>1, <3>2, <3>4, <3>5
    <3>. HIDE DEF New
    <3>. QED
      BY <2>1, <3>6
  <2>5. ASSUME NEW k \in 1 .. M - 1, k - 1 \in S PROVE k \in S
    <3>1. k \in 0 .. M /\ k - 1 \in 0 .. M /\ k \in 0 .. M - 1 /\ k \in 1 .. M
      BY <2>1
    <3>2. V(k) = V(k - 1) \cup {W(k)}
      <4>1. 0 .. k = (0 .. k - 1) \cup {k}
        BY <3>1
      <4>. QED
        BY <4>1
    <3>3. W(k - 1) \in InUse(s) /\ W(k) \in InUse(s) /\ W(k) = s.buf[W(k - 1)].next
      BY <2>2, <3>1
    <3>4. W(k - 1) \in V(k - 1) /\ V(k - 1) \subseteq InUse(s)
      <4>1. k - 1 \in 0 .. k - 1 /\ \A j \in 0 .. k - 1 : j \in 0 .. M
        BY <2>1, <3>1
      <4>. QED
        BY <2>2, <4>1
    <3>. HIDE DEF V
    <3>5. CASE InUse(s) \subseteq V(k - 1)
      BY <3>5, <3>2, <3>1
    <3>6. CASE New(k - 1)
      <4>1. CASE \A q \in InUse(s) : A(q) <= A(W(k - 1))
        BY <3>1, <3>2, <3>6, <4>1
      <4>2. CASE /\ A(W(k - 1)) < A(W(k))
                 /\ \A q \in InUse(s) :
                      A(q) <= A(W(k)) => A(q) <= A(W(k - 1)) \/ q = W(k)
        <5>1. A(W(k)) \in Nat /\ A(W(k - 1)) \in Nat
          BY <2>3, <3>3
        <5>2. \A q \in V(k) : A(q) <= A(W(k))
          BY <2>3, <3>2, <3>4, <3>6, <4>2, <5>1
        <5>3. \A q \in InUse(s) : A(q) <= A(W(k)) => q \in V(k)
          BY <3>2, <3>6, <4>2
        <5>4. W(k) \notin V(k - 1)
          BY <3>6, <4>2, <5>1
        <5>5. IsFiniteSet(V(k)) /\ Cardinality(V(k)) = Cardinality(V(k - 1)) + 1
          BY <3>2, <3>6, <5>4, FS_AddElement
        <5>6. New(k)
          BY <3>1, <3>6, <5>2, <5>3, <5>5
        <5>. QED
          BY <3>1, <5>6
      <4>3. \/ \A q \in InUse(s) : A(q) <= A(W(k - 1))
            \/ /\ A(W(k - 1)) < A(W(k))
               /\ \A q \in InUse(s) :
                    A(q) <= A(W(k)) => A(q) <= A(W(k - 1)) \/ q = W(k)
        BY <1>2, <3>3, NextAhead DEF A
      <4>. QED
        BY <4>1, <4>2, <4>3
    <3>. HIDE DEF New
    <3>. QED
      BY <2>5, <3>5, <3>6
  <2>6. M - 1 \in S
    <3>. HIDE DEF S
    <3>1. M - 1 \in Nat /\ M - 1 \in 0 .. M - 1
      BY <2>1
    <3>2. \A k \in 0 .. M - 1 : k \in S
      BY <3>1, <2>4, <2>5, UpToAll
    <3>. QED
      BY <3>1, <3>2
  <2>7. V(M - 1) = Listed(s)
    BY <1>2 DEF Listed, Rows, W
  <2>8. V(M - 1) \subseteq InUse(s)
    BY <2>1, <2>2
  <2>9. InUse(s) \subseteq V(M - 1)
    <3>1. CASE New(M - 1)
      <4>1. V(M - 1) \subseteq Rows
        BY <2>8, SoundTypes
      <4>2. Cardinality(V(M - 1)) = Cardinality(Rows)
        BY <2>1, <3>1, RowsFinite
      <4>. HIDE DEF V
      <4>3. V(M - 1) = Rows
        BY <4>1, <4>2, RowsFinite, FS_Subset
      <4>. QED
        BY <4>3, SoundTypes
    <3>. HIDE DEF New
    <3>. QED
      BY <2>6, <3>1
  <2>. HIDE DEF V
  <2>. QED
    BY <2>7, <2>8, <2>9
<1>. QED
  BY <1>1, <1>2

-----------------------------------------------------------------------------
(* Cells are added.                                                        *)
-----------------------------------------------------------------------------

(* A slot between two entries of the list has no entry of its own.         *)
LEMMA BetweenIsFree ==
  ASSUME NEW s, Sound(s), NEW p \in InUse(s), NEW so \in Slots,
         Between(s, p, so), NEW q \in InUse(s)
  PROVE  s.buf[q].slotOffset # so
<1>. DEFINE a == s.buf[p].slotOffset
            n == s.buf[s.buf[p].next].slotOffset
            o == s.buf[q].slotOffset
<1>1. SlotsUntil(a, n) <= SlotsUntil(a, o)
  BY DEF Sound
<1>2. a \in Slots /\ n \in Slots /\ o \in Slots /\ SLOTFRAME_LENGTH \in Nat
  BY SoundTypes DEF Sound
<1>3. (a < so /\ so < n) \/ (a < so /\ n <= a) \/ (so < n /\ n <= a)
  BY DEF Between
<1>. HIDE DEF a, n, o
<1>4. o # so
  BY <1>1, <1>2, <1>3 DEF SlotsUntil, Slots
<1>. QED
  BY <1>4 DEF o

(* The search for the place of a slot stops, at an entry before the slot   *)
(* or at the one that has it.                                              *)
LEMMA PlaceFound ==
  ASSUME NEW s, Sound(s), s.current # NULL, NEW so \in Slots
  PROVE  /\ PlaceFor(s, so) \in InUse(s)
         /\ \/ Between(s, PlaceFor(s, so), so)
            \/ s.buf[PlaceFor(s, so)].slotOffset = so
<1>. DEFINE Stop(r) == Between(s, r, so) \/ s.buf[r].slotOffset = so
            stops == {k \in Rows : Stop(Walk(s)[k])}
<1>1. s.current \in InUse(s)
  BY DEF Sound
<1>2. PICK r \in InUse(s) : \A q \in InUse(s) :
        SlotsUntil(s.buf[r].slotOffset, so) <= SlotsUntil(s.buf[q].slotOffset, so)
  BY <1>1, LastBefore
<1>3. \E q \in InUse(s) : Stop(q)
  <2>. DEFINE a == s.buf[r].slotOffset
              n == s.buf[s.buf[r].next].slotOffset
  <2>1. CASE n = so
    BY <2>1 DEF Sound
  <2>2. CASE a = so
    BY <2>2
  <2>3. CASE n # so /\ a # so
    <3>1. a \in Slots /\ n \in Slots /\ SLOTFRAME_LENGTH \in Nat
      BY SoundTypes DEF Sound
    <3>2. SlotsUntil(a, so) <= SlotsUntil(n, so)
      BY <1>2 DEF Sound
    <3>. HIDE DEF a, n
    <3>3. (a < so /\ so < n) \/ (a < so /\ n <= a) \/ (so < n /\ n <= a)
      BY <2>3, <3>1, <3>2 DEF SlotsUntil, Slots
    <3>4. Between(s, r, so)
      BY <3>3 DEF Between, a, n
    <3>. QED
      BY <3>4
  <2>. QED
    BY <2>1, <2>2, <2>3
<1>. HIDE DEF Stop
<1>4. \A q \in InUse(s) : \E k \in Rows : Walk(s)[k] = q
  BY ListedIsInUse DEF Listed
<1>5. stops # {} /\ stops \subseteq Nat
  BY <1>3, <1>4, SoundTypes DEF Rows
<1>6. Min(stops) \in stops
  BY <1>5, MinIsLeast
<1>7. PlaceFor(s, so) = Walk(s)[Min(stops)]
  BY DEF PlaceFor, Stop
<1>8. Min(stops) \in 0 .. MAXACTIVESLOTS
  BY <1>6, SoundTypes DEF Rows
<1>9. Walk(s)[Min(stops)] \in InUse(s)
  BY <1>8, WalkSteps
<1>10. Stop(Walk(s)[Min(stops)])
  BY <1>6
<1>. QED
  BY <1>7, <1>9, <1>10 DEF Stop

(* A free container c, put with its slot offset behind entry p.            *)
LEMMA Insertion ==
  ASSUME NEW s, Sound(s), NEW c \in Rows \ InUse(s), NEW p \in InUse(s),
         NEW so \in Slots, Between(s, p, so),
         NEW t \in Schedules, t.maxActiveSlots = MAXACTIVESLOTS,
         t.current = s.current,
         t.buf[c].slotOffset = so, t.buf[c].type # "OFF",
         t.buf[c].next = s.buf[p].next, t.buf[p].next = c,
         \A r \in InUse(s) : /\ t.buf[r].slotOffset = s.buf[r].slotOffset
                             /\ t.buf[r].type = s.buf[r].type,
         \A r \in InUse(s) \ {p} : t.buf[r].next = s.buf[r].next,
         \A r \in (Rows \ InUse(s)) \ {c} : t.buf[r] = s.buf[r]
  PROVE  Sound(t) /\ InUse(t) = InUse(s) \cup {c}
<1>. DEFINE n == s.buf[p].next
<1>1. InUse(t) = InUse(s) \cup {c}
  BY DEF InUse
<1>2. n \in InUse(s) /\ p # c /\ s.current \in InUse(s) /\ s.current # NULL
  BY DEF Sound
<1>3. \A r \in InUse(s) : s.buf[r].slotOffset # so
  BY BetweenIsFree
<1>4. \A r \in Rows \ InUse(t) : t.buf[r].neighbor = "none"
  BY <1>1 DEF Sound
<1>5. \A r \in InUse(t) : t.buf[r].next \in InUse(t)
  BY <1>1, <1>2 DEF Sound
<1>6. ASSUME NEW r \in InUse(t), NEW q \in InUse(t),
             t.buf[r].slotOffset = t.buf[q].slotOffset
      PROVE  r = q
  BY <1>1, <1>3, <1>6 DEF Sound
<1>7. ASSUME NEW r \in InUse(t), NEW q \in InUse(t)
      PROVE  SlotsUntil(t.buf[r].slotOffset, t.buf[t.buf[r].next].slotOffset)
               <= SlotsUntil(t.buf[r].slotOffset, t.buf[q].slotOffset)
  <2>. DEFINE o(x) == t.buf[x].slotOffset
              a == o(r)
              b == o(s.buf[p].next)
              d == o(q)
              e == o(p)
  <2>1. /\ a \in Slots /\ b \in Slots /\ d \in Slots /\ e \in Slots
        /\ SLOTFRAME_LENGTH \in Nat
    BY <1>1, <1>2, SoundTypes
  <2>2. (e < so /\ so < b) \/ (e < so /\ b <= e) \/ (so < b /\ b <= e)
    BY <1>2 DEF Between
  <2>3. q # c => SlotsUntil(e, b) <= SlotsUntil(e, d)
    BY <1>1, <1>2 DEF Sound
  <2>4. q = c => d = so
    OBVIOUS
  <2>5. CASE r = c
    <3>1. a = so /\ o(t.buf[r].next) = b
      BY <2>5
    <3>. HIDE DEF a, b, d, e, o
    <3>2. SlotsUntil(a, b) <= SlotsUntil(a, d)
      BY <2>1, <2>2, <2>3, <2>4, <3>1 DEF SlotsUntil, Slots
    <3>. QED
      BY <3>1, <3>2 DEF a, d, o
  <2>6. CASE r = p
    <3>1. a = e /\ o(t.buf[r].next) = so
      BY <2>6
    <3>. HIDE DEF a, b, d, e, o
    <3>2. SlotsUntil(a, so) <= SlotsUntil(a, d)
      BY <2>1, <2>2, <2>3, <2>4, <3>1 DEF SlotsUntil, Slots
    <3>. QED
      BY <3>1, <3>2 DEF a, d, o
  <2>7. CASE r # c /\ r # p
    <3>. DEFINE f == o(s.buf[r].next)
    <3>1. /\ r \in InUse(s) /\ s.buf[r].next \in InUse(s)
          /\ t.buf[r].next = s.buf[r].next
      BY <1>1, <2>7 DEF Sound
    <3>2. f \in Slots
      BY <3>1, SoundTypes
    <3>3. /\ SlotsUntil(a, f) <= SlotsUntil(a, e)
          /\ SlotsUntil(e, b) <= SlotsUntil(e, a)
          /\ q # c => SlotsUntil(a, f) <= SlotsUntil(a, d)
      BY <1>1, <1>2, <3>1 DEF Sound
    <3>4. a # e
      BY <2>7, <3>1 DEF Sound
    <3>. HIDE DEF a, b, d, e, f, o
    <3>5. SlotsUntil(a, f) <= SlotsUntil(a, d)
      BY <2>1, <2>2, <2>4, <3>2, <3>3, <3>4 DEF SlotsUntil, Slots
    <3>. QED
      BY <3>1, <3>5 DEF a, d, f, o
  <2>. QED
    BY <2>5, <2>6, <2>7
<1>. QED
  BY <1>1, <1>2, <1>4, <1>5, <1>6, <1>7 DEF Sound

(* What the other entries keep when cells are added or removed.            *)
Keeps(s, t, rows) ==
  \A r \in rows : /\ t.buf[r].type = s.buf[r].type
                  /\ t.buf[r].neighbor = s.buf[r].neighbor

(* schedule_addActiveSlot leaves the schedule as it was, or puts one cell  *)
(* into a container that was free.                                         *)
LEMMA AddActiveSlot ==
  ASSUME NEW s, Sound(s), NEW so \in Slots, NEW type \in CellTypes \ {"OFF"},
         NEW shared \in BOOLEAN, NEW neighbor \in Neighbors \cup {"none", "anycast"},
         NEW t, t = addActiveSlot(s, so, type, shared, neighbor)
  PROVE  /\ Sound(t)
         /\ \/ t = s /\ (InUse(s) = Rows \/ \E q \in InUse(s) : s.buf[q].slotOffset = so)
            \/ \E c \in Rows \ InUse(s) :
                 /\ InUse(t) = InUse(s) \cup {c} /\ Keeps(s, t, InUse(s))
                 /\ t.buf[c].type = type /\ t.buf[c].neighbor = neighbor
                 /\ t.buf[c].slotOffset = so
         /\ s.current # NULL => t.current = s.current
         /\ \A q \in InUse(s) : t.buf[q].slotOffset = s.buf[q].slotOffset
<1>. DEFINE Free == FreeContainers(s)
            c == Min(Free)
            p == PlaceFor(s, so)
            cell == [slotOffset |-> so, type |-> type, shared |-> shared,
                     neighbor |-> neighbor, next |-> c]
<1>1. Free = Rows \ InUse(s)
  BY SoundTypes DEF FreeContainers, InUse, Sound, Rows
<1>2. CASE Free = {}
  <2>1. t = s /\ InUse(s) = Rows
    BY <1>1, <1>2, SoundTypes DEF addActiveSlot
  <2>. QED
    BY <2>1
<1>3. CASE Free # {}
  <2>1. c \in Rows \ InUse(s)
    <3>1. Free \subseteq Nat
      BY <1>1, SoundTypes DEF Rows
    <3>. QED
      BY <1>1, <1>3, <3>1, MinIsLeast
  <2>. HIDE DEF c
  <2>2. CASE s.current = NULL
    <3>1. t = [s EXCEPT !.buf[c] = cell, !.current = c]
      BY <1>3, <2>2 DEF addActiveSlot, c
    <3>2. InUse(s) = {}
      BY <2>2 DEF Sound
    <3>3. cell \in Entries
      BY <2>1 DEF Entries
    <3>4. s \in [buf : [Rows -> Entries], current : Rows \cup {NULL},
                 frameLength : {0, SLOTFRAME_LENGTH}, maxActiveSlots : Nat]
      BY DEF Sound, Schedules
    <3>. HIDE DEF cell
    <3>5. /\ t \in Schedules /\ t.maxActiveSlots = s.maxActiveSlots
          /\ t.current = c /\ t.buf = [s.buf EXCEPT ![c] = cell]
      BY <2>1, <3>1, <3>3, <3>4 DEF Schedules
    <3>6. t.buf[c] = cell /\ \A r \in Rows \ {c} : t.buf[r] = s.buf[r]
      BY <2>1, <3>5, SoundTypes
    <3>7. InUse(t) = {c}
      BY <2>1, <3>2, <3>6 DEF InUse, cell
    <3>8. c # NULL
      BY <2>1, SoundTypes DEF Rows, NULL
    <3>9. SlotsUntil(so, so) <= SlotsUntil(so, so)
      BY SoundTypes DEF SlotsUntil, Slots
    <3>10. Sound(t)
      BY <3>2, <3>5, <3>6, <3>7, <3>8, <3>9 DEF Sound, cell
    <3>. QED
      BY <2>1, <2>2, <3>2, <3>6, <3>7, <3>10 DEF Keeps, cell
  <2>3. CASE s.current # NULL /\ ~Between(s, p, so)
    <3>1. t = s
      BY <1>3, <2>3 DEF addActiveSlot
    <3>. QED
      BY <2>3, <3>1, PlaceFound
  <2>4. CASE s.current # NULL /\ Between(s, p, so)
    <3>. DEFINE new == [cell EXCEPT !.next = s.buf[p].next]
    <3>1. t = [s EXCEPT !.buf[p].next = c, !.buf[c] = new]
      BY <1>3, <2>4 DEF addActiveSlot, c
    <3>2. p \in InUse(s) /\ p \in Rows /\ p # c
      BY <2>1, <2>4, PlaceFound, SoundTypes
    <3>3. /\ new \in Entries /\ new.slotOffset = so /\ new.type = type
          /\ new.neighbor = neighbor /\ new.next = s.buf[p].next
      BY <2>1, <3>2, SoundTypes DEF Entries
    <3>4. s \in [buf : [Rows -> Entries], current : Rows \cup {NULL},
                 frameLength : {0, SLOTFRAME_LENGTH}, maxActiveSlots : Nat]
      BY DEF Sound, Schedules
    <3>. HIDE DEF new, cell
    <3>. DEFINE b == [s.buf EXCEPT ![p].next = c, ![c] = new]
    <3>5. b \in [Rows -> Entries]
      BY <2>1, <3>2, <3>3, <3>4 DEF Entries
    <3>6. /\ t \in Schedules /\ t.maxActiveSlots = s.maxActiveSlots
          /\ t.current = s.current /\ t.buf = b
      BY <3>1, <3>4, <3>5 DEF Schedules
    <3>7. /\ b[c] = new /\ b[p] = [s.buf[p] EXCEPT !.next = c]
          /\ \A r \in Rows \ {c, p} : b[r] = s.buf[r]
      BY <2>1, <3>2, <3>4
    <3>8. /\ b[p].next = c /\ b[p].slotOffset = s.buf[p].slotOffset
          /\ b[p].type = s.buf[p].type /\ b[p].neighbor = s.buf[p].neighbor
      BY <3>2, <3>4, <3>7 DEF Entries
    <3>. HIDE DEF b, p
    <3>9. \A r \in InUse(s) : /\ t.buf[r].slotOffset = s.buf[r].slotOffset
                              /\ t.buf[r].type = s.buf[r].type
                              /\ t.buf[r].neighbor = s.buf[r].neighbor
      BY <2>1, <3>6, <3>7, <3>8, SoundTypes
    <3>10. \A r \in InUse(s) \ {p} : t.buf[r].next = s.buf[r].next
      BY <2>1, <3>6, <3>7, SoundTypes
    <3>11. \A r \in (Rows \ InUse(s)) \ {c} : t.buf[r] = s.buf[r]
      BY <3>2, <3>6, <3>7
    <3>12. Between(s, p, so) /\ s.maxActiveSlots = MAXACTIVESLOTS /\ t.buf[c] = new
           /\ type # "OFF"
      BY <2>4, <3>6, <3>7 DEF Sound, p
    <3>13. t.buf[p].next = c
      BY <3>6, <3>8
    <3>14. Sound(t) /\ InUse(t) = InUse(s) \cup {c}
      BY <2>1, <3>2, <3>3, <3>6, <3>9, <3>10, <3>11, <3>12, <3>13, Insertion
    <3>. QED
      BY <2>1, <2>4, <3>3, <3>6, <3>9, <3>12, <3>14 DEF Keeps
  <2>. QED
    BY <2>2, <2>3, <2>4
<1>. QED
  BY <1>2, <1>3

-----------------------------------------------------------------------------
(* Cells are removed.                                                      *)
-----------------------------------------------------------------------------

(* Entry c, taken off the list by the entry p before it.                   *)
LEMMA Removal ==
  ASSUME NEW s, Sound(s), NEW c \in InUse(s), NEW p \in InUse(s), p # c,
         s.buf[p].next = c,
         NEW t \in Schedules, t.maxActiveSlots = MAXACTIVESLOTS,
         t.current = IF s.current = c THEN s.buf[c].next ELSE s.current,
         t.buf[c].type = "OFF", t.buf[c].neighbor = "none",
         t.buf[p].next = s.buf[c].next,
         \A r \in Rows \ {c} : /\ t.buf[r].slotOffset = s.buf[r].slotOffset
                               /\ t.buf[r].type = s.buf[r].type
                               /\ t.buf[r].neighbor = s.buf[r].neighbor,
         \A r \in Rows \ {c, p} : t.buf[r].next = s.buf[r].next
  PROVE  Sound(t) /\ InUse(t) = InUse(s) \ {c}
<1>. DEFINE n == s.buf[c].next
<1>1. InUse(t) = InUse(s) \ {c}
  BY DEF InUse
<1>2. \A r \in InUse(s) : r # p => s.buf[r].next # c
  BY OnePredecessor
<1>3. n \in InUse(s) /\ n # c
  BY <1>2 DEF Sound
<1>4. t.current \in InUse(t) /\ t.current # NULL
  BY <1>1, <1>3, SoundTypes DEF Sound, Rows, NULL
<1>5. \A r \in Rows \ InUse(t) : t.buf[r].neighbor = "none"
  BY <1>1 DEF Sound
<1>6. InUse(s) \subseteq Rows
  BY SoundTypes
<1>7. ASSUME NEW r \in InUse(t)
      PROVE  /\ r \in InUse(s) /\ t.buf[r].next \in InUse(t)
             /\ t.buf[r].next = IF r = p THEN n ELSE s.buf[r].next
  BY <1>1, <1>2, <1>3, <1>6 DEF Sound
<1>8. ASSUME NEW r \in InUse(t), NEW q \in InUse(t),
             t.buf[r].slotOffset = t.buf[q].slotOffset
      PROVE  r = q
  BY <1>1, <1>6, <1>8 DEF Sound
<1>9. ASSUME NEW r \in InUse(t), NEW q \in InUse(t)
      PROVE  SlotsUntil(t.buf[r].slotOffset, t.buf[t.buf[r].next].slotOffset)
               <= SlotsUntil(t.buf[r].slotOffset, t.buf[q].slotOffset)
  <2>. DEFINE o(x) == s.buf[x].slotOffset
              a == o(p)
              b == o(c)
              d == o(q)
              e == o(n)
  <2>1. \A x \in InUse(t) : t.buf[x].slotOffset = o(x)
    BY <1>1, <1>6
  <2>2. r \in InUse(s) /\ q \in InUse(s) /\ r # c /\ q # c
    BY <1>1
  <2>3. CASE r # p
    <3>1. t.buf[r].next = s.buf[r].next
      BY <1>7, <2>3
    <3>. QED
      BY <1>7, <2>1, <2>2, <3>1 DEF Sound
  <2>4. CASE r = p
    <3>1. /\ a \in Slots /\ b \in Slots /\ d \in Slots /\ e \in Slots
          /\ SLOTFRAME_LENGTH \in Nat
      BY <1>3, <2>2, SoundTypes
    <3>2. /\ SlotsUntil(a, b) <= SlotsUntil(a, d)
          /\ SlotsUntil(b, e) <= SlotsUntil(b, d)
          /\ SlotsUntil(b, e) <= SlotsUntil(b, a)
          /\ b # d /\ a # b
      BY <2>2 DEF Sound
    <3>. HIDE DEF a, b, d, e
    <3>3. SlotsUntil(a, e) <= SlotsUntil(a, d)
      BY <3>1, <3>2 DEF SlotsUntil, Slots
    <3>4. t.buf[r].next = n
      BY <1>7, <2>4
    <3>5. n \in InUse(t)
      BY <1>1, <1>3
    <3>. QED
      BY <2>1, <2>4, <3>3, <3>4, <3>5 DEF a, d, e
  <2>. QED
    BY <2>3, <2>4
<1>. QED
  BY <1>1, <1>4, <1>5, <1>7, <1>8, <1>9 DEF Sound

(* schedule_removeActiveSlot leaves the schedule as it was, or gives back  *)
(* one cell that was shared with the neighbor.                             *)
LEMMA RemoveActiveSlot ==
  ASSUME NEW s, Sound(s), NEW so, NEW neighbor,
         NEW t, t = removeActiveSlot(s, so, neighbor)
  PROVE  /\ Sound(t)
         /\ \/ t = s
            \/ \E c \in InUse(s) :
                 /\ InUse(t) = InUse(s) \ {c} /\ Keeps(s, t, InUse(t))
                 /\ s.buf[c].neighbor # "none"
<1>. DEFINE found == {r \in Rows : /\ r < s.maxActiveSlots
                                   /\ s.buf[r].slotOffset = so
                                   /\ sameAddress(neighbor, s.buf[r].neighbor)}
            c == Min(found)
            p == CHOOSE q \in Listed(s) : s.buf[q].next = c
<1>1. CASE found = {}
  BY <1>1 DEF removeActiveSlot
<1>2. CASE found # {}
  <2>1. c \in found
    <3>1. found \subseteq Nat
      BY SoundTypes DEF Rows
    <3>. HIDE DEF found
    <3>. QED
      BY <1>2, <3>1, MinIsLeast
  <2>2. c \in InUse(s) /\ s.buf[c].neighbor # "none" /\ c \in Rows
    BY <2>1 DEF Sound, sameAddress
  <2>3. s \in [buf : [Rows -> Entries], current : Rows \cup {NULL},
               frameLength : {0, SLOTFRAME_LENGTH}, maxActiveSlots : Nat]
    BY DEF Sound, Schedules
  <2>4. resetEntry \in Entries /\ resetEntry.type = "OFF" /\ resetEntry.neighbor = "none"
    BY SoundTypes DEF resetEntry, Entries, Slots, CellTypes
  <2>. HIDE DEF c
  <2>5. CASE s.buf[c].next = c
    <3>1. t = [s EXCEPT !.buf[c] = resetEntry, !.current = NULL]
      BY <1>2, <2>5 DEF removeActiveSlot, c
    <3>. HIDE DEF found
    <3>2. /\ t \in Schedules /\ t.maxActiveSlots = s.maxActiveSlots
          /\ t.current = NULL /\ t.buf = [s.buf EXCEPT ![c] = resetEntry]
      BY <2>2, <2>3, <2>4, <3>1 DEF Schedules
    <3>3. t.buf[c] = resetEntry /\ \A r \in Rows \ {c} : t.buf[r] = s.buf[r]
      BY <2>2, <2>3, <3>2
    <3>4. ASSUME NEW q \in InUse(s) PROVE q = c
      <4>. DEFINE a == s.buf[c].slotOffset
                  b == s.buf[q].slotOffset
      <4>1. SlotsUntil(a, a) <= SlotsUntil(a, b)
        BY <2>2, <2>5 DEF Sound
      <4>2. a \in Slots /\ b \in Slots /\ SLOTFRAME_LENGTH \in Nat
        BY <2>2, SoundTypes
      <4>. HIDE DEF a, b
      <4>3. a = b
        BY <4>1, <4>2 DEF SlotsUntil, Slots
      <4>. QED
        BY <2>2, <4>3 DEF Sound, a, b
    <3>5. InUse(t) = {} /\ InUse(s) = {c}
      BY <2>2, <2>4, <3>3, <3>4 DEF InUse
    <3>6. \A r \in Rows : t.buf[r].neighbor = "none"
      BY <2>4, <3>3, <3>5 DEF Sound
    <3>7. Sound(t)
      BY <3>2, <3>5, <3>6 DEF Sound
    <3>. QED
      BY <2>2, <3>5, <3>7 DEF Keeps
  <2>6. CASE s.buf[c].next # c
    <3>1. p \in InUse(s) /\ s.buf[p].next = c
      BY <2>2, HasPredecessor, ListedIsInUse
    <3>2. p # c /\ p \in Rows /\ s.buf[c].next \in Rows
      BY <2>2, <2>6, <3>1, SoundTypes DEF Sound
    <3>3. t = [s EXCEPT !.buf[p].next = s.buf[c].next,
                        !.buf[c] = resetEntry,
                        !.current = IF @ = c THEN s.buf[c].next ELSE @]
      BY <1>2, <2>6 DEF removeActiveSlot, c
    <3>. HIDE DEF p, found
    <3>. DEFINE b == [s.buf EXCEPT ![p].next = s.buf[c].next, ![c] = resetEntry]
                new == IF s.current = c THEN s.buf[c].next ELSE s.current
    <3>4. b \in [Rows -> Entries]
      BY <2>2, <2>3, <2>4, <3>2 DEF Entries
    <3>5. new \in Rows \cup {NULL}
      BY <2>3, <3>2
    <3>6. /\ t \in Schedules /\ t.maxActiveSlots = s.maxActiveSlots
          /\ t.current = new /\ t.buf = b
      BY <2>3, <3>3, <3>4, <3>5 DEF Schedules
    <3>7. /\ b[c] = resetEntry /\ b[p] = [s.buf[p] EXCEPT !.next = s.buf[c].next]
          /\ \A r \in Rows \ {c, p} : b[r] = s.buf[r]
      BY <2>2, <2>3, <3>2
    <3>8. /\ b[p].next = s.buf[c].next /\ b[p].slotOffset = s.buf[p].slotOffset
          /\ b[p].type = s.buf[p].type /\ b[p].neighbor = s.buf[p].neighbor
      BY <2>3, <3>2, <3>7 DEF Entries
    <3>. HIDE DEF b
    <3>9. \A r \in Rows \ {c} : /\ t.buf[r].slotOffset = s.buf[r].slotOffset
                                /\ t.buf[r].type = s.buf[r].type
                                /\ t.buf[r].neighbor = s.buf[r].neighbor
      BY <3>6, <3>7, <3>8
    <3>10. \A r \in Rows \ {c, p} : t.buf[r].next = s.buf[r].next
      BY <3>6, <3>7
    <3>11. t.buf[c].type = "OFF" /\ t.buf[c].neighbor = "none"
      BY <2>4, <3>6, <3>7
    <3>12. t.buf[p].next = s.buf[c].next /\ s.maxActiveSlots = MAXACTIVESLOTS
      BY <3>6, <3>8 DEF Sound
    <3>13. Sound(t) /\ InUse(t) = InUse(s) \ {c}
      BY <2>2, <3>1, <3>2, <3>6, <3>9, <3>10, <3>11, <3>12, Removal
    <3>. QED
      BY <2>2, <3>9, <3>13, SoundTypes DEF Keeps
  <2>. QED
    BY <2>5, <2>6
<1>. QED
  BY <1>1, <1>2

(* schedule_removeAllCells removes some of the cells, or none.             *)
LEMMA RemovesCells ==
  ASSUME NEW s, Sound(s), NEW neighbor, NEW t, t = removeAllCells(s, neighbor)
  PROVE  /\ Sound(t) /\ InUse(t) \subseteq InUse(s) /\ Keeps(s, t, InUse(t))
         /\ \A r \in InUse(s) : s.buf[r].neighbor = "none" => r \in InUse(t)
         /\ t = s \/ InUse(t) # InUse(s)
<1>. DEFINE M == MAXACTIVESLOTS
            Left(u) == /\ Sound(u) /\ InUse(u) \subseteq InUse(s)
                       /\ Keeps(s, u, InUse(u))
                       /\ \A r \in InUse(s) :
                            s.buf[r].neighbor = "none" => r \in InUse(u)
                       /\ u = s \/ InUse(u) # InUse(s)
            X == {u \in Schedules : Left(u)}
            Row(u, r) == IF sameAddress(u.buf[r].neighbor, neighbor)
                         THEN removeActiveSlot(u, u.buf[r].slotOffset, neighbor)
                         ELSE u
            step == [e \in (1 .. M) \X X |-> Row(e[2], e[1] - 1)]
            Eq(upTo) == upTo = [r \in -1 .. M - 1 |->
              IF r = -1 THEN s
              ELSE LET e == upTo[r - 1].buf[r] IN
                   IF sameAddress(e.neighbor, neighbor)
                   THEN removeActiveSlot(upTo[r - 1], e.slotOffset, neighbor)
                   ELSE upTo[r - 1]]
<1>1. M \in Nat /\ s \in X
  BY SoundTypes DEF Sound, Keeps
<1>2. ASSUME NEW u \in X, NEW r PROVE Row(u, r) \in X
  <2>. DEFINE v == removeActiveSlot(u, u.buf[r].slotOffset, neighbor)
  <2>1. ASSUME v = u PROVE v \in X
    BY <2>1
  <2>2. ASSUME \E c \in InUse(u) :
                 /\ InUse(v) = InUse(u) \ {c} /\ Keeps(u, v, InUse(v))
                 /\ u.buf[c].neighbor # "none"
        PROVE  v \in X
    <3>1. PICK c \in InUse(u) : /\ InUse(v) = InUse(u) \ {c}
                                /\ Keeps(u, v, InUse(v))
                                /\ u.buf[c].neighbor # "none"
      BY <2>2
    <3>2. Sound(v) /\ v \in Schedules
      BY RemoveActiveSlot DEF Sound
    <3>. HIDE DEF v
    <3>3. InUse(v) \subseteq InUse(s) /\ InUse(v) # InUse(s)
      BY <3>1
    <3>4. Keeps(s, v, InUse(v))
      BY <3>1 DEF Keeps
    <3>5. \A q \in InUse(s) : s.buf[q].neighbor = "none" => q \in InUse(v)
      BY <3>1 DEF Keeps
    <3>6. v \in X
      BY <3>2, <3>3, <3>4, <3>5
    <3>. QED
      BY <3>6 DEF v
  <2>3. v = u \/ \E c \in InUse(u) :
               /\ InUse(v) = InUse(u) \ {c} /\ Keeps(u, v, InUse(v))
               /\ u.buf[c].neighbor # "none"
    <3>. DEFINE so == u.buf[r].slotOffset
    <3>1. Sound(u) /\ v = removeActiveSlot(u, so, neighbor)
      OBVIOUS
    <3>. HIDE DEF v, so, X
    <3>. QED
      BY <3>1, RemoveActiveSlot
  <2>4. v \in X
    BY <2>1, <2>2, <2>3
  <2>. HIDE DEF v, X
  <2>5. Row(u, r) = v \/ Row(u, r) = u
    BY DEF v
  <2>. QED
    BY <2>4, <2>5
<1>. HIDE DEF X
<1>3. \A k \in 1 .. M, u \in X : step[<<k, u>>] = Row(u, k - 1)
  OBVIOUS
<1>. HIDE DEF step, Row
<1>4. \A k \in 1 .. M, u \in X : step[<<k, u>>] \in X
  BY <1>2, <1>3
<1>5. PICK g : Iterates(g, M, X, s, step)
  BY <1>1, <1>4, Iteration
<1>6. /\ g[0] = s
      /\ \A k \in 1 .. M : g[k] = Row(g[k - 1], k - 1)
      /\ \A k \in 0 .. M : g[k] \in X
  <2>1. \A k \in 1 .. M : k - 1 \in 0 .. M
    BY <1>1
  <2>2. \A k \in 0 .. M : g[k] \in X
    BY <1>5 DEF Iterates
  <2>3. \A k \in 1 .. M : g[k] = Row(g[k - 1], k - 1)
    BY <1>3, <1>5, <2>1, <2>2 DEF Iterates
  <2>. QED
    BY <1>5, <2>2, <2>3 DEF Iterates
<1>. DEFINE f == [r \in -1 .. M - 1 |-> g[r + 1]]
<1>7. Eq(f)
  <2>1. ASSUME NEW r \in -1 .. M - 1, r # -1
        PROVE  f[r] = Row(f[r - 1], r)
    <3>1. /\ r + 1 \in 1 .. M /\ r - 1 \in -1 .. M - 1
          /\ (r + 1) - 1 = r /\ (r - 1) + 1 = r
      BY <1>1, <2>1
    <3>2. f[r] = g[r + 1] /\ f[r - 1] = g[r]
      BY <3>1
    <3>3. g[r + 1] = Row(g[r], r)
      BY <1>6, <3>1
    <3>. QED
      BY <3>2, <3>3
  <2>2. -1 \in -1 .. M - 1 /\ (-1) + 1 = 0
    BY <1>1
  <2>3. f[-1] = s
    BY <1>6, <2>2
  <2>4. f = [r \in -1 .. M - 1 |-> f[r]]
    OBVIOUS
  <2>. HIDE DEF f
  <2>5. \A r \in -1 .. M - 1 : f[r] = IF r = -1 THEN s ELSE Row(f[r - 1], r)
    BY <2>1, <2>3
  <2>6. f = [r \in -1 .. M - 1 |-> IF r = -1 THEN s ELSE Row(f[r - 1], r)]
    BY <2>4, <2>5
  <2>. QED
    BY <2>6 DEF Row
<1>. HIDE DEF f, Eq
<1>. DEFINE upTo == CHOOSE u : Eq(u)
<1>8. Eq(upTo)
  BY <1>7
<1>9. t = upTo[M - 1]
  BY DEF removeAllCells, Eq
<1>. HIDE DEF upTo
<1>10. \A r \in -1 .. M - 1 :
         upTo[r] = IF r = -1 THEN s ELSE Row(upTo[r - 1], r)
  BY <1>8 DEF Eq, Row
<1>. DEFINE S == {k \in 0 .. M : upTo[k - 1] \in X}
<1>11. 0 \in S
  <2>1. 0 \in 0 .. M /\ -1 \in -1 .. M - 1 /\ 0 - 1 = -1
    BY <1>1
  <2>2. upTo[-1] = s
    BY <1>10, <2>1
  <2>. QED
    BY <1>1, <2>1, <2>2
<1>12. ASSUME NEW k \in 1 .. M, k - 1 \in S PROVE k \in S
  <2>1. k - 1 \in -1 .. M - 1 /\ k - 1 # -1 /\ k \in 0 .. M
    BY <1>1
  <2>2. upTo[k - 1] = Row(upTo[(k - 1) - 1], k - 1)
    BY <1>10, <2>1
  <2>3. upTo[(k - 1) - 1] \in X
    BY <1>12
  <2>. QED
    BY <1>2, <2>1, <2>2, <2>3
<1>13. upTo[M - 1] \in X
  <2>1. M \in 0 .. M
    BY <1>1
  <2>. HIDE DEF S
  <2>2. \A k \in 0 .. M : k \in S
    BY <1>1, <1>11, <1>12, UpToAll
  <2>3. M \in S
    BY <2>1, <2>2
  <2>. QED
    BY <2>3 DEF S
<1>. QED
  BY <1>9, <1>13 DEF X

-----------------------------------------------------------------------------
(* The schedule that a mote runs.                                          *)
-----------------------------------------------------------------------------

(* It is sound, and has the serial slot, which no neighbor can remove: so  *)
(* there is always a current entry.                                        *)
Ready(s) == Sound(s) /\ \E r \in InUse(s) : s.buf[r].neighbor = "none"

LEMMA ReadyFacts ==
  ASSUME NEW s, Ready(s)
  PROVE  /\ Sound(s) /\ s \in Schedules
         /\ s.current # NULL /\ s.current \in InUse(s)
         /\ s.buf[s.current].next \in InUse(s)
         /\ CurrentEntry(s) \in Entries /\ CurrentEntry(s).slotOffset \in Slots
         /\ getNextActiveSlotOffset(s) \in Slots
         /\ getNextActiveSlotOffset(s) \in Offsets(s)
         /\ Offsets(s) = {s.buf[r].slotOffset : r \in InUse(s)}
<1>1. s.current # NULL /\ s.current \in InUse(s) /\ s.buf[s.current].next \in InUse(s)
  BY DEF Ready, Sound
<1>2. Sound(s) /\ s \in Schedules
  BY DEF Ready, Sound
<1>3. Offsets(s) = {s.buf[r].slotOffset : r \in InUse(s)}
  BY <1>2, ListedIsInUse DEF Offsets
<1>. QED
  BY <1>1, <1>2, <1>3, SoundTypes DEF CurrentEntry, getNextActiveSlotOffset

(* Adding a cell, and removing one or all of a neighbor's, keeps that, and *)
(* moves the current entry only if the buffer changes.                     *)
LEMMA AddKeeps ==
  ASSUME NEW s, Ready(s), NEW so \in Slots, NEW type \in CellTypes \ {"OFF"},
         NEW shared \in BOOLEAN, NEW neighbor \in Neighbors \cup {"none", "anycast"},
         NEW t, t = addActiveSlot(s, so, type, shared, neighbor)
  PROVE  Ready(t) /\ t.current = s.current
<1>1. /\ Sound(t) /\ t.current = s.current
      /\ \/ t = s
         \/ \E c \in Rows \ InUse(s) :
              InUse(t) = InUse(s) \cup {c} /\ Keeps(s, t, InUse(s))
  BY ReadyFacts, AddActiveSlot
<1>. QED
  BY <1>1 DEF Ready, Keeps

LEMMA RemoveKeeps ==
  ASSUME NEW s, Ready(s), NEW so, NEW neighbor,
         NEW t, t = removeActiveSlot(s, so, neighbor)
  PROVE  Ready(t) /\ (t.buf = s.buf => t.current = s.current)
<1>1. /\ Sound(t)
      /\ \/ t = s
         \/ \E c \in InUse(s) : /\ InUse(t) = InUse(s) \ {c} /\ Keeps(s, t, InUse(t))
                                /\ s.buf[c].neighbor # "none"
  BY ReadyFacts, RemoveActiveSlot
<1>2. t.buf = s.buf => InUse(t) = InUse(s)
  BY DEF InUse
<1>. QED
  BY <1>1, <1>2 DEF Ready, Keeps

LEMMA RemoveAllKeeps ==
  ASSUME NEW s, Ready(s), NEW neighbor, NEW t, t = removeAllCells(s, neighbor)
  PROVE  Ready(t) /\ (t.buf = s.buf => t.current = s.current)
<1>1. /\ Sound(t) /\ Keeps(s, t, InUse(t))
      /\ \A r \in InUse(s) : s.buf[r].neighbor = "none" => r \in InUse(t)
      /\ t = s \/ InUse(t) # InUse(s)
  BY ReadyFacts, RemovesCells
<1>2. t.buf = s.buf => InUse(t) = InUse(s)
  BY DEF InUse
<1>. QED
  BY <1>1, <1>2 DEF Ready, Keeps

LEMMA FrameLengthKeeps ==
  ASSUME NEW s, Sound(s), NEW t, t = setFrameLength(s, SLOTFRAME_LENGTH)
  PROVE  Sound(t) /\ t.buf = s.buf /\ t.current = s.current
<1>1. s \in [buf : [Rows -> Entries], current : Rows \cup {NULL},
             frameLength : {0, SLOTFRAME_LENGTH}, maxActiveSlots : Nat]
  BY DEF Sound, Schedules
<1>2. ~(SLOTFRAME_LENGTH <= MAXACTIVESLOTS)
  BY ScheduleAssumption
<1>3. /\ t.buf = s.buf /\ t.current = s.current /\ t.maxActiveSlots = s.maxActiveSlots
      /\ t \in Schedules
  BY <1>1, <1>2 DEF setFrameLength, Schedules
<1>4. InUse(t) = InUse(s)
  BY <1>3 DEF InUse
<1>. QED
  BY <1>3, <1>4 DEF Sound

LEMMA MinimalKeeps ==
  ASSUME NEW s, Sound(s)
  PROVE  /\ Sound(AddMinimalCell(s)) /\ Sound(startDAGroot(s))
         /\ Ready(s) => /\ Ready(AddMinimalCell(s)) /\ Ready(startDAGroot(s))
                        /\ AddMinimalCell(s).current = s.current
                        /\ startDAGroot(s).current = s.current
<1>1. 0 \in Slots /\ "TXRX" \in CellTypes \ {"OFF"}
  BY SoundTypes DEF Slots, CellTypes
<1>2. ASSUME NEW u, Sound(u)
      PROVE  /\ Sound(AddMinimalCell(u))
             /\ Ready(u) => /\ Ready(AddMinimalCell(u))
                            /\ AddMinimalCell(u).current = u.current
  <2>. DEFINE so == 0
              type == "TXRX"
              shared == TRUE
              neighbor == "anycast"
              t == AddMinimalCell(u)
  <2>1. /\ so \in Slots /\ type \in CellTypes \ {"OFF"} /\ shared \in BOOLEAN
        /\ neighbor \in Neighbors \cup {"none", "anycast"}
        /\ t = addActiveSlot(u, so, type, shared, neighbor)
    BY <1>1 DEF AddMinimalCell
  <2>. HIDE DEF so, type, shared, neighbor, t
  <2>2. Sound(t)
    BY <1>2, <2>1, AddActiveSlot
  <2>3. Ready(u) => Ready(t) /\ t.current = u.current
    BY <2>1, AddKeeps
  <2>. QED
    BY <2>2, <2>3 DEF t
<1>. DEFINE v == IF s.frameLength = 0 THEN setFrameLength(s, SLOTFRAME_LENGTH) ELSE s
<1>3. Sound(v) /\ v.buf = s.buf /\ v.current = s.current
  BY FrameLengthKeeps
<1>4. Ready(s) => Ready(v)
  BY <1>3 DEF Ready, InUse
<1>5. startDAGroot(s) = AddMinimalCell(v)
  BY DEF startDAGroot
<1>. HIDE DEF v
<1>. QED
  BY <1>2, <1>3, <1>4, <1>5

LEMMA AdvanceKeeps ==
  ASSUME NEW s, Ready(s), NEW c \in InUse(s), NEW t, t = [s EXCEPT !.current = c]
  PROVE  Ready(t) /\ t.current = c /\ t.buf = s.buf
<1>1. s \in [buf : [Rows -> Entries], current : Rows \cup {NULL},
             frameLength : {0, SLOTFRAME_LENGTH}, maxActiveSlots : Nat]
  BY DEF Ready, Sound, Schedules
<1>2. c \in Rows /\ c # NULL
  BY ReadyFacts, SoundTypes DEF Rows, NULL
<1>3. /\ t.buf = s.buf /\ t.current = c /\ t.maxActiveSlots = s.maxActiveSlots
      /\ t \in Schedules
  BY <1>1, <1>2 DEF Schedules
<1>4. InUse(t) = InUse(s)
  BY <1>3 DEF InUse
<1>. QED
  BY <1>2, <1>3, <1>4 DEF Ready, Sound

(* After schedule_init there is at least the serial slot.                  *)
LEMMA InitIsReady ==
  ASSUME NEW root \in BOOLEAN
  PROVE  Ready(scheduleInit(root))
<1>. DEFINE empty == [buf |-> [r \in Rows |-> resetEntry], current |-> NULL,
                      frameLength |-> 0, maxActiveSlots |-> MAXACTIVESLOTS]
            u == IF root THEN startDAGroot(empty) ELSE empty
            t == addActiveSlot(u, 1, "SERIALRX", FALSE, "none")
<1>1. /\ MAXACTIVESLOTS \in Nat /\ MAXACTIVESLOTS >= 2
      /\ SLOTFRAME_LENGTH \in Nat /\ SLOTFRAME_LENGTH > MAXACTIVESLOTS
  BY ScheduleAssumption
<1>2. resetEntry \in Entries
  BY <1>1 DEF resetEntry, Entries, Slots, CellTypes
<1>3. empty \in Schedules /\ InUse(empty) = {}
  BY <1>1, <1>2 DEF Schedules, InUse, resetEntry
<1>4. Sound(empty)
  BY <1>3 DEF Sound, resetEntry
<1>5. empty.frameLength = 0
  OBVIOUS
<1>. HIDE DEF empty
<1>6. /\ Sound(u)
      /\ \/ InUse(u) = {}
         \/ \E c \in Rows : InUse(u) = {c} /\ u.buf[c].slotOffset = 0
  <2>1. CASE root
    <3>. DEFINE v == setFrameLength(empty, SLOTFRAME_LENGTH)
    <3>1. Sound(v) /\ v.buf = empty.buf
      BY <1>4, FrameLengthKeeps
    <3>2. InUse(v) = {}
      BY <1>3, <3>1 DEF InUse
    <3>3. u = addActiveSlot(v, 0, "TXRX", TRUE, "anycast")
      BY <1>5, <2>1 DEF startDAGroot, AddMinimalCell
    <3>4. 0 \in Slots /\ "TXRX" \in CellTypes \ {"OFF"}
      BY <1>1 DEF Slots, CellTypes
    <3>5. 0 \in Rows
      BY <1>1 DEF Rows
    <3>. DEFINE so == 0
                type == "TXRX"
                shared == TRUE
                neighbor == "anycast"
    <3>6. /\ so \in Slots /\ type \in CellTypes \ {"OFF"} /\ shared \in BOOLEAN
          /\ neighbor \in Neighbors \cup {"none", "anycast"}
          /\ u = addActiveSlot(v, so, type, shared, neighbor)
      BY <3>3, <3>4
    <3>. HIDE DEF v, u, so, type, shared, neighbor
    <3>7. /\ Sound(u)
          /\ \/ u = v
             \/ \E c \in Rows \ InUse(v) :
                  InUse(u) = InUse(v) \cup {c} /\ u.buf[c].slotOffset = so
      BY <3>1, <3>6, AddActiveSlot
    <3>. QED
      BY <3>2, <3>7 DEF so
  <2>2. CASE ~root
    BY <1>3, <1>4, <2>2
  <2>. QED
    BY <2>1, <2>2
<1>7. 1 \in Slots /\ "SERIALRX" \in CellTypes \ {"OFF"} /\ 0 \in Rows /\ 1 \in Rows
  BY <1>1 DEF Slots, CellTypes, Rows
<1>8. ~(InUse(u) = Rows \/ \E q \in InUse(u) : u.buf[q].slotOffset = 1)
  BY <1>6, <1>7
<1>. HIDE DEF u
<1>9. /\ Sound(t)
      /\ \E c \in Rows \ InUse(u) : /\ InUse(t) = InUse(u) \cup {c}
                                    /\ t.buf[c].neighbor = "none"
  <2>. DEFINE so == 1
              type == "SERIALRX"
              shared == FALSE
              neighbor == "none"
  <2>1. /\ so \in Slots /\ type \in CellTypes \ {"OFF"} /\ shared \in BOOLEAN
        /\ neighbor \in Neighbors \cup {"none", "anycast"}
        /\ t = addActiveSlot(u, so, type, shared, neighbor)
    BY <1>7
  <2>2. ~(InUse(u) = Rows \/ \E q \in InUse(u) : u.buf[q].slotOffset = so)
    BY <1>8
  <2>. HIDE DEF t, so, type, shared, neighbor
  <2>3. /\ Sound(t)
        /\ \E c \in Rows \ InUse(u) : /\ InUse(t) = InUse(u) \cup {c}
                                      /\ t.buf[c].neighbor = neighbor
    BY <1>6, <2>1, <2>2, AddActiveSlot
  <2>. QED
    BY <2>3 DEF neighbor
<1>10. Ready(t)
  BY <1>9 DEF Ready
<1>. QED
  BY <1>10 DEF scheduleInit, u, empty

-----------------------------------------------------------------------------
(* The inductive invariant.                                                *)
-----------------------------------------------------------------------------

(* From slot offset so on, the next slot with a cell is that of the entry  *)
(* after the current one.                                                  *)
InGap(s, so) ==
  LET a == CurrentEntry(s).slotOffset
  IN so = a \/ SlotsUntil(a, so) < SlotsUntil(a, getNextActiveSlotOffset(s))

Types ==
  /\ Ready(schedule)
  /\ state \in States /\ slotOffset \in Slots /\ nextActiveSlotOffset \in Slots
  /\ wake \in 1 .. SLOTFRAME_LENGTH /\ net \in Slots
  /\ isSync \in BOOLEAN /\ hung \in BOOLEAN /\ align \in Alignments
  /\ skewed \in BOOLEAN /\ backoffExponent \in MINBE - 1 .. MAXBE

(* A mote that is not synchronized sleeps through no slot.                 *)
Awake == ~isSync => wake = 1

(* The MAC waits for the slot of the entry after the current one, until    *)
(* the schedule changes, and no cell comes before that slot.               *)
NextIsKnown ==
  isSync /\ ~hung /\ align \in {"aligned", "astray"} =>
    nextActiveSlotOffset = getNextActiveSlotOffset(schedule)
StaysInGap == isSync /\ ~hung /\ align = "aligned" => InGap(schedule, slotOffset)

(* A mote listens in the slot of the current entry, and the entry it sends *)
(* in is the current one.                                                  *)
ListensInCell ==
  isSync /\ ~hung /\ align = "aligned" /\ ~skewed /\ state = "RX" =>
    net = CurrentEntry(schedule).slotOffset
SharedIsKnown ==
  state \in {"TXDATA", "TXEB"} /\ align # "changed" =>
    sharedSlot = CurrentEntry(schedule).shared

SlotInv == /\ Types /\ Awake /\ FindsItsCells /\ NextIsKnown /\ StaysInGap
           /\ CountsSlots /\ ListensInCell /\ SharedIsKnown /\ HangsOnlyAstray

(* What a mote passes over has no cell.                                    *)
LEMMA GapSteps ==
  ASSUME NEW s, Ready(s), NEW so \in Slots, InGap(s, so),
         Plus(so, 1) # getNextActiveSlotOffset(s)
  PROVE  InGap(s, Plus(so, 1)) /\ Plus(so, 1) \notin Offsets(s)
<1>. DEFINE a == CurrentEntry(s).slotOffset
            b == getNextActiveSlotOffset(s)
            n == Plus(so, 1)
<1>1. a \in Slots /\ b \in Slots /\ SLOTFRAME_LENGTH \in Nat /\ SLOTFRAME_LENGTH >= 2
  BY ReadyFacts, ScheduleAssumption
<1>2. n = IF so + 1 < SLOTFRAME_LENGTH THEN so + 1 ELSE so + 1 - SLOTFRAME_LENGTH
  BY <1>1, PlusIs
<1>3. so = a \/ SlotsUntil(a, so) < SlotsUntil(a, b)
  BY DEF InGap
<1>4. n # b
  OBVIOUS
<1>5. ASSUME NEW q \in InUse(s) PROVE s.buf[q].slotOffset # n
  <2>. DEFINE d == s.buf[q].slotOffset
  <2>1. SlotsUntil(a, b) <= SlotsUntil(a, d) /\ d \in Slots
    BY ReadyFacts, SoundTypes DEF Sound, CurrentEntry, getNextActiveSlotOffset
  <2>. HIDE DEF a, b, d, n
  <2>2. d # n
    BY <1>1, <1>2, <1>3, <1>4, <2>1 DEF SlotsUntil, Slots
  <2>. QED
    BY <2>2 DEF d
<1>6. n = a \/ SlotsUntil(a, n) < SlotsUntil(a, b)
  <2>. HIDE DEF a, b, n
  <2>. QED
    BY <1>1, <1>2, <1>3, <1>4 DEF SlotsUntil, Slots
<1>. QED
  BY <1>5, <1>6, ReadyFacts DEF InGap

(* Where the count of slots is when the mote goes to sleep, and where it   *)
(* will be when the mote wakes up.                                         *)
LEMMA SleepFacts ==
  ASSUME NEW entry, NEW so \in Slots, NEW next \in Slots,
         NEW sleep, sleep = Sleep(entry, so, next)
  PROVE  /\ sleep.slots \in 1 .. SLOTFRAME_LENGTH /\ sleep.ahead \in Slots
         /\ sleep.ahead = so \/ SlotsUntil(so, sleep.ahead) < SlotsUntil(so, next)
         /\ ~(Skips /\ entry.type = "SERIALRX" /\ next # Plus(so, 1)) =>
              Plus(sleep.ahead, 1) = Plus(so, sleep.slots)
<1>. DEFINE slots == IF Skips THEN SlotsUntil(so, next) ELSE 1
            ahead == Plus(so, slots - 1)
            more  == IF Skips THEN SlotsUntil(ahead, next) ELSE 1
            last  == Plus(ahead, more - 1)
<1>1. SLOTFRAME_LENGTH \in Nat /\ SLOTFRAME_LENGTH >= 2
  BY ScheduleAssumption
<1>2. slots \in 1 .. SLOTFRAME_LENGTH
  BY <1>1 DEF SlotsUntil, Slots
<1>3. /\ ahead = IF so + (slots - 1) < SLOTFRAME_LENGTH THEN so + (slots - 1)
                 ELSE so + (slots - 1) - SLOTFRAME_LENGTH
      /\ ahead \in Slots
  <2>1. slots - 1 \in 0 .. SLOTFRAME_LENGTH
    BY <1>1, <1>2
  <2>. HIDE DEF slots
  <2>. QED
    BY <2>1, PlusIs
<1>4. /\ Plus(so, slots) = IF so + slots < SLOTFRAME_LENGTH THEN so + slots
                           ELSE so + slots - SLOTFRAME_LENGTH
      /\ Plus(so, 1) = IF so + 1 < SLOTFRAME_LENGTH THEN so + 1
                       ELSE so + 1 - SLOTFRAME_LENGTH
  <2>. HIDE DEF slots
  <2>. QED
    BY <1>1, <1>2, PlusIs
<1>. HIDE DEF ahead
<1>5. /\ Plus(ahead, 1) = IF ahead + 1 < SLOTFRAME_LENGTH THEN ahead + 1
                          ELSE ahead + 1 - SLOTFRAME_LENGTH
      /\ Plus(ahead, 0) = ahead
  <2>1. 0 \in 0 .. SLOTFRAME_LENGTH /\ 1 \in 0 .. SLOTFRAME_LENGTH
    BY <1>1
  <2>2. ahead \in Slots /\ ahead + 0 = ahead /\ ahead < SLOTFRAME_LENGTH
    BY <1>1, <1>3 DEF Slots
  <2>3. Plus(ahead, 0) = IF ahead + 0 < SLOTFRAME_LENGTH THEN ahead + 0
                         ELSE ahead + 0 - SLOTFRAME_LENGTH
    BY <2>1, <2>2, PlusIs
  <2>. QED
    BY <2>1, <2>2, <2>3, PlusIs
<1>6. Skips => SlotsUntil(ahead, next) = 1
  BY <1>1, <1>3 DEF SlotsUntil, Slots
<1>7. more = 1
  BY <1>6
<1>8. last = ahead
  BY <1>5, <1>7
<1>9. ahead = so \/ SlotsUntil(so, ahead) < SlotsUntil(so, next)
  BY <1>1, <1>3 DEF SlotsUntil, Slots
<1>10. Plus(ahead, 1) = Plus(so, slots)
  BY <1>1, <1>2, <1>3, <1>4, <1>5 DEF Slots
<1>11. Skips => Plus(ahead, 1) = next
  BY <1>1, <1>3, <1>5 DEF SlotsUntil, Slots
<1>12. sleep = IF entry.type = "SERIALRX" THEN [slots |-> more, ahead |-> last]
               ELSE [slots |-> slots, ahead |-> ahead]
  BY DEF Sleep, ahead
<1>13. CASE entry.type = "SERIALRX"
  <2>1. sleep.slots = 1 /\ sleep.ahead = ahead
    BY <1>7, <1>8, <1>12, <1>13
  <2>2. ~(Skips /\ next # Plus(so, 1)) => Plus(ahead, 1) = Plus(so, 1)
    BY <1>10, <1>11
  <2>. QED
    BY <1>1, <1>3, <1>9, <1>13, <2>1, <2>2
<1>14. CASE entry.type # "SERIALRX"
  <2>1. sleep.slots = slots /\ sleep.ahead = ahead
    BY <1>12, <1>14
  <2>. HIDE DEF slots
  <2>. QED
    BY <1>2, <1>3, <1>9, <1>10, <2>1
<1>. QED
  BY <1>13, <1>14

-----------------------------------------------------------------------------
(* Each step preserves it.                                                 *)
-----------------------------------------------------------------------------

LEMMA ScheduleInit == Init => SlotInv
<1>1. /\ SLOTFRAME_LENGTH \in Nat /\ SLOTFRAME_LENGTH >= 2
      /\ MINBE \in Nat /\ MAXBE \in Nat /\ 1 <= MINBE /\ MINBE <= MAXBE
  BY ScheduleAssumption, ActiveSlotAssumption
<1>2. Init => Types
  <2>1. Init => Ready(schedule)
    BY InitIsReady DEF Init
  <2>2. MINBE - 1 \in MINBE - 1 .. MAXBE /\ 0 \in Slots /\ 1 \in 1 .. SLOTFRAME_LENGTH
    BY <1>1 DEF Slots
  <2>. QED
    BY <2>1, <2>2 DEF Init, Types, States, Alignments
<1>. QED
  BY <1>2 DEF Init, SlotInv, Awake, FindsItsCells, NextIsKnown, StaysInGap,
     CountsSlots, ListensInCell, SharedIsKnown, HangsOnlyAstray

(* The offset 0, and one slot more.                                        *)
LEMMA SlotFacts ==
  /\ SLOTFRAME_LENGTH \in Nat /\ SLOTFRAME_LENGTH >= 2
  /\ 0 \in Slots /\ 1 \in 1 .. SLOTFRAME_LENGTH
  /\ MINBE \in Nat /\ MAXBE \in Nat /\ 1 <= MINBE /\ MINBE <= MAXBE
  /\ \A so \in Slots : Plus(so, 1) \in Slots
  /\ \A so \in Slots, n \in 1 .. SLOTFRAME_LENGTH : Plus(so, n) \in Slots
<1>1. SLOTFRAME_LENGTH \in Nat /\ SLOTFRAME_LENGTH >= 2
  BY ScheduleAssumption
<1>2. \A n \in 1 .. SLOTFRAME_LENGTH : n \in 0 .. SLOTFRAME_LENGTH
  BY <1>1
<1>3. 1 \in 1 .. SLOTFRAME_LENGTH
  BY <1>1
<1>4. \A so \in Slots, n \in 1 .. SLOTFRAME_LENGTH : Plus(so, n) \in Slots
  BY <1>2, PlusIs
<1>. QED
  BY <1>1, <1>3, <1>4, ActiveSlotAssumption DEF Slots

LEMMA RootStep ==
  ASSUME SlotInv, ~hung, state \in {"S_SLEEP", "S_SYNCLISTEN"}, RootSynchronizes
  PROVE  SlotInv'
<1>1. Ready(schedule) /\ Types
  BY DEF SlotInv, Types
<1>2. Types'
  BY <1>1, ReadyFacts, SlotFacts
     DEF Types, RootSynchronizes, roleVars, backoffVars, Alignments
<1>3. StaysInGap'
  BY DEF StaysInGap, RootSynchronizes, InGap, CurrentEntry
<1>4. Awake' /\ FindsItsCells' /\ NextIsKnown' /\ CountsSlots' /\ ListensInCell'
      /\ SharedIsKnown' /\ HangsOnlyAstray'
  BY DEF Awake, FindsItsCells, NextIsKnown, CountsSlots, ListensInCell,
     SharedIsKnown, HangsOnlyAstray, RootSynchronizes
<1>. QED
  BY <1>2, <1>3, <1>4 DEF SlotInv

LEMMA ListenStep ==
  ASSUME SlotInv, ~hung, ListenForEB
  PROVE  SlotInv'
<1>1. Types'
  BY SlotFacts DEF SlotInv, Types, ListenForEB, backoffVars, States
<1>. QED
  BY <1>1 DEF SlotInv, Awake, FindsItsCells, NextIsKnown, StaysInGap, CountsSlots,
     ListensInCell, SharedIsKnown, HangsOnlyAstray, ListenForEB

LEMMA DesynchronizeStep ==
  ASSUME SlotInv, ~hung, Desynchronize
  PROVE  SlotInv'
<1>1. MINBE - 1 \in MINBE - 1 .. MAXBE
  BY SlotFacts
<1>2. Types'
  BY <1>1, SlotFacts
     DEF SlotInv, Types, Desynchronize, NextSlot, resetBackoff, States
<1>. QED
  BY <1>2 DEF SlotInv, Awake, FindsItsCells, NextIsKnown, StaysInGap, CountsSlots,
     ListensInCell, SharedIsKnown, HangsOnlyAstray, Desynchronize, NextSlot

LEMMA WrongStateStep ==
  ASSUME SlotInv, ~hung, WrongState
  PROVE  SlotInv'
<1>1. /\ schedule' = schedule /\ nextActiveSlotOffset' = nextActiveSlotOffset
      /\ isSync /\ isSync' /\ skewed' = skewed /\ hung' = hung
      /\ slotOffset' = Plus(slotOffset, 1) /\ wake' = 1 /\ net' = Plus(net, wake)
      /\ align' = IF slotOffset' \in Offsets(schedule) THEN "changed" ELSE align
      /\ state' = "S_SLEEP" /\ backoffExponent' = backoffExponent
  BY DEF WrongState, NextSlot, backoffVars
<1>2. Types'
  BY <1>1, SlotFacts DEF SlotInv, Types, States, Alignments
<1>3. StaysInGap'
  <2>1. SUFFICES ASSUME align' = "aligned" PROVE InGap(schedule, slotOffset)'
    BY DEF StaysInGap
  <2>2. align = "aligned" /\ slotOffset' \notin Offsets(schedule)
    BY <1>1, <2>1
  <2>3. Ready(schedule) /\ slotOffset \in Slots /\ InGap(schedule, slotOffset)
    BY <1>1, <2>2 DEF SlotInv, Types, StaysInGap
  <2>4. Plus(slotOffset, 1) # getNextActiveSlotOffset(schedule)
    BY <1>1, <2>2, <2>3, ReadyFacts
  <2>5. InGap(schedule, Plus(slotOffset, 1))
    BY <2>3, <2>4, GapSteps
  <2>. QED
    BY <1>1, <2>5
<1>4. FindsItsCells' /\ NextIsKnown' /\ HangsOnlyAstray'
  BY <1>1 DEF SlotInv, FindsItsCells, NextIsKnown, HangsOnlyAstray
<1>5. Awake' /\ CountsSlots' /\ ListensInCell' /\ SharedIsKnown'
  BY <1>1 DEF SlotInv, Awake, CountsSlots, ListensInCell, SharedIsKnown
<1>. QED
  BY <1>2, <1>3, <1>4, <1>5 DEF SlotInv

LEMMA PassiveStep ==
  ASSUME SlotInv, ~hung, PassiveSlot
  PROVE  SlotInv'
<1>1. /\ schedule' = schedule /\ nextActiveSlotOffset' = nextActiveSlotOffset
      /\ isSync /\ isSync' /\ skewed' = skewed /\ hung' = hung
      /\ slotOffset' = Plus(slotOffset, 1) /\ wake' = 1 /\ net' = Plus(net, wake)
      /\ slotOffset' # nextActiveSlotOffset
      /\ align' = IF align = "aligned" /\ slotOffset' \in Offsets(schedule)
                  THEN "lost" ELSE align
      /\ state = "S_SLEEP" /\ state' = "S_SLEEP" /\ backoffExponent' = backoffExponent
  BY DEF PassiveSlot, NextSlot, backoffVars
<1>2. Types'
  BY <1>1, SlotFacts DEF SlotInv, Types, States, Alignments
<1>3. align = "aligned" => /\ InGap(schedule, Plus(slotOffset, 1))
                           /\ Plus(slotOffset, 1) \notin Offsets(schedule)
  <2>1. SUFFICES ASSUME align = "aligned"
                 PROVE  /\ InGap(schedule, Plus(slotOffset, 1))
                        /\ Plus(slotOffset, 1) \notin Offsets(schedule)
    OBVIOUS
  <2>2. /\ Ready(schedule) /\ slotOffset \in Slots /\ InGap(schedule, slotOffset)
        /\ nextActiveSlotOffset = getNextActiveSlotOffset(schedule)
    BY <1>1, <2>1 DEF SlotInv, Types, StaysInGap, NextIsKnown
  <2>. QED
    BY <1>1, <2>2, GapSteps
<1>4. align' = align
  BY <1>1, <1>3
<1>5. StaysInGap'
  BY <1>1, <1>3, <1>4 DEF StaysInGap
<1>6. FindsItsCells' /\ NextIsKnown' /\ HangsOnlyAstray'
  BY <1>1, <1>4 DEF SlotInv, FindsItsCells, NextIsKnown, HangsOnlyAstray
<1>7. Awake' /\ CountsSlots' /\ ListensInCell' /\ SharedIsKnown'
  BY <1>1 DEF SlotInv, Awake, CountsSlots, ListensInCell, SharedIsKnown
<1>. QED
  BY <1>2, <1>5, <1>6, <1>7 DEF SlotInv

LEMMA ActiveStep ==
  ASSUME SlotInv, ~hung, ActiveSlotBegins
  PROVE  SlotInv'
<1>. DEFINE s == advanceSlot(schedule)
            so == nextActiveSlotOffset
            entry == CurrentEntry(s)
            next == getNextActiveSlotOffset(s)
            sleep == Sleep(entry, so, next)
<1>1. /\ Ready(schedule) /\ Types /\ isSync
      /\ so \in Slots /\ so = Plus(slotOffset, 1)
  BY DEF SlotInv, Types, ActiveSlotBegins, NextSlot
<1>2. /\ Ready(s) /\ s.buf = schedule.buf
      /\ s.current = schedule.buf[schedule.current].next
  BY <1>1, ReadyFacts, AdvanceKeeps DEF advanceSlot
<1>3. entry.slotOffset = getNextActiveSlotOffset(schedule)
  BY <1>2 DEF CurrentEntry, getNextActiveSlotOffset
<1>4. next \in Slots /\ entry \in Entries
  BY <1>2, ReadyFacts
<1>. HIDE DEF s
<1>5. /\ sleep.slots \in 1 .. SLOTFRAME_LENGTH /\ sleep.ahead \in Slots
      /\ sleep.ahead = so \/ SlotsUntil(so, sleep.ahead) < SlotsUntil(so, next)
      /\ ~(Skips /\ entry.type = "SERIALRX" /\ next # Plus(so, 1)) =>
           Plus(sleep.ahead, 1) = Plus(so, sleep.slots)
  BY <1>1, <1>4, SleepFacts
<1>6. /\ schedule' = s /\ nextActiveSlotOffset' = next
      /\ slotOffset' = sleep.ahead /\ wake' = sleep.slots
      /\ state' \in Activity(entry) /\ sharedSlot' = entry.shared
      /\ align' = CASE entry.slotOffset = so -> "aligned"
                    [] entry.slotOffset # so /\ align = "changed" -> "astray"
                    [] OTHER -> "lost"
      /\ skewed' = (skewed \/ (/\ Skips /\ entry.type = "SERIALRX"
                               /\ next # Plus(so, 1)))
      /\ isSync' = isSync /\ backoffExponent' = backoffExponent
      /\ hung' = hung /\ net' = Plus(net, wake)
  BY DEF ActiveSlotBegins, ActiveCell, NextSlot, s
<1>7. state' \in {"TXDATA", "TXEB", "RX", "S_SLEEP"}
  BY <1>6 DEF Activity
<1>. HIDE DEF entry, next, sleep
<1>8. align' \in {"aligned", "astray"} /\ (align' = "aligned" => entry.slotOffset = so)
  BY <1>1, <1>3, <1>6
     DEF SlotInv, FindsItsCells, NextIsKnown, Types, Alignments
<1>9. Types'
  BY <1>1, <1>2, <1>4, <1>5, <1>6, <1>7, <1>8, SlotFacts DEF Types, States, Alignments
<1>10. NextIsKnown' /\ SharedIsKnown'
  BY <1>6 DEF NextIsKnown, SharedIsKnown, next, entry
<1>11. StaysInGap'
  BY <1>5, <1>6, <1>8 DEF StaysInGap, InGap, next, entry
<1>12. ~skewed => net' = so
  BY <1>1, <1>6 DEF SlotInv, CountsSlots
<1>13. CountsSlots'
  BY <1>5, <1>6, <1>12 DEF CountsSlots
<1>14. ListensInCell'
  BY <1>6, <1>8, <1>12 DEF ListensInCell, entry
<1>15. Awake' /\ FindsItsCells' /\ HangsOnlyAstray'
  BY <1>1, <1>6, <1>8 DEF Awake, FindsItsCells, HangsOnlyAstray
<1>. QED
  BY <1>9, <1>10, <1>11, <1>13, <1>14, <1>15 DEF SlotInv

LEMMA EndStep ==
  ASSUME SlotInv, ~hung, EndSlot
  PROVE  SlotInv'
<1>1. /\ UNCHANGED <<schedule, isSync, slotOffset, wake, net, hung,
                     nextActiveSlotOffset, align, sharedSlot, skewed>>
      /\ state' = "S_SLEEP"
  BY DEF EndSlot
<1>2. backoffExponent' \in MINBE - 1 .. MAXBE
  <2>1. backoffExponent \in MINBE - 1 .. MAXBE
    BY DEF SlotInv, Types
  <2>2. (IF backoffExponent < MAXBE THEN backoffExponent + 1 ELSE MAXBE)
          \in MINBE - 1 .. MAXBE
    BY <2>1, SlotFacts
  <2>3. MINBE - 1 \in MINBE - 1 .. MAXBE
    BY SlotFacts
  <2>. QED
    BY <2>1, <2>2, <2>3 DEF EndSlot, indicateTx, backoffVars, resetBackoff
<1>3. Types'
  BY <1>1, <1>2 DEF SlotInv, Types, States
<1>. QED
  BY <1>1, <1>3 DEF SlotInv, Awake, FindsItsCells, NextIsKnown, StaysInGap,
     CountsSlots, ListensInCell, SharedIsKnown, HangsOnlyAstray, InGap,
     CurrentEntry, getNextActiveSlotOffset

LEMMA SyncFacts ==
  ASSUME NEW s, Ready(s), NEW so, SyncEnds(s, so), NEW t, t = syncSlotOffset(s, so)
  PROVE  /\ Ready(t) /\ CurrentEntry(t).slotOffset = so /\ InGap(t, so)
         /\ getNextActiveSlotOffset(t) \in Slots
<1>. DEFINE c == CHOOSE r \in Listed(s) : s.buf[r].slotOffset = so
<1>1. c \in InUse(s) /\ s.buf[c].slotOffset = so
  BY ReadyFacts, ListedIsInUse DEF SyncEnds
<1>2. t = [s EXCEPT !.current = c]
  BY DEF syncSlotOffset
<1>. HIDE DEF c
<1>3. Ready(t) /\ t.current = c /\ t.buf = s.buf
  BY <1>1, <1>2, AdvanceKeeps
<1>. QED
  BY <1>1, <1>3, ReadyFacts DEF CurrentEntry, InGap

LEMMA ReceivedStep ==
  ASSUME SlotInv, ~hung, EBReceived
  PROVE  SlotInv'
<1>1. /\ Ready(schedule) /\ Types /\ isSync /\ isSync' = isSync
      /\ wake' = wake /\ net' = net /\ sharedSlot' = sharedSlot
      /\ backoffExponent' = backoffExponent /\ state = "RX"
  BY DEF SlotInv, Types, EBReceived, backoffVars
<1>2. CASE SyncEnds(schedule, net)
  <2>. DEFINE t == syncSlotOffset(schedule, net)
  <2>1. /\ schedule' = t /\ slotOffset' = net /\ align' = "aligned"
        /\ nextActiveSlotOffset' = getNextActiveSlotOffset(t)
        /\ state' = "S_SLEEP" /\ hung' = hung /\ skewed' = (wake # 1)
    BY <1>2 DEF EBReceived, SyncTo
  <2>2. /\ Ready(t) /\ CurrentEntry(t).slotOffset = net /\ InGap(t, net)
        /\ getNextActiveSlotOffset(t) \in Slots
    BY <1>1, <1>2, SyncFacts
  <2>. HIDE DEF t
  <2>3. Types'
    BY <1>1, <2>1, <2>2 DEF Types, States, Alignments
  <2>4. StaysInGap'
    BY <2>1, <2>2 DEF StaysInGap
  <2>5. NextIsKnown'
    BY <2>1 DEF NextIsKnown
  <2>6. CountsSlots'
    BY <1>1, <2>1 DEF CountsSlots
  <2>7. Awake' /\ FindsItsCells' /\ ListensInCell' /\ SharedIsKnown' /\ HangsOnlyAstray'
    BY <1>1, <2>1 DEF Awake, FindsItsCells, ListensInCell, SharedIsKnown, HangsOnlyAstray
  <2>. QED
    BY <2>3, <2>4, <2>5, <2>6, <2>7 DEF SlotInv
<1>3. CASE ~SyncEnds(schedule, net)
  <2>1. /\ schedule' = schedule /\ slotOffset' = slotOffset /\ align' = align
        /\ nextActiveSlotOffset' = nextActiveSlotOffset
        /\ state' = state /\ hung' = TRUE /\ skewed' = skewed
    BY <1>3 DEF EBReceived, SyncTo
  <2>2. Types'
    BY <1>1, <2>1 DEF Types
  <2>3. align # "aligned" \/ skewed
    <3>1. CurrentEntry(schedule).slotOffset \in Offsets(schedule)
      BY <1>1, ReadyFacts DEF CurrentEntry
    <3>. QED
      BY <1>1, <1>3, <3>1 DEF SyncEnds, SlotInv, ListensInCell
  <2>4. HangsOnlyAstray'
    BY <2>1, <2>3 DEF HangsOnlyAstray
  <2>5. SharedIsKnown'
    BY <1>1, <2>1 DEF SharedIsKnown
  <2>6. Awake' /\ FindsItsCells'
    BY <1>1, <2>1 DEF SlotInv, Awake, FindsItsCells
  <2>7. NextIsKnown' /\ StaysInGap' /\ CountsSlots' /\ ListensInCell'
    BY <2>1 DEF NextIsKnown, StaysInGap, CountsSlots, ListensInCell
  <2>. QED
    BY <2>2, <2>4, <2>5, <2>6, <2>7 DEF SlotInv
<1>. QED
  BY <1>2, <1>3

LEMMA SynchronizeStep ==
  ASSUME SlotInv, ~hung, EBSynchronizes
  PROVE  SlotInv'
<1>. DEFINE s == IF schedule.frameLength = 0
                 THEN AddMinimalCell(setFrameLength(schedule, SLOTFRAME_LENGTH))
                 ELSE schedule
<1>1. /\ Ready(schedule) /\ Types /\ ~isSync /\ wake = 1 /\ isSync' = ~hung'
      /\ wake' = wake /\ net' = net /\ sharedSlot' = sharedSlot
      /\ backoffExponent' = backoffExponent /\ state = "S_SYNCLISTEN"
      /\ skewed' = FALSE /\ SyncTo(s)
  BY DEF SlotInv, Types, Awake, EBSynchronizes, backoffVars
<1>2. Ready(s)
  <2>. DEFINE u == setFrameLength(schedule, SLOTFRAME_LENGTH)
  <2>1. Sound(u) /\ u.buf = schedule.buf
    BY <1>1, ReadyFacts, FrameLengthKeeps
  <2>2. Ready(u)
    BY <1>1, <2>1 DEF Ready, InUse
  <2>. HIDE DEF u
  <2>3. Ready(AddMinimalCell(u))
    BY <2>1, <2>2, MinimalKeeps
  <2>. QED
    BY <1>1, <2>3 DEF u
<1>. HIDE DEF s
<1>3. CASE SyncEnds(s, net)
  <2>. DEFINE t == syncSlotOffset(s, net)
  <2>1. /\ schedule' = t /\ slotOffset' = net /\ align' = "aligned"
        /\ nextActiveSlotOffset' = getNextActiveSlotOffset(t)
        /\ state' = "S_SLEEP" /\ hung' = hung
    BY <1>1, <1>3 DEF SyncTo
  <2>2. /\ Ready(t) /\ CurrentEntry(t).slotOffset = net /\ InGap(t, net)
        /\ getNextActiveSlotOffset(t) \in Slots
    BY <1>2, <1>3, SyncFacts
  <2>. HIDE DEF t
  <2>3. Types'
    BY <1>1, <2>1, <2>2 DEF Types, States, Alignments
  <2>4. StaysInGap'
    BY <2>1, <2>2 DEF StaysInGap
  <2>5. NextIsKnown'
    BY <2>1 DEF NextIsKnown
  <2>6. CountsSlots'
    BY <1>1, <2>1 DEF CountsSlots
  <2>7. Awake' /\ FindsItsCells' /\ ListensInCell' /\ SharedIsKnown' /\ HangsOnlyAstray'
    BY <1>1, <2>1 DEF Awake, FindsItsCells, ListensInCell, SharedIsKnown, HangsOnlyAstray
  <2>. QED
    BY <2>3, <2>4, <2>5, <2>6, <2>7 DEF SlotInv
<1>4. CASE ~SyncEnds(s, net)
  <2>1. /\ schedule' = s /\ slotOffset' = slotOffset /\ align' = align
        /\ nextActiveSlotOffset' = nextActiveSlotOffset
        /\ state' = state /\ hung' = TRUE
    BY <1>1, <1>4 DEF SyncTo
  <2>2. Types'
    BY <1>1, <1>2, <2>1 DEF Types
  <2>3. ~isSync'
    BY <1>1, <2>1
  <2>4. SharedIsKnown' /\ HangsOnlyAstray' /\ Awake'
    BY <1>1, <2>1, <2>3 DEF SharedIsKnown, HangsOnlyAstray, Awake
  <2>5. FindsItsCells'
    BY <2>1 DEF SlotInv, FindsItsCells
  <2>6. NextIsKnown' /\ StaysInGap' /\ CountsSlots' /\ ListensInCell'
    BY <2>1 DEF NextIsKnown, StaysInGap, CountsSlots, ListensInCell
  <2>. QED
    BY <2>2, <2>4, <2>5, <2>6 DEF SlotInv
<1>. QED
  BY <1>3, <1>4

(* A task that changes the schedule.                                       *)
LEMMA ChangeStep ==
  ASSUME SlotInv, ~hung, NEW s, Ready(s),
         s.buf = schedule.buf => s.current = schedule.current,
         ChangeSchedule(s)
  PROVE  SlotInv'
<1>1. /\ schedule' = s /\ align' = IF s.buf = schedule.buf THEN align ELSE "changed"
      /\ backoffExponent' = backoffExponent /\ isSync' = isSync /\ state' = state
      /\ slotOffset' = slotOffset /\ wake' = wake /\ net' = net /\ hung' = hung
      /\ nextActiveSlotOffset' = nextActiveSlotOffset
      /\ sharedSlot' = sharedSlot /\ skewed' = skewed
  BY DEF ChangeSchedule, backoffVars
<1>2. Types'
  BY <1>1 DEF SlotInv, Types, Alignments
<1>3. align' # "changed" =>
        /\ align' = align
        /\ CurrentEntry(schedule') = CurrentEntry(schedule)
        /\ getNextActiveSlotOffset(schedule') = getNextActiveSlotOffset(schedule)
  BY <1>1 DEF CurrentEntry, getNextActiveSlotOffset
<1>4. StaysInGap' /\ NextIsKnown' /\ ListensInCell' /\ SharedIsKnown'
  BY <1>1, <1>3 DEF SlotInv, StaysInGap, NextIsKnown, ListensInCell, SharedIsKnown, InGap
<1>5. Awake' /\ CountsSlots' /\ FindsItsCells' /\ HangsOnlyAstray'
  BY <1>1 DEF SlotInv, Awake, CountsSlots, FindsItsCells, HangsOnlyAstray
<1>. QED
  BY <1>2, <1>4, <1>5 DEF SlotInv

LEMMA TaskStep ==
  ASSUME SlotInv, ~hung, Task
  PROVE  SlotInv'
<1>. DEFINE Keep(s) == Ready(s) /\ (s.buf = schedule.buf => s.current = schedule.current)
<1>1. Ready(schedule)
  BY DEF SlotInv, Types
<1>2. CASE AddCell
  <2>1. PICK so \in Slots, type \in Options, n \in Neighbors :
          ChangeSchedule(addActiveSlot(schedule, so, type, type = "TXRX",
                                       CellNeighbor(type, n)))
    BY <1>2 DEF AddCell
  <2>. DEFINE shared == (type = "TXRX")
              neighbor == CellNeighbor(type, n)
              s == addActiveSlot(schedule, so, type, shared, neighbor)
  <2>2. /\ type \in CellTypes \ {"OFF"} /\ shared \in BOOLEAN
        /\ neighbor \in Neighbors \cup {"none", "anycast"}
    BY ActiveSlotAssumption DEF CellTypes, CellNeighbor
  <2>. HIDE DEF shared, neighbor
  <2>3. Keep(s)
    BY <1>1, <2>2, AddKeeps
  <2>4. ChangeSchedule(s)
    BY <2>1 DEF shared, neighbor
  <2>. HIDE DEF s
  <2>. QED
    BY <2>3, <2>4, ChangeStep
<1>3. CASE RemoveCell
  <2>1. PICK so \in Slots, type \in Options, n \in Neighbors :
          ChangeSchedule(removeActiveSlot(schedule, so, CellNeighbor(type, n)))
    BY <1>3 DEF RemoveCell
  <2>. DEFINE s == removeActiveSlot(schedule, so, CellNeighbor(type, n))
  <2>2. Keep(s)
    BY <1>1, RemoveKeeps
  <2>3. ChangeSchedule(s)
    BY <2>1
  <2>. HIDE DEF s
  <2>. QED
    BY <2>2, <2>3, ChangeStep
<1>4. CASE RemoveAllCells
  <2>1. PICK n \in Neighbors : ChangeSchedule(removeAllCells(schedule, n))
    BY <1>4 DEF RemoveAllCells
  <2>. DEFINE s == removeAllCells(schedule, n)
  <2>2. Keep(s)
    BY <1>1, RemoveAllKeeps
  <2>3. ChangeSchedule(s)
    BY <2>1
  <2>. HIDE DEF s
  <2>. QED
    BY <2>2, <2>3, ChangeStep
<1>5. CASE SetIsDAGroot
  <2>. DEFINE s == startDAGroot(schedule)
  <2>1. Keep(s)
    BY <1>1, ReadyFacts, MinimalKeeps
  <2>2. ChangeSchedule(s)
    BY <1>5 DEF SetIsDAGroot
  <2>. HIDE DEF s
  <2>. QED
    BY <2>1, <2>2, ChangeStep
<1>. QED
  BY <1>2, <1>3, <1>4, <1>5 DEF Task

LEMMA SlotStep == SlotInv /\ [Next]_vars => SlotInv'
<1>. SUFFICES ASSUME SlotInv, [Next]_vars PROVE SlotInv'
  OBVIOUS
<1>1. CASE UNCHANGED vars
  BY <1>1 DEF vars, roleVars, backoffVars, SlotInv, Types, Awake, FindsItsCells,
     NextIsKnown, StaysInGap, CountsSlots, ListensInCell, SharedIsKnown,
     HangsOnlyAstray, InGap, CurrentEntry, getNextActiveSlotOffset
<1>2. CASE Next
  <2>1. CASE NewSlot
    <3>1. ~hung /\ state \in {"S_SLEEP", "S_SYNCLISTEN"} /\ isr_ieee154e_newSlot
      BY <1>2, <2>1 DEF Next, NewSlot
    <3>. QED
      BY <3>1, RootStep, ListenStep, DesynchronizeStep, WrongStateStep, PassiveStep,
         ActiveStep DEF isr_ieee154e_newSlot
  <2>. QED
    BY <1>2, <2>1, EndStep, ReceivedStep, SynchronizeStep, TaskStep DEF Next
<1>. QED
  BY <1>1, <1>2

(* The invariant the theorems below are read off.                          *)
THEOREM SlotInvariant == Spec => []SlotInv
<1>1. Init => SlotInv
  BY ScheduleInit
<1>. QED
  BY <1>1, SlotStep, PTL DEF Spec

-----------------------------------------------------------------------------
(* The theorems.                                                           *)
-----------------------------------------------------------------------------

LEMMA SoundIsList ==
  ASSUME NEW s, Sound(s)
  PROVE  /\ Listed(s) = {r \in Rows : s.buf[r].type # "OFF"}
         /\ Cardinality(Offsets(s)) = Cardinality(Listed(s))
         /\ \A r \in Listed(s), o \in Offsets(s) :
              SlotsUntil(s.buf[r].slotOffset, s.buf[s.buf[r].next].slotOffset)
                <= SlotsUntil(s.buf[r].slotOffset, o)
<1>1. Listed(s) = InUse(s)
  BY ListedIsInUse
<1>2. Offsets(s) = {s.buf[r].slotOffset : r \in InUse(s)}
  BY <1>1 DEF Offsets
<1>. DEFINE f == [r \in InUse(s) |-> s.buf[r].slotOffset]
<1>3. f \in Surjection(InUse(s), Offsets(s))
  BY <1>2 DEF Surjection
<1>4. f \in Injection(InUse(s), Offsets(s))
  BY <1>2 DEF Injection, IsInjective, Sound
<1>5. IsFiniteSet(InUse(s))
  BY RowsFinite, SoundTypes, FS_Subset
<1>6. Cardinality(Offsets(s)) = Cardinality(InUse(s))
  <2>. HIDE DEF f
  <2>. QED
    BY <1>3, <1>4, <1>5, FS_Surjection
<1>7. \A r \in Listed(s), o \in Offsets(s) :
        SlotsUntil(s.buf[r].slotOffset, s.buf[s.buf[r].next].slotOffset)
          <= SlotsUntil(s.buf[r].slotOffset, o)
  BY <1>1, <1>2 DEF Sound
<1>. QED
  BY <1>1, <1>6, <1>7 DEF InUse

(* However cells are added and removed, the schedule stays one circle      *)
(* through all cells in use, in the order of their slots, one cell to a    *)
(* slot (schedule_addActiveSlot, schedule_removeActiveSlot).               *)
THEOREM ListStaysSound == Spec => []ListIsSound
<1>1. SlotInv => ListIsSound
  <2>1. SUFFICES ASSUME SlotInv PROVE ListIsSound
    OBVIOUS
  <2>2. Sound(schedule)
    BY <2>1 DEF SlotInv, Types, Ready
  <2>. QED
    BY <2>2, SoundIsList DEF ListIsSound
<1>. QED
  BY <1>1, SlotInvariant, PTL

(* The MAC takes the cell of the slot it is in and passes over none, up to *)
(* a change of the schedule, and takes at most one slot for another's      *)
(* after one (activity_ti1ORri1).                                          *)
THEOREM CellsAreFound == Spec => []FindsItsCells
BY SlotInvariant, PTL DEF SlotInv

(* The MAC's count of slots is the network's when the next slot begins,    *)
(* except after a serial slot before slots to skip or an EB heard before   *)
(* some (activity_ti1ORri1, ieee154e_processIEs).                          *)
THEOREM SlotsAreCounted == Spec => []CountsSlots
BY SlotInvariant, PTL DEF SlotInv

(* schedule_syncSlotOffset finds the cell of the EB's slot whenever the    *)
(* mote heard the EB in the slot of its cell.                              *)
THEOREM HangsOnlyThen == Spec => []HangsOnlyAstray
BY SlotInvariant, PTL DEF SlotInv

(* schedule_indicateTx raises the backoff exponent only for a slot that    *)
(* began in a shared cell, or when the schedule was changed meanwhile.     *)
THEOREM BacksOffOnlyForShared == Spec => BacksOffForShared
<1>1. ASSUME SlotInv, [Next]_vars, backoffExponent' > backoffExponent
      PROVE  sharedSlot \/ align = "changed"
  <2>1. backoffExponent \in MINBE - 1 .. MAXBE /\ MINBE \in Nat
    BY <1>1, SlotFacts DEF SlotInv, Types
  <2>2. backoffExponent' # backoffExponent /\ ~resetBackoff
    BY <1>1, <2>1 DEF resetBackoff
  <2>3. EndSlot
    BY <1>1, <2>2 DEF vars, roleVars, backoffVars, Next, NewSlot, isr_ieee154e_newSlot,
       RootSynchronizes, ListenForEB, Desynchronize, WrongState, PassiveSlot,
       ActiveSlotBegins, ActiveCell, EBReceived, EBSynchronizes, Task, AddCell,
       RemoveCell, RemoveAllCells, SetIsDAGroot, ChangeSchedule
  <2>4. state \in {"TXDATA", "TXEB"} /\ \E ok \in BOOLEAN : indicateTx(ok)
    BY <2>2, <2>3 DEF EndSlot, backoffVars
  <2>5. CurrentEntry(schedule).shared
    BY <2>2, <2>4 DEF indicateTx, backoffVars
  <2>. QED
    BY <1>1, <2>4, <2>5 DEF SlotInv, SharedIsKnown
<1>2. SlotInv /\ [Next]_vars =>
        [backoffExponent' > backoffExponent => sharedSlot \/ align = "changed"]_vars
  BY <1>1
<1>. QED
  BY <1>2, SlotInvariant, PTL DEF Spec, BacksOffForShared
=============================================================================
