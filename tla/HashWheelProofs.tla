--------------------------- MODULE HashWheelProofs ---------------------------
(***************************************************************************)
(* Proofs about HashWheel: timers that the leaf can hold from the start    *)
(* are triggered in time, for any number of timers, wheels and slots.      *)
(***************************************************************************)
EXTENDS HashWheel, TLAPS

\* Every delay is below the interval of the wheels above the leaf (a minute), a
\* slot of the leaf lasts longer than the scheduler's period (a second against
\* ERRORMAX), and the application empties the trigger channel.
ShortDelays ==
    /\ \A d \in Delays : \A v \in Wheels : v # Leaf => d < Interval[v]
    /\ Interval[Leaf] > 1
    /\ Prompt

WheelTypeOK ==
    /\ index \in [Wheels -> 0 .. Level - 1]
    /\ phase \in [Wheels -> Nat]
    /\ phase[Leaf] <= Interval[Leaf]
    /\ where \in [Timers -> {None} \cup Wheels \X (0 .. Level - 1)]
    /\ st \in [Timers -> {"new", "set", "cancelled"}]
    /\ left \in [Timers -> Int]
    /\ every \in [Timers -> Delays \cup {0}]
    /\ polled \in BOOLEAN
    /\ hand \in SUBSET Timers
    /\ trigger \in Seq(Timers)
    /\ late \in [Timers -> 0 .. 2]

\* The slot of the leaf that comes up after k more.
Ahead(i, k) == <<Leaf, (i + k) % Level>>

\* A timer with time l left, k slots ahead, when the current slot has ph left.
Timely(k, l, ph, p) ==
    IF k # 0 THEN l >= ph + (k - 1) * Interval[Leaf]
    ELSE IF p THEN l >= 1 \/ (l = 0 /\ ph = Interval[Leaf])
    ELSE l >= 0 \/ (l = -1 /\ ph = Interval[Leaf] - 1)

SlotInv ==
    \A t \in Timers : where[t] # None =>
        \E k \in 0 .. Level - 1 :
            where[t] = Ahead(index[Leaf], k) /\ Timely(k, left[t], phase[Leaf], polled)

PlaceInv ==
    \A t \in Timers : where[t] # None <=> Waiting(t)

QueueInv ==
    /\ ~polled => hand = {} /\ trigger = <<>>
    /\ \A i \in DOMAIN trigger : trigger[i] \notin hand
    /\ \A i, j \in DOMAIN trigger : trigger[i] = trigger[j] => i = j

LateInv ==
    \A t \in Timers :
        /\ st[t] # "cancelled" => late[t] = 0
        /\ st[t] = "new" => ~Queued(t)
        /\ st[t] = "cancelled" => late[t] <= 1 /\ (Queued(t) => late[t] = 0)

WheelInv == WheelTypeOK /\ SlotInv /\ PlaceInv /\ QueueInv /\ LateInv

(***************************************************************************)
(* Arithmetic of the slots.                                                *)
(***************************************************************************)

LEMMA Wrap ==
  ASSUME NEW L \in Nat, NEW x \in Nat, x < 2 * L, L > 0
  PROVE  x % L = IF x < L THEN x ELSE x - L
<1>1. CASE x < L
  BY <1>1
<1>2. CASE x >= L
  <2> DEFINE y == x - L
  <2>1. y \in Nat /\ y < L /\ x = y + L
    BY <1>2
  <2> HIDE DEF y
  <2>2. x % L = y
    BY <2>1
  <2> QED BY <1>2, <2>1, <2>2
<1> QED BY <1>1, <1>2

LEMMA SlotAhead ==
  ASSUME NEW i \in 0 .. Level - 1, NEW k \in 0 .. Level - 1
  PROVE  /\ (i + k) % Level \in 0 .. Level - 1
         /\ (i + k) % Level = i <=> k = 0
         /\ k # 0 => /\ (((i + 1) % Level) + (k - 1)) % Level = (i + k) % Level
                     /\ k - 1 \in 0 .. Level - 1
<1>1. Level \in Nat /\ Level > 1
  BY WheelAssumption
<1>2. (i + k) % Level = IF i + k < Level THEN i + k ELSE i + k - Level
  BY <1>1, Wrap
<1>3. (i + 1) % Level = IF i + 1 < Level THEN i + 1 ELSE i + 1 - Level
  BY <1>1, Wrap
<1>4. k # 0 => (((i + 1) % Level) + (k - 1)) % Level = (i + k) % Level
  <2> DEFINE n == (i + 1) % Level
  <2>1. n \in 0 .. Level - 1
    BY <1>1, <1>3
  <2>2. n = IF i + 1 < Level THEN i + 1 ELSE i + 1 - Level
    BY <1>3
  <2> HIDE DEF n
  <2>3. k # 0 => (n + (k - 1)) % Level = IF n + (k - 1) < Level THEN n + (k - 1) ELSE n + (k - 1) - Level
    BY <1>1, <2>1, Wrap
  <2>4. k # 0 => (n + (k - 1)) % Level = (i + k) % Level
    BY <1>1, <1>2, <2>2, <2>3
  <2> QED BY <2>4 DEF n
<1> QED BY <1>1, <1>2, <1>4

\* The farthest slot that rem reaches.
LEMMA Farthest ==
  ASSUME NEW v \in Wheels, NEW rem \in Int, rem >= 0
  PROVE  /\ Reached(v, rem) # {}
         /\ Max(Reached(v, rem)) \in 0 .. Level - 1
         /\ rem >= Max(Reached(v, rem)) * Interval[v]
<1> DEFINE S == Reached(v, rem)
           I == Interval[v]
           q == rem \div I
           m == IF q < Level - 1 THEN q ELSE Level - 1
<1>1. Level \in Nat /\ Level > 1 /\ I \in Nat /\ I > 0
  BY WheelAssumption DEF Wheels
<1>2. S = {i \in 0 .. Level - 1 : rem >= i * I}
  BY DEF Reached
<1> HIDE DEF S, I
<1>3. q \in Nat /\ rem >= q * I /\ rem < (q + 1) * I
  BY <1>1
<1> HIDE DEF q
<1>4. m \in 0 .. Level - 1 /\ m <= q
  BY <1>1, <1>3
<1>5. rem >= m * I
  <2>1. m * I <= q * I
    BY <1>1, <1>3, <1>4
  <2> QED BY <1>1, <1>3, <1>4, <2>1
<1>6. ASSUME NEW i \in S PROVE m >= i
  <2>1. i \in 0 .. Level - 1 /\ rem >= i * I
    BY <1>2
  <2>2. i * I < (q + 1) * I
    BY <1>1, <1>3, <2>1
  <2>3. i < q + 1
    BY <1>1, <1>3, <2>1, <2>2
  <2> QED BY <1>1, <1>3, <2>1, <2>3
<1>7. m \in S
  BY <1>2, <1>4, <1>5
<1>8. Max(S) \in S
  BY <1>6, <1>7 DEF Max
<1> QED BY <1>2, <1>8 DEF S, I

LEMMA DownToLeaf ==
  ASSUME NEW w \in Wheels, NEW rem \in Int, \A v \in Wheels : v # Leaf => rem < Interval[v]
  PROVE  Down(w, rem) = Leaf
<1> DEFINE S == {v \in w .. Leaf : v = Leaf \/ rem >= Interval[v]}
<1>1. Leaf \in Nat /\ Wheels = 1 .. Leaf
  BY WheelAssumption DEF Wheels, Leaf
<1>2. \A v \in Wheels : Interval[v] \in Int
  BY WheelAssumption DEF Wheels
<1>3. S = {Leaf}
  <2>1. Leaf \in S
    BY <1>1
  <2>2. \A v \in S : v = Leaf
    BY <1>1, <1>2
  <2> QED BY <2>1, <2>2
<1>4. Min({Leaf}) = Leaf
  BY <1>1 DEF Min
<1> QED BY <1>3, <1>4 DEF Down

\* A timer that goes to the leaf is put into the farthest slot it reaches.
LEMMA PlaceNew ==
  ASSUME NEW w \in Wheels, NEW rem \in Int, Down(w, rem) = Leaf, rem >= 0
  PROVE  \E k \in 0 .. Level - 1 :
            Place(w, rem, FALSE) = Ahead(index[Leaf], k) /\ rem >= k * Interval[Leaf]
<1> DEFINE i == Max(Reached(Leaf, rem))
<1>1. Leaf \in Wheels
  BY WheelAssumption DEF Leaf, Wheels
<1>2. Reached(Leaf, rem) # {} /\ i \in 0 .. Level - 1 /\ rem >= i * Interval[Leaf]
  BY <1>1, Farthest
<1>3. Place(w, rem, FALSE) = <<Leaf, (index[Leaf] + i) % Level>>
  BY <1>2 DEF Place
<1> HIDE DEF i
<1> QED BY <1>2, <1>3 DEF Ahead

\* One that is redistributed leaves the current slot.
LEMMA PlaceAgain ==
  ASSUME NEW rem \in Int, Down(Leaf, rem) = Leaf, rem >= 0
  PROVE  \E k \in 1 .. Level - 1 :
            /\ Place(Leaf, rem, TRUE) = Ahead(index[Leaf], k)
            /\ k = 1 \/ rem >= k * Interval[Leaf]
<1> DEFINE i == Max(Reached(Leaf, rem))
           k == IF i = 0 THEN 1 ELSE i
<1>1. Leaf \in Wheels /\ Level \in Nat /\ Level > 1
  BY WheelAssumption DEF Leaf, Wheels
<1>2. Reached(Leaf, rem) # {} /\ i \in 0 .. Level - 1 /\ rem >= i * Interval[Leaf]
  BY <1>1, Farthest
<1>3. Place(Leaf, rem, TRUE) = <<Leaf, (index[Leaf] + k) % Level>>
  BY <1>2 DEF Place
<1> HIDE DEF i
<1>4. k \in 1 .. Level - 1 /\ (k = 1 \/ rem >= k * Interval[Leaf])
  BY <1>1, <1>2
<1> HIDE DEF k
<1> QED BY <1>3, <1>4 DEF Ahead

LEMMA LeafFacts ==
  /\ Leaf \in Wheels /\ 1 \in Wheels /\ Level \in Nat /\ Level > 1
  /\ Interval[Leaf] \in Nat /\ Interval[Leaf] > 0
  /\ Delays \subseteq Nat \ {0}
  /\ ErrorMax \in Nat /\ ErrorMax > 0
  /\ \A i, k \in 0 .. Level - 1 : Ahead(i, k) \in Wheels \X (0 .. Level - 1) /\ Ahead(i, k) # None
<1>1. /\ Leaf \in Wheels /\ 1 \in Wheels /\ Level \in Nat /\ Level > 1
      /\ Interval[Leaf] \in Nat /\ Interval[Leaf] > 0
      /\ Delays \subseteq Nat \ {0}
      /\ ErrorMax \in Nat /\ ErrorMax > 0
  BY WheelAssumption DEF Leaf, Wheels
<1>2. ASSUME NEW i \in 0 .. Level - 1, NEW k \in 0 .. Level - 1
      PROVE  Ahead(i, k) \in Wheels \X (0 .. Level - 1) /\ Ahead(i, k) # None
  <2>1. (i + k) % Level \in 0 .. Level - 1
    BY SlotAhead
  <2> QED BY <1>1, <2>1, WheelAssumption DEF Ahead
<1> QED BY <1>1, <1>2

LEMMA AheadSlots ==
  ASSUME NEW i \in 0 .. Level - 1, NEW k \in 0 .. Level - 1
  PROVE  /\ <<Leaf, i>> \in Wheels \X (0 .. Level - 1) /\ <<Leaf, i>> # None
         /\ Ahead(i, k) = <<Leaf, i>> <=> k = 0
         /\ (i + 1) % Level \in 0 .. Level - 1
         /\ k # 0 => Ahead((i + 1) % Level, k - 1) = Ahead(i, k) /\ k - 1 \in 0 .. Level - 1
<1>1. Leaf \in Wheels /\ Level \in Nat /\ Level > 1
  BY LeafFacts
<1>2. <<Leaf, i>> \in Wheels \X (0 .. Level - 1) /\ <<Leaf, i>> # None
  BY <1>1, WheelAssumption
<1>3. (i + k) % Level = i <=> k = 0
  BY SlotAhead
<1>4. k # 0 => (((i + 1) % Level) + (k - 1)) % Level = (i + k) % Level /\ k - 1 \in 0 .. Level - 1
  BY SlotAhead
<1>5. 1 \in 0 .. Level - 1
  BY <1>1
<1>6. (i + 1) % Level \in 0 .. Level - 1
  BY <1>5, SlotAhead
<1>7. Ahead(i, k) = <<Leaf, i>> <=> k = 0
  BY <1>3 DEF Ahead
<1>8. k # 0 => Ahead((i + 1) % Level, k - 1) = Ahead(i, k)
  BY <1>4 DEF Ahead
<1> QED BY <1>2, <1>4, <1>6, <1>7, <1>8

LEMMA InvFacts ==
  ASSUME WheelInv
  PROVE  /\ index[Leaf] \in 0 .. Level - 1
         /\ phase[Leaf] \in Nat /\ phase[Leaf] <= Interval[Leaf]
         /\ where \in [Timers -> {None} \cup Wheels \X (0 .. Level - 1)]
         /\ left \in [Timers -> Int]
         /\ \A t \in Timers : every[t] \in Nat
<1>1. Leaf \in Wheels /\ Delays \subseteq Nat \ {0} /\ Delays \cup {0} \subseteq Nat
  BY LeafFacts
<1>2. WheelTypeOK
  BY DEF WheelInv
<1>3. \A t \in Timers : every[t] \in Nat
  BY <1>1, <1>2 DEF WheelTypeOK
<1> QED BY <1>1, <1>2, <1>3 DEF WheelTypeOK

(***************************************************************************)
(* The steps.                                                              *)
(***************************************************************************)

\* Slots and times of the timers that stay where they are.
LEMMA SlotKept ==
  ASSUME SlotInv, UNCHANGED <<wheel, polled>>, where' \in [Timers -> {None} \cup Wheels \X (0 .. Level - 1)],
         \A t \in Timers : where'[t] # None => where'[t] = where[t] /\ left'[t] = left[t]
  PROVE  SlotInv'
BY DEF SlotInv, wheel

LEMMA CreateStep ==
  ASSUME ShortDelays, WheelInv, NEW t \in Timers, NEW d \in Delays, NEW loop \in BOOLEAN,
         CreateTimer(t, d, loop)
  PROVE  WheelInv'
<1> USE DEF CreateTimer, wheel, sched
<1>1. d \in Nat /\ d > 0 /\ index[Leaf] \in 0 .. Level - 1 /\ phase[Leaf] \in Nat /\ phase[Leaf] <= Interval[Leaf]
  BY LeafFacts DEF WheelInv, WheelTypeOK
<1>2. PICK k \in 0 .. Level - 1 : where'[t] = Ahead(index[Leaf], k) /\ d >= k * Interval[Leaf]
  <2>1. \A v \in Wheels : v # Leaf => d < Interval[v]
    BY DEF ShortDelays
  <2>2. Down(1, d) = Leaf
    BY <1>1, <2>1, LeafFacts, DownToLeaf
  <2>3. PICK k \in 0 .. Level - 1 : Place(1, d, FALSE) = Ahead(index[Leaf], k) /\ d >= k * Interval[Leaf]
    <3>1. 1 \in Wheels /\ d \in Int /\ d >= 0
      BY <1>1, LeafFacts
    <3> HIDE DEF CreateTimer
    <3> QED BY <2>2, <3>1, PlaceNew
  <2> QED BY <2>3 DEF WheelInv, WheelTypeOK
<1>3. /\ \A u \in Timers : u # t => /\ where'[u] = where[u] /\ st'[u] = st[u]
                                    /\ left'[u] = left[u] /\ every'[u] = every[u]
      /\ st'[t] = "set" /\ left'[t] = d /\ every'[t] \in Delays \cup {0}
      /\ where'[t] \in Wheels \X (0 .. Level - 1) /\ where'[t] # None
      /\ UNCHANGED <<index, phase, polled, hand, trigger, late>>
  <2>1. where'[t] \in Wheels \X (0 .. Level - 1) /\ where'[t] # None
    BY <1>1, <1>2, LeafFacts
  <2> QED BY <2>1 DEF WheelInv, WheelTypeOK, Repeat
<1>4. WheelTypeOK'
  <2>1. where' \in [Timers -> {None} \cup Wheels \X (0 .. Level - 1)]
    BY <1>3 DEF WheelInv, WheelTypeOK
  <2>2. st' \in [Timers -> {"new", "set", "cancelled"}] /\ left' \in [Timers -> Int]
        /\ every' \in [Timers -> Delays \cup {0}]
    BY <1>1, <1>3 DEF WheelInv, WheelTypeOK
  <2> QED BY <1>3, <2>1, <2>2 DEF WheelInv, WheelTypeOK
<1>5. SlotInv'
  <2>1. Timely(k, d, phase[Leaf], polled)
    BY <1>1, <1>2, LeafFacts DEF Timely
  <2> SUFFICES ASSUME NEW u \in Timers, where'[u] # None
               PROVE  \E n \in 0 .. Level - 1 :
                         where'[u] = Ahead(index[Leaf], n) /\ Timely(n, left'[u], phase[Leaf], polled)
    BY <1>3, ZenonT(40) DEF SlotInv
  <2>2. CASE u = t
    BY <1>2, <1>3, <2>1, <2>2
  <2>3. CASE u # t
    BY <1>3, <2>3 DEF WheelInv, SlotInv
  <2> QED BY <2>2, <2>3
<1>6. PlaceInv'
  <2>1. ~Queued(t)
    BY DEF WheelInv, LateInv
  <2>2. \A u \in Timers : Queued(u)' <=> Queued(u)
    BY <1>3 DEF Queued
  <2>3. Waiting(t)'
    BY <1>3, <2>1, <2>2 DEF Waiting
  <2>4. \A u \in Timers : u # t => (Waiting(u)' <=> Waiting(u))
    BY <1>3, <2>2 DEF Waiting
  <2> QED BY <1>3, <2>3, <2>4 DEF WheelInv, PlaceInv
<1>7. QueueInv'
  BY <1>3 DEF WheelInv, QueueInv
<1>8. LateInv'
  <2>1. \A u \in Timers : Queued(u)' <=> Queued(u)
    BY <1>3 DEF Queued
  <2> QED BY <1>3, <2>1 DEF WheelInv, LateInv
<1> QED BY <1>4, <1>5, <1>6, <1>7, <1>8 DEF WheelInv

LEMMA CancelStep ==
  ASSUME WheelInv, NEW t \in Timers, CancelTimer(t)
  PROVE  WheelInv'
<1> USE DEF CancelTimer, wheel, sched
<1>1. /\ \A u \in Timers : u # t => where'[u] = where[u] /\ st'[u] = st[u]
      /\ st[t] = "set" /\ st'[t] = "cancelled" /\ where'[t] = None
      /\ UNCHANGED <<index, phase, left, every, polled, hand, trigger, late>>
  BY DEF WheelInv, WheelTypeOK
<1>2. WheelTypeOK'
  <2>1. where' \in [Timers -> {None} \cup Wheels \X (0 .. Level - 1)]
        /\ st' \in [Timers -> {"new", "set", "cancelled"}]
    BY DEF WheelInv, WheelTypeOK
  <2> QED BY <1>1, <2>1 DEF WheelInv, WheelTypeOK
<1>3. \A u \in Timers : Queued(u)' <=> Queued(u)
  BY <1>1 DEF Queued
<1>4. SlotInv'
  BY <1>1, <1>2, SlotKept DEF WheelInv, WheelTypeOK
<1>5. PlaceInv'
  BY <1>1, <1>3 DEF WheelInv, PlaceInv, Waiting
<1>6. QueueInv'
  BY <1>1 DEF WheelInv, QueueInv
<1>7. LateInv'
  BY <1>1, <1>3 DEF WheelInv, LateInv
<1> QED BY <1>2, <1>4, <1>5, <1>6, <1>7 DEF WheelInv

LEMMA ForgetStep ==
  ASSUME WheelInv, NEW t \in Timers, Forget(t)
  PROVE  WheelInv'
<1> USE DEF Forget, wheel
<1>1. /\ \A u \in Timers : u # t => late'[u] = late[u] /\ st'[u] = st[u]
      /\ st[t] = "cancelled" /\ st'[t] = "new" /\ where[t] = None /\ late'[t] = 0 /\ ~Queued(t)
      /\ UNCHANGED <<index, phase, where, left, every, polled, hand, trigger>>
  BY DEF WheelInv, WheelTypeOK
<1>2. WheelTypeOK'
  <2>1. late' \in [Timers -> 0 .. 2] /\ st' \in [Timers -> {"new", "set", "cancelled"}]
    BY DEF WheelInv, WheelTypeOK
  <2> QED BY <1>1, <2>1 DEF WheelInv, WheelTypeOK
<1>3. \A u \in Timers : Queued(u)' <=> Queued(u)
  BY <1>1 DEF Queued
<1>4. SlotInv'
  BY <1>1, <1>2, SlotKept DEF WheelInv, WheelTypeOK
<1>5. PlaceInv'
  BY <1>1, <1>3 DEF WheelInv, PlaceInv, Waiting
<1>6. QueueInv'
  BY <1>1 DEF WheelInv, QueueInv
<1>7. LateInv'
  BY <1>1, <1>3 DEF WheelInv, LateInv
<1> QED BY <1>2, <1>4, <1>5, <1>6, <1>7 DEF WheelInv

LEMMA CallStep ==
  ASSUME WheelInv, Call
  PROVE  WheelInv'
<1> USE DEF Call, wheel
<1>0. PICK t \in Timers : t = Head(trigger)
  BY DEF WheelInv, WheelTypeOK
<1>1. /\ t \in Timers /\ trigger' = Tail(trigger) /\ trigger' \in Seq(Timers)
      /\ Len(trigger) \in Nat /\ Len(trigger) > 0 /\ Len(trigger') = Len(trigger) - 1
      /\ DOMAIN trigger = 1 .. Len(trigger) /\ DOMAIN trigger' = 1 .. Len(trigger')
      /\ \A i \in DOMAIN trigger' : trigger'[i] = trigger[i + 1] /\ i + 1 \in DOMAIN trigger /\ i + 1 # 1
      /\ t = trigger[1] /\ 1 \in DOMAIN trigger
  BY <1>0 DEF WheelInv, WheelTypeOK
<1>2. UNCHANGED <<index, phase, where, left, every, polled, hand>>
  OBVIOUS
<1>3. /\ \A u \in Timers : u # t => late'[u] = late[u] /\ st'[u] = st[u]
      /\ st[t] = "cancelled" /\ late[t] < 2 => late'[t] = late[t] + 1
      /\ st[t] # "cancelled" => late'[t] = late[t]
      /\ st'[t] = IF st[t] = "set" /\ every[t] = 0 THEN "new" ELSE st[t]
      /\ late' \in [Timers -> 0 .. 2] /\ st' \in [Timers -> {"new", "set", "cancelled"}]
  <2>1. late' = IF st[t] = "cancelled" /\ late[t] < 2 THEN [late EXCEPT ![t] = late[t] + 1] ELSE late
    BY <1>0
  <2>2. st' = IF st[t] = "set" /\ every[t] = 0 THEN [st EXCEPT ![t] = "new"] ELSE st
    BY <1>0
  <2>3. late \in [Timers -> 0 .. 2] /\ st \in [Timers -> {"new", "set", "cancelled"}]
    BY DEF WheelInv, WheelTypeOK
  <2> HIDE DEF Call
  <2>4. late[t] < 2 => late[t] + 1 \in 0 .. 2
    BY <2>3
  <2> QED BY <2>1, <2>2, <2>3, <2>4
<1>4. Queued(t) /\ ~Queued(t)'
  <2>1. Queued(t)
    BY <1>1 DEF Queued
  <2>2. t \notin hand
    BY <1>1 DEF WheelInv, QueueInv
  <2>3. \A i \in DOMAIN trigger' : trigger'[i] # t
    BY <1>1 DEF WheelInv, QueueInv
  <2> QED BY <1>2, <2>1, <2>2, <2>3 DEF Queued
<1>5. \A u \in Timers : u # t => (Queued(u)' <=> Queued(u))
  <2> SUFFICES ASSUME NEW u \in Timers, u # t PROVE Queued(u)' <=> Queued(u)
    OBVIOUS
  <2>1. ASSUME NEW i \in DOMAIN trigger, trigger[i] = u PROVE \E j \in DOMAIN trigger' : trigger'[j] = u
    <3>1. i \in Nat /\ i > 1 /\ i - 1 \in DOMAIN trigger'
      BY <1>1, <2>1
    <3>2. trigger'[i - 1] = trigger[(i - 1) + 1] /\ (i - 1) + 1 = i
      BY <1>1, <3>1
    <3> QED BY <2>1, <3>1, <3>2
  <2>2. ASSUME NEW i \in DOMAIN trigger', trigger'[i] = u PROVE \E j \in DOMAIN trigger : trigger[j] = u
    BY <1>1, <2>2
  <2> QED BY <1>2, <2>1, <2>2 DEF Queued
<1> HIDE DEF Call
<1>6. WheelTypeOK'
  BY <1>1, <1>2, <1>3 DEF WheelInv, WheelTypeOK
<1>7. SlotInv'
  BY <1>2, <1>6, SlotKept DEF WheelInv, WheelTypeOK
<1>8. PlaceInv'
  <2>1. \A u \in Timers : u # t => (Waiting(u)' <=> Waiting(u))
    BY <1>2, <1>3, <1>5 DEF Waiting
  <2>2. Waiting(t)' <=> Waiting(t)
    BY <1>1, <1>2, <1>3, <1>4 DEF Waiting
  <2> QED BY <1>2, <2>1, <2>2 DEF WheelInv, PlaceInv
<1>9. QueueInv'
  <2>1. polled
    BY <1>1 DEF WheelInv, QueueInv
  <2>2. \A i \in DOMAIN trigger' : trigger'[i] \notin hand
    BY <1>1 DEF WheelInv, QueueInv
  <2>3. ASSUME NEW i \in DOMAIN trigger', NEW j \in DOMAIN trigger', trigger'[i] = trigger'[j] PROVE i = j
    <3>1. i + 1 = j + 1
      BY <1>1, <2>3 DEF WheelInv, QueueInv
    <3>2. i \in Int /\ j \in Int
      BY <1>1
    <3> QED BY <3>1, <3>2
  <2> QED BY <1>2, <2>1, <2>2, <2>3 DEF QueueInv
<1>10. LateInv'
  <2>1. \A u \in Timers : late[u] \in 0 .. 2
    BY DEF WheelInv, WheelTypeOK
  <2>2. ASSUME NEW u \in Timers, u # t
        PROVE  /\ st'[u] # "cancelled" => late'[u] = 0
               /\ st'[u] = "new" => ~Queued(u)'
               /\ st'[u] = "cancelled" => late'[u] <= 1 /\ (Queued(u)' => late'[u] = 0)
    BY <1>3, <1>5, <2>2 DEF WheelInv, LateInv
  <2>3. /\ st'[t] # "cancelled" => late'[t] = 0
        /\ st'[t] = "new" => ~Queued(t)'
        /\ st'[t] = "cancelled" => late'[t] <= 1 /\ (Queued(t)' => late'[t] = 0)
    BY <1>1, <1>3, <1>4, <2>1 DEF WheelInv, LateInv
  <2> QED BY <2>2, <2>3 DEF LateInv
<1> QED BY <1>6, <1>7, <1>8, <1>9, <1>10 DEF WheelInv

LEMMA GetStep ==
  ASSUME WheelInv, GetTriggerWithIn
  PROVE  WheelInv'
<1> USE DEF GetTriggerWithIn, wheel
<1> DEFINE due == {t \in Timers : where[t] = <<Leaf, index[Leaf]>> /\ left[t] <= ErrorMax}
<1>1. /\ ~polled /\ hand = {} /\ trigger = <<>> /\ polled' = TRUE /\ hand' = due
      /\ UNCHANGED <<index, phase, st, every, trigger, late>>
  BY DEF WheelInv, QueueInv
<1>2. /\ where \in [Timers -> {None} \cup Wheels \X (0 .. Level - 1)] /\ left \in [Timers -> Int]
      /\ index[Leaf] \in 0 .. Level - 1 /\ phase[Leaf] \in Nat
      /\ \A t \in Timers : every[t] \in Nat
  BY InvFacts
<1>3. \A t \in Timers :
         /\ where'[t] = IF t \in due /\ every[t] = 0 THEN None ELSE where[t]
         /\ left'[t] = IF t \in due /\ every[t] # 0 THEN every[t] ELSE left[t]
  OBVIOUS
<1>4. due \subseteq Timers /\ \A t \in Timers :
         t \in due <=> where[t] = <<Leaf, index[Leaf]>> /\ left[t] <= ErrorMax
  OBVIOUS
<1>5. WheelTypeOK'
  <2>1. where' \in [Timers -> {None} \cup Wheels \X (0 .. Level - 1)]
    BY <1>2
  <2>2. left' \in [Timers -> Int]
    BY <1>2
  <2> QED BY <1>1, <1>4, <2>1, <2>2 DEF WheelInv, WheelTypeOK
<1> HIDE DEF due, GetTriggerWithIn
<1>6. \A t \in Timers : ~Queued(t)
  BY <1>1 DEF Queued
<1>7. \A t \in Timers : Queued(t)' <=> t \in due
  BY <1>1 DEF Queued
<1>8. \A t \in due : where[t] # None
  <2>1. <<Leaf, index[Leaf]>> # None
    BY <1>2, AheadSlots
  <2> QED BY <1>4, <2>1
<1>9. SlotInv'
  <2> SUFFICES ASSUME NEW t \in Timers, where'[t] # None
               PROVE  \E k \in 0 .. Level - 1 :
                         where'[t] = Ahead(index[Leaf], k) /\ Timely(k, left'[t], phase[Leaf], TRUE)
    BY <1>1 DEF SlotInv
  <2>1. where'[t] = where[t]
    BY <1>3
  <2>2. PICK k \in 0 .. Level - 1 :
           where[t] = Ahead(index[Leaf], k) /\ Timely(k, left[t], phase[Leaf], polled)
    BY <2>1 DEF WheelInv, SlotInv
  <2>3. where[t] = <<Leaf, index[Leaf]>> <=> k = 0
    BY <1>2, <2>2, AheadSlots
  <2>4. CASE t \in due
    <3>1. k = 0
      BY <1>4, <2>3, <2>4
    <3>2. left'[t] \in Nat /\ left'[t] >= 1
      BY <1>2, <1>3, <2>4
    <3>3. Timely(k, left'[t], phase[Leaf], TRUE)
      BY <3>1, <3>2 DEF Timely
    <3> QED BY <2>1, <2>2, <3>3
  <2>5. CASE t \notin due
    <3>1. left'[t] = left[t] /\ left[t] \in Int
      BY <1>2, <1>3, <2>5
    <3>2. k = 0 => left[t] >= 1
      <4>1. k = 0 => ~(left[t] <= ErrorMax)
        BY <1>4, <2>3, <2>5
      <4>2. ErrorMax \in Nat /\ ErrorMax > 0
        BY LeafFacts
      <4> QED BY <3>1, <4>1, <4>2
    <3>3. Timely(k, left[t], phase[Leaf], TRUE)
      BY <1>1, <2>2, <3>2 DEF Timely
    <3> QED BY <2>1, <2>2, <3>1, <3>3
  <2> QED BY <2>4, <2>5
<1>10. PlaceInv'
  <2> SUFFICES ASSUME NEW t \in Timers PROVE where'[t] # None <=> Waiting(t)'
    BY DEF PlaceInv
  <2>1. where[t] # None <=> st[t] = "set"
    BY <1>6 DEF WheelInv, PlaceInv, Waiting
  <2>2. Waiting(t)' <=> st[t] = "set" /\ (every[t] # 0 \/ t \notin due)
    BY <1>1, <1>7 DEF Waiting
  <2> QED BY <1>3, <1>8, <2>1, <2>2
<1>11. QueueInv'
  BY <1>1 DEF QueueInv
<1>12. LateInv'
  <2>1. ASSUME NEW t \in due PROVE st[t] = "set"
    BY <1>4, <1>8 DEF WheelInv, PlaceInv, Waiting
  <2> QED BY <1>1, <1>6, <1>7, <2>1 DEF WheelInv, LateInv
<1> QED BY <1>5, <1>9, <1>10, <1>11, <1>12 DEF WheelInv

LEMMA SendStep ==
  ASSUME WheelInv, SendTrigger
  PROVE  WheelInv'
<1> USE DEF SendTrigger, wheel, timer
<1>1. PICK t \in hand : trigger' = Append(trigger, t) /\ hand' = hand \ {t}
  OBVIOUS
<1>2. /\ t \in Timers /\ trigger \in Seq(Timers) /\ polled
      /\ UNCHANGED <<index, phase, where, st, left, every, polled, late>>
  BY <1>1 DEF WheelInv, WheelTypeOK, QueueInv
<1>3. /\ trigger' \in Seq(Timers) /\ Len(trigger) \in Nat
      /\ DOMAIN trigger = 1 .. Len(trigger) /\ DOMAIN trigger' = 1 .. Len(trigger) + 1
      /\ \A i \in DOMAIN trigger : trigger'[i] = trigger[i]
      /\ trigger'[Len(trigger) + 1] = t
  BY <1>1, <1>2
<1> HIDE DEF SendTrigger
<1>4. \A u \in Timers : Queued(u)' <=> Queued(u)
  <2> SUFFICES ASSUME NEW u \in Timers PROVE Queued(u)' <=> Queued(u)
    OBVIOUS
  <2>1. (\E i \in DOMAIN trigger' : trigger'[i] = u) <=> (\E i \in DOMAIN trigger : trigger[i] = u) \/ u = t
    BY <1>3
  <2> QED BY <1>1, <2>1 DEF Queued
<1>5. WheelTypeOK'
  BY <1>1, <1>2, <1>3 DEF WheelInv, WheelTypeOK
<1>6. SlotInv'
  BY <1>2, <1>5, SlotKept DEF WheelInv, WheelTypeOK
<1>7. PlaceInv'
  BY <1>2, <1>4 DEF WheelInv, PlaceInv, Waiting
<1>8. QueueInv'
  <2>1. \A i \in DOMAIN trigger : trigger[i] # t
    BY <1>1 DEF WheelInv, QueueInv
  <2>2. \A i \in DOMAIN trigger' : i \in DOMAIN trigger \/ i = Len(trigger) + 1
    BY <1>3
  <2>3. \A i \in DOMAIN trigger' : trigger'[i] \notin hand'
    BY <1>1, <1>3, <2>2 DEF WheelInv, QueueInv
  <2>4. \A i, j \in DOMAIN trigger' : trigger'[i] = trigger'[j] => i = j
    BY <1>3, <2>1, <2>2 DEF WheelInv, QueueInv
  <2> QED BY <1>2, <2>3, <2>4 DEF QueueInv
<1>9. LateInv'
  BY <1>2, <1>4 DEF WheelInv, LateInv
<1> QED BY <1>5, <1>6, <1>7, <1>8, <1>9 DEF WheelInv

\* A wheel above the leaf has nothing to redistribute.
LEMMA UpperStep ==
  ASSUME WheelInv, NEW w \in Wheels, w # Leaf, RunWheel(w)
  PROVE  WheelInv'
<1> USE DEF RunWheel, sched
<1>1. \A t \in Timers : where[t] # <<w, index[w]>>
  <2> SUFFICES ASSUME NEW t \in Timers, where[t] = <<w, index[w]>> PROVE FALSE
    OBVIOUS
  <2>1. index[w] \in 0 .. Level - 1
    BY DEF WheelInv, WheelTypeOK
  <2>2. where[t] # None
    BY <2>1, WheelAssumption
  <2>3. PICK k \in 0 .. Level - 1 : where[t] = Ahead(index[Leaf], k)
    BY <2>2 DEF WheelInv, SlotInv
  <2> QED BY <2>3 DEF Ahead
<1>2. where' = where
  BY <1>1 DEF WheelInv, WheelTypeOK
<1>3. /\ index'[Leaf] = index[Leaf] /\ phase'[Leaf] = phase[Leaf]
      /\ UNCHANGED <<st, left, every, polled, hand, trigger, late>>
  BY LeafFacts DEF WheelInv, WheelTypeOK
<1>4. index' \in [Wheels -> 0 .. Level - 1] /\ phase' \in [Wheels -> Nat]
  <2>1. (index[w] + 1) % Level \in 0 .. Level - 1
    <3>1. index[w] \in 0 .. Level - 1
      BY DEF WheelInv, WheelTypeOK
    <3> QED BY <3>1, AheadSlots
  <2>2. Interval[w] \in Nat
    BY WheelAssumption DEF Wheels
  <2> QED BY <2>1, <2>2 DEF WheelInv, WheelTypeOK
<1> HIDE DEF RunWheel
<1>5. WheelTypeOK'
  BY <1>2, <1>3, <1>4 DEF WheelInv, WheelTypeOK
<1>6. SlotInv'
  BY <1>2, <1>3 DEF WheelInv, SlotInv
<1>7. \A u \in Timers : Queued(u)' <=> Queued(u)
  BY <1>3 DEF Queued
<1>8. PlaceInv' /\ QueueInv' /\ LateInv'
  BY <1>2, <1>3, <1>7 DEF WheelInv, PlaceInv, QueueInv, LateInv, Waiting
<1> QED BY <1>5, <1>6, <1>8 DEF WheelInv

\* The leaf's slot is over: what is left in it moves on in time.
LEMMA LeafStep ==
  ASSUME ShortDelays, WheelInv, RunWheel(Leaf)
  PROVE  WheelInv'
<1> USE DEF RunWheel, sched
<1> DEFINE i == index[Leaf]
           I == Interval[Leaf]
<1>1. /\ i \in 0 .. Level - 1 /\ phase[Leaf] = 0 /\ Level \in Nat /\ Level > 1 /\ I \in Nat /\ I > 1
      /\ left \in [Timers -> Int]
      /\ UNCHANGED <<st, left, every, polled, hand, trigger, late>>
  BY LeafFacts DEF WheelInv, WheelTypeOK, ShortDelays
<1>2. /\ index'[Leaf] = (i + 1) % Level /\ phase'[Leaf] = I
      /\ \A t \in Timers : where'[t] = IF where[t] = <<Leaf, i>> THEN Place(Leaf, left[t], TRUE) ELSE where[t]
      /\ (i + 1) % Level \in 0 .. Level - 1
      /\ index' \in [Wheels -> 0 .. Level - 1] /\ phase' \in [Wheels -> Nat]
  <2>1. (i + 1) % Level \in 0 .. Level - 1
    BY <1>1, AheadSlots
  <2>2. Leaf \in Wheels
    BY LeafFacts
  <2> QED BY <1>1, <2>1, <2>2 DEF WheelInv, WheelTypeOK
<1>3. ASSUME NEW t \in Timers, where[t] # None
      PROVE  \E k \in 0 .. Level - 1 :
                where'[t] = Ahead((i + 1) % Level, k) /\ Timely(k, left[t], I, polled)
  <2>1. PICK k \in 0 .. Level - 1 : where[t] = Ahead(i, k) /\ Timely(k, left[t], 0, polled)
    BY <1>1, <1>3 DEF WheelInv, SlotInv
  <2>2. left[t] \in Int
    BY <1>1
  <2> HIDE DEF RunWheel, i, I
  <2>3. CASE k = 0
    <3>1. left[t] >= 0 /\ (polled => left[t] >= 1)
      BY <1>1, <2>1, <2>2, <2>3 DEF Timely, I
    <3>2. Down(Leaf, left[t]) = Leaf
      BY <2>2, LeafFacts DEF Down, Leaf, Wheels, Min
    <3>3. PICK n \in 1 .. Level - 1 :
             Place(Leaf, left[t], TRUE) = Ahead(i, n) /\ (n = 1 \/ left[t] >= n * I)
      BY <2>2, <3>1, <3>2, PlaceAgain DEF i, I
    <3>4. where'[t] = Ahead(i, n)
      <4>1. where[t] = <<Leaf, i>>
        BY <1>1, <2>1, <2>3, AheadSlots
      <4> QED BY <1>2, <3>3, <4>1
    <3>5. Ahead(i, n) = Ahead((i + 1) % Level, n - 1) /\ n - 1 \in 0 .. Level - 1
      <4>1. n \in 0 .. Level - 1 /\ n # 0
        OBVIOUS
      <4> QED BY <1>1, <4>1, AheadSlots
    <3>6. Timely(n - 1, left[t], I, polled)
      <4>1. CASE n = 1
        BY <1>1, <2>2, <3>1, <4>1 DEF Timely
      <4>2. CASE n # 1
        <5>1. left[t] >= I + ((n - 1) - 1) * I
          BY <1>1, <2>2, <3>3, <4>2
        <5> QED BY <4>2, <5>1 DEF Timely, I
      <4> QED BY <4>1, <4>2
    <3> QED BY <3>4, <3>5, <3>6
  <2>4. CASE k # 0
    <3>1. where'[t] = where[t]
      <4>1. where[t] # <<Leaf, i>>
        BY <1>1, <2>1, <2>4, AheadSlots
      <4> QED BY <1>2, <4>1
    <3>2. Ahead(i, k) = Ahead((i + 1) % Level, k - 1) /\ k - 1 \in 0 .. Level - 1
      <4>1. i \in 0 .. Level - 1
        BY <1>1
      <4> QED BY <2>4, <4>1, AheadSlots
    <3>3. left[t] >= (k - 1) * I
      BY <1>1, <2>1, <2>4 DEF Timely, I
    <3>4. Timely(k - 1, left[t], I, polled)
      <4>1. CASE k = 1
        BY <1>1, <2>2, <3>3, <4>1 DEF Timely, I
      <4>2. CASE k # 1
        <5>1. left[t] >= I + ((k - 1) - 1) * I
          BY <1>1, <2>2, <3>3
        <5> QED BY <4>2, <5>1 DEF Timely, I
      <4> QED BY <4>1, <4>2
    <3> QED BY <2>1, <3>1, <3>2, <3>4
  <2> QED BY <2>3, <2>4
<1>4. \A t \in Timers : where'[t] # None <=> where[t] # None
  <2>1. ASSUME NEW t \in Timers, where[t] # None PROVE where'[t] # None
    <3>1. \E k \in 0 .. Level - 1 : where'[t] = Ahead((i + 1) % Level, k)
      BY <1>3, <2>1
    <3>2. (i + 1) % Level \in 0 .. Level - 1
      BY <1>2
    <3> DEFINE j == (i + 1) % Level
    <3> HIDE DEF j
    <3>3. \A k \in 0 .. Level - 1 : Ahead(j, k) # None
      BY <3>2, LeafFacts DEF j
    <3> QED BY <3>1, <3>3 DEF j
  <2>2. ASSUME NEW t \in Timers, where[t] = None PROVE where'[t] = None
    <3>1. <<Leaf, i>> # None
      BY <1>1, AheadSlots
    <3> QED BY <1>2, <2>2, <3>1
  <2> QED BY <2>1, <2>2
<1>5. WheelTypeOK'
  <2>1. ASSUME NEW t \in Timers PROVE where'[t] \in {None} \cup Wheels \X (0 .. Level - 1)
    <3>1. where[t] # None => \E k \in 0 .. Level - 1 : where'[t] = Ahead((i + 1) % Level, k)
      BY <1>3
    <3>2. (i + 1) % Level \in 0 .. Level - 1
      BY <1>2
    <3> DEFINE j == (i + 1) % Level
    <3> HIDE DEF j
    <3>3. \A k \in 0 .. Level - 1 : Ahead(j, k) \in Wheels \X (0 .. Level - 1)
      BY <3>2, LeafFacts DEF j
    <3> QED BY <1>4, <3>1, <3>3 DEF j
  <2>2. where' \in [Timers -> {None} \cup Wheels \X (0 .. Level - 1)]
    BY <2>1
  <2>3. phase'[Leaf] <= Interval[Leaf]
    BY <1>1, <1>2
  <2> HIDE DEF RunWheel
  <2> QED BY <1>1, <1>2, <2>2, <2>3 DEF WheelInv, WheelTypeOK
<1> HIDE DEF RunWheel
<1>6. SlotInv'
  BY <1>1, <1>2, <1>3, <1>4 DEF SlotInv
<1>7. \A u \in Timers : Queued(u)' <=> Queued(u)
  BY <1>1 DEF Queued
<1>8. PlaceInv'
  BY <1>1, <1>4, <1>7 DEF WheelInv, PlaceInv, Waiting
<1>9. QueueInv' /\ LateInv'
  BY <1>1, <1>7 DEF WheelInv, QueueInv, LateInv
<1> QED BY <1>5, <1>6, <1>8, <1>9 DEF WheelInv

LEMMA PassStep ==
  ASSUME ShortDelays, WheelInv, Pass
  PROVE  WheelInv'
<1> USE DEF Pass
<1> DEFINE I == Interval[Leaf]
<1>1. /\ trigger = <<>> /\ hand = {} /\ polled = TRUE /\ polled' = FALSE
      /\ UNCHANGED <<index, where, st, every, hand, trigger, late>>
  <2>1. trigger = <<>> /\ Len(trigger) = 0
    BY DEF ShortDelays
  <2>2. hand = {}
    BY <2>1, WheelAssumption
  <2>3. polled = TRUE
    BY <2>2 DEF WheelInv, WheelTypeOK
  <2> QED BY <2>1, <2>2, <2>3
<1>2. /\ phase[Leaf] \in Nat /\ phase[Leaf] > 0 /\ phase'[Leaf] = phase[Leaf] - 1
      /\ phase[Leaf] <= I /\ I \in Nat
      /\ phase' \in [Wheels -> Nat]
  <2>1. Leaf \in Wheels /\ I \in Nat /\ phase \in [Wheels -> Nat] /\ phase[Leaf] <= I
    BY LeafFacts DEF WheelInv, WheelTypeOK
  <2>2. phase' = [w \in Wheels |-> phase[w] - 1] /\ \A w \in Wheels : phase[w] > 0
    OBVIOUS
  <2> HIDE DEF Pass, I
  <2> QED BY <2>1, <2>2
<1>3. \A t \in Timers : left'[t] = IF st[t] = "set" /\ left[t] > -Overdue THEN left[t] - 1 ELSE left[t]
  OBVIOUS
<1>4. left \in [Timers -> Int] /\ left' \in [Timers -> Int]
  BY DEF WheelInv, WheelTypeOK
<1>5. WheelTypeOK'
  <2>1. phase'[Leaf] <= Interval[Leaf]
    BY <1>2
  <2> HIDE DEF Pass
  <2> QED BY <1>1, <1>2, <1>4, <2>1 DEF WheelInv, WheelTypeOK
<1> HIDE DEF Pass
<1>6. SlotInv'
  <2> SUFFICES ASSUME NEW t \in Timers, where[t] # None
               PROVE  \E k \in 0 .. Level - 1 :
                         where[t] = Ahead(index[Leaf], k) /\ Timely(k, left'[t], phase'[Leaf], FALSE)
    BY <1>1 DEF SlotInv
  <2>1. PICK k \in 0 .. Level - 1 :
           where[t] = Ahead(index[Leaf], k) /\ Timely(k, left[t], phase[Leaf], TRUE)
    BY <1>1 DEF WheelInv, SlotInv
  <2>2. st[t] = "set"
    BY DEF WheelInv, PlaceInv, Waiting
  <2>3. left[t] \in Int /\ left[t] >= 0
    <3>1. CASE k = 0
      BY <1>4, <2>1, <3>1 DEF Timely
    <3>2. CASE k # 0
      <4>1. left[t] >= phase[Leaf] + (k - 1) * I
        BY <2>1, <3>2 DEF Timely
      <4>2. (k - 1) * I \in Nat
        BY <1>2, <3>2
      <4> QED BY <1>2, <1>4, <4>1, <4>2
    <3> QED BY <3>1, <3>2
  <2>4. left'[t] = left[t] - 1
    BY <1>3, <2>2, <2>3, WheelAssumption
  <2>5. Timely(k, left'[t], phase'[Leaf], FALSE)
    <3>1. CASE k = 0
      BY <1>2, <2>1, <2>3, <2>4, <3>1 DEF Timely
    <3>2. CASE k # 0
      <4>1. left[t] >= phase[Leaf] + (k - 1) * I
        BY <2>1, <3>2 DEF Timely
      <4>2. (k - 1) * I \in Nat
        BY <1>2, <3>2
      <4>3. left'[t] >= phase'[Leaf] + (k - 1) * I
        BY <1>2, <2>3, <2>4, <4>1, <4>2
      <4> QED BY <3>2, <4>3 DEF Timely
    <3> QED BY <3>1, <3>2
  <2> QED BY <2>1, <2>5
<1>7. \A u \in Timers : Queued(u)' <=> Queued(u)
  BY <1>1 DEF Queued
<1>8. PlaceInv'
  BY <1>1, <1>7 DEF WheelInv, PlaceInv, Waiting
<1>9. QueueInv' /\ LateInv'
  BY <1>1, <1>7 DEF WheelInv, QueueInv, LateInv
<1> QED BY <1>5, <1>6, <1>8, <1>9 DEF WheelInv

LEMMA WheelStep == ShortDelays /\ WheelInv /\ [Next]_vars => WheelInv'
<1> SUFFICES ASSUME ShortDelays, WheelInv, [Next]_vars PROVE WheelInv'
  OBVIOUS
<1>1. ASSUME NEW t \in Timers, NEW d \in Delays, NEW loop \in BOOLEAN, CreateTimer(t, d, loop)
      PROVE  WheelInv'
  BY <1>1, CreateStep
<1>2. ASSUME NEW t \in Timers, CancelTimer(t) \/ Forget(t) PROVE WheelInv'
  BY <1>2, CancelStep, ForgetStep
<1>3. ASSUME Call \/ GetTriggerWithIn \/ SendTrigger \/ Pass PROVE WheelInv'
  BY <1>3, CallStep, GetStep, SendStep, PassStep
<1>4. ASSUME NEW w \in Wheels, RunWheel(w) PROVE WheelInv'
  BY <1>4, UpperStep, LeafStep
<1>5. ASSUME UNCHANGED vars PROVE WheelInv'
  <2>1. \A u \in Timers : Queued(u)' <=> Queued(u)
    BY <1>5 DEF Queued, vars, sched
  <2>2. \A u \in Timers : Waiting(u)' <=> Waiting(u)
    BY <1>5, <2>1 DEF Waiting, vars, timer
  <2>3. WheelTypeOK' /\ QueueInv'
    BY <1>5 DEF WheelInv, WheelTypeOK, QueueInv, vars, wheel, timer, sched
  <2>4. SlotInv'
    BY <1>5 DEF WheelInv, SlotInv, vars, wheel, timer, sched
  <2>5. PlaceInv' /\ LateInv'
    BY <1>5, <2>1, <2>2 DEF WheelInv, PlaceInv, LateInv, vars, timer, sched
  <2> QED BY <2>3, <2>4, <2>5 DEF WheelInv
<1> QED BY <1>1, <1>2, <1>3, <1>4, <1>5 DEF Next

LEMMA WheelStarts == Init => WheelInv
<1> SUFFICES ASSUME Init PROVE WheelInv
  OBVIOUS
<1> USE DEF Init
<1>1. \A t \in Timers : where[t] = None /\ st[t] = "new" /\ late[t] = 0 /\ ~Queued(t)
  BY DEF Queued
<1>2. WheelTypeOK
  <2>1. 1 .. Interval[1] \subseteq Nat /\ 0 \in 0 .. Level - 1
    BY LeafFacts, WheelAssumption
  <2>2. index \in [Wheels -> 0 .. Level - 1] /\ phase \in [Wheels -> Nat] /\ phase[Leaf] <= Interval[Leaf]
    BY <2>1, LeafFacts
  <2>3. /\ where \in [Timers -> {None} \cup Wheels \X (0 .. Level - 1)]
        /\ st \in [Timers -> {"new", "set", "cancelled"}]
        /\ left \in [Timers -> Int] /\ every \in [Timers -> Delays \cup {0}]
        /\ late \in [Timers -> 0 .. 2]
    OBVIOUS
  <2>4. hand \in SUBSET Timers /\ trigger \in Seq(Timers)
    <3>1. <<>> \in Seq(Timers)
      OBVIOUS
    <3> QED BY <3>1
  <2>5. polled \in BOOLEAN
    OBVIOUS
  <2> QED BY <2>2, <2>3, <2>4, <2>5 DEF WheelTypeOK
<1>3. SlotInv /\ PlaceInv
  BY <1>1 DEF SlotInv, PlaceInv, Waiting
<1>4. QueueInv /\ LateInv
  BY <1>1 DEF QueueInv, LateInv
<1> QED BY <1>2, <1>3, <1>4 DEF WheelInv

\* Timers with delays below the interval of the upper wheels are taken at most
\* one period of the scheduler late, in whatever order wheels, scheduler and
\* application run, if the application keeps the trigger channel empty; and a
\* cancelled one is called at most once more (_add2WheelChain, RunWheel,
\* GetTriggerWithIn, RemoveFromWheelChain).
THEOREM OnTimeCorrect == ASSUME ShortDelays PROVE Spec => []OnTime
<1>1. WheelInv => OnTime
  <2> SUFFICES ASSUME WheelInv, NEW t \in Timers
               PROVE  (Waiting(t) => where[t] # None /\ left[t] >= -ErrorMax) /\ late[t] <= 1
    BY DEF OnTime
  <2>1. ASSUME Waiting(t) PROVE where[t] # None /\ left[t] >= -ErrorMax
    <3>1. where[t] # None
      BY <2>1 DEF WheelInv, PlaceInv
    <3>2. PICK k \in 0 .. Level - 1 : Timely(k, left[t], phase[Leaf], polled)
      BY <3>1 DEF WheelInv, SlotInv
    <3>3. left[t] \in Int /\ phase[Leaf] \in Nat /\ Interval[Leaf] \in Nat /\ ErrorMax \in Nat /\ ErrorMax > 0
      BY LeafFacts DEF WheelInv, WheelTypeOK
    <3>4. left[t] >= -1
      <4>1. CASE k = 0
        BY <3>2, <3>3, <4>1 DEF Timely
      <4>2. CASE k # 0
        <5>1. left[t] >= phase[Leaf] + (k - 1) * Interval[Leaf]
          BY <3>2, <4>2 DEF Timely
        <5>2. (k - 1) * Interval[Leaf] \in Nat
          BY <3>3, <4>2
        <5> QED BY <3>3, <5>1, <5>2
      <4> QED BY <4>1, <4>2
    <3> QED BY <3>1, <3>3, <3>4
  <2>2. late[t] <= 1
    BY DEF WheelInv, WheelTypeOK, LateInv
  <2> QED BY <2>1, <2>2
<1>2. WheelInv /\ [Next]_vars => WheelInv'
  BY WheelStep
<1> QED BY <1>1, <1>2, WheelStarts, PTL DEF Spec
=============================================================================
