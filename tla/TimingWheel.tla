---------------------------- MODULE TimingWheel ----------------------------
(***************************************************************************)
(* The multi-level timing wheel (timer_256): a job waits in a slot of the  *)
(* highest wheel its slot indices name and moves down as the wheels turn.  *)
(* The code's 7 wheels of 256 slots are LevelCnt wheels of SlotCnt slots.  *)
(* tick and AddFunc hold the wheel's lock and are one step each.           *)
(***************************************************************************)
EXTENDS Integers, FiniteSets

CONSTANTS SlotCnt, LevelCnt,
          Jobs,
          MaxTicks   \* bound: ticks of a behaviour

ASSUME WheelAssumption == SlotCnt \in Nat \ {0, 1} /\ LevelCnt \in Nat \ {0, 1} /\ MaxTicks \in Nat

VARIABLES curPos,   \* position of each wheel
          slots,    \* the jobs in each slot of each wheel
          slotIdx,  \* Job.levelSlotIdx
          added,    \* per job: [at, from, tc], the tick, positions and delay of AddFunc
          firedAt,  \* per job: the ticks at which it was fired
          now,      \* ticks so far
          open      \* Run has not been told to exit

twVars == <<curPos, slots, slotIdx, added, firedAt, now, open>>

\* The ticks between two turns of wheel i: SlotCnt^i.
Period[i \in Nat] == IF i = 0 THEN 1 ELSE SlotCnt * Period[i - 1]

Levels == 0..LevelCnt - 1
Slots  == 0..SlotCnt - 1
NotAdded == [at |-> -1, from |-> 0, tc |-> 0]

\* NewTimingWheel, newLevelWheel
TwInit ==
    /\ curPos = [i \in Levels |-> 0]
    /\ slots = [i \in Levels |-> [s \in Slots |-> {}]]
    /\ slotIdx = [j \in Jobs |-> [i \in Levels |-> 0]]
    /\ added = [j \in Jobs |-> NotAdded]
    /\ firedAt = [j \in Jobs |-> {}]
    /\ now = 0 /\ open = TRUE

\* The digits of a delay; the loop of AddFunc leaves the top wheel out.
Digit(tc, i) == (tc \div Period[i]) % SlotCnt

\* Positions are not added to the digits.
FaultyLevelSlotIdx(tc) ==
    [i \in Levels |-> IF i < LevelCnt - 1 THEN Digit(tc, i) ELSE 0]

LevelSlotIdx(tc) ==
    [i \in Levels |-> IF i < LevelCnt - 1 THEN (curPos[i] + Digit(tc, i)) % SlotCnt ELSE 0]

\* The highest wheel with an index other than 0.
LevelOf(idx) ==
    IF \A i \in Levels : idx[i] = 0 THEN 0
    ELSE CHOOSE i \in Levels : idx[i] # 0 /\ \A k \in Levels : k > i => idx[k] = 0

\* AddFunc; a delay above SlotCnt^LevelCnt ticks is refused.
AddFunc(j, tc) ==
    /\ added[j] = NotAdded /\ tc <= Period[LevelCnt]
    /\ LET idx == LevelSlotIdx(tc)
           i   == LevelOf(idx)
       IN  /\ slotIdx' = [slotIdx EXCEPT ![j] = idx]
           /\ slots' = [slots EXCEPT ![i][idx[i]] = @ \cup {j}]
           /\ added' = [added EXCEPT ![j] = [at |-> now, from |-> curPos, tc |-> tc]]
    /\ UNCHANGED <<curPos, firedAt, now, open>>

\* The wheels that turn when wheel 0 does: wheel i with all below it at 0.
Turns(i) == \A k \in Levels : k < i => (curPos[k] + 1) % SlotCnt = 0

\* The jobs in the slot that wheel i turns to, which go to wheel i - 1.
Down(pos, i) == IF i \in Levels /\ Turns(i) THEN slots[i][pos[i]] ELSE {}

\* tick: wheel 0 moves and fires; only then the wheels above turn, from below, each
\* emptying the slot it has turned to before it gets jobs from the one above.
Tick ==
    /\ open /\ now < MaxTicks
    /\ now' = now + 1
    /\ curPos' = [i \in Levels |-> IF Turns(i) THEN (curPos[i] + 1) % SlotCnt ELSE curPos[i]]
    /\ firedAt' = [j \in Jobs |-> IF j \in Down(curPos', 0) THEN firedAt[j] \cup {now'} ELSE firedAt[j]]
    /\ slots' = [i \in Levels |-> [s \in Slots |->
           (IF Turns(i) /\ s = curPos'[i] THEN {} ELSE slots[i][s])
               \cup {j \in Down(curPos', i + 1) : slotIdx[j][i] = s}]]
    /\ UNCHANGED <<slotIdx, added, open>>

\* Close: Run returns.
CloseWheel == open /\ open' = FALSE /\ UNCHANGED <<curPos, slots, slotIdx, added, firedAt, now>>

TwRest == (now = MaxTicks \/ ~open) /\ UNCHANGED twVars

TwNext ==
    \/ \E j \in Jobs, tc \in 0..Period[LevelCnt] : AddFunc(j, tc)
    \/ Tick \/ CloseWheel \/ TwRest

TwSpec == TwInit /\ [][TwNext]_twVars

\* A delay that the indices express exactly: below the top wheel's reach, no
\* wheel above its first digit has moved, no carry under its first digit, and no
\* index 0 on the way down.
Exact(a) ==
    \E top \in 0..LevelCnt - 2 :
        /\ a.tc < Period[top + 1]
        /\ \A i \in Levels : i > top => a.from[i] = 0
        /\ \A i \in 0..top :
              LET sum == a.from[i] + Digit(a.tc, i) IN
              sum % SlotCnt # 0 /\ (top > 0 => sum < SlotCnt)
        /\ Digit(a.tc, top) # 0

\* One revolution of each of the first i wheels.
Revolutions[i \in Nat] == IF i = 0 THEN 0 ELSE Revolutions[i - 1] + Period[i]

\* A job fires at the tick of its delay when its indices express that delay,
\* through all the wheels it moves down; every job fires only once; and also a
\* job whose delay was mangled by a dropped carry or by an index 0 fires, after
\* one revolution of each wheel at the latest (AddFunc, tick, fireEvents).
TwExact ==
    \A j \in Jobs :
        /\ Cardinality(firedAt[j]) <= 1
        /\ added[j] # NotAdded /\ Exact(added[j]) =>
              /\ firedAt[j] \subseteq {added[j].at + added[j].tc}
              /\ now >= added[j].at + added[j].tc => firedAt[j] # {}
        /\ added[j] # NotAdded /\ firedAt[j] = {} => now - added[j].at <= Revolutions[LevelCnt - 1]
=============================================================================
