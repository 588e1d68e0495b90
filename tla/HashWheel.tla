------------------------------ MODULE HashWheel ------------------------------
(***************************************************************************)
(* The safe timers: a chain of hash wheels and the scheduler that drains   *)
(* it (viphxin/xingo/timer/hashwheel.go, safetimer.go).                    *)
(*                                                                         *)
(* Wheel 1 has the longest interval, the last wheel is the leaf.  Every    *)
(* wheel has a goroutine that sleeps for its interval, distributes the     *)
(* timers of the current slot anew (over its own slots or down the chain)  *)
(* and moves on by one slot.  The scheduler polls the leaf's current slot  *)
(* once per time unit and sends what is due to the trigger channel, which  *)
(* the application drains.                                                 *)
(*                                                                         *)
(* Time is relative: left[t] is unixts - now.  Goroutines that are due run *)
(* before time goes on, in any order.                                      *)
(***************************************************************************)
EXTENDS Integers, Sequences, FiniteSets, FiniteSetsExt

CONSTANTS Timers,     \* identities of timers
          Delays,     \* delays they are created with
          Interval,   \* levelInterval of each wheel, longest first
          Level,      \* slots of a wheel
          ErrorMax,   \* ERRORMAX, the scheduler's period
          TriggerMax, \* capacity of the trigger channel
          Prompt,     \* the application drains the channel at once
          Overdue,    \* bound: how long a delay past its time is counted
          None

Wheels == 1 .. Len(Interval)
Leaf   == Len(Interval)

ASSUME WheelAssumption ==
    /\ IsFiniteSet(Timers)
    /\ Interval \in Seq(Nat \ {0}) /\ Interval # <<>>
    /\ \A v, w \in Wheels : v < w => Interval[v] > Interval[w]
    /\ Delays \subseteq Nat \ {0}
    /\ Level \in Nat /\ Level > 1
    /\ ErrorMax \in Nat \ {0} /\ TriggerMax \in Nat \ {0} /\ Overdue \in Nat \ {0}
    /\ Prompt \in BOOLEAN
    /\ None \notin Wheels \X (0 .. Level - 1)

VARIABLES
    index,   \* a wheel's current slot
    phase,   \* time until a wheel's goroutine wakes up
    where,   \* wheel and slot that hold a timer
    st,      \* what the application did with a timer
    left,    \* unixts - now
    every,   \* SafeTimer.interval: zero for a timer that fires once
    polled,  \* the scheduler has polled in this time unit
    hand,    \* timers the scheduler has taken and not yet sent
    trigger, \* the trigger channel
    late     \* calls of a timer after it was cancelled (counted up to two)

wheel == <<index, phase>>
timer == <<where, st, left, every>>
sched == <<polled, hand, trigger, late>>
vars  == <<wheel, timer, sched>>

Init ==
    /\ index = [w \in Wheels |-> 0]
    /\ phase \in {p \in [Wheels -> 1 .. Interval[1]] : \A w \in Wheels : p[w] <= Interval[w]}
    /\ where = [t \in Timers |-> None]
    /\ st = [t \in Timers |-> "new"]
    /\ left = [t \in Timers |-> 0]
    /\ every = [t \in Timers |-> 0]
    /\ polled = FALSE
    /\ hand = {}
    /\ trigger = <<>>
    /\ late = [t \in Timers |-> 0]

(***************************************************************************)
(* Where a timer goes.                                                     *)
(***************************************************************************)

\* The first wheel from w on whose interval is not too long, or the leaf.
Down(w, rem) == Min({v \in w .. Leaf : v = Leaf \/ rem >= Interval[v]})

\* The slots, counted from the current one, that rem reaches; the farthest is
\* chosen, and there is none for a timer whose time is over.
Reached(v, rem) == {i \in 0 .. Level - 1 : rem >= i * Interval[v]}

\* Mutant: forceNext is ignored.
FaultyPlaceStays(w, rem, forceNext) ==
    LET v == Down(w, rem)
    IN  IF Reached(v, rem) = {} THEN None
        ELSE <<v, (index[v] + Max(Reached(v, rem))) % Level>>

\* _add2WheelChain: the new place of a timer, None if it is put nowhere.  A
\* wheel that redistributes its current slot puts nothing back into it.
Place(w, rem, forceNext) ==
    LET v == Down(w, rem)
        i == Max(Reached(v, rem))
    IN  IF Reached(v, rem) = {} THEN None
        ELSE <<v, (index[v] + (IF i = 0 /\ forceNext /\ v = w THEN 1 ELSE i)) % Level>>

(***************************************************************************)
(* The application.                                                        *)
(***************************************************************************)

Queued(t) == t \in hand \/ \E i \in DOMAIN trigger : trigger[i] = t

\* NewSafeTimer: the interval that is kept.
Repeat(d, loop) == IF loop THEN d ELSE 0

CreateTimer(t, d, loop) ==
    /\ st[t] = "new"
    /\ st' = [st EXCEPT ![t] = "set"]
    /\ left' = [left EXCEPT ![t] = d]
    /\ every' = [every EXCEPT ![t] = Repeat(d, loop)]
    /\ where' = [where EXCEPT ![t] = Place(1, d, FALSE)]
    /\ UNCHANGED <<wheel, sched>>

\* RemoveFromWheelChain looks in every wheel of the chain.
CancelTimer(t) ==
    /\ st[t] = "set"
    /\ st' = [st EXCEPT ![t] = "cancelled"]
    /\ where' = [where EXCEPT ![t] = None]
    /\ UNCHANGED <<wheel, left, every, sched>>

\* The application takes a call from the trigger channel.
Call ==
    /\ trigger # <<>>
    /\ LET t == Head(trigger) IN
       /\ late' = IF st[t] = "cancelled" /\ late[t] < 2
                  THEN [late EXCEPT ![t] = @ + 1] ELSE late
       /\ st' = IF st[t] = "set" /\ every[t] = 0 THEN [st EXCEPT ![t] = "new"] ELSE st
    /\ trigger' = Tail(trigger)
    /\ UNCHANGED <<wheel, where, left, every, polled, hand>>

\* The identity of a cancelled timer that can fire no more is used again.
Forget(t) ==
    /\ st[t] = "cancelled"
    /\ ~Queued(t)
    /\ where[t] = None
    /\ st' = [st EXCEPT ![t] = "new"]
    /\ late' = [late EXCEPT ![t] = 0]
    /\ UNCHANGED <<wheel, where, left, every, polled, hand, trigger>>

(***************************************************************************)
(* The scheduler and the wheels.                                           *)
(***************************************************************************)

\* Mutant: repeating timers get their new time but are not triggered.
FaultyGetTriggerSkips ==
    /\ ~polled
    /\ hand = {}
    /\ LET due == {t \in Timers : where[t] = <<Leaf, index[Leaf]>> /\ left[t] <= ErrorMax} IN
       /\ hand' = {t \in due : every[t] = 0}
       /\ where' = [t \in Timers |-> IF t \in due /\ every[t] = 0 THEN None ELSE where[t]]
       /\ left' = [t \in Timers |-> IF t \in due /\ every[t] # 0 THEN every[t] ELSE left[t]]
    /\ polled' = TRUE
    /\ UNCHANGED <<wheel, st, every, trigger, late>>

\* GetTriggerWithIn: what is due in the leaf's current slot.  A timer that
\* fires once leaves the wheel, the others stay with a new time.
GetTriggerWithIn ==
    /\ ~polled
    /\ hand = {}
    /\ LET due == {t \in Timers : where[t] = <<Leaf, index[Leaf]>> /\ left[t] <= ErrorMax} IN
       /\ hand' = due
       /\ where' = [t \in Timers |-> IF t \in due /\ every[t] = 0 THEN None ELSE where[t]]
       /\ left' = [t \in Timers |-> IF t \in due /\ every[t] # 0 THEN every[t] ELSE left[t]]
    /\ polled' = TRUE
    /\ UNCHANGED <<wheel, st, every, trigger, late>>

\* StartScheduelLoop sends, blocking while the channel is full.
SendTrigger ==
    /\ Len(trigger) < TriggerMax
    /\ \E t \in hand : /\ trigger' = Append(trigger, t)
                       /\ hand' = hand \ {t}
    /\ UNCHANGED <<wheel, timer, polled, late>>

\* RunWheel: one turn of the loop.
RunWheel(w) ==
    /\ phase[w] = 0
    /\ where' = [t \in Timers |-> IF where[t] = <<w, index[w]>>
                                  THEN Place(w, left[t], TRUE) ELSE where[t]]
    /\ index' = [index EXCEPT ![w] = (@ + 1) % Level]
    /\ phase' = [phase EXCEPT ![w] = Interval[w]]
    /\ UNCHANGED <<st, left, every, sched>>

\* A time unit passes once all that is due has run; a scheduler that waits for
\* room in the channel does not poll.
Pass ==
    /\ \A w \in Wheels : phase[w] > 0
    /\ hand = {} => polled
    /\ hand # {} => Len(trigger) = TriggerMax
    /\ Prompt => trigger = <<>>
    /\ phase' = [w \in Wheels |-> phase[w] - 1]
    /\ left' = [t \in Timers |-> IF st[t] = "set" /\ left[t] > -Overdue THEN left[t] - 1
                                 ELSE left[t]]
    /\ polled' = FALSE
    /\ UNCHANGED <<index, where, st, every, hand, trigger, late>>

Next ==
    \/ \E t \in Timers, d \in Delays, loop \in BOOLEAN : CreateTimer(t, d, loop)
    \/ \E t \in Timers : CancelTimer(t) \/ Forget(t)
    \/ Call
    \/ GetTriggerWithIn
    \/ SendTrigger
    \/ \E w \in Wheels : RunWheel(w)
    \/ Pass

Spec == Init /\ [][Next]_vars

\* Time passes and goroutines run; nothing is assumed of what the application
\* creates or cancels.
Fairness ==
    /\ WF_vars(Call) /\ WF_vars(GetTriggerWithIn) /\ WF_vars(SendTrigger) /\ WF_vars(Pass)
    /\ \A w \in Wheels : WF_vars(RunWheel(w))

FairSpec == Spec /\ Fairness

(***************************************************************************)
(* Properties.                                                             *)
(***************************************************************************)

\* A timer that was set and still has to be triggered.
Waiting(t) == st[t] = "set" /\ (every[t] # 0 \/ ~Queued(t))

\* A timer that waits is in a slot that comes up in time: it is taken at most
\* one period of the scheduler late, however creation, wheels and scheduler
\* interleave (_add2WheelChain, RunWheel, GetTriggerWithIn).  One that was
\* cancelled is called at most once more, and only if the scheduler had taken it
\* already (RemoveFromWheelChain).
OnTime ==
    \A t \in Timers : /\ Waiting(t) => where[t] # None /\ left[t] >= -ErrorMax
                      /\ late[t] <= 1

\* A timer that is set is triggered, again and again if it repeats, unless it
\* is cancelled.
Triggered == \A t \in Timers : st[t] = "set" ~> (Queued(t) \/ st[t] # "set")

\* "the default maximum error" (ERRORMAX): no timer waits longer than that
\* past its time.
MaxErrorKept == \A t \in Timers : Waiting(t) => left[t] > -Overdue
=============================================================================
