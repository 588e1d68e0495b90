--------------------------- MODULE ServicesProofs ---------------------------
(***************************************************************************)
(* Proofs about redis and the database below the server: the pool of redigo*)
(* (RedisPool) and the connections it hands out (RedisConn), for every     *)
(* finite set of goroutines, any number of commands and every MaxActive,   *)
(* MaxIdle, Wait and TestOnBorrow; the multiplexer of redigo (ConnMux), for*)
(* any goroutines and any number of commands; and database access (Dbop),  *)
(* for every set of operations, every capacity of OpPool and every number  *)
(* of reconnections; and the bytes of commands and replies (RedisWire), for*)
(* all numbers, strings and arrays within arrays whose lines fit the       *)
(* reader's buffer.                                                        *)
(***************************************************************************)
EXTENDS RedisPool, ConnMux, Dbop, RedisWire, DataInduction

(***************************************************************************)
(* The pool.                                                               *)
(***************************************************************************)

\* The places at which a goroutine accounts for a connection of Pool.active.
Holding == {"test", "dial", "use", "put"}

Places == Holding \cup {"out", "want", "wait", "woken"}

HoldersOf(places) == {g \in Users : places[g] \in Holding}

\* What a goroutine at p accounts for.
Share(p) == IF p \in Holding THEN 1 ELSE 0

\* How many goroutines, g left aside, account for a connection.
OthersOf(places, g) == Cardinality(HoldersOf(places) \ {g})

PoolTypeOK ==
    /\ \E S : idle \in Seq(S)
    /\ active \in Int
    /\ closed \in BOOLEAN
    /\ at \in [Users -> Places]

PoolInv == PoolTypeOK /\ ActiveExact

LEMMA ExactHolders ==
    ActiveExact <=> active = Len(idle) + Cardinality(HoldersOf(at)) /\ active <= MaxActive
BY DEF ActiveExact, HoldersOf, Holding

LEMMA HoldersFinite ==
    ASSUME NEW places, NEW g
    PROVE  /\ IsFiniteSet(HoldersOf(places)) /\ IsFiniteSet(HoldersOf(places) \ {g})
           /\ Cardinality(HoldersOf(places)) \in Nat /\ OthersOf(places, g) \in Nat
<1>1. IsFiniteSet(Users) /\ HoldersOf(places) \subseteq Users
      /\ HoldersOf(places) \ {g} \subseteq Users
  BY PoolAssumption DEF HoldersOf
<1>2. IsFiniteSet(HoldersOf(places)) /\ IsFiniteSet(HoldersOf(places) \ {g})
  BY <1>1, FS_Subset
<1> QED
  BY <1>2, FS_CardinalityType DEF OthersOf

\* Where g is decides whether it is one of the holders.
LEMMA HoldersSplit ==
    ASSUME NEW places, NEW g \in Users
    PROVE  Cardinality(HoldersOf(places)) =
             OthersOf(places, g) + Share(places[g])
<1> DEFINE rest == HoldersOf(places) \ {g}
<1>1. IsFiniteSet(rest) /\ g \notin rest /\ Cardinality(rest) \in Nat
  BY HoldersFinite DEF OthersOf
<1>2. CASE places[g] \in Holding
  <2>1. HoldersOf(places) = rest \cup {g}
    BY <1>2 DEF HoldersOf
  <2>2. Cardinality(rest \cup {g}) = Cardinality(rest) + 1
    BY <1>1, FS_AddElement
  <2> QED
    BY <1>2, <2>1, <2>2 DEF OthersOf, Share
<1>3. CASE places[g] \notin Holding
  <2>1. HoldersOf(places) = rest
    BY <1>3 DEF HoldersOf
  <2>2. OthersOf(places, g) = Cardinality(HoldersOf(places)) /\ OthersOf(places, g) \in Nat
    BY <1>1, <2>1 DEF OthersOf
  <2> QED
    BY <1>3, <2>2 DEF Share
<1> QED
  BY <1>2, <1>3

\* One goroutine moves.
LEMMA HoldersMove ==
    ASSUME NEW places, NEW g \in Users, NEW moved, \A h \in Users : h # g => moved[h] = places[h]
    PROVE  Cardinality(HoldersOf(moved)) = OthersOf(places, g) + Share(moved[g])
<1>1. HoldersOf(moved) \ {g} = HoldersOf(places) \ {g}
  BY DEF HoldersOf
<1>2. OthersOf(moved, g) = OthersOf(places, g)
  BY <1>1 DEF OthersOf
<1> QED
  BY <1>2, HoldersSplit

\* cond.Signal wakes a goroutine that accounts for none.
LEMMA SignalledSame ==
    ASSUME NEW places \in [Users -> Places], NEW after \in Signalled(places)
    PROVE  /\ after \in [Users -> Places] /\ HoldersOf(after) = HoldersOf(places)
           /\ \A g \in Users : places[g] # "wait" => after[g] = places[g]
<1>1. CASE after = places
  BY <1>1
<1>2. ASSUME NEW w \in Users, places[w] = "wait", after = [places EXCEPT ![w] = "woken"]
      PROVE  /\ after \in [Users -> Places] /\ HoldersOf(after) = HoldersOf(places)
             /\ \A g \in Users : places[g] # "wait" => after[g] = places[g]
  <2>1. after \in [Users -> Places] /\ after[w] = "woken"
        /\ \A g \in Users : g # w => after[g] = places[g]
    BY <1>2 DEF Places
  <2>2. "wait" \notin Holding /\ "woken" \notin Holding
    BY DEF Holding
  <2> QED
    BY <1>2, <2>1, <2>2 DEF HoldersOf
<1> QED
  BY <1>1, <1>2 DEF Signalled

\* The rest of get: g no longer accounts for what it had, act and list stand
\* for active and idle.
LEMMA LookStep ==
    ASSUME closed \in BOOLEAN, NEW g \in Users, NEW act \in Int, NEW S, NEW list \in Seq(S),
           NEW n, NEW places \in [Users -> Places],
           act = Len(list) + OthersOf(places, g), act <= MaxActive,
           Look(g, act, list, n, places)
    PROVE  PoolInv'
<1>1. closed' = closed /\ MaxActive \in Nat
  BY PoolAssumption DEF Look
<1>2. PICK p \in Places :
        /\ at' = [places EXCEPT ![g] = p]
        /\ idle' \in Seq(S) /\ active' \in Int /\ active' <= MaxActive
        /\ active' = Len(idle') + OthersOf(places, g) + Share(p)
  <2>0. OthersOf(places, g) \in Nat /\ Len(list) \in Nat
    <3>1. OthersOf(places, g) \in Nat
      BY HoldersFinite
    <3> QED
      BY <3>1
  <2>1. CASE n > 0 /\ list # <<>>
    <3>1. at' = [places EXCEPT ![g] = "test"] /\ idle' = Tail(list) /\ active' = act
      BY <2>1 DEF Look
    <3>2. Tail(list) \in Seq(S) /\ Len(Tail(list)) = Len(list) - 1 /\ Len(list) \in Nat
      BY <2>1
    <3> QED
      BY <2>0, <3>1, <3>2 DEF Places, Holding, Share
  <2>2. CASE ~(n > 0 /\ list # <<>>) /\ (closed \/ act >= MaxActive)
    <3>1. idle' = list /\ active' = act
          /\ at' = [places EXCEPT ![g] = IF ~closed /\ Wait THEN "wait" ELSE "out"]
      BY <2>2 DEF Look
    <3> DEFINE p == IF ~closed /\ Wait THEN "wait" ELSE "out"
    <3>2. p \in Places /\ p \notin Holding
      BY DEF Places, Holding, Share
    <3>3. act = Len(list) + OthersOf(places, g) + Share(p)
      BY <2>0, <3>2 DEF Share
    <3> QED
      BY <3>1, <3>2, <3>3
  <2>3. CASE ~(n > 0 /\ list # <<>>) /\ ~(closed \/ act >= MaxActive)
    <3>1. idle' = list /\ active' = act + 1 /\ at' = [places EXCEPT ![g] = "dial"]
      BY <2>3 DEF Look
    <3> QED
      BY <1>1, <2>0, <2>3, <3>1 DEF Places, Holding, Share
  <2> QED
    BY <2>1, <2>2, <2>3
<1>3. at' \in [Users -> Places]
      /\ Cardinality(HoldersOf(at')) = OthersOf(places, g) + Share(p)
  <2>1. at' \in [Users -> Places] /\ at'[g] = p /\ \A h \in Users : h # g => at'[h] = places[h]
    BY <1>2
  <2>2. Cardinality(HoldersOf(at')) = OthersOf(places, g) + Share(at'[g])
    BY <2>1, HoldersMove
  <2> QED
    BY <2>1, <2>2
<1>4. OthersOf(places, g) \in Nat /\ Len(idle') \in Nat
  <2>1. OthersOf(places, g) \in Nat
    BY HoldersFinite
  <2>2. Len(idle') \in Nat
    BY <1>2
  <2> QED
    BY <2>1, <2>2
<1>5. active' = Len(idle') + Cardinality(HoldersOf(at')) /\ active' <= MaxActive
  <2>1. Share(p) \in Int
    BY DEF Share
  <2> QED
    BY <1>2, <1>3, <1>4, <2>1
<1>6. ActiveExact'
  BY <1>5 DEF ActiveExact, HoldersOf, Holding
<1> QED
  BY <1>1, <1>2, <1>3, <1>6 DEF PoolInv, PoolTypeOK

\* g moves to p, cond.Signal may follow, and active is changed to match.
LEMMA MoveStep ==
    ASSUME PoolInv, NEW g \in Users, NEW p \in Places, closed' = closed,
           NEW moved, moved = [at EXCEPT ![g] = p], at' \in Signalled(moved) \cup {moved},
           \E S : idle' \in Seq(S),
           active' = active + (Len(idle') - Len(idle))
                            + Share(p) - Share(at[g]),
           active' <= MaxActive
    PROVE  PoolInv'
<1>0. active = Len(idle) + Cardinality(HoldersOf(at)) /\ active \in Int /\ at \in [Users -> Places]
  <2>1. active \in Int /\ at \in [Users -> Places]
    BY DEF PoolInv, PoolTypeOK
  <2>2. active = Len(idle) + Cardinality(HoldersOf(at))
    BY ExactHolders DEF PoolInv
  <2> QED
    BY <2>1, <2>2
<1>1. moved \in [Users -> Places]
      /\ Cardinality(HoldersOf(moved)) = OthersOf(at, g) + Share(p)
  <2>1. moved \in [Users -> Places] /\ moved[g] = p /\ \A h \in Users : h # g => moved[h] = at[h]
    BY <1>0
  <2>2. Cardinality(HoldersOf(moved)) = OthersOf(at, g) + Share(moved[g])
    BY <2>1, HoldersMove
  <2> QED
    BY <2>1, <2>2
<1>2. at' \in [Users -> Places] /\ HoldersOf(at') = HoldersOf(moved)
  BY <1>1, SignalledSame
<1>3. Cardinality(HoldersOf(at)) = OthersOf(at, g) + Share(at[g])
  BY HoldersSplit
<1>4. OthersOf(at, g) \in Nat /\ Len(idle) \in Nat /\ Len(idle') \in Nat
  <2>1. OthersOf(at, g) \in Nat
    BY HoldersFinite
  <2>2. Len(idle) \in Nat
    BY DEF PoolInv, PoolTypeOK
  <2>3. Len(idle') \in Nat
    OBVIOUS
  <2> QED
    BY <2>1, <2>2, <2>3
<1>5. active' \in Int /\ active' = Len(idle') + Cardinality(HoldersOf(at'))
  <2>1. Share(at[g]) \in Int /\ Share(p) \in Int
    BY DEF Share
  <2>2. active = Len(idle) + OthersOf(at, g) + Share(at[g])
    BY <1>0, <1>3, <1>4, <2>1
  <2>3. Cardinality(HoldersOf(at')) = OthersOf(at, g) + Share(p)
    BY <1>1, <1>2
  <2>4. active' = Len(idle') + (OthersOf(at, g) + Share(p))
    BY <1>4, <2>1, <2>2
  <2> QED
    BY <1>4, <2>1, <2>3, <2>4
<1>6. ActiveExact'
  BY <1>5 DEF ActiveExact, HoldersOf, Holding
<1> QED
  BY <1>2, <1>5, <1>6 DEF PoolInv, PoolTypeOK

LEMMA PoolInit_Inv == PoolInit => PoolInv
<1> SUFFICES ASSUME PoolInit PROVE PoolInv
  OBVIOUS
<1>1. PoolTypeOK
  <2>1. idle \in Seq({})
    BY DEF PoolInit
  <2>2. at \in [Users -> Places]
    BY DEF PoolInit, Places
  <2>3. active \in Int /\ closed \in BOOLEAN
    <3>1. active = 0
      BY DEF PoolInit
    <3>2. closed \in BOOLEAN
      BY Zenon DEF PoolInit
    <3> QED
      BY <3>1, <3>2
  <2>4. \E S : idle \in Seq(S)
    BY <2>1
  <2> QED
    BY <2>2, <2>3, <2>4 DEF PoolTypeOK
<1>2. HoldersOf(at) = {}
  BY DEF PoolInit, HoldersOf, Holding
<1>3. Cardinality(HoldersOf(at)) = 0 /\ active = 0 /\ Len(idle) = 0 /\ MaxActive \in Nat
  BY <1>2, FS_EmptySet, PoolAssumption DEF PoolInit
<1> QED
  BY <1>1, <1>3, ExactHolders DEF PoolInv

\* get and put of one goroutine, on the places and the counters.
LEMMA UserStep ==
    ASSUME PoolInv, NEW g \in Users,
           \/ Get(g) \/ Prune(g) \/ LookFirst(g) \/ LookAgain(g)
           \/ TestPasses(g) \/ TestFails(g) \/ DialSucceeds(g) \/ DialFails(g)
           \/ Uses(g) \/ CleanUp(g) \/ Keep(g) \/ Drop(g)
    PROVE  PoolInv'
<1> USE DEF PoolInv
<1>0. /\ active \in Int /\ closed \in BOOLEAN /\ at \in [Users -> Places]
      /\ active = Len(idle) + Cardinality(HoldersOf(at)) /\ active <= MaxActive /\ MaxActive \in Nat
  BY ExactHolders, PoolAssumption DEF PoolTypeOK
<1>1. PICK S : idle \in Seq(S)
  BY DEF PoolTypeOK
<1>2. Len(idle) \in Nat
  BY <1>1
<1>3. \A p \in {"use", "put", "dial", "test"} : p \in Places /\ Share(p) = 1
  BY DEF Places, Holding, Share
<1>4. \A p \in {"out", "want", "wait", "woken"} : p \in Places /\ Share(p) = 0
  BY DEF Places, Holding, Share
\* What Look is told when g accounts for no connection, or gives up its own.
<1>5. OthersOf(at, g) \in Nat
      /\ Cardinality(HoldersOf(at)) = OthersOf(at, g) + Share(at[g])
  <2>1. OthersOf(at, g) \in Nat
    BY HoldersFinite
  <2> QED
    BY <2>1, HoldersSplit
<1>6. CASE Get(g)
  <2>1. at[g] = "out" /\ at' = [at EXCEPT ![g] = "want"] /\ UNCHANGED pool
    BY <1>6 DEF Get
  <2>2. idle' = idle /\ active' = active /\ closed' = closed
    BY <2>1 DEF pool
  <2> QED
    BY <1>0, <1>1, <1>2, <1>4, <2>1, <2>2, MoveStep
<1>7. CASE Prune(g)
  <2>1. /\ at[g] = "want" /\ idle # <<>> /\ idle' = SubSeq(idle, 1, Len(idle) - 1)
        /\ active' = active - 1 /\ at' \in Signalled(at) /\ closed' = closed
    BY <1>7 DEF Prune
  <2>2. idle' \in Seq(S) /\ Len(idle') = Len(idle) - 1
    <3> DEFINE n == Len(idle) - 1
    <3>1. n \in Nat /\ Len(idle) = n + 1 /\ idle' = SubSeq(idle, 1, n)
      BY <1>1, <1>2, <2>1
    <3> HIDE DEF n
    <3>2. SubSeq(idle, 1, n) \in Seq(S) /\ Len(SubSeq(idle, 1, n)) = n
      BY <1>1, <3>1
    <3> QED
      BY <3>1, <3>2 DEF n
  <2>3. at = [at EXCEPT ![g] = "want"]
    BY <1>0, <2>1
  <2>4. active' = active + (Len(idle') - Len(idle)) + Share("want") - Share(at[g])
        /\ active' <= MaxActive
    BY <1>0, <1>2, <1>4, <2>1, <2>2
  <2> QED
    BY <1>4, <2>1, <2>2, <2>3, <2>4, MoveStep
<1>8. CASE LookFirst(g) \/ LookAgain(g)
  <2>1. Look(g, active, idle, Len(idle), at) /\ at[g] \in {"want", "woken"}
    BY <1>8 DEF LookFirst, LookAgain
  <2>2. active = Len(idle) + OthersOf(at, g)
    BY <1>0, <1>2, <1>4, <1>5, <2>1
  <2> QED
    BY <1>0, <1>1, <2>1, <2>2, LookStep
<1>9. CASE TestFails(g)
  <2>1. at[g] = "test"
    BY <1>9 DEF TestFails
  <2>2. PICK places \in Signalled(at) : Look(g, active - 1, idle, left[g], places)
    BY <1>9 DEF TestFails
  <2>3. places \in [Users -> Places] /\ HoldersOf(places) = HoldersOf(at)
    BY <1>0, <2>2, SignalledSame
  <2>4. active - 1 = Len(idle) + OthersOf(places, g) /\ active - 1 \in Int /\ active - 1 <= MaxActive
    <3>1. OthersOf(places, g) = OthersOf(at, g)
      BY <2>3 DEF OthersOf
    <3> QED
      BY <1>0, <1>2, <1>3, <1>5, <2>1, <3>1
  <2> QED
    BY <1>0, <1>1, <2>2, <2>3, <2>4, LookStep
<1>10. CASE TestPasses(g) \/ DialSucceeds(g)
  <2>1. at[g] \in {"test", "dial"} /\ at' = [at EXCEPT ![g] = "use"] /\ UNCHANGED pool
    BY <1>10 DEF TestPasses, DialSucceeds, Borrow
  <2>2. idle' = idle /\ active' = active /\ closed' = closed
    BY <2>1 DEF pool
  <2> QED
    BY <1>0, <1>1, <1>2, <1>3, <2>1, <2>2, MoveStep
<1>11. CASE DialFails(g)
  <2>1. /\ at[g] = "dial" /\ idle' = idle /\ active' = active - 1 /\ closed' = closed
        /\ at' \in Signalled([at EXCEPT ![g] = "out"])
    BY <1>11 DEF DialFails
  <2>2. active' = active + (Len(idle') - Len(idle)) + Share("out") - Share(at[g])
        /\ active' <= MaxActive
    BY <1>0, <1>2, <1>3, <1>4, <2>1
  <2> QED
    BY <1>1, <1>4, <2>1, <2>2, MoveStep
<1>12. CASE Uses(g)
  <2>1. at' = at /\ UNCHANGED pool
    BY <1>12 DEF Uses, UseDo, UseSend, UseFlush, UseReceive, Published, Breaks
  <2> QED
    BY <2>1 DEF pool, PoolTypeOK, ActiveExact
<1>13. CASE CleanUp(g)
  <2>1. at[g] = "use" /\ at' = [at EXCEPT ![g] = "put"] /\ UNCHANGED pool
    BY <1>13 DEF CleanUp, Close
  <2>2. idle' = idle /\ active' = active /\ closed' = closed
    BY <2>1 DEF pool
  <2> QED
    BY <1>0, <1>1, <1>2, <1>3, <2>1, <2>2, MoveStep
<1>14. CASE Keep(g)
  <2> DEFINE e == [c |-> has[g], stale |-> FALSE]
             list == <<e>> \o idle
  <2>1. /\ at[g] = "put" /\ closed' = closed /\ at' \in Signalled([at EXCEPT ![g] = "out"])
        /\ \/ idle' = SubSeq(list, 1, Len(list) - 1) /\ active' = active - 1
           \/ idle' = list /\ active' = active
    BY <1>14 DEF Keep
  <2>2. list \in Seq(S \cup {e}) /\ Len(list) = Len(idle) + 1
    <3>1. <<e>> \in Seq(S \cup {e}) /\ idle \in Seq(S \cup {e}) /\ Len(<<e>>) = 1
      BY <1>1
    <3> HIDE DEF e
    <3> QED
      BY <1>2, <3>1
  <2>3. SubSeq(list, 1, Len(list) - 1) \in Seq(S \cup {e})
        /\ Len(SubSeq(list, 1, Len(list) - 1)) = Len(idle)
    <3> HIDE DEF list
    <3> QED
      BY <1>2, <2>2
  <2> HIDE DEF list, e
  <2>4. (\E T : idle' \in Seq(T)) /\ active' = active + (Len(idle') - Len(idle)) - 1
    BY <1>0, <1>2, <2>1, <2>2, <2>3
  <2>5. active' <= MaxActive /\ active' = active + (Len(idle') - Len(idle)) + 0 - 1
    BY <1>0, <1>2, <2>1, <2>4
  <2> QED
    BY <1>3, <1>4, <2>1, <2>4, <2>5, MoveStep
<1>15. CASE Drop(g)
  <2>1. /\ at[g] = "put" /\ idle' = idle /\ active' = active - 1 /\ closed' = closed
        /\ at' \in Signalled([at EXCEPT ![g] = "out"])
    BY <1>15 DEF Drop
  <2>2. active' = active + (Len(idle') - Len(idle)) + Share("out") - Share(at[g])
        /\ active' <= MaxActive
    BY <1>0, <1>2, <1>3, <1>4, <2>1
  <2> QED
    BY <1>1, <1>4, <2>1, <2>2, MoveStep
<1> QED
  BY <1>6, <1>7, <1>8, <1>9, <1>10, <1>11, <1>12, <1>13, <1>14, <1>15

LEMMA PoolStep == PoolInv /\ [PoolNext]_poolVars => PoolInv'
<1> SUFFICES ASSUME PoolInv, [PoolNext]_poolVars PROVE PoolInv'
  OBVIOUS
<1>1. CASE \E g \in Users :
             \/ Get(g) \/ Prune(g) \/ LookFirst(g) \/ LookAgain(g)
             \/ TestPasses(g) \/ TestFails(g) \/ DialSucceeds(g) \/ DialFails(g)
             \/ Uses(g) \/ CleanUp(g) \/ Keep(g) \/ Drop(g)
  BY <1>1, UserStep
<1>2. CASE GrowStale
  <2>1. PICK i \in DOMAIN idle :
          idle' = [j \in DOMAIN idle |-> IF j >= i THEN [idle[j] EXCEPT !.stale = TRUE] ELSE idle[j]]
    BY <1>2 DEF GrowStale
  <2>2. PICK S : idle \in Seq(S)
    BY DEF PoolInv, PoolTypeOK
  <2> DEFINE T == S \cup {[idle[j] EXCEPT !.stale = TRUE] : j \in DOMAIN idle}
  <2>3. idle' \in [1..Len(idle) -> T] /\ Len(idle) \in Nat
    <3>1. DOMAIN idle = 1..Len(idle) /\ Len(idle) \in Nat /\ \A j \in DOMAIN idle : idle[j] \in S
      BY <2>2
    <3>2. \A j \in DOMAIN idle : (IF j >= i THEN [idle[j] EXCEPT !.stale = TRUE] ELSE idle[j]) \in T
      BY <3>1
    <3> HIDE DEF T
    <3> QED
      BY <2>1, <3>1, <3>2
  <2>4. idle' \in Seq(T) /\ Len(idle') = Len(idle)
    <3> HIDE DEF T
    <3> QED
      BY <2>3
  <2>5. at' = at /\ active' = active /\ closed' = closed
    BY <1>2 DEF GrowStale
  <2> QED
    BY <2>4, <2>5 DEF PoolInv, PoolTypeOK, ActiveExact
<1>3. CASE ClosePool
  <2>1. /\ closed' = TRUE /\ idle' = <<>> /\ active' = active - Len(idle)
        /\ at' = [g \in Users |-> IF at[g] = "wait" THEN "woken" ELSE at[g]]
    BY <1>3 DEF ClosePool
  <2>2. at' \in [Users -> Places] /\ HoldersOf(at') = HoldersOf(at)
    BY <2>1 DEF PoolInv, PoolTypeOK, HoldersOf, Places, Holding
  <2>3. Len(idle) \in Nat /\ active \in Int /\ idle' \in Seq({}) /\ Len(idle') = 0
    BY <2>1 DEF PoolInv, PoolTypeOK
  <2>4. active = Len(idle) + Cardinality(HoldersOf(at)) /\ active <= MaxActive /\ MaxActive \in Nat
    BY ExactHolders, PoolAssumption DEF PoolInv
  <2>5. Cardinality(HoldersOf(at)) \in Nat
    BY HoldersFinite
  <2>6. active' = Len(idle') + Cardinality(HoldersOf(at')) /\ active' <= MaxActive /\ active' \in Int
    BY <2>1, <2>2, <2>3, <2>4, <2>5
  <2>7. ActiveExact'
    BY <2>6 DEF ActiveExact, HoldersOf, Holding
  <2> QED
    BY <2>1, <2>2, <2>3, <2>6, <2>7 DEF PoolInv, PoolTypeOK
<1>4. CASE PoolRest \/ UNCHANGED poolVars
  BY <1>4 DEF PoolRest, poolVars, PoolInv, PoolTypeOK, ActiveExact
<1> QED
  BY <1>1, <1>2, <1>3, <1>4 DEF PoolNext

\* Pool.active never drifts: over every interleaving of get, put, release, the
\* failing dials and tests, the pruning of stale connections and Close, it counts
\* the idle connections and those in use, and stays within MaxActive.
THEOREM ActiveExactCorrect == PoolSpec => []ActiveExact
<1>1. PoolSpec => []PoolInv
  BY PoolInit_Inv, PoolStep, PTL DEF PoolSpec
<1>2. PoolInv => ActiveExact
  BY DEF PoolInv
<1> QED
  BY <1>1, <1>2, PTL

(***************************************************************************)
(* The connection.                                                         *)
(***************************************************************************)
AllCommands == Commands \cup {"UNSUBSCRIBE", "PUNSUBSCRIBE", "ECHO", "DISCARD", "UNWATCH"}

ConnRecord ==
    [pending : Nat, err : BOOLEAN, bw : Seq(AllCommands), unread : Nat,
     multi : BOOLEAN, watch : BOOLEAN, subs : Nat, monitor : BOOLEAN]

\* What the server knows, and what it has sent, is the same.
KeepsServer(c, d) ==
    /\ c.multi = d.multi /\ c.watch = d.watch /\ c.subs = d.subs /\ c.monitor = d.monitor
    /\ c.unread = d.unread

\* f tells what becomes of c with each of the first n commands of q.
Serves(f, c, q, n) == f = [i \in 0..n |-> IF i = 0 THEN c ELSE Serve(f[i-1], q[i])]

LEMMA BwType ==
    ASSUME NEW c \in ConnRecord, NEW q \in Seq(AllCommands)
    PROVE  LET b == [c EXCEPT !.bw = q] IN
           /\ b \in ConnRecord /\ b.bw = q /\ KeepsServer(b, c)
           /\ b.pending = c.pending /\ b.err = c.err
BY DEF ConnRecord, KeepsServer

LEMMA EmptyType == ASSUME NEW S PROVE <<>> \in Seq(S)
OBVIOUS

LEMMA AppendType ==
    ASSUME NEW S, NEW q \in Seq(S), NEW x \in S
    PROVE  Append(q, x) \in Seq(S) /\ Len(Append(q, x)) = Len(q) + 1 /\ Len(q) \in Nat
OBVIOUS

LEMMA ServesExists ==
    ASSUME NEW c, NEW q, NEW n \in Nat
    PROVE  \E f : Serves(f, c, q, n)
<1> DEFINE T == {k \in Nat : \E f : Serves(f, c, q, k)}
<1>1. 0 \in T
  <2> DEFINE f == [i \in 0..0 |-> c]
  <2>1. f = [i \in 0..0 |-> IF i = 0 THEN c ELSE Serve(f[i-1], q[i])]
    OBVIOUS
  <2> QED
    BY <2>1 DEF Serves
<1>2. ASSUME NEW k \in Nat, k \in T PROVE k + 1 \in T
  <2>1. PICK f : Serves(f, c, q, k)
    BY <1>2
  <2> DEFINE g == [i \in 0..k+1 |-> IF i = k + 1 THEN Serve(f[k], q[k+1]) ELSE f[i]]
  <2>2. \A i \in 0..k : g[i] = f[i]
    OBVIOUS
  <2>3. \A i \in 0..k : f[i] = IF i = 0 THEN c ELSE Serve(f[i-1], q[i])
    BY <2>1 DEF Serves
  <2>4. \A i \in 0..k+1 : g[i] = IF i = 0 THEN c ELSE Serve(g[i-1], q[i])
    <3> SUFFICES ASSUME NEW i \in 0..k+1
                 PROVE  g[i] = IF i = 0 THEN c ELSE Serve(g[i-1], q[i])
      OBVIOUS
    <3>1. CASE i = k + 1
      BY <3>1, <2>2
    <3>2. CASE i \in 0..k
      <4>1. g[i] = f[i] /\ (i # 0 => i - 1 \in 0..k /\ g[i-1] = f[i-1])
        BY <3>2, <2>2
      <4> QED
        BY <4>1, <3>2, <2>3
    <3> QED
      BY <3>1, <3>2
  <2>5. Serves(g, c, q, k + 1)
    <3> DEFINE h == [i \in 0..k+1 |-> IF i = 0 THEN c ELSE Serve(g[i-1], q[i])]
    <3>1. g = h
      <4>1. \A i \in 0..k+1 : g[i] = h[i]
        BY <2>4
      <4>2. DOMAIN g = 0..k+1 /\ g = [i \in 0..k+1 |-> g[i]] /\ h = [i \in 0..k+1 |-> h[i]]
        OBVIOUS
      <4> HIDE DEF g, h
      <4> QED
        BY <4>1, <4>2
    <3> QED
      BY <3>1 DEF Serves
  <2> QED
    BY <2>5
<1> HIDE DEF T
<1>3. Nat \subseteq T
  BY <1>1, <1>2, SetInduction
<1> QED
  BY <1>3 DEF T

LEMMA ServesUnique ==
    ASSUME NEW c, NEW q, NEW n \in Nat, NEW f, NEW g, NEW m \in Nat, n <= m,
           Serves(f, c, q, n), Serves(g, c, q, m)
    PROVE  f[n] = g[n]
<1> DEFINE T == {k \in Nat : k <= n => f[k] = g[k]}
<1>1. /\ \A i \in 0..n : f[i] = IF i = 0 THEN c ELSE Serve(f[i-1], q[i])
      /\ \A i \in 0..m : g[i] = IF i = 0 THEN c ELSE Serve(g[i-1], q[i])
  BY DEF Serves
<1>2. 0 \in T
  BY <1>1
<1>3. ASSUME NEW k \in Nat, k \in T PROVE k + 1 \in T
  <2> SUFFICES ASSUME k + 1 <= n PROVE f[k+1] = g[k+1]
    OBVIOUS
  <2>1. f[k] = g[k] /\ k + 1 \in 0..n /\ k + 1 \in 0..m /\ k + 1 # 0 /\ (k + 1) - 1 = k
    BY <1>3
  <2> QED
    BY <2>1, <1>1
<1> HIDE DEF T
<1>4. Nat \subseteq T
  BY <1>2, <1>3, SetInduction
<1> QED
  BY <1>4 DEF T

LEMMA ServedIs ==
    ASSUME NEW c, NEW q, NEW n \in Nat, Len(q) = n, NEW m \in Nat, n <= m, NEW f, Serves(f, c, q, m)
    PROVE  Served(c, q) = f[n]
<1> DEFINE g == CHOOSE g : g = [i \in 0..Len(q) |-> IF i = 0 THEN c ELSE Serve(g[i-1], q[i])]
<1>1. Served(c, q) = g[Len(q)]
  BY DEF Served
<1>2. Serves(g, c, q, n)
  <2>1. \E h : h = [i \in 0..Len(q) |-> IF i = 0 THEN c ELSE Serve(h[i-1], q[i])]
    <3>1. PICK h : Serves(h, c, q, Len(q))
      BY ServesExists
    <3>2. h = [i \in 0..Len(q) |-> IF i = 0 THEN c ELSE Serve(h[i-1], q[i])]
      BY <3>1 DEF Serves
    <3> QED
      BY <3>2, Zenon
  <2>2. g = [i \in 0..Len(q) |-> IF i = 0 THEN c ELSE Serve(g[i-1], q[i])]
    BY <2>1, Zenon
  <2> QED
    BY <2>2 DEF Serves
<1> HIDE DEF g
<1> QED
  BY <1>1, <1>2, ServesUnique

LEMMA ServedEmpty == ASSUME NEW c PROVE Served(c, <<>>) = c
<1>1. PICK f : Serves(f, c, <<>>, 0)
  BY ServesExists
<1>2. f[0] = c
  BY <1>1 DEF Serves
<1>3. Len(<<>>) = 0
  OBVIOUS
<1> QED
  BY <1>1, <1>2, <1>3, ServedIs

\* One more command in the buffer is one more that is executed.
LEMMA ServedAppend ==
    ASSUME NEW c, NEW q \in Seq(AllCommands), NEW x \in AllCommands
    PROVE  Served(c, Append(q, x)) = Serve(Served(c, q), x)
<1> DEFINE n == Len(q)
           r == Append(q, x)
<1>1. n \in Nat /\ Len(r) = n + 1 /\ r[n+1] = x /\ \A i \in 1..n : r[i] = q[i]
  OBVIOUS
<1> HIDE DEF n, r
<1>2. PICK f : Serves(f, c, r, n + 1)
  <2>1. n + 1 \in Nat
    BY <1>1
  <2> QED
    BY <2>1, ServesExists
<1>3. \A i \in 0..n+1 : f[i] = IF i = 0 THEN c ELSE Serve(f[i-1], r[i])
  BY <1>2 DEF Serves
<1> DEFINE g == [i \in 0..n |-> f[i]]
           h == [i \in 0..n |-> IF i = 0 THEN c ELSE Serve(g[i-1], q[i])]
<1>4. Serves(g, c, q, n)
  <2>1. \A i \in 0..n : g[i] = h[i]
    <3> SUFFICES ASSUME NEW i \in 0..n PROVE f[i] = h[i]
      OBVIOUS
    <3>1. i \in 0..n+1 /\ (i # 0 => i - 1 \in 0..n /\ g[i-1] = f[i-1] /\ r[i] = q[i])
      BY <1>1
    <3> QED
      BY <3>1, <1>3
  <2>2. g = [i \in 0..n |-> g[i]]
    OBVIOUS
  <2>4. h = [i \in 0..n |-> h[i]]
    <3> HIDE DEF g
    <3> QED
      OBVIOUS
  <2>3. g = h
    <3> HIDE DEF g, h
    <3> QED
      BY <2>1, <2>2, <2>4
  <2> QED
    BY <2>3 DEF Serves
<1>5. g[n] = f[n] /\ f[n+1] = Serve(f[n], x)
  <2>1. n \in 0..n /\ n + 1 \in 0..n+1 /\ n + 1 # 0 /\ (n + 1) - 1 = n
    BY <1>1
  <2> QED
    BY <2>1, <1>1, <1>3
<1> HIDE DEF g, h
<1>6. Served(c, q) = g[n]
  <2>1. Len(q) = n /\ Serves(g, c, q, Len(q))
    BY <1>4 DEF n
  <2>2. Served(c, q) = g[Len(q)]
    BY <2>1, ServedIs
  <2> QED
    BY <2>1, <2>2
<1>7. Served(c, r) = f[n+1]
  BY <1>1, <1>2, ServedIs
<1> QED
  BY <1>5, <1>6, <1>7 DEF r

\* What the server knows of the client is the same.
Alike(c, d) == c.multi = d.multi /\ c.watch = d.watch /\ c.subs = d.subs /\ c.monitor = d.monitor

\* What the client knows is the same.
KeepsClient(c, d) == c.pending = d.pending /\ c.err = d.err /\ c.bw = d.bw

Known(c, u, m, w, s, o) ==
    [c EXCEPT !.unread = u, !.multi = m, !.watch = w, !.subs = s, !.monitor = o]

LEMMA KnownType ==
    ASSUME NEW c \in ConnRecord, NEW u \in Nat, NEW m \in BOOLEAN, NEW w \in BOOLEAN,
           NEW s \in Nat, NEW o \in BOOLEAN
    PROVE  Known(c, u, m, w, s, o) \in ConnRecord
BY DEF ConnRecord, Known

LEMMA KnownFields ==
    ASSUME NEW c \in ConnRecord, NEW u, NEW m, NEW w, NEW s, NEW o
    PROVE  LET d == Known(c, u, m, w, s, o) IN
           /\ d.unread = u /\ d.multi = m /\ d.watch = w /\ d.subs = s /\ d.monitor = o
           /\ KeepsClient(d, c)
BY DEF ConnRecord, Known, KeepsClient

\* What a command changes, field by field.
Answers(c, x) == IF x = "UNSUBSCRIBE" /\ ~c.multi THEN AtLeast(c.subs, 1) ELSE 1
MultiAfter(c, x) == IF c.subs # 0 THEN c.multi
                    ELSE (c.multi /\ x \notin {"EXEC", "DISCARD"}) \/ x = "MULTI"
WatchAfter(c, x) ==
    IF c.subs # 0 THEN c.watch
    ELSE IF c.multi THEN c.watch /\ x \notin {"EXEC", "DISCARD"}
    ELSE (c.watch /\ x # "UNWATCH") \/ x = "WATCH"
SubsAfter(c, x) == IF c.multi THEN c.subs
                   ELSE IF x = "UNSUBSCRIBE" THEN 0
                   ELSE IF x = "SUBSCRIBE" THEN c.subs + 1 ELSE c.subs
MonitorAfter(c, x) == c.monitor \/ (x = "MONITOR" /\ ~c.multi /\ c.subs = 0)

LEMMA ServeKnown ==
    ASSUME NEW c \in ConnRecord, NEW x \in AllCommands
    PROVE  Serve(c, x) = Known(c, c.unread + Answers(c, x), MultiAfter(c, x),
                               WatchAfter(c, x), SubsAfter(c, x), MonitorAfter(c, x))
<1> USE DEF ConnRecord, Known, Answers, MultiAfter, WatchAfter, SubsAfter, MonitorAfter
<1>1. CASE x = "UNSUBSCRIBE"
  BY <1>1 DEF Serve
<1>2. CASE x = "SUBSCRIBE"
  BY <1>2 DEF Serve
<1>3. CASE x = "EXEC"
  BY <1>3 DEF Serve
<1>4. CASE x = "DISCARD"
  BY <1>4 DEF Serve
<1>5. CASE x = "MULTI"
  BY <1>5 DEF Serve
<1>6. CASE x = "WATCH"
  BY <1>6 DEF Serve
<1>7. CASE x = "UNWATCH"
  BY <1>7 DEF Serve
<1>8. CASE x = "MONITOR"
  BY <1>8 DEF Serve
<1>9. CASE x \notin {"UNSUBSCRIBE", "SUBSCRIBE", "EXEC", "DISCARD", "MULTI", "WATCH",
                     "UNWATCH", "MONITOR"}
  BY <1>9 DEF Serve
<1> QED
  BY <1>1, <1>2, <1>3, <1>4, <1>5, <1>6, <1>7, <1>8, <1>9

LEMMA ServeFields ==
    ASSUME NEW c \in ConnRecord, NEW x \in AllCommands
    PROVE  LET d == Serve(c, x) IN
           /\ d \in ConnRecord /\ KeepsClient(d, c)
           /\ d.unread = c.unread + Answers(c, x) /\ Answers(c, x) \in Nat /\ Answers(c, x) >= 1
           /\ d.multi = MultiAfter(c, x) /\ d.watch = WatchAfter(c, x)
           /\ d.subs = SubsAfter(c, x) /\ d.monitor = MonitorAfter(c, x)
<1>0. c.unread \in Nat /\ c.subs \in Nat /\ c.multi \in BOOLEAN /\ c.watch \in BOOLEAN /\ c.monitor \in BOOLEAN
  BY DEF ConnRecord
<1>1. Answers(c, x) \in Nat /\ Answers(c, x) >= 1
  <2>1. AtLeast(c.subs, 1) \in Nat /\ AtLeast(c.subs, 1) >= 1
    BY <1>0 DEF AtLeast
  <2> QED
    BY <2>1 DEF Answers
<1>2. /\ c.unread + Answers(c, x) \in Nat
      /\ MultiAfter(c, x) \in BOOLEAN /\ WatchAfter(c, x) \in BOOLEAN
      /\ SubsAfter(c, x) \in Nat /\ MonitorAfter(c, x) \in BOOLEAN
  <2>1. c.unread + Answers(c, x) \in Nat
    BY <1>0, <1>1
  <2>2. SubsAfter(c, x) \in Nat
    BY <1>0 DEF SubsAfter
  <2>3. MultiAfter(c, x) \in BOOLEAN /\ WatchAfter(c, x) \in BOOLEAN
        /\ MonitorAfter(c, x) \in BOOLEAN
    <3> HIDE <1>0
    <3>1. c.multi \in BOOLEAN /\ c.watch \in BOOLEAN /\ c.monitor \in BOOLEAN
      BY <1>0
    <3> QED
      BY <3>1, Zenon DEF MultiAfter, WatchAfter, MonitorAfter
  <2> QED
    BY <2>1, <2>2, <2>3
<1> DEFINE d == Known(c, c.unread + Answers(c, x), MultiAfter(c, x), WatchAfter(c, x),
                       SubsAfter(c, x), MonitorAfter(c, x))
<1>3. Serve(c, x) = d
  BY ServeKnown
<1>4. d \in ConnRecord
  BY <1>2, KnownType
<1>5. /\ d.unread = c.unread + Answers(c, x)
      /\ d.multi = MultiAfter(c, x) /\ d.watch = WatchAfter(c, x)
      /\ d.subs = SubsAfter(c, x) /\ d.monitor = MonitorAfter(c, x)
      /\ KeepsClient(d, c)
  BY KnownFields
<1> HIDE DEF d
<1> QED
  BY <1>1, <1>3, <1>4, <1>5

LEMMA ServeAlike ==
    ASSUME NEW c \in ConnRecord, NEW d \in ConnRecord, Alike(c, d), NEW x \in AllCommands
    PROVE  Alike(Serve(c, x), Serve(d, x)) /\ Answers(c, x) = Answers(d, x)
<1>1. /\ Answers(c, x) = Answers(d, x) /\ MultiAfter(c, x) = MultiAfter(d, x)
      /\ WatchAfter(c, x) = WatchAfter(d, x) /\ SubsAfter(c, x) = SubsAfter(d, x)
      /\ MonitorAfter(c, x) = MonitorAfter(d, x)
  BY DEF Alike, Answers, MultiAfter, WatchAfter, SubsAfter, MonitorAfter
<1> QED
  BY <1>1, ServeFields DEF Alike

\* A buffer of commands has at least as many replies, and the client's side is
\* not touched.
LEMMA ServedFields ==
    ASSUME NEW c \in ConnRecord, NEW q \in Seq(AllCommands)
    PROVE  LET d == Served(c, q) IN
           d \in ConnRecord /\ KeepsClient(d, c) /\ d.unread >= c.unread + Len(q)
<1> DEFINE Good(r) == /\ Served(c, r) \in ConnRecord /\ KeepsClient(Served(c, r), c)
                      /\ Served(c, r).unread >= c.unread + Len(r)
           T == {r \in Seq(AllCommands) : Good(r)}
<1>1. <<>> \in T
  <2>1. Len(<<>>) = 0 /\ c.unread \in Nat /\ <<>> \in Seq(AllCommands)
    BY DEF ConnRecord
  <2>2. KeepsClient(c, c)
    BY DEF KeepsClient
  <2> QED
    BY <2>1, <2>2, ServedEmpty
<1>2. ASSUME NEW r \in Seq(AllCommands), NEW x \in AllCommands, r \in T PROVE Append(r, x) \in T
  <2> DEFINE d == Served(c, r)
             e == Serve(d, x)
  <2>1. d \in ConnRecord /\ KeepsClient(d, c) /\ d.unread >= c.unread + Len(r)
    BY <1>2
  <2>2. Served(c, Append(r, x)) = e
    BY ServedAppend
  <2>3. e \in ConnRecord /\ KeepsClient(e, d) /\ e.unread >= d.unread + 1
    <3> HIDE DEF d
    <3>1. d.unread \in Nat
      BY <2>1 DEF ConnRecord
    <3> QED
      BY <2>1, <3>1, ServeFields
  <2>4. Len(Append(r, x)) = Len(r) + 1 /\ Append(r, x) \in Seq(AllCommands) /\ Len(r) \in Nat
    BY AppendType
  <2> HIDE DEF d, e
  <2>5. d.unread \in Nat /\ e.unread \in Nat /\ c.unread \in Nat
    BY <2>1, <2>3 DEF ConnRecord
  <2> QED
    BY <2>1, <2>2, <2>3, <2>4, <2>5 DEF KeepsClient
<1> HIDE DEF T
<1>3. Seq(AllCommands) \subseteq T
  BY <1>1, <1>2, SequenceInduction
<1> QED
  BY <1>3 DEF T

\* What a buffer of commands does depends on the server's side only.
LEMMA ServedAlike ==
    ASSUME NEW c \in ConnRecord, NEW d \in ConnRecord, Alike(c, d), NEW q \in Seq(AllCommands)
    PROVE  /\ Alike(Served(c, q), Served(d, q))
           /\ \E k \in Nat : /\ Served(c, q).unread = c.unread + k
                            /\ Served(d, q).unread = d.unread + k
<1> DEFINE Same(r) == /\ Alike(Served(c, r), Served(d, r))
                      /\ \E k \in Nat : /\ Served(c, r).unread = c.unread + k
                                       /\ Served(d, r).unread = d.unread + k
           T == {r \in Seq(AllCommands) : Same(r)}
<1>0. c.unread \in Nat /\ d.unread \in Nat
  BY DEF ConnRecord
<1>1. <<>> \in T
  <2>1. c.unread = c.unread + 0 /\ d.unread = d.unread + 0 /\ <<>> \in Seq(AllCommands)
    BY <1>0
  <2>2. \E k \in Nat : c.unread = c.unread + k /\ d.unread = d.unread + k
    BY <2>1
  <2> QED
    BY <2>1, <2>2, ServedEmpty
<1>2. ASSUME NEW r \in Seq(AllCommands), NEW x \in AllCommands, r \in T PROVE Append(r, x) \in T
  <2> DEFINE c1 == Served(c, r)
             d1 == Served(d, r)
             k2 == Answers(c1, x)
  <2>1. Alike(c1, d1) /\ \E k \in Nat : c1.unread = c.unread + k /\ d1.unread = d.unread + k
    BY <1>2
  <2>2. c1 \in ConnRecord /\ d1 \in ConnRecord
    BY ServedFields
  <2>3. Served(c, Append(r, x)) = Serve(c1, x) /\ Served(d, Append(r, x)) = Serve(d1, x)
    BY ServedAppend
  <2>4. Append(r, x) \in Seq(AllCommands)
    BY AppendType
  <2> HIDE DEF c1, d1
  <2>5. /\ Alike(Serve(c1, x), Serve(d1, x)) /\ k2 \in Nat
        /\ Serve(c1, x).unread = c1.unread + k2 /\ Serve(d1, x).unread = d1.unread + k2
    BY <2>1, <2>2, ServeAlike, ServeFields
  <2> HIDE DEF k2
  <2>6. PICK k \in Nat : c1.unread = c.unread + k /\ d1.unread = d.unread + k
    BY <2>1
  <2>7. /\ k + k2 \in Nat /\ Serve(c1, x).unread = c.unread + (k + k2)
        /\ Serve(d1, x).unread = d.unread + (k + k2)
    BY <1>0, <2>5, <2>6
  <2>8. Same(Append(r, x))
    BY <2>3, <2>5, <2>7
  <2> QED
    BY <2>4, <2>8
<1> HIDE DEF T
<1>3. Seq(AllCommands) \subseteq T
  BY <1>1, <1>2, SequenceInduction
<1> QED
  BY <1>3 DEF T

LEMMA FlushFields ==
    ASSUME NEW c \in ConnRecord, ~c.err
    PROVE  LET f == Flush(c) IN
           /\ f \in ConnRecord /\ ~f.err /\ f.bw = <<>> /\ f.pending = c.pending
           /\ f.unread >= c.unread + Len(c.bw)
<1> DEFINE b == [c EXCEPT !.bw = <<>>]
<1>1. b \in ConnRecord /\ b.bw = <<>> /\ b.err = c.err /\ b.pending = c.pending
      /\ b.unread = c.unread
  BY BwType, EmptyType DEF KeepsServer
<1>2. Flush(c) = Served(b, c.bw) /\ c.bw \in Seq(AllCommands)
  BY DEF Flush, ConnRecord
<1> HIDE DEF b
<1>3. LET d == Served(b, c.bw) IN
      d \in ConnRecord /\ KeepsClient(d, b) /\ d.unread >= b.unread + Len(c.bw)
  BY <1>1, <1>2, ServedFields
<1> QED
  BY <1>1, <1>2, <1>3 DEF KeepsClient

\* Flush of two connections with the same buffer.
LEMMA FlushAlike ==
    ASSUME NEW c \in ConnRecord, ~c.err, NEW d \in ConnRecord, ~d.err, Alike(c, d), d.bw = c.bw
    PROVE  /\ Alike(Flush(c), Flush(d))
           /\ \E k \in Nat : Flush(c).unread = c.unread + k /\ Flush(d).unread = d.unread + k
<1> DEFINE b == [c EXCEPT !.bw = <<>>]
           e == [d EXCEPT !.bw = <<>>]
<1>1. /\ b \in ConnRecord /\ Alike(b, c) /\ b.unread = c.unread
      /\ e \in ConnRecord /\ Alike(e, d) /\ e.unread = d.unread
  BY BwType, EmptyType DEF KeepsServer, Alike
<1>2. Flush(c) = Served(b, c.bw) /\ Flush(d) = Served(e, c.bw) /\ c.bw \in Seq(AllCommands)
  BY DEF Flush, ConnRecord
<1> HIDE DEF b, e
<1>3. Alike(b, e)
  BY <1>1 DEF Alike
<1> QED
  BY <1>1, <1>2, <1>3, ServedAlike

\* c with one more command in its write buffer, and p replies expected.
Writes(c, p, x) == [c EXCEPT !.pending = p, !.bw = Append(@, x)]

\* One more command in the write buffer is executed behind the others.
LEMMA FlushAppend ==
    ASSUME NEW c \in ConnRecord, ~c.err, NEW x \in AllCommands, NEW p \in Nat
    PROVE  LET d == Writes(c, p, x)
               s == Serve(Flush(c), x)
               f == Flush(d)
           IN  /\ d \in ConnRecord /\ ~d.err
               /\ Alike(f, s) /\ f.unread = s.unread /\ f.pending = p
<1> DEFINE d == Writes(c, p, x)
           e == [c EXCEPT !.pending = p]
<1>1. /\ e \in ConnRecord /\ ~e.err /\ Alike(e, c) /\ e.bw = c.bw /\ e.unread = c.unread
      /\ e.pending = p
  BY DEF ConnRecord, Alike
<1>2. c.bw \in Seq(AllCommands) /\ Append(c.bw, x) \in Seq(AllCommands)
  <2>1. c.bw \in Seq(AllCommands)
    BY DEF ConnRecord
  <2> QED
    BY <2>1, AppendType
<1>3. d \in ConnRecord /\ ~d.err
  BY <1>2 DEF ConnRecord, Writes
<1>4. Flush(d) = Serve(Flush(e), x)
  <2> DEFINE b == [e EXCEPT !.bw = <<>>]
  <2>1. [d EXCEPT !.bw = <<>>] = b /\ d.bw = Append(c.bw, x)
    BY DEF ConnRecord, Writes
  <2>2. Flush(d) = Served(b, Append(c.bw, x)) /\ Flush(e) = Served(b, c.bw)
    <3> HIDE DEF b
    <3> QED
      BY <1>1, <1>3, <2>1 DEF Flush, b
  <2> HIDE DEF b
  <2> QED
    BY <1>2, <2>2, ServedAppend
<1> HIDE DEF d, e
<1>5. Alike(Flush(e), Flush(c)) /\ Flush(e).unread = Flush(c).unread
  BY <1>1, FlushAlike
<1>6. Flush(e) \in ConnRecord /\ Flush(c) \in ConnRecord /\ Flush(e).pending = p
  BY <1>1, FlushFields
<1>7. /\ Alike(Serve(Flush(e), x), Serve(Flush(c), x))
      /\ Serve(Flush(e), x).unread = Serve(Flush(c), x).unread
  BY <1>5, <1>6, ServeAlike, ServeFields
<1>8. Serve(Flush(e), x).pending = p
  BY <1>6, ServeFields DEF KeepsClient
<1> QED
  BY <1>3, <1>4, <1>7, <1>8 DEF d

(***************************************************************************)
(* Received: a goroutine that leaves a subscription reads all there is.    *)
(***************************************************************************)
ReceivesTo(f, c, n) == f = [i \in 0..n |-> IF i = 0 THEN c ELSE Receive(f[i-1])]

LEMMA ReceiveFields ==
    ASSUME NEW c \in ConnRecord, ~c.err, c.unread > 0
    PROVE  LET d == Receive(c) IN
           /\ d \in ConnRecord /\ Alike(d, c) /\ ~d.err /\ d.bw = c.bw
           /\ d.unread = c.unread - 1 /\ d.pending = AtLeast(c.pending - 1, 0)
<1> DEFINE r == [c EXCEPT !.unread = @ - 1]
           p == AtLeast(c.pending - 1, 0)
<1>1. c.unread \in Nat /\ c.pending \in Nat /\ c.unread - 1 \in Nat /\ p \in Nat
  BY DEF ConnRecord, AtLeast
<1>2. r \in ConnRecord /\ ~r.err /\ r.pending = c.pending /\ r.unread = c.unread - 1
      /\ Alike(r, c) /\ r.bw = c.bw
  BY <1>1 DEF ConnRecord, Alike
<1>3. ReadReplies(c, 1) = r
  BY <1>1 DEF ReadReplies
<1> HIDE DEF r
<1>4. Receive(c) = [r EXCEPT !.pending = p]
  BY <1>2, <1>3 DEF Receive
<1> HIDE DEF p
<1> QED
  BY <1>1, <1>2, <1>4 DEF ConnRecord, Alike, p

LEMMA ReadsExists ==
    ASSUME NEW c, NEW n \in Nat
    PROVE  \E f : ReceivesTo(f, c, n)
<1> DEFINE T == {k \in Nat : \E f : ReceivesTo(f, c, k)}
<1>1. 0 \in T
  <2> DEFINE f == [i \in 0..0 |-> c]
  <2>1. f = [i \in 0..0 |-> IF i = 0 THEN c ELSE Receive(f[i-1])]
    OBVIOUS
  <2> QED
    BY <2>1 DEF ReceivesTo
<1>2. ASSUME NEW k \in Nat, k \in T PROVE k + 1 \in T
  <2>1. PICK f : ReceivesTo(f, c, k)
    BY <1>2
  <2> DEFINE g == [i \in 0..k+1 |-> IF i = k + 1 THEN Receive(f[k]) ELSE f[i]]
             h == [i \in 0..k+1 |-> IF i = 0 THEN c ELSE Receive(g[i-1])]
  <2>2. \A i \in 0..k : g[i] = f[i] /\ f[i] = IF i = 0 THEN c ELSE Receive(f[i-1])
    BY <2>1 DEF ReceivesTo
  <2>3. \A i \in 0..k+1 : g[i] = h[i]
    <3> SUFFICES ASSUME NEW i \in 0..k+1 PROVE g[i] = IF i = 0 THEN c ELSE Receive(g[i-1])
      OBVIOUS
    <3>1. CASE i = k + 1
      BY <3>1, <2>2
    <3>2. CASE i \in 0..k
      <4>1. g[i] = f[i] /\ (i # 0 => i - 1 \in 0..k /\ g[i-1] = f[i-1])
        BY <3>2, <2>2
      <4> QED
        BY <4>1, <3>2, <2>2
    <3> QED
      BY <3>1, <3>2
  <2>4. g = [i \in 0..k+1 |-> g[i]]
    OBVIOUS
  <2>5. h = [i \in 0..k+1 |-> h[i]]
    <3> HIDE DEF g
    <3> QED
      OBVIOUS
  <2>6. g = h
    <3> HIDE DEF g, h
    <3> QED
      BY <2>3, <2>4, <2>5
  <2>7. ReceivesTo(g, c, k + 1)
    BY <2>6 DEF ReceivesTo
  <2> QED
    BY <2>7
<1> HIDE DEF T
<1>3. Nat \subseteq T
  BY <1>1, <1>2, SetInduction
<1> QED
  BY <1>3 DEF T

\* Reading all there is leaves nothing unread, and nothing expected of that
\* which came.
LEMMA ReceivedAll ==
    ASSUME NEW c \in ConnRecord, ~c.err
    PROVE  LET d == Received(c, c.unread) IN
           /\ d \in ConnRecord /\ Alike(d, c) /\ ~d.err /\ d.bw = c.bw /\ d.unread = 0
           /\ c.pending <= c.unread => d.pending = 0
<1> DEFINE n == c.unread
           f == CHOOSE f : f = [i \in 0..n |-> IF i = 0 THEN c ELSE Receive(f[i-1])]
<1>1. Received(c, n) = f[n]
  BY DEF Received
<1>2. n \in Nat /\ c.pending \in Nat
  BY DEF ConnRecord
<1>3. f = [i \in 0..n |-> IF i = 0 THEN c ELSE Receive(f[i-1])]
  <2>1. PICK h : ReceivesTo(h, c, n)
    BY <1>2, ReadsExists
  <2>2. h = [i \in 0..n |-> IF i = 0 THEN c ELSE Receive(h[i-1])]
    BY <2>1 DEF ReceivesTo
  <2> QED
    BY <2>2, Zenon
<1> HIDE DEF f
<1>4. \A i \in 0..n : f[i] = IF i = 0 THEN c ELSE Receive(f[i-1])
  BY <1>3
<1> DEFINE Good(k) == /\ f[k] \in ConnRecord /\ Alike(f[k], c) /\ ~f[k].err /\ f[k].bw = c.bw
                      /\ f[k].unread = n - k
                      /\ c.pending <= n => f[k].pending <= n - k
           T == {k \in Nat : k <= n => Good(k)}
<1>5. 0 \in T
  BY <1>2, <1>4 DEF Alike
<1>6. ASSUME NEW k \in Nat, k \in T PROVE k + 1 \in T
  <2> SUFFICES ASSUME k + 1 <= n PROVE Good(k + 1)
    OBVIOUS
  <2>1. Good(k)
    BY <1>2, <1>6
  <2>2. f[k+1] = Receive(f[k])
    <3>1. k + 1 \in 0..n /\ k + 1 # 0 /\ (k + 1) - 1 = k
      BY <1>2
    <3> QED
      BY <1>4, <3>1
  <2> DEFINE b == f[k]
             d == Receive(f[k])
  <2>3. b \in ConnRecord /\ Alike(b, c) /\ ~b.err /\ b.bw = c.bw /\ b.unread = n - k
        /\ (c.pending <= n => b.pending <= n - k) /\ b.pending \in Nat /\ b.unread > 0
    BY <1>2, <2>1 DEF ConnRecord
  <2>4. d \in ConnRecord /\ Alike(d, b) /\ ~d.err /\ d.bw = b.bw
        /\ d.unread = b.unread - 1 /\ d.pending = AtLeast(b.pending - 1, 0)
    BY <2>3, ReceiveFields
  <2>5. f[k+1] = d
    BY <2>2
  <2> HIDE DEF b, d
  <2>6. d.unread = n - (k + 1) /\ (c.pending <= n => d.pending <= n - (k + 1))
    BY <1>2, <2>3, <2>4 DEF AtLeast
  <2>7. Alike(d, c)
    BY <2>3, <2>4 DEF Alike
  <2> QED
    BY <2>3, <2>4, <2>5, <2>6, <2>7
<1> HIDE DEF T
<1>7. Nat \subseteq T
  BY <1>5, <1>6, SetInduction
<1>8. Good(n)
  BY <1>2, <1>7 DEF T
<1>9. f[n].pending \in Nat
  BY <1>8 DEF ConnRecord
<1> QED
  BY <1>1, <1>2, <1>8, <1>9

(***************************************************************************)
(* What a user's connection owes to its state: s is pooledConnection.state *)
(* of the connection c.  The server's view is the one it will have when    *)
(* the write buffer has been executed.                                     *)
(***************************************************************************)
Follows(f, s) ==
    /\ f.multi <=> "MULTI" \in s
    /\ f.watch => "WATCH" \in s
    /\ f.subs > 0 => "SUBSCRIBE" \in s
    /\ f.monitor => "MONITOR" \in s

\* The states that proper use leads to.
ProperStates ==
    {s \in SUBSET {"MULTI", "WATCH", "SUBSCRIBE", "MONITOR"} :
        s \cap {"SUBSCRIBE", "MONITOR"} # {} => s \cap {"WATCH", "MULTI"} = {}}

Counted(f, p, s) == f.unread >= p /\ ("SUBSCRIBE" \notin s => f.unread = p)

Handed(c, s) ==
    ~c.err => /\ Follows(Flush(c), s)
              /\ Counted(Flush(c), c.pending, s)
              /\ c.subs > 0 => "SUBSCRIBE" \in s

ProperCmd(s, cmd) ==
    /\ cmd = "EXEC" => "MULTI" \in s
    /\ s \cap {"SUBSCRIBE", "MONITOR"} # {} => cmd = "SUBSCRIBE"
    /\ cmd = "WATCH" => "MULTI" \notin s
    /\ cmd \in {"SUBSCRIBE", "MONITOR"} => s \cap {"WATCH", "MULTI"} = {}

LEMMA TrackProper ==
    ASSUME NEW s \in ProperStates, NEW cmd \in Commands, ProperCmd(s, cmd)
    PROVE  Track(s, cmd) \in ProperStates
BY DEF ProperStates, Commands, ProperCmd, Track

\* A command that is executed changes the server's view as Track changes the
\* client's.
LEMMA FollowsServe ==
    ASSUME NEW f \in ConnRecord, NEW s \in ProperStates, Follows(f, s),
           NEW cmd \in Commands, ProperCmd(s, cmd)
    PROVE  Follows(Serve(f, cmd), Track(s, cmd)) /\ Answers(f, cmd) = 1
<1> DEFINE d == Serve(f, cmd)
<1>0. cmd \in AllCommands
  BY DEF AllCommands
<1>1. /\ d.multi = MultiAfter(f, cmd) /\ d.watch = WatchAfter(f, cmd)
      /\ d.subs = SubsAfter(f, cmd) /\ d.monitor = MonitorAfter(f, cmd)
  BY <1>0, ServeFields
<1>2. f.subs \in Nat /\ f.multi \in BOOLEAN /\ f.watch \in BOOLEAN /\ f.monitor \in BOOLEAN
  BY DEF ConnRecord
<1>3. Answers(f, cmd) = 1
  BY DEF Answers, Commands
<1>4. /\ cmd = "EXEC" => "MULTI" \in s
      /\ "SUBSCRIBE" \in s \/ "MONITOR" \in s => cmd = "SUBSCRIBE"
      /\ cmd \in {"WATCH", "SUBSCRIBE", "MONITOR"} => "MULTI" \notin s
      /\ cmd \in {"SUBSCRIBE", "MONITOR"} => "WATCH" \notin s
      /\ "SUBSCRIBE" \in s \/ "MONITOR" \in s => "MULTI" \notin s /\ "WATCH" \notin s
  BY DEF ProperCmd, ProperStates
<1>5. /\ "MULTI" \in Track(s, cmd) <=> cmd = "MULTI" \/ ("MULTI" \in s /\ cmd # "EXEC")
      /\ "WATCH" \in Track(s, cmd) <=> cmd = "WATCH" \/ ("WATCH" \in s /\ cmd # "EXEC")
      /\ "SUBSCRIBE" \in Track(s, cmd) <=> cmd = "SUBSCRIBE" \/ "SUBSCRIBE" \in s
      /\ "MONITOR" \in Track(s, cmd) <=> cmd = "MONITOR" \/ "MONITOR" \in s
  BY DEF Track, Commands
<1> HIDE DEF d
<1>6. d.multi <=> "MULTI" \in Track(s, cmd)
  <2>1. f.multi <=> "MULTI" \in s
    BY DEF Follows
  <2>2. CASE f.subs # 0
    <3>1. "SUBSCRIBE" \in s /\ d.multi = f.multi
      BY <1>1, <1>2, <2>2 DEF Follows, MultiAfter
    <3> QED
      BY <1>4, <1>5, <2>1, <3>1
  <2>3. CASE f.subs = 0
    <3>1. d.multi <=> (f.multi /\ cmd # "EXEC") \/ cmd = "MULTI"
      BY <1>1, <2>3 DEF MultiAfter, Commands
    <3> QED
      BY <1>5, <2>1, <3>1
  <2> QED
    BY <1>2, <2>2, <2>3
<1>7. d.watch => "WATCH" \in Track(s, cmd)
  BY <1>1, <1>2, <1>4, <1>5 DEF Follows, WatchAfter, Commands
<1>8. d.subs > 0 => "SUBSCRIBE" \in Track(s, cmd)
  BY <1>1, <1>2, <1>4, <1>5 DEF Follows, SubsAfter, Commands
<1>9. d.monitor => "MONITOR" \in Track(s, cmd)
  BY <1>1, <1>2, <1>4, <1>5 DEF Follows, MonitorAfter, Commands
<1> QED
  BY <1>3, <1>6, <1>7, <1>8, <1>9 DEF Follows, d

LEMMA DialledType == Dialled \in ConnRecord /\ Fatal(Dialled) \in ConnRecord
<1>1. <<>> \in Seq(AllCommands)
  BY EmptyType
<1>2. Dialled \in ConnRecord
  BY <1>1 DEF Dialled, ConnRecord
<1> QED
  BY <1>1, <1>2 DEF Fatal, Dialled, ConnRecord

LEMMA FatalIs == ASSUME NEW c PROVE Fatal(c) \in ConnRecord /\ Fatal(c).err = TRUE
<1>1. Fatal(c) = Fatal(Dialled)
  BY DEF Fatal
<1>2. Fatal(c).err = TRUE
  BY DEF Fatal, Dialled
<1> QED
  BY <1>1, <1>2, DialledType

\* With nothing in the write buffer Flush does nothing.
LEMMA FlushNothing ==
    ASSUME NEW c \in ConnRecord, ~c.err, c.bw = <<>>
    PROVE  Alike(Flush(c), c) /\ Flush(c).unread = c.unread
<1> DEFINE b == [c EXCEPT !.bw = <<>>]
<1>1. Flush(c) = Served(b, <<>>)
  BY DEF Flush
<1>2. Served(b, <<>>) = b
  BY ServedEmpty
<1>3. KeepsServer(b, c)
  BY BwType, EmptyType
<1> HIDE DEF b
<1> QED
  BY <1>1, <1>2, <1>3 DEF Alike, KeepsServer

LEMMA FollowsAlike ==
    ASSUME NEW c, NEW d, Alike(c, d), NEW s
    PROVE  Follows(c, s) <=> Follows(d, s)
BY DEF Follows, Alike

LEMMA HandedNew == {} \in ProperStates /\ Handed(Dialled, {})
<1>1. /\ ~Dialled.err /\ Dialled.bw = <<>> /\ Dialled.unread = 0 /\ Dialled.pending = 0
      /\ Dialled.subs = 0 /\ Dialled.multi = FALSE /\ Dialled.watch = FALSE
      /\ Dialled.monitor = FALSE
  BY DEF Dialled
<1>2. Alike(Flush(Dialled), Dialled) /\ Flush(Dialled).unread = 0
  BY <1>1, DialledType, FlushNothing
<1>3. Follows(Dialled, {})
  BY <1>1 DEF Follows
<1>4. Follows(Flush(Dialled), {})
  BY <1>2, <1>3, FollowsAlike
<1> QED
  BY <1>1, <1>2, <1>4 DEF Handed, Counted, ProperStates

\* What Send and Do write keeps the server's view in step with Track.
LEMMA WrittenFollows ==
    ASSUME NEW c \in ConnRecord, ~c.err, NEW s \in ProperStates, Handed(c, s),
           NEW cmd \in Commands, ProperCmd(s, cmd), NEW p \in Nat
    PROVE  LET d == Writes(c, p, cmd) IN
           /\ d \in ConnRecord /\ ~d.err /\ d.subs = c.subs
           /\ Follows(Flush(d), Track(s, cmd))
           /\ Flush(d).unread = Flush(c).unread + 1 /\ Flush(d).pending = p
<1> DEFINE d == Writes(c, p, cmd)
<1>1. cmd \in AllCommands
  BY DEF AllCommands
<1>2. /\ d \in ConnRecord /\ ~d.err /\ Alike(Flush(d), Serve(Flush(c), cmd))
      /\ Flush(d).unread = Serve(Flush(c), cmd).unread /\ Flush(d).pending = p
  BY <1>1, FlushAppend
<1>3. d.subs = c.subs
  BY DEF ConnRecord, Writes
<1>4. Flush(c) \in ConnRecord /\ Follows(Flush(c), s)
  BY FlushFields DEF Handed
<1>5. Follows(Serve(Flush(c), cmd), Track(s, cmd)) /\ Answers(Flush(c), cmd) = 1
  BY <1>4, FollowsServe
<1>6. Serve(Flush(c), cmd).unread = Flush(c).unread + 1
  BY <1>1, <1>4, <1>5, ServeFields
<1> HIDE DEF d
<1>7. Follows(Flush(d), Track(s, cmd))
  BY <1>2, <1>5, FollowsAlike
<1> QED
  BY <1>2, <1>3, <1>6, <1>7 DEF d

LEMMA HandedSend ==
    ASSUME NEW c \in ConnRecord, NEW s \in ProperStates, Handed(c, s),
           NEW cmd \in Commands, ProperCmd(s, cmd)
    PROVE  Send(c, cmd) \in ConnRecord /\ Handed(Send(c, cmd), Track(s, cmd))
<1>1. CASE c.err
  <2>1. Send(c, cmd) = c
    BY <1>1 DEF Send
  <2> QED
    BY <1>1, <2>1 DEF Handed
<1>2. CASE ~c.err
  <2> DEFINE p == c.pending + 1
             d == Writes(c, p, cmd)
  <2>1. c.pending \in Nat /\ p \in Nat
    BY DEF ConnRecord
  <2>2. Send(c, cmd) = d /\ d.pending = p
    BY <1>2 DEF Send, ConnRecord, Writes
  <2>7. p = c.pending + 1
    OBVIOUS
  <2> HIDE DEF p
  <2>3. /\ d \in ConnRecord /\ ~d.err /\ d.subs = c.subs
        /\ Follows(Flush(d), Track(s, cmd)) /\ Flush(d).unread = Flush(c).unread + 1
    BY <1>2, <2>1, WrittenFollows
  <2> HIDE DEF d
  <2>4. Counted(Flush(c), c.pending, s) /\ (c.subs > 0 => "SUBSCRIBE" \in s)
        /\ Flush(c).unread \in Nat
    BY <1>2, FlushFields DEF Handed, ConnRecord
  <2>5. "SUBSCRIBE" \in s => "SUBSCRIBE" \in Track(s, cmd)
    BY DEF Track, Commands
  <2>6. Counted(Flush(d), p, Track(s, cmd))
    BY <2>1, <2>3, <2>4, <2>5, <2>7 DEF Counted
  <2> QED
    BY <2>2, <2>3, <2>4, <2>5, <2>6 DEF Handed
<1> QED
  BY <1>1, <1>2

LEMMA HandedDo ==
    ASSUME NEW c \in ConnRecord, NEW s \in ProperStates, Handed(c, s),
           NEW cmd \in Commands, ProperCmd(s, cmd), cmd # "SUBSCRIBE"
    PROVE  Do(c, cmd) \in ConnRecord /\ Handed(Do(c, cmd), Track(s, cmd))
<1> DEFINE d == Writes(c, 0, cmd)
           f == Flush(d)
<1>0. cmd # ""
  BY DEF Commands
<1>1. Do(c, cmd) = ReadReplies(f, c.pending + 1)
  BY <1>0 DEF Do, Writes
<1>2. CASE c.err
  <2>1. d.err
    BY <1>2 DEF ConnRecord, Writes
  <2>2. f = d
    BY <2>1 DEF Flush
  <2> HIDE DEF f, d
  <2>3. Do(c, cmd) = Fatal(f)
    BY <1>1, <2>1, <2>2 DEF ReadReplies
  <2> QED
    BY <2>3, FatalIs DEF Handed
<1>3. CASE ~c.err
  <2>1. /\ d \in ConnRecord /\ ~d.err
        /\ Follows(f, Track(s, cmd)) /\ f.unread = Flush(c).unread + 1 /\ f.pending = 0
    BY <1>3, WrittenFollows
  <2> HIDE DEF d
  <2>2. f \in ConnRecord /\ ~f.err /\ f.bw = <<>>
    BY <2>1, FlushFields
  <2>3. "SUBSCRIBE" \notin s
    BY DEF ProperCmd
  <2>4. Flush(c).unread = c.pending /\ c.pending \in Nat
    BY <1>3, <2>3 DEF Handed, Counted, ConnRecord
  <2> HIDE DEF f
  <2> DEFINE e == [f EXCEPT !.unread = 0]
  <2>5. f.unread = c.pending + 1 /\ f.unread - (c.pending + 1) = 0
    BY <2>1, <2>4
  <2>6. Do(c, cmd) = e
    BY <1>1, <2>2, <2>4, <2>5 DEF ReadReplies
  <2>7. /\ e \in ConnRecord /\ ~e.err /\ e.bw = <<>> /\ e.pending = 0 /\ e.unread = 0
        /\ Alike(e, f)
    BY <2>1, <2>2 DEF ConnRecord, Alike
  <2> HIDE DEF e
  <2>8. Alike(Flush(e), e) /\ Flush(e).unread = 0
    BY <2>7, FlushNothing
  <2>9. Follows(e, Track(s, cmd)) /\ Follows(Flush(e), Track(s, cmd))
    BY <2>1, <2>7, <2>8, FollowsAlike
  <2> QED
    BY <2>6, <2>7, <2>8, <2>9 DEF Handed, Counted, Follows
<1> QED
  BY <1>2, <1>3

LEMMA HandedFlush ==
    ASSUME NEW c \in ConnRecord, NEW s \in ProperStates, Handed(c, s)
    PROVE  Flush(c) \in ConnRecord /\ Handed(Flush(c), s)
<1>1. CASE c.err
  <2>1. Flush(c) = c
    BY <1>1 DEF Flush
  <2> QED
    BY <2>1
<1>2. CASE ~c.err
  <2> DEFINE f == Flush(c)
  <2>1. f \in ConnRecord /\ ~f.err /\ f.bw = <<>> /\ f.pending = c.pending
    BY <1>2, FlushFields
  <2>2. Follows(f, s) /\ Counted(f, c.pending, s)
    BY <1>2 DEF Handed
  <2> HIDE DEF f
  <2>3. Alike(Flush(f), f) /\ Flush(f).unread = f.unread
    BY <2>1, FlushNothing
  <2>4. Follows(Flush(f), s)
    BY <2>2, <2>3, FollowsAlike
  <2>5. Handed(f, s)
    BY <2>1, <2>2, <2>3, <2>4 DEF Handed, Counted, Follows
  <2> QED
    BY <2>1, <2>5 DEF f
<1> QED
  BY <1>1, <1>2

LEMMA HandedReceive ==
    ASSUME NEW c \in ConnRecord, NEW s \in ProperStates, Handed(c, s), ~c.err, c.unread > 0
    PROVE  Receive(c) \in ConnRecord /\ Handed(Receive(c), s)
<1> DEFINE d == Receive(c)
           u == Flush(c).unread
           v == Flush(d).unread
<1>1. /\ d \in ConnRecord /\ Alike(d, c) /\ ~d.err /\ d.bw = c.bw
      /\ d.unread = c.unread - 1 /\ d.pending = AtLeast(c.pending - 1, 0)
  BY ReceiveFields
<1> HIDE DEF d
<1>2. Alike(c, d)
  BY <1>1 DEF Alike
<1>3. Alike(Flush(c), Flush(d)) /\ \E k \in Nat : u = c.unread + k /\ v = d.unread + k
  BY <1>1, <1>2, FlushAlike
<1>4. PICK k \in Nat : u = c.unread + k /\ v = d.unread + k
  BY <1>3
<1>5. c.unread \in Nat /\ c.pending \in Nat
  BY DEF ConnRecord
<1> HIDE DEF u, v
<1>6. u \in Nat /\ u >= 1 /\ v = u - 1
  BY <1>1, <1>4, <1>5
<1>7. u >= c.pending /\ ("SUBSCRIBE" \notin s => u = c.pending)
  BY DEF Handed, Counted, u
<1>8. v >= d.pending /\ ("SUBSCRIBE" \notin s => v = d.pending)
  BY <1>1, <1>5, <1>6, <1>7 DEF AtLeast
<1>9. Follows(Flush(c), s) /\ (c.subs > 0 => "SUBSCRIBE" \in s)
  BY DEF Handed
<1>10. Follows(Flush(d), s)
  BY <1>3, <1>9, FollowsAlike
<1>11. Handed(d, s)
  BY <1>2, <1>8, <1>9, <1>10 DEF Handed, Counted, Alike, v
<1> QED
  BY <1>1, <1>11 DEF d

LEMMA HandedPush ==
    ASSUME NEW c \in ConnRecord, NEW s \in ProperStates, Handed(c, s), c.subs > 0
    PROVE  Push(c) \in ConnRecord /\ Handed(Push(c), s)
<1> DEFINE d == Push(c)
           u == Flush(c).unread
           v == Flush(d).unread
<1>0. c.unread \in Nat /\ c.pending \in Nat /\ c.unread + 1 \in Nat
  BY DEF ConnRecord
<1>1. /\ d \in ConnRecord /\ Alike(d, c) /\ d.err = c.err /\ d.bw = c.bw
      /\ d.unread = c.unread + 1 /\ d.pending = c.pending
  BY <1>0 DEF Push, ConnRecord, Alike
<1> HIDE DEF d
<1>2. CASE c.err
  BY <1>1, <1>2 DEF Handed, d
<1>3. CASE ~c.err
  <2>1. Alike(c, d)
    BY <1>1 DEF Alike
  <2>2. Alike(Flush(c), Flush(d)) /\ \E k \in Nat : u = c.unread + k /\ v = d.unread + k
    BY <1>1, <1>3, <2>1, FlushAlike
  <2>3. PICK k \in Nat : u = c.unread + k /\ v = d.unread + k
    BY <2>2
  <2> HIDE DEF u, v
  <2>4. u \in Nat /\ v = u + 1
    BY <1>0, <1>1, <2>3
  <2>5. u >= c.pending /\ "SUBSCRIBE" \in s /\ Follows(Flush(c), s)
    BY <1>3 DEF Handed, Counted, u
  <2>6. Follows(Flush(d), s)
    BY <2>2, <2>5, FollowsAlike
  <2>7. v >= d.pending
    BY <1>0, <1>1, <2>4, <2>5
  <2> QED
    BY <1>1, <2>5, <2>6, <2>7 DEF Handed, Counted, d, v
<1> QED
  BY <1>2, <1>3

(***************************************************************************)
(* Close: what the state asks for is left, and every reply is read.        *)
(***************************************************************************)
LEMMA SendServed ==
    ASSUME NEW c \in ConnRecord, ~c.err, NEW x \in AllCommands
    PROVE  LET d == Send(c, x)
               f == Flush(c)
           IN  /\ d \in ConnRecord /\ ~d.err /\ d.pending = c.pending + 1
               /\ Flush(d).unread = f.unread + Answers(f, x)
               /\ Flush(d).multi = MultiAfter(f, x) /\ Flush(d).watch = WatchAfter(f, x)
               /\ Flush(d).subs = SubsAfter(f, x) /\ Flush(d).monitor = MonitorAfter(f, x)
<1> DEFINE p == c.pending + 1
           d == Writes(c, p, x)
<1>1. p \in Nat
  BY DEF ConnRecord
<1>2. Send(c, x) = d /\ d.pending = p
  BY DEF Send, Writes, ConnRecord
<1> HIDE DEF p
<1>3. /\ d \in ConnRecord /\ ~d.err /\ Alike(Flush(d), Serve(Flush(c), x))
      /\ Flush(d).unread = Serve(Flush(c), x).unread
  BY <1>1, FlushAppend
<1>4. Flush(c) \in ConnRecord
  BY FlushFields
<1> HIDE DEF d
<1>5. LET e == Serve(Flush(c), x)
          f == Flush(c) IN
      /\ e.unread = f.unread + Answers(f, x)
      /\ e.multi = MultiAfter(f, x) /\ e.watch = WatchAfter(f, x)
      /\ e.subs = SubsAfter(f, x) /\ e.monitor = MonitorAfter(f, x)
  BY <1>4, ServeFields
<1> QED
  BY <1>2, <1>3, <1>5 DEF Alike, p

\* Once the replies are counted right, Do("") leaves nothing.
LEMMA DoRest ==
    ASSUME NEW c \in ConnRecord, ~c.err, Flush(c).unread = c.pending
    PROVE  LET d == Do(c, "") IN
           /\ d \in ConnRecord /\ ~d.err /\ Alike(d, Flush(c))
           /\ d.unread = 0 /\ d.pending = 0 /\ d.bw = <<>>
<1> DEFINE f == Flush(c)
<1>0. /\ c.pending \in Nat /\ c.unread \in Nat /\ c.bw \in Seq(AllCommands)
      /\ f.unread >= c.unread + Len(c.bw)
  BY FlushFields DEF ConnRecord
<1>1. CASE c.pending = 0
  <2>1. Do(c, "") = c
    BY <1>1 DEF Do
  <2>2. Len(c.bw) \in Nat /\ (Len(c.bw) = 0 => c.bw = <<>>)
    <3>1. \A q \in Seq(AllCommands) : Len(q) \in Nat /\ (Len(q) = 0 => q = <<>>)
      OBVIOUS
    <3> QED
      BY <1>0, <3>1
  <2>3. c.unread = 0 /\ c.bw = <<>>
    <3> HIDE DEF f
    <3>1. f.unread = 0
      BY <1>1 DEF f
    <3> QED
      BY <1>0, <2>2, <3>1
  <2>4. Alike(Flush(c), c)
    BY <2>3, FlushNothing
  <2> QED
    BY <1>1, <2>1, <2>3, <2>4 DEF Alike
<1>2. CASE c.pending # 0
  <2> DEFINE w == [c EXCEPT !.pending = 0, !.bw = @]
             g == Flush(w)
  <2>1. /\ w \in ConnRecord /\ ~w.err /\ Alike(c, w) /\ w.bw = c.bw /\ w.unread = c.unread
        /\ w.pending = 0
    BY DEF ConnRecord, Alike
  <2>2. Do(c, "") = ReadReplies(g, c.pending)
    BY <1>2 DEF Do
  <2> HIDE DEF w
  <2>3. Alike(Flush(c), g) /\ \E k \in Nat : f.unread = c.unread + k /\ g.unread = w.unread + k
    BY <2>1, FlushAlike
  <2>4. g \in ConnRecord /\ ~g.err /\ g.bw = <<>> /\ g.pending = 0
    BY <2>1, FlushFields
  <2> HIDE DEF f, g
  <2>5. g.unread = c.pending /\ g.unread - c.pending = 0
    <3>1. f.unread = c.pending
      BY DEF f
    <3> QED
      BY <1>0, <2>1, <2>3, <3>1
  <2> DEFINE e == [g EXCEPT !.unread = 0]
  <2>6. Do(c, "") = e
    <3> DEFINE n == c.pending
    <3>1. n \in Nat /\ g.unread = n /\ g.unread - n = 0
      BY <1>0, <2>5
    <3>2. Do(c, "") = ReadReplies(g, n)
      BY <2>2
    <3> HIDE DEF n
    <3>3. ~(g.unread < n)
      BY <3>1
    <3>4. ReadReplies(g, n) = [g EXCEPT !.unread = g.unread - n]
      BY <2>4, <3>3 DEF ReadReplies
    <3> QED
      BY <3>1, <3>2, <3>4
  <2>7. e \in ConnRecord /\ ~e.err /\ e.bw = <<>> /\ e.pending = 0 /\ e.unread = 0 /\ Alike(e, g)
    BY <2>4 DEF ConnRecord, Alike
  <2> HIDE DEF e
  <2> QED
    BY <2>3, <2>6, <2>7 DEF Alike
<1> QED
  BY <1>1, <1>2

LEMMA DoFailed ==
    ASSUME NEW c \in ConnRecord, c.err
    PROVE  Do(c, "") \in ConnRecord /\ Do(c, "").err
<1>1. CASE c.pending = 0
  <2>1. Do(c, "") = c
    BY <1>1 DEF Do
  <2> QED
    BY <2>1
<1>2. CASE c.pending # 0
  <2> DEFINE w == [c EXCEPT !.pending = 0, !.bw = @]
  <2>1. w.err
    BY DEF ConnRecord
  <2>2. Do(c, "") = ReadReplies(Flush(w), c.pending)
    BY <1>2 DEF Do
  <2> HIDE DEF w
  <2>3. Do(c, "") = Fatal(w)
    BY <2>1, <2>2 DEF ReadReplies, Flush
  <2> QED
    BY <2>3, FatalIs
<1> QED
  BY <1>1, <1>2

LEMMA DialledIs ==
    ASSUME NEW c \in ConnRecord, ~c.err, c.pending = 0, c.bw = <<>>, c.unread = 0,
           ~c.multi, ~c.watch, c.subs = 0, ~c.monitor
    PROVE  c = Dialled
BY DEF ConnRecord, Dialled

LEMMA LeftTransaction ==
    ASSUME NEW c \in ConnRecord, ~c.err, NEW s \in ProperStates, Handed(c, s), "SUBSCRIBE" \notin s
    PROVE  LET t == LeaveTransaction(c, s) IN
           /\ t \in ConnRecord /\ ~t.err /\ Flush(t).unread = t.pending
           /\ ~Flush(t).multi /\ ~Flush(t).watch /\ Flush(t).subs = 0
           /\ Flush(t).monitor => "MONITOR" \in s
<1> DEFINE f == Flush(c)
<1>1. Follows(f, s) /\ f.unread = c.pending
  BY DEF Handed, Counted
<1>2. /\ f \in ConnRecord /\ f.subs \in Nat /\ f.multi \in BOOLEAN /\ f.watch \in BOOLEAN
      /\ f.monitor \in BOOLEAN
  BY FlushFields DEF ConnRecord
<1>3. c.pending \in Nat
  BY DEF ConnRecord
<1> HIDE DEF f
<1>4. /\ f.multi <=> "MULTI" \in s
      /\ f.watch => "WATCH" \in s
      /\ f.subs = 0
      /\ f.monitor => "MONITOR" \in s
  BY <1>1, <1>2 DEF Follows
<1>5. CASE "MULTI" \in s
  <2>1. "DISCARD" \in AllCommands
    BY DEF AllCommands
  <2>2. LeaveTransaction(c, s) = Send(c, "DISCARD")
    BY <1>5 DEF LeaveTransaction
  <2>3. /\ Answers(f, "DISCARD") = 1 /\ ~MultiAfter(f, "DISCARD")
        /\ ~WatchAfter(f, "DISCARD") /\ SubsAfter(f, "DISCARD") = 0
        /\ MonitorAfter(f, "DISCARD") = f.monitor
    BY <1>2, <1>4, <1>5 DEF Answers, MultiAfter, WatchAfter, SubsAfter, MonitorAfter
  <2> QED
    BY <1>1, <1>3, <1>4, <2>1, <2>2, <2>3, SendServed DEF f
<1>6. CASE "MULTI" \notin s /\ "WATCH" \in s
  <2>1. "UNWATCH" \in AllCommands
    BY DEF AllCommands
  <2>2. LeaveTransaction(c, s) = Send(c, "UNWATCH")
    BY <1>6 DEF LeaveTransaction
  <2>3. /\ Answers(f, "UNWATCH") = 1 /\ ~MultiAfter(f, "UNWATCH")
        /\ ~WatchAfter(f, "UNWATCH") /\ SubsAfter(f, "UNWATCH") = 0
        /\ MonitorAfter(f, "UNWATCH") = f.monitor
    BY <1>2, <1>4, <1>6 DEF Answers, MultiAfter, WatchAfter, SubsAfter, MonitorAfter
  <2> QED
    BY <1>1, <1>3, <1>4, <2>1, <2>2, <2>3, SendServed DEF f
<1>7. CASE "MULTI" \notin s /\ "WATCH" \notin s
  <2>1. LeaveTransaction(c, s) = c
    BY <1>7 DEF LeaveTransaction
  <2> QED
    BY <1>1, <1>4, <1>7, <2>1 DEF f
<1> QED
  BY <1>5, <1>6, <1>7

\* A subscriber that unsubscribes and reads up to the echo has read everything.
LEMMA LeftSubscription ==
    ASSUME NEW c \in ConnRecord, ~c.err, NEW s \in ProperStates, Handed(c, s), "SUBSCRIBE" \in s
    PROVE  LET d == LeaveSubscription(c) IN
           /\ d \in ConnRecord /\ ~d.err /\ d.pending = 0 /\ d.unread = 0 /\ d.bw = <<>>
           /\ ~d.multi /\ ~d.watch /\ d.subs = 0 /\ (d.monitor => "MONITOR" \in s)
<1> DEFINE c1 == Send(c, "UNSUBSCRIBE")
           c2 == Send(c1, "PUNSUBSCRIBE")
           c3 == Send(c2, "ECHO")
           f0 == Flush(c)
           f1 == Flush(c1)
           f2 == Flush(c2)
           f3 == Flush(c3)
<1>0. /\ "UNSUBSCRIBE" \in AllCommands /\ "PUNSUBSCRIBE" \in AllCommands
      /\ "ECHO" \in AllCommands
  BY DEF AllCommands
<1>1. /\ c1 \in ConnRecord /\ ~c1.err /\ c1.pending = c.pending + 1
      /\ f1.unread = f0.unread + Answers(f0, "UNSUBSCRIBE")
      /\ f1.multi = MultiAfter(f0, "UNSUBSCRIBE") /\ f1.watch = WatchAfter(f0, "UNSUBSCRIBE")
      /\ f1.subs = SubsAfter(f0, "UNSUBSCRIBE") /\ f1.monitor = MonitorAfter(f0, "UNSUBSCRIBE")
  BY <1>0, SendServed
<1>2. /\ c2 \in ConnRecord /\ ~c2.err /\ c2.pending = c1.pending + 1
      /\ f2.unread = f1.unread + Answers(f1, "PUNSUBSCRIBE")
      /\ f2.multi = MultiAfter(f1, "PUNSUBSCRIBE") /\ f2.watch = WatchAfter(f1, "PUNSUBSCRIBE")
      /\ f2.subs = SubsAfter(f1, "PUNSUBSCRIBE") /\ f2.monitor = MonitorAfter(f1, "PUNSUBSCRIBE")
  <2> HIDE DEF c1
  <2> QED
    BY <1>0, <1>1, SendServed
<1>3. /\ c3 \in ConnRecord /\ ~c3.err /\ c3.pending = c2.pending + 1
      /\ f3.unread = f2.unread + Answers(f2, "ECHO")
      /\ f3.multi = MultiAfter(f2, "ECHO") /\ f3.watch = WatchAfter(f2, "ECHO")
      /\ f3.subs = SubsAfter(f2, "ECHO") /\ f3.monitor = MonitorAfter(f2, "ECHO")
  <2> HIDE DEF c2
  <2> QED
    BY <1>0, <1>2, SendServed
<1>4. /\ f0 \in ConnRecord /\ f0.subs \in Nat /\ f0.multi \in BOOLEAN /\ f0.watch \in BOOLEAN
      /\ f0.monitor \in BOOLEAN /\ f0.unread \in Nat /\ c.pending \in Nat
  BY FlushFields DEF ConnRecord
<1>5. Follows(f0, s) /\ f0.unread >= c.pending
  BY DEF Handed, Counted
<1>6. "MULTI" \notin s /\ "WATCH" \notin s
  BY DEF ProperStates
<1>7. f3 = Flush(c3) /\ LeaveSubscription(c) = IF f3.err THEN f3 ELSE Received(f3, f3.unread)
  BY DEF LeaveSubscription
<1> HIDE DEF c1, c2, c3, f0, f1, f2, f3
<1>8. /\ ~f0.multi /\ ~f0.watch /\ (f0.monitor => "MONITOR" \in s)
  BY <1>4, <1>5, <1>6 DEF Follows
<1>9. /\ Answers(f0, "UNSUBSCRIBE") \in Nat /\ Answers(f0, "UNSUBSCRIBE") >= 1
      /\ ~f1.multi /\ ~f1.watch /\ f1.subs = 0 /\ f1.monitor = f0.monitor
  <2>1. Answers(f0, "UNSUBSCRIBE") \in Nat /\ Answers(f0, "UNSUBSCRIBE") >= 1
    BY <1>0, <1>4, ServeFields
  <2>2. /\ ~MultiAfter(f0, "UNSUBSCRIBE") /\ ~WatchAfter(f0, "UNSUBSCRIBE")
        /\ SubsAfter(f0, "UNSUBSCRIBE") = 0 /\ MonitorAfter(f0, "UNSUBSCRIBE") = f0.monitor
    BY <1>4, <1>8 DEF MultiAfter, WatchAfter, SubsAfter, MonitorAfter
  <2> QED
    BY <1>1, <2>1, <2>2
<1>10. f1.monitor \in BOOLEAN
  BY <1>4, <1>9
<1>11. /\ f2.unread = f1.unread + 1
       /\ ~f2.multi /\ ~f2.watch /\ f2.subs = 0 /\ f2.monitor = f1.monitor
  BY <1>2, <1>9, <1>10 DEF Answers, MultiAfter, WatchAfter, SubsAfter, MonitorAfter
<1>12. /\ f3.unread = f2.unread + 1
       /\ ~f3.multi /\ ~f3.watch /\ f3.subs = 0 /\ f3.monitor = f2.monitor
  <2>1. f2.monitor \in BOOLEAN
    BY <1>10, <1>11
  <2> QED
    BY <1>3, <1>11, <2>1 DEF Answers, MultiAfter, WatchAfter, SubsAfter, MonitorAfter
<1>13. f3 \in ConnRecord /\ ~f3.err /\ f3.bw = <<>> /\ f3.pending = c3.pending
  BY <1>3, <1>7, FlushFields
<1>14. f3.pending <= f3.unread
  BY <1>1, <1>2, <1>3, <1>4, <1>5, <1>9, <1>11, <1>12, <1>13
<1> DEFINE d == Received(f3, f3.unread)
<1>15. /\ d \in ConnRecord /\ Alike(d, f3) /\ ~d.err /\ d.bw = f3.bw /\ d.unread = 0
       /\ f3.pending <= f3.unread => d.pending = 0
  BY <1>13, ReceivedAll
<1>16. LeaveSubscription(c) = d
  BY <1>7, <1>13
<1> HIDE DEF d
<1> QED
  BY <1>8, <1>9, <1>11, <1>12, <1>13, <1>14, <1>15, <1>16 DEF Alike

\* The connection and the state that CleanUp leaves.
Cleaned(c, s) == LET t == LeaveTransaction(c, s)
                 IN  IF "SUBSCRIBE" \in s THEN LeaveSubscription(t) ELSE t

StateLeft(c, s) == s \ ({"MULTI", "WATCH"} \cup IF Cleaned(c, s).err THEN {} ELSE {"SUBSCRIBE"})

LEMMA CleanedOrFailed ==
    ASSUME NEW c \in ConnRecord, NEW s \in ProperStates, Handed(c, s)
    PROVE  LET d == Do(Cleaned(c, s), "") IN
           /\ d \in ConnRecord
           /\ StateLeft(c, s) \in ProperStates
           /\ ~d.err /\ StateLeft(c, s) = {} => d = Dialled
<1> DEFINE d == Do(Cleaned(c, s), "")
<1>1. StateLeft(c, s) \in ProperStates
  BY DEF StateLeft, ProperStates
<1>2. CASE c.err
  <2>1. \A x : Send(c, x) = c
    BY <1>2 DEF Send
  <2>2. LeaveTransaction(c, s) = c
    BY <2>1 DEF LeaveTransaction
  <2>3. Flush(c) = c
    BY <1>2 DEF Flush
  <2>4. LeaveSubscription(c) = c
    BY <1>2, <2>1, <2>3 DEF LeaveSubscription
  <2>5. Cleaned(c, s) = c
    BY <2>2, <2>4 DEF Cleaned
  <2>6. d \in ConnRecord /\ d.err
    BY <1>2, <2>5, DoFailed
  <2> QED
    BY <1>1, <2>6
<1>3. CASE ~c.err /\ "SUBSCRIBE" \notin s
  <2> DEFINE t == LeaveTransaction(c, s)
  <2>1. /\ t \in ConnRecord /\ ~t.err /\ Flush(t).unread = t.pending
        /\ ~Flush(t).multi /\ ~Flush(t).watch /\ Flush(t).subs = 0
        /\ Flush(t).monitor => "MONITOR" \in s
    BY <1>3, LeftTransaction
  <2>2. Cleaned(c, s) = t
    BY <1>3 DEF Cleaned
  <2> HIDE DEF t
  <2>3. /\ d \in ConnRecord /\ ~d.err /\ Alike(d, Flush(t))
        /\ d.unread = 0 /\ d.pending = 0 /\ d.bw = <<>>
    BY <2>1, <2>2, DoRest
  <2> HIDE DEF d
  <2>4. ASSUME StateLeft(c, s) = {} PROVE d = Dialled
    <3>1. "MONITOR" \notin s
      BY <2>4 DEF StateLeft
    <3> QED
      BY <2>1, <2>3, <3>1, DialledIs DEF Alike
  <2> QED
    BY <1>1, <2>3, <2>4 DEF d
<1>4. CASE ~c.err /\ "SUBSCRIBE" \in s
  <2> DEFINE u == LeaveSubscription(c)
  <2>0. "MULTI" \notin s /\ "WATCH" \notin s
    BY <1>4 DEF ProperStates
  <2>1. LeaveTransaction(c, s) = c
    BY <2>0 DEF LeaveTransaction
  <2>2. Cleaned(c, s) = u
    BY <1>4, <2>1 DEF Cleaned
  <2>3. /\ u \in ConnRecord /\ ~u.err /\ u.pending = 0 /\ u.unread = 0 /\ u.bw = <<>>
        /\ ~u.multi /\ ~u.watch /\ u.subs = 0 /\ (u.monitor => "MONITOR" \in s)
    BY <1>4, LeftSubscription
  <2> HIDE DEF u
  <2>4. d = u
    BY <2>2, <2>3 DEF Do
  <2> HIDE DEF d
  <2>5. ASSUME StateLeft(c, s) = {} PROVE d = Dialled
    <3>1. "MONITOR" \notin s
      BY <2>5 DEF StateLeft
    <3> QED
      BY <2>3, <2>4, <3>1, DialledIs
  <2> QED
    BY <1>1, <2>3, <2>4, <2>5 DEF d
<1> QED
  BY <1>2, <1>3, <1>4
(***************************************************************************)
(* The pool again: what is idle is as good as new.  With PoolInv this is   *)
(* the inductive invariant of CleanIdle.                                   *)
(***************************************************************************)
Touching == {"test", "use", "put"}

\* What a goroutine's connection and its state are, by where it is.
Suits(p, c, s) ==
    /\ p = "test" => c = Dialled
    /\ p = "use" => Handed(c, s)
    /\ p = "put" /\ ~c.err /\ s = {} => c = Dialled

\* An idle connection whose next user finds it as it was dialled.
NewEntries == [c : {Dialled}, stale : BOOLEAN]

IdleNew == idle \in Seq(NewEntries)

HandedInv ==
    /\ IdleNew
    /\ has \in [Users -> ConnRecord]
    /\ state \in [Users -> ProperStates]
    /\ \A g \in Users : Suits(at[g], has[g], state[g])

CleanInv == PoolInv /\ HandedInv

\* cond.Signal moves nobody who has a connection, nor anybody to one.
LEMMA SignalledTouching ==
    ASSUME NEW places \in [Users -> Places], NEW after \in Signalled(places), NEW g \in Users,
           after[g] \in Touching
    PROVE  places[g] = after[g]
<1>1. CASE after = places
  BY <1>1
<1>2. ASSUME NEW w \in Users, places[w] = "wait", after = [places EXCEPT ![w] = "woken"]
      PROVE  places[g] = after[g]
  <2>1. after[w] = "woken" /\ \A h \in Users : h # w => after[h] = places[h]
    BY <1>2
  <2> QED
    BY <2>1 DEF Touching
<1> QED
  BY <1>1, <1>2 DEF Signalled

\* Only g has moved.
LEMMA OneMoves ==
    ASSUME HandedInv, NEW g \in Users, NEW c \in ConnRecord, NEW s \in ProperStates,
           has' = [has EXCEPT ![g] = c], state' = [state EXCEPT ![g] = s],
           \A h \in Users : h # g /\ at'[h] \in Touching => at[h] = at'[h],
           Suits(at'[g], c, s), IdleNew'
    PROVE  HandedInv'
<1>1. has \in [Users -> ConnRecord] /\ state \in [Users -> ProperStates]
  BY DEF HandedInv
<1>2. has' \in [Users -> ConnRecord] /\ state' \in [Users -> ProperStates]
  BY <1>1
<1>3. ASSUME NEW h \in Users PROVE Suits(at'[h], has'[h], state'[h])
  <2>1. CASE h = g
    BY <1>1, <2>1
  <2>2. CASE h # g
    <3>1. has'[h] = has[h] /\ state'[h] = state[h]
      BY <1>1, <2>2
    <3>2. Suits(at[h], has[h], state[h])
      BY DEF HandedInv
    <3>3. CASE at'[h] \in Touching
      BY <2>2, <3>1, <3>2, <3>3
    <3>4. CASE at'[h] \notin Touching
      BY <3>4 DEF Suits, Touching
    <3> QED
      BY <3>3, <3>4
  <2> QED
    BY <2>1, <2>2
<1> QED
  BY <1>2, <1>3 DEF HandedInv

\* The rest of get.
LEMMA LookClean ==
    ASSUME CleanInv, NEW g \in Users, NEW act, NEW n, NEW places \in [Users -> Places],
           Look(g, act, idle, n, places), state' = state,
           \A h \in Users : h # g /\ places[h] \in Touching => at[h] = places[h]
    PROVE  HandedInv'
<1>1. idle \in Seq(NewEntries)
  BY DEF CleanInv, HandedInv, IdleNew
<1>2. PICK p : at' = [places EXCEPT ![g] = p] /\ p \notin {"use", "put"}
  BY DEF Look
<1>3. has' = [has EXCEPT ![g] = Dialled] /\ IdleNew'
  <2>1. CASE n > 0 /\ idle # <<>>
    <3>1. has' = [has EXCEPT ![g] = Head(idle).c] /\ idle' = Tail(idle)
      BY <2>1 DEF Look
    <3>2. Head(idle) \in NewEntries /\ Tail(idle) \in Seq(NewEntries)
      BY <1>1, <2>1
    <3>3. Head(idle).c = Dialled
      BY <3>2 DEF NewEntries
    <3> QED
      BY <3>1, <3>2, <3>3 DEF IdleNew
  <2>2. CASE ~(n > 0 /\ idle # <<>>)
    BY <2>2 DEF Look, CleanInv, HandedInv, IdleNew
  <2> QED
    BY <2>1, <2>2
<1>4. state[g] \in ProperStates /\ state' = [state EXCEPT ![g] = state[g]]
  BY DEF CleanInv, HandedInv
<1>5. Suits(at'[g], Dialled, state[g])
  BY <1>2 DEF Suits
<1>6. \A h \in Users : h # g /\ at'[h] \in Touching => at[h] = at'[h]
  BY <1>2
<1> QED
  BY <1>3, <1>4, <1>5, <1>6, DialledType, OneMoves DEF CleanInv

\* g keeps its connection and its state.
LEMMA NoneTouched ==
    ASSUME CleanInv, NEW g \in Users, UNCHANGED <<has, state>>, IdleNew',
           \A h \in Users : at'[h] \in Touching => at[h] = at'[h]
    PROVE  HandedInv'
<1>1. \A h \in Users : Suits(at'[h], has'[h], state'[h])
  BY DEF CleanInv, HandedInv, Suits, Touching
<1> QED
  BY <1>1 DEF CleanInv, HandedInv

\* A user's method turns its connection into c and its state into s.
LEMMA Used ==
    ASSUME CleanInv, NEW g \in Users, NEW c \in ConnRecord, NEW s \in ProperStates,
           has' = [has EXCEPT ![g] = c], state' = [state EXCEPT ![g] = s],
           at[g] = "use", UNCHANGED <<at, idle>>, Handed(c, s)
    PROVE  HandedInv'
<1>1. Suits(at'[g], c, s)
  BY DEF Suits
<1>2. IdleNew'
  BY DEF CleanInv, HandedInv, IdleNew
<1> QED
  BY <1>1, <1>2, OneMoves DEF CleanInv

LEMMA UsesClean ==
    ASSUME CleanInv, NEW g \in Users, Uses(g)
    PROVE  HandedInv'
<1> DEFINE c == has[g]
           s == state[g]
<1>1. c \in ConnRecord /\ s \in ProperStates /\ state = [state EXCEPT ![g] = s]
  BY DEF CleanInv, HandedInv
<1>2. at[g] = "use"
  BY DEF Uses, UseDo, UseSend, UseFlush, UseReceive, Published, Breaks
<1>3. Handed(c, s)
  BY <1>2 DEF CleanInv, HandedInv, Suits
<1>4. UNCHANGED <<at, idle>>
  BY DEF Uses, UseDo, UseSend, UseFlush, UseReceive, Published, Breaks, pool
<1>5. ASSUME NEW cmd \in Commands, UseDo(g, cmd) PROVE HandedInv'
  <2>1. /\ ProperCmd(s, cmd) /\ cmd # "SUBSCRIBE"
        /\ has' = [has EXCEPT ![g] = Do(c, cmd)] /\ state' = [state EXCEPT ![g] = Track(s, cmd)]
    BY <1>5 DEF UseDo, Proper, ProperCmd
  <2> HIDE DEF c, s
  <2>2. Do(c, cmd) \in ConnRecord /\ Handed(Do(c, cmd), Track(s, cmd))
        /\ Track(s, cmd) \in ProperStates
    BY <1>1, <1>3, <2>1, HandedDo, TrackProper
  <2> QED
    BY <1>2, <1>4, <2>1, <2>2, Used
<1>6. ASSUME NEW cmd \in Commands, UseSend(g, cmd) PROVE HandedInv'
  <2>1. /\ ProperCmd(s, cmd)
        /\ has' = [has EXCEPT ![g] = Send(c, cmd)] /\ state' = [state EXCEPT ![g] = Track(s, cmd)]
    BY <1>6 DEF UseSend, Proper, ProperCmd
  <2> HIDE DEF c, s
  <2>2. Send(c, cmd) \in ConnRecord /\ Handed(Send(c, cmd), Track(s, cmd))
        /\ Track(s, cmd) \in ProperStates
    BY <1>1, <1>3, <2>1, HandedSend, TrackProper
  <2> QED
    BY <1>2, <1>4, <2>1, <2>2, Used
<1>7. CASE UseFlush(g)
  <2>1. has' = [has EXCEPT ![g] = Flush(c)] /\ state' = [state EXCEPT ![g] = s]
    BY <1>1, <1>7 DEF UseFlush
  <2> HIDE DEF c, s
  <2>2. Flush(c) \in ConnRecord /\ Handed(Flush(c), s)
    BY <1>1, <1>3, HandedFlush
  <2> QED
    BY <1>1, <1>2, <1>4, <2>1, <2>2, Used
<1>8. CASE UseReceive(g)
  <2>1. /\ c.unread > 0 /\ ~c.err
        /\ has' = [has EXCEPT ![g] = Receive(c)] /\ state' = [state EXCEPT ![g] = s]
    BY <1>1, <1>8 DEF UseReceive
  <2> HIDE DEF c, s
  <2>2. Receive(c) \in ConnRecord /\ Handed(Receive(c), s)
    BY <1>1, <1>3, <2>1, HandedReceive
  <2> QED
    BY <1>1, <1>2, <1>4, <2>1, <2>2, Used
<1>9. CASE Published(g)
  <2>1. c.subs > 0 /\ has' = [has EXCEPT ![g] = Push(c)] /\ state' = [state EXCEPT ![g] = s]
    BY <1>1, <1>9 DEF Published
  <2> HIDE DEF c, s
  <2>2. Push(c) \in ConnRecord /\ Handed(Push(c), s)
    BY <1>1, <1>3, <2>1, HandedPush
  <2> QED
    BY <1>1, <1>2, <1>4, <2>1, <2>2, Used
<1>10. CASE Breaks(g)
  <2>1. has' = [has EXCEPT ![g] = Fatal(c)] /\ state' = [state EXCEPT ![g] = s]
    BY <1>1, <1>10 DEF Breaks
  <2> HIDE DEF c, s
  <2>2. Fatal(c) \in ConnRecord /\ Handed(Fatal(c), s)
    BY FatalIs DEF Handed
  <2> QED
    BY <1>1, <1>2, <1>4, <2>1, <2>2, Used
<1> QED
  BY <1>5, <1>6, <1>7, <1>8, <1>9, <1>10 DEF Uses

\* Get returns the connection.
LEMMA BorrowClean ==
    ASSUME CleanInv, NEW g \in Users, Borrow(g, Dialled), idle' = idle
    PROVE  HandedInv'
<1>1. /\ has' = [has EXCEPT ![g] = Dialled] /\ state' = [state EXCEPT ![g] = {}]
      /\ at' = [at EXCEPT ![g] = "use"]
  BY DEF Borrow
<1>2. at \in [Users -> Places]
  BY DEF CleanInv, PoolInv, PoolTypeOK
<1>3. at'[g] = "use" /\ \A h \in Users : h # g => at'[h] = at[h]
  BY <1>1, <1>2
<1>4. Suits("use", Dialled, {})
  BY HandedNew DEF Suits
<1>5. IdleNew'
  BY DEF CleanInv, HandedInv, IdleNew
<1> QED
  BY <1>1, <1>3, <1>4, <1>5, HandedNew, DialledType, OneMoves DEF CleanInv

\* put, behind its decision.
LEMMA ForgetClean ==
    ASSUME CleanInv, NEW g \in Users, Forget(g), IdleNew',
           at' \in Signalled([at EXCEPT ![g] = "out"])
    PROVE  HandedInv'
<1>1. has' = [has EXCEPT ![g] = Dialled] /\ state' = [state EXCEPT ![g] = {}]
  BY DEF Forget
<1> DEFINE places == [at EXCEPT ![g] = "out"]
<1>2. places \in [Users -> Places] /\ places[g] = "out" /\ \A h \in Users : h # g => places[h] = at[h]
  BY DEF CleanInv, PoolInv, PoolTypeOK, Places
<1> HIDE DEF places
<1>3. \A h \in Users : at'[h] \in Touching => places[h] = at'[h]
  BY <1>2, SignalledTouching DEF places
<1>4. at'[g] \notin Touching
  BY <1>2, <1>3 DEF Touching
<1>5. Suits(at'[g], Dialled, {})
  BY <1>4 DEF Suits, Touching
<1> QED
  BY <1>1, <1>2, <1>3, <1>5, HandedNew, DialledType, OneMoves DEF CleanInv

(***************************************************************************)
(* Every step keeps CleanInv.                                              *)
(***************************************************************************)
LEMMA CleanInit == PoolInit => HandedInv
<1> SUFFICES ASSUME PoolInit PROVE HandedInv
  OBVIOUS
<1>1. /\ idle = <<>> /\ at = [g \in Users |-> "out"]
      /\ has = [g \in Users |-> Dialled] /\ state = [g \in Users |-> {}]
  BY DEF PoolInit
<1>2. IdleNew
  BY <1>1, EmptyType DEF IdleNew
<1>3. has \in [Users -> ConnRecord] /\ state \in [Users -> ProperStates]
  BY <1>1, DialledType, HandedNew
<1>4. \A g \in Users : Suits(at[g], has[g], state[g])
  BY <1>1 DEF Suits
<1> QED
  BY <1>2, <1>3, <1>4 DEF HandedInv

\* g closes its connection: CleanedOrFailed says what put will see.
LEMMA CleanUpClean ==
    ASSUME CleanInv, NEW g \in Users, CleanUp(g)
    PROVE  HandedInv'
<1> DEFINE c == has[g]
           s == state[g]
           d == Do(Cleaned(c, s), "")
           r == StateLeft(c, s)
<1>1. c \in ConnRecord /\ s \in ProperStates /\ at \in [Users -> Places]
  BY DEF CleanInv, HandedInv, PoolInv, PoolTypeOK
<1>2. at[g] = "use" /\ at' = [at EXCEPT ![g] = "put"] /\ idle' = idle
  BY DEF CleanUp, Close, pool
<1>3. has' = [has EXCEPT ![g] = d] /\ state' = [state EXCEPT ![g] = r]
  BY DEF CleanUp, Cleaned, StateLeft
<1>4. Handed(c, s)
  BY <1>2 DEF CleanInv, HandedInv, Suits
<1> HIDE DEF c, s
<1>5. d \in ConnRecord /\ r \in ProperStates /\ (~d.err /\ r = {} => d = Dialled)
  BY <1>1, <1>4, CleanedOrFailed
<1> HIDE DEF d, r
<1>6. at'[g] = "put" /\ \A h \in Users : h # g => at'[h] = at[h]
  BY <1>1, <1>2
<1>7. Suits("put", d, r)
  BY <1>5 DEF Suits
<1>8. IdleNew'
  BY <1>2 DEF CleanInv, HandedInv, IdleNew
<1> QED
  BY <1>3, <1>5, <1>6, <1>7, <1>8, OneMoves DEF CleanInv

\* g gives its connection back and the pool keeps it.
LEMMA KeepClean ==
    ASSUME CleanInv, NEW g \in Users, Keep(g)
    PROVE  HandedInv'
<1> DEFINE e == [c |-> has[g], stale |-> FALSE]
           list == <<e>> \o idle
           n == Len(list) - 1
<1>1. /\ at[g] = "put" /\ ~has[g].err /\ state[g] = {} /\ Forget(g)
      /\ at' \in Signalled([at EXCEPT ![g] = "out"])
      /\ idle' = SubSeq(list, 1, n) \/ idle' = list
  BY DEF Keep
<1>2. has[g] = Dialled
  BY <1>1 DEF CleanInv, HandedInv, Suits
<1>3. e \in NewEntries
  BY <1>2 DEF NewEntries
<1>4. idle \in Seq(NewEntries)
  BY DEF CleanInv, HandedInv, IdleNew
<1> HIDE DEF e
<1>5. list \in Seq(NewEntries) /\ n \in Nat /\ Len(list) = n + 1
  BY <1>3, <1>4
<1> HIDE DEF list, n
<1>6. SubSeq(list, 1, n) \in Seq(NewEntries)
  BY <1>5
<1>7. IdleNew'
  BY <1>1, <1>5, <1>6 DEF IdleNew
<1> QED
  BY <1>1, <1>7, ForgetClean

\* The other steps of get, and the rest of put.
LEMMA GetClean ==
    ASSUME CleanInv, NEW g \in Users,
           \/ Get(g) \/ Prune(g) \/ LookFirst(g) \/ LookAgain(g)
           \/ TestPasses(g) \/ TestFails(g) \/ DialSucceeds(g) \/ DialFails(g) \/ Drop(g)
    PROVE  HandedInv'
<1>1. at \in [Users -> Places] /\ idle \in Seq(NewEntries)
  BY DEF CleanInv, HandedInv, IdleNew, PoolInv, PoolTypeOK
<1>2. CASE Get(g)
  <2>1. at' = [at EXCEPT ![g] = "want"] /\ idle' = idle /\ UNCHANGED <<has, state>>
    BY <1>2 DEF Get, pool
  <2>2. \A h \in Users : at'[h] \in Touching => at[h] = at'[h]
    BY <1>1, <2>1 DEF Touching
  <2> QED
    BY <1>1, <2>1, <2>2, NoneTouched DEF IdleNew
<1>3. CASE Prune(g)
  <2> DEFINE n == Len(idle) - 1
  <2>1. /\ idle # <<>> /\ idle' = SubSeq(idle, 1, n) /\ at' \in Signalled(at)
        /\ UNCHANGED <<has, state>>
    BY <1>3 DEF Prune
  <2>2. n \in Nat /\ Len(idle) = n + 1
    BY <1>1, <2>1
  <2> HIDE DEF n
  <2>3. SubSeq(idle, 1, n) \in Seq(NewEntries)
    BY <1>1, <2>2
  <2>4. \A h \in Users : at'[h] \in Touching => at[h] = at'[h]
    BY <1>1, <2>1, SignalledTouching
  <2> QED
    BY <2>1, <2>3, <2>4, NoneTouched DEF IdleNew
<1>4. CASE LookFirst(g) \/ LookAgain(g)
  <2>1. Look(g, active, idle, Len(idle), at) /\ state' = state
    BY <1>4 DEF LookFirst, LookAgain
  <2> QED
    BY <1>1, <2>1, LookClean
<1>5. CASE TestFails(g)
  <2>1. PICK places \in Signalled(at) : Look(g, active - 1, idle, left[g], places)
    BY <1>5 DEF TestFails
  <2>2. state' = state
    BY <1>5 DEF TestFails
  <2>3. places \in [Users -> Places]
    BY <1>1, <2>1, SignalledSame
  <2>4. \A h \in Users : places[h] \in Touching => at[h] = places[h]
    BY <1>1, <2>1, SignalledTouching
  <2> QED
    BY <2>1, <2>2, <2>3, <2>4, LookClean
<1>6. CASE TestPasses(g)
  <2>1. has[g] = Dialled
    BY <1>6 DEF TestPasses, CleanInv, HandedInv, Suits
  <2> QED
    BY <1>6, <2>1, BorrowClean DEF TestPasses, pool
<1>7. CASE DialSucceeds(g)
  BY <1>7, BorrowClean DEF DialSucceeds, pool
<1>8. CASE DialFails(g)
  <2> DEFINE places == [at EXCEPT ![g] = "out"]
  <2>1. at' \in Signalled(places) /\ idle' = idle /\ UNCHANGED <<has, state>>
    BY <1>8 DEF DialFails
  <2>2. /\ places \in [Users -> Places] /\ places[g] = "out"
        /\ \A h \in Users : h # g => places[h] = at[h]
    BY <1>1 DEF Places
  <2> HIDE DEF places
  <2>3. \A h \in Users : at'[h] \in Touching => places[h] = at'[h]
    BY <2>1, <2>2, SignalledTouching
  <2>4. \A h \in Users : at'[h] \in Touching => at[h] = at'[h]
    BY <2>2, <2>3 DEF Touching
  <2> QED
    BY <1>1, <2>1, <2>4, NoneTouched DEF IdleNew
<1>9. CASE Drop(g)
  <2>1. Forget(g) /\ at' \in Signalled([at EXCEPT ![g] = "out"]) /\ idle' = idle
    BY <1>9 DEF Drop
  <2> QED
    BY <1>1, <2>1, ForgetClean DEF IdleNew
<1> QED
  BY <1>2, <1>3, <1>4, <1>5, <1>6, <1>7, <1>8, <1>9

LEMMA CleanStep == CleanInv /\ [PoolNext]_poolVars => CleanInv'
<1> SUFFICES ASSUME CleanInv, [PoolNext]_poolVars PROVE CleanInv'
  OBVIOUS
<1>1. PoolInv'
  BY PoolStep DEF CleanInv
<1>2. ASSUME NEW g \in Users,
             \/ Get(g) \/ Prune(g) \/ LookFirst(g) \/ LookAgain(g)
             \/ TestPasses(g) \/ TestFails(g) \/ DialSucceeds(g) \/ DialFails(g)
             \/ Uses(g) \/ CleanUp(g) \/ Keep(g) \/ Drop(g)
      PROVE  HandedInv'
  BY <1>2, GetClean, UsesClean, CleanUpClean, KeepClean
<1>3. /\ at \in [Users -> Places] /\ idle \in Seq(NewEntries)
      /\ has \in [Users -> ConnRecord] /\ state \in [Users -> ProperStates]
      /\ \A g \in Users : Suits(at[g], has[g], state[g])
  BY DEF CleanInv, HandedInv, IdleNew, PoolInv, PoolTypeOK
<1>4. CASE GrowStale
  <2>1. PICK i \in DOMAIN idle :
           idle' = [j \in DOMAIN idle |-> IF j >= i THEN [idle[j] EXCEPT !.stale = TRUE]
                                                    ELSE idle[j]]
    BY <1>4 DEF GrowStale
  <2>2. UNCHANGED <<at, has, state>>
    BY <1>4 DEF GrowStale
  <2>3. ASSUME NEW e \in NewEntries PROVE [e EXCEPT !.stale = TRUE] \in NewEntries
    BY DEF NewEntries
  <2>4. DOMAIN idle = 1..Len(idle) /\ Len(idle) \in Nat /\ \A j \in DOMAIN idle : idle[j] \in NewEntries
    BY <1>3
  <2>5. \A j \in 1..Len(idle) :
           (IF j >= i THEN [idle[j] EXCEPT !.stale = TRUE] ELSE idle[j]) \in NewEntries
    BY <2>3, <2>4
  <2>6. idle' \in Seq(NewEntries)
    BY <2>1, <2>4, <2>5
  <2> QED
    BY <1>1, <1>3, <2>2, <2>6 DEF CleanInv, HandedInv, IdleNew
<1>5. CASE ClosePool
  <2>1. /\ idle' = <<>> /\ UNCHANGED <<has, state>>
        /\ at' = [g \in Users |-> IF at[g] = "wait" THEN "woken" ELSE at[g]]
    BY <1>5 DEF ClosePool
  <2>2. IdleNew'
    BY <2>1, EmptyType DEF IdleNew
  <2>3. \A h \in Users : Suits(at'[h], has'[h], state'[h])
    BY <1>3, <2>1 DEF Suits
  <2> QED
    BY <1>1, <1>3, <2>1, <2>2, <2>3 DEF CleanInv, HandedInv
<1>6. CASE PoolRest \/ UNCHANGED poolVars
  <2>1. UNCHANGED <<idle, at, has, state>>
    BY <1>6 DEF PoolRest, poolVars
  <2> QED
    BY <1>1, <2>1 DEF CleanInv, HandedInv, IdleNew
<1> QED
  BY <1>1, <1>2, <1>4, <1>5, <1>6 DEF CleanInv, PoolNext

\* What the pool hands to its next user carries nothing over from the last: no
\* idle connection is broken, or has an open transaction, watched keys, a
\* subscription, unread replies or unsent commands, whatever commands its users
\* sent (within the rules of redis) and wherever Send, Flush, Receive and Do left
\* the count of pending replies when they called Close.
THEOREM CleanIdleCorrect == PoolSpec => []CleanIdle
<1>1. PoolInit => CleanInv
  BY PoolInit_Inv, CleanInit DEF CleanInv
<1>2. PoolSpec => []CleanInv
  BY <1>1, CleanStep, PTL DEF PoolSpec
<1>3. CleanInv => CleanIdle
  <2> SUFFICES ASSUME CleanInv, NEW i \in DOMAIN idle
               PROVE  ~idle[i].c.err /\ Clean(idle[i].c)
    BY DEF CleanIdle
  <2>1. idle[i] \in NewEntries
    BY DEF CleanInv, HandedInv, IdleNew
  <2>2. idle[i].c = Dialled
    BY <2>1 DEF NewEntries
  <2>3. ~Dialled.err
    BY DEF Dialled
  <2>4. Clean(Dialled)
    BY <2>3, DialledType DEF Clean, ConnRecord
  <2> QED
    BY <2>2, <2>3, <2>4
<1> QED
  BY <1>2, <1>3, PTL

(***************************************************************************)
(* Database access.                                                        *)
(***************************************************************************)
Pcs == {"idle", "start", "again", "pool", "restart", "drain"}

Links == [err : BOOLEAN, late : Seq(Ops \cup {"PING"})]

DbTypeOK ==
    /\ up \in BOOLEAN
    /\ links \in Seq(Links) /\ links # <<>>
    /\ pc \in Pcs
    /\ cur \in Ops \cup {NoOp}
    /\ inReConn \in BOOLEAN
    /\ opPool \in Seq(Ops)
    /\ later \in Int /\ loops \in Int /\ reconnCt \in Int
    /\ result \in [Ops -> Ops \cup {NoOp, "failed", "panic"}]
    /\ runs \in [Ops -> Nat]

(***************************************************************************)
(* The inductive invariant: a connection that can still be used owes no    *)
(* reply; only ReConn drains, and its own failures never reach OpPool; an  *)
(* operation was executed at most once when DoDbTask gets to its second Do. *)
(***************************************************************************)

LinkInv == \A i \in DOMAIN links : links[i].err \/ links[i].late = <<>>

ControlInv ==
    /\ pc \in {"start", "again", "pool"} => cur \in Ops
    /\ pc \in {"restart", "drain"} => inReConn
    /\ pc \in {"idle", "pool"} => ~inReConn

\* A message handler's DoDbTask is at op.
Running(op) == pc \in {"start", "again", "pool"} /\ cur = op /\ ~inReConn

RunInv ==
    \A op \in Ops :
        /\ result[op] \in {NoOp, op, "failed", "panic"}
        /\ runs[op] <= 2
        /\ Running(op) /\ pc # "pool" => runs[op] <= 1
        /\ result[op] = NoOp /\ ~Running(op) => runs[op] = 0
        /\ result[op] = op => runs[op] >= 1

DbInv == DbTypeOK /\ LinkInv /\ ControlInv /\ RunInv

\* conn.Do: the reply it reads is that of its own command, which redis has then
\* executed, and the connection owes no reply unless it broke.
LEMMA DoesOwn ==
    ASSUME NEW l \in Links, l.err \/ l.late = <<>>, NEW what \in Ops \cup {"PING"},
           NEW o \in Does(l, what)
    PROVE  /\ o.link \in Links /\ (o.link.err \/ o.link.late = <<>>)
           /\ o.got \in {NoOp, what} /\ o.ran \in BOOLEAN
           /\ o.got # NoOp => o.ran
<1>1. l.err \in BOOLEAN /\ l.late \in Seq(Ops \cup {"PING"})
  BY DEF Links
<1>2. CASE l.err
  <2>1. o = Outcome(l, NoOp, FALSE)
    BY <1>2 DEF Does
  <2> QED
    BY <1>2, <2>1 DEF Outcome
<1>3. CASE ~l.err
  <2>1. l.late = <<>>
    BY <1>3
  <2>2. Append(l.late, what) = <<what>> /\ Head(<<what>>) = what /\ Tail(<<what>>) = <<>>
    BY <2>1
  <2>3. [l EXCEPT !.late = <<>>] = l
    BY <2>1 DEF Links
  <2>4. o \in {Outcome(Broken(l, <<>>), NoOp, FALSE), Outcome(l, what, TRUE),
               Outcome(l, NoOp, FALSE), Outcome(Broken(l, <<what>>), NoOp, TRUE)}
    BY <1>3, <2>1, <2>2, <2>3 DEF Does
  <2>5. <<what>> \in Seq(Ops \cup {"PING"}) /\ <<>> \in Seq(Ops \cup {"PING"})
    OBVIOUS
  <2>6. Broken(l, <<>>) \in Links /\ Broken(l, <<what>>) \in Links
    BY <2>5 DEF Broken, Links
  <2>7. Broken(l, <<>>).err /\ Broken(l, <<what>>).err
    BY DEF Broken
  <2>8. CASE o = Outcome(Broken(l, <<>>), NoOp, FALSE)
    BY <2>6, <2>7, <2>8 DEF Outcome
  <2>9. CASE o = Outcome(l, what, TRUE)
    BY <2>1, <2>9 DEF Outcome
  <2>10. CASE o = Outcome(l, NoOp, FALSE)
    BY <2>1, <2>10 DEF Outcome
  <2>11. CASE o = Outcome(Broken(l, <<what>>), NoOp, TRUE)
    BY <2>6, <2>7, <2>11 DEF Outcome
  <2> QED
    BY <2>4, <2>8, <2>9, <2>10, <2>11
<1> QED
  BY <1>2, <1>3

LEMMA DbInit_Inv == DbInit => DbInv
<1> SUFFICES ASSUME DbInit PROVE DbInv
  OBVIOUS
<1> USE DEF DbInit
<1> DEFINE l == [err |-> FALSE, late |-> <<>>]
<1>1. l \in Links
  BY DEF Links
<1>2. links = <<l>> /\ links \in Seq(Links) /\ links # <<>>
  BY <1>1
<1>3. LinkInv
  BY <1>2 DEF LinkInv
<1>4. DbTypeOK
  <2>1. up \in BOOLEAN /\ inReConn \in BOOLEAN
    OBVIOUS
  <2>2. opPool \in Seq(Ops) /\ pc \in Pcs /\ cur \in Ops \cup {NoOp}
    BY DEF Pcs
  <2>3. runs \in [Ops -> Nat] /\ result \in [Ops -> Ops \cup {NoOp, "failed", "panic"}]
    OBVIOUS
  <2>4. later \in Int /\ loops \in Int /\ reconnCt \in Int
    OBVIOUS
  <2> HIDE DEF DbInit
  <2> QED
    BY <1>2, <2>1, <2>2, <2>3, <2>4 DEF DbTypeOK
<1>5. ControlInv /\ RunInv
  BY OpsAssumption DEF ControlInv, RunInv, Running, NoOp
<1> QED
  BY <1>3, <1>4, <1>5 DEF DbInv

\* One Do on one of the connections keeps all of them in order.
LEMMA LinksStep ==
    ASSUME DbTypeOK, LinkInv, NEW i \in DOMAIN links, NEW what \in Ops \cup {"PING"},
           NEW o \in Does(links[i], what), links' = [links EXCEPT ![i] = o.link]
    PROVE  links' \in Seq(Links) /\ links' # <<>> /\ LinkInv'
<1>1. o.link \in Links /\ (o.link.err \/ o.link.late = <<>>)
  <2>1. links[i] \in Links /\ (links[i].err \/ links[i].late = <<>>)
    BY DEF DbTypeOK, LinkInv
  <2> QED
    BY <2>1, DoesOwn
<1>2. links' \in Seq(Links) /\ links' # <<>> /\ DOMAIN links' = DOMAIN links
  BY <1>1 DEF DbTypeOK
<1>3. \A j \in DOMAIN links : links'[j] = IF j = i THEN o.link ELSE links[j]
  BY DEF DbTypeOK
<1> QED
  BY <1>1, <1>2, <1>3 DEF LinkInv

LEMMA StartStep ==
    ASSUME DbTypeOK, LinkInv, NEW ok \in BOOLEAN, Start(ok)
    PROVE  links' \in Seq(Links) /\ links' # <<>> /\ LinkInv'
<1>1. CASE ok
  <2> DEFINE l == [err |-> FALSE, late |-> <<>>]
  <2>1. l \in Links /\ links' = Append(links, l) /\ links \in Seq(Links)
    BY <1>1 DEF Links, Start, DbTypeOK
  <2>2. l.late = <<>>
    OBVIOUS
  <2> HIDE DEF l, Links
  <2>3. /\ links' \in Seq(Links) /\ links' # <<>> /\ DOMAIN links' = 1..Len(links)+1
        /\ DOMAIN links = 1..Len(links) /\ links'[Len(links)+1] = l
        /\ \A j \in 1..Len(links) : links'[j] = links[j]
    BY <2>1
  <2>4. \A j \in DOMAIN links' : j \in DOMAIN links \/ j = Len(links)+1
    BY <2>1, <2>3
  <2> QED
    BY <2>2, <2>3, <2>4 DEF LinkInv
<1>2. CASE ~ok
  BY <1>2 DEF Start, DbTypeOK, LinkInv
<1> QED
  BY <1>1, <1>2

\* The first Do of op, for a message handler or from ReConn's loop.
LEMMA FirstDoStep ==
    ASSUME DbInv, NEW op \in Ops, NEW o \in Does(links[Current], op), FirstDo(op, o),
           UNCHANGED <<up, inReConn, later, loops>>, opPool' \in Seq(Ops),
           \/ pc = "idle" /\ result[op] = NoOp
           \/ pc = "drain"
    PROVE  DbInv'
<1> USE OpsAssumption DEF DbInv
<1>1. Current \in DOMAIN links /\ links[Current] \in Links
      /\ (links[Current].err \/ links[Current].late = <<>>)
  BY DEF Current, DbTypeOK, LinkInv
<1>2. links' = [links EXCEPT ![Current] = o.link] /\ cur' = op
  BY DEF FirstDo, Execute
<1>3. links' \in Seq(Links) /\ links' # <<>> /\ LinkInv'
  BY <1>1, <1>2, LinksStep
<1>4. o.got \in {NoOp, op} /\ o.ran \in BOOLEAN /\ (o.got # NoOp => o.ran) /\ op # NoOp
  BY <1>1, DoesOwn
<1>5. CASE inReConn
  <2>1. /\ pc = "drain" /\ pc' \in {"start", "drain"} /\ inReConn' /\ runs' = runs
        /\ result' = result /\ reconnCt' \in {0, reconnCt}
    BY <1>5 DEF FirstDo, Execute, ControlInv
  <2>2. DbTypeOK'
    BY <1>2, <1>3, <2>1 DEF DbTypeOK, Pcs
  <2>3. ControlInv'
    BY <1>2, <2>1 DEF ControlInv
  <2>4. RunInv'
    BY <1>5, <2>1 DEF RunInv, Running
  <2> QED
    BY <1>3, <2>2, <2>3, <2>4
<1>6. CASE ~inReConn
  <2>1. pc = "idle" /\ result[op] = NoOp /\ ~inReConn'
    BY <1>6 DEF ControlInv
  <2>0. runs[op] = 0
    BY <2>1 DEF RunInv, Running
  <2>2. runs' = IF o.ran THEN [runs EXCEPT ![op] = 1] ELSE runs
    <3>1. runs' = IF o.ran THEN [runs EXCEPT ![op] = @ + 1] ELSE runs
      BY <1>2, <1>6 DEF FirstDo, Execute
    <3> QED
      BY <2>0, <3>1 DEF DbTypeOK
  <2>3. CASE o.got = NoOp
    <3>1. pc' = "start" /\ reconnCt' = reconnCt /\ result' = result
      BY <2>3 DEF FirstDo
    <3>2. DbTypeOK'
      BY <1>2, <1>3, <2>2, <3>1 DEF DbTypeOK, Pcs
    <3>3. ControlInv'
      BY <1>2, <3>1 DEF ControlInv
    <3>4. RunInv'
      <4>1. \A q \in Ops : q # op => runs'[q] = runs[q] /\ ~Running(q) /\ ~Running(q)'
        BY <1>2, <2>1, <2>2 DEF Running, DbTypeOK
      <4>2. runs'[op] \in {0, 1} /\ Running(op)'
        BY <1>2, <1>6, <2>0, <2>1, <2>2, <3>1 DEF Running, DbTypeOK
      <4> QED
        BY <2>1, <3>1, <4>1, <4>2 DEF RunInv
    <3> QED
      BY <1>3, <3>2, <3>3, <3>4
  <2>4. CASE o.got = op
    <3>1. /\ pc' = "idle" /\ reconnCt' = 0 /\ result' = [result EXCEPT ![op] = op]
          /\ runs' = [runs EXCEPT ![op] = 1]
      BY <1>4, <1>6, <2>2, <2>4 DEF FirstDo
    <3>2. DbTypeOK'
      BY <1>2, <1>3, <3>1 DEF DbTypeOK, Pcs
    <3>3. ControlInv'
      BY <2>1, <3>1 DEF ControlInv
    <3>4. RunInv'
      <4>1. \A q \in Ops : q # op => /\ runs'[q] = runs[q] /\ result'[q] = result[q]
                                     /\ ~Running(q) /\ ~Running(q)'
        BY <2>1, <3>1 DEF Running, DbTypeOK
      <4>2. runs'[op] = 1 /\ result'[op] = op /\ ~Running(op)'
        BY <3>1 DEF Running, DbTypeOK
      <4> QED
        BY <4>1, <4>2 DEF RunInv
    <3> QED
      BY <1>3, <3>2, <3>3, <3>4
  <2> QED
    BY <1>4, <2>3, <2>4
<1> QED
  BY <1>5, <1>6, OpsAssumption DEF DbTypeOK

\* The second Do: the last one of this call.
LEMMA AgainStep ==
    ASSUME DbInv, DoDbTaskAgain
    PROVE  DbInv'
<1> USE OpsAssumption DEF DbInv
<1>1. PICK o \in Does(links[Current], cur) :
        /\ links' = [links EXCEPT ![Current] = o.link]
        /\ runs' = IF o.ran /\ ~inReConn THEN [runs EXCEPT ![cur] = @ + 1] ELSE runs
        /\ CASE o.got # NoOp -> Leave(o.got) /\ UNCHANGED inReConn
             [] o.got = NoOp /\ inReConn -> Leave("panic") /\ inReConn' = FALSE
             [] OTHER -> pc' = "pool" /\ UNCHANGED <<cur, result, inReConn>>
  BY DEF DoDbTaskAgain
<1>2. pc = "again" /\ cur \in Ops /\ UNCHANGED <<up, opPool, later, loops, reconnCt>>
  BY DEF DoDbTaskAgain, ControlInv
<1>3. Current \in DOMAIN links /\ links[Current] \in Links
      /\ (links[Current].err \/ links[Current].late = <<>>)
  BY DEF Current, DbTypeOK, LinkInv
<1>4. links' \in Seq(Links) /\ links' # <<>> /\ LinkInv'
  BY <1>1, <1>2, <1>3, LinksStep
<1>5. o.got \in {NoOp, cur} /\ o.ran \in BOOLEAN /\ (o.got # NoOp => o.ran) /\ cur # NoOp
  BY <1>2, <1>3, DoesOwn
<1>6. CASE inReConn
  <2>1. /\ runs' = runs /\ result' = result /\ cur' = NoOp
        /\ \/ pc' = "drain" /\ inReConn' = inReConn
           \/ pc' = "idle" /\ inReConn' = FALSE
    <3>1. CASE o.got = NoOp
      BY <1>1, <1>2, <1>6, <3>1 DEF Leave
    <3>2. CASE o.got = cur
      <4>1. Leave(o.got) /\ inReConn' = inReConn /\ o.got # "panic"
        BY <1>1, <1>2, <1>5, <3>2
      <4> QED
        BY <1>1, <1>6, <4>1 DEF Leave
    <3> QED
      BY <1>5, <3>1, <3>2
  <2>2. DbTypeOK'
    BY <1>2, <1>4, <1>6, <2>1 DEF DbTypeOK, Pcs
  <2>3. ControlInv'
    BY <1>6, <2>1 DEF ControlInv
  <2>4. RunInv'
    BY <1>6, <2>1 DEF RunInv, Running
  <2> QED
    BY <1>4, <2>2, <2>3, <2>4
<1>7. CASE ~inReConn
  <2>1. Running(cur) /\ runs[cur] \in Nat /\ runs[cur] <= 1
    BY <1>2, <1>7 DEF Running, RunInv, DbTypeOK
  <2>2. runs' = IF o.ran THEN [runs EXCEPT ![cur] = @ + 1] ELSE runs
    BY <1>1, <1>7
  <2>3. \A q \in Ops : q # cur => runs'[q] = runs[q] /\ ~Running(q)
    BY <2>2 DEF Running, DbTypeOK
  <2>4. /\ runs' \in [Ops -> Nat] /\ runs'[cur] \in Nat /\ runs'[cur] <= 2
        /\ runs'[cur] >= runs[cur] /\ (o.ran => runs'[cur] >= 1)
    BY <1>2, <2>1, <2>2 DEF DbTypeOK
  <2>5. CASE o.got = NoOp
    <3>1. pc' = "pool" /\ cur' = cur /\ result' = result /\ inReConn' = inReConn
      BY <1>1, <1>7, <2>5
    <3>2. DbTypeOK'
      BY <1>2, <1>4, <2>4, <3>1 DEF DbTypeOK, Pcs
    <3>3. ControlInv'
      BY <1>2, <1>7, <3>1 DEF ControlInv
    <3>4. RunInv'
      <4>1. \A q \in Ops : Running(q)' <=> q = cur
        BY <1>7, <3>1 DEF Running
      <4> QED
        BY <2>1, <2>3, <2>4, <3>1, <4>1 DEF RunInv, DbTypeOK
    <3> QED
      BY <1>4, <3>2, <3>3, <3>4
  <2>6. CASE o.got = cur
    <3>1. /\ pc' = "idle" /\ cur' = NoOp /\ inReConn' = inReConn
          /\ result' = [result EXCEPT ![cur] = cur]
      BY <1>1, <1>2, <1>5, <1>7, <2>6 DEF Leave
    <3>2. DbTypeOK'
      BY <1>2, <1>4, <2>4, <3>1 DEF DbTypeOK, Pcs
    <3>3. ControlInv'
      BY <1>7, <3>1 DEF ControlInv
    <3>4. RunInv'
      <4>1. \A q \in Ops : ~Running(q)'
        BY <3>1 DEF Running
      <4>2. result'[cur] = cur /\ \A q \in Ops : q # cur => result'[q] = result[q]
        BY <1>2, <3>1 DEF DbTypeOK
      <4> QED
        BY <1>2, <1>5, <2>3, <2>4, <2>6, <4>1, <4>2 DEF RunInv, DbTypeOK
    <3> QED
      BY <1>4, <3>2, <3>3, <3>4
  <2> QED
    BY <1>5, <2>5, <2>6
<1> QED
  BY <1>6, <1>7

\* Start panics: DoDbTask ends, and ReConn if it was the caller.
LEMMA StartPanics ==
    ASSUME DbInv, pc = "start", Leave("panic"), inReConn' = FALSE,
           UNCHANGED <<links, up, opPool, later, loops, reconnCt, runs>>
    PROVE  DbInv'
<1> USE OpsAssumption DEF DbInv
<1>1. pc' = "idle" /\ cur' = NoOp /\ cur \in Ops
      /\ result' = IF inReConn THEN result ELSE [result EXCEPT ![cur] = "panic"]
  BY DEF Leave, ControlInv
<1>2. DbTypeOK'
  BY <1>1 DEF DbTypeOK, Pcs
<1>3. LinkInv' /\ ControlInv'
  BY <1>1 DEF LinkInv, ControlInv
<1>4. RunInv'
  <2>1. \A q \in Ops : ~Running(q)'
    BY <1>1 DEF Running
  <2>2. CASE inReConn
    BY <1>1, <2>1, <2>2 DEF RunInv, Running
  <2>3. CASE ~inReConn
    <3>1. result'[cur] = "panic" /\ \A q \in Ops : q # cur => result'[q] = result[q] /\ ~Running(q)
      BY <1>1, <2>3 DEF DbTypeOK, Running
    <3> QED
      BY <1>1, <2>1, <3>1 DEF RunInv, NoOp
  <2> QED
    BY <2>2, <2>3
<1> QED
  BY <1>2, <1>3, <1>4

\* An operation that failed twice is put aside.
LEMMA DbPoolStep == DbInv /\ Pool => DbInv'
<1> SUFFICES ASSUME DbInv, Pool PROVE DbInv'
  OBVIOUS
<1> USE OpsAssumption DEF DbInv
<1>1. /\ pc = "pool" /\ ~inReConn /\ cur \in Ops /\ opPool' = Append(opPool, cur)
      /\ later' = later + 1 /\ UNCHANGED <<up, links, inReConn, loops, reconnCt, runs>>
  BY DEF Pool, ControlInv
<1>2. pc' = "idle" /\ cur' = NoOp /\ result' = [result EXCEPT ![cur] = "failed"]
  BY <1>1 DEF Pool, Leave
<1>3. DbTypeOK'
  BY <1>1, <1>2 DEF DbTypeOK, Pcs
<1>4. LinkInv' /\ ControlInv'
  BY <1>1, <1>2 DEF LinkInv, ControlInv
<1>5. RunInv'
  <2>1. \A q \in Ops : ~Running(q)'
    BY <1>2 DEF Running
  <2>2. result'[cur] = "failed" /\ \A q \in Ops : q # cur => result'[q] = result[q] /\ ~Running(q)
    BY <1>1, <1>2 DEF DbTypeOK, Running
  <2> QED
    BY <1>1, <2>1, <2>2 DEF RunInv, NoOp
<1> QED
  BY <1>3, <1>4, <1>5

LEMMA DbStep == DbInv /\ [DbNext]_dbVars => DbInv'
<1> SUFFICES ASSUME DbInv, [DbNext]_dbVars PROVE DbInv'
  OBVIOUS
<1> USE DbAssumption, OpsAssumption DEF DbInv
<1>1. ASSUME NEW op \in Ops, DoDbTask(op) PROVE DbInv'
  <2>1. PICK o \in Does(links[Current], op) : FirstDo(op, o)
    BY <1>1 DEF DoDbTask
  <2> QED
    BY <1>1, <2>1, FirstDoStep DEF DoDbTask, DbTypeOK
<1>2. ASSUME NEW ok \in BOOLEAN, DoDbTaskStart(ok) PROVE DbInv'
  <2>1. links' \in Seq(Links) /\ links' # <<>> /\ LinkInv'
    BY <1>2, StartStep DEF DoDbTaskStart
  <2>2. CASE ok
    <3>1. pc = "start" /\ pc' = "again"
          /\ UNCHANGED <<cur, inReConn, result, up, opPool, later, loops, reconnCt, runs>>
      BY <1>2, <2>2 DEF DoDbTaskStart
    <3>2. DbTypeOK' /\ ControlInv'
      BY <2>1, <3>1 DEF DbTypeOK, ControlInv, Pcs
    <3>3. RunInv'
      BY <3>1 DEF RunInv, Running
    <3> QED
      BY <2>1, <3>2, <3>3
  <2>3. CASE ~ok
    BY <1>2, <2>3, StartPanics DEF DoDbTaskStart, Start
  <2> QED
    BY <2>2, <2>3
<1>3. ASSUME NEW ok \in BOOLEAN, ReConnStart(ok) PROVE DbInv'
  <2>1. links' \in Seq(Links) /\ links' # <<>> /\ LinkInv'
    BY <1>3, StartStep DEF ReConnStart
  <2>2. /\ pc = "restart" /\ inReConn /\ inReConn' = ok /\ pc' = IF ok THEN "drain" ELSE "idle"
        /\ UNCHANGED <<up, cur, opPool, later, loops, reconnCt, result, runs>>
    BY <1>3 DEF ReConnStart, ControlInv
  <2>3. DbTypeOK' /\ ControlInv'
    BY <2>1, <2>2 DEF DbTypeOK, ControlInv, Pcs
  <2>4. RunInv'
    BY <2>2 DEF RunInv, Running
  <2> QED
    BY <2>1, <2>3, <2>4
<1>4. CASE DoDbTaskAgain
  BY <1>4, AgainStep
<1>5. CASE Pool
  BY <1>5, DbPoolStep
<1>6. ASSUME pc = "idle", NEW ct \in Int, ReConn(ct), later' \in Int, reconnCt' \in Int,
             UNCHANGED <<up, links, cur, opPool, result, runs>>
      PROVE  DbInv'
  <2>1. \/ pc' = pc /\ inReConn' = inReConn /\ loops' = loops + 1
        \/ pc' = "restart" /\ inReConn' = TRUE /\ loops' = loops
    BY <1>6 DEF ReConn
  <2>2. /\ DbTypeOK'
        /\ ControlInv'
        /\ LinkInv'
    <3>1. DbTypeOK'
      <4>1. pc' \in Pcs /\ inReConn' \in BOOLEAN /\ loops' \in Int
        <5>1. pc' \in Pcs /\ inReConn' \in BOOLEAN
          BY <2>1, Zenon DEF DbTypeOK, Pcs
        <5>2. loops' \in Int
          BY <2>1, SMT DEF DbTypeOK
        <5> QED
          BY <5>1, <5>2
      <4>2. UNCHANGED <<up, links, cur, opPool, result, runs>> /\ later' \in Int /\ reconnCt' \in Int
        BY <1>6
      <4> HIDE DEF Pcs
      <4> QED
        BY <4>1, <4>2 DEF DbTypeOK
    <3>2. ControlInv'
      BY <1>6, <2>1 DEF ControlInv
    <3>3. LinkInv'
      BY <1>6 DEF LinkInv
    <3> QED
      BY <3>1, <3>2, <3>3
  <2>3. RunInv'
    BY <1>6, <2>1 DEF RunInv, Running
  <2> QED
    BY <2>2, <2>3
<1>7. CASE LaterFires
  BY <1>6, <1>7 DEF LaterFires, DbTypeOK
<1>8. CASE LoopFires
  BY <1>6, <1>8 DEF LoopFires, DbTypeOK
<1>9. CASE Drain
  <2>1. CASE opPool = <<>>
    <3>1. /\ pc = "drain" /\ pc' = "idle" /\ inReConn' = FALSE /\ inReConn
          /\ reconnCt' = reconnCt + 1
          /\ UNCHANGED <<links, cur, opPool, result, runs, up, later, loops>>
      BY <1>9, <2>1 DEF Drain, ControlInv
    <3>2. DbTypeOK' /\ ControlInv' /\ LinkInv'
      <4>1. DbTypeOK'
        <5>1. pc' \in Pcs /\ inReConn' \in BOOLEAN /\ reconnCt' \in Int
          <6>1. pc' \in Pcs /\ inReConn' \in BOOLEAN
            BY <3>1, Zenon DEF Pcs
          <6>2. reconnCt' \in Int
            BY <3>1, SMT DEF DbTypeOK
          <6> QED
            BY <6>1, <6>2
        <5> QED
          BY <3>1, <5>1 DEF DbTypeOK
      <4>2. ControlInv'
        BY <3>1 DEF ControlInv
      <4>3. LinkInv'
        BY <3>1 DEF LinkInv
      <4> QED
        BY <4>1, <4>2, <4>3
    <3>3. RunInv'
      BY <3>1 DEF RunInv, Running
    <3> QED
      BY <3>2, <3>3
  <2>2. CASE opPool # <<>>
    <3>1. Head(opPool) \in Ops /\ Tail(opPool) \in Seq(Ops)
      BY <2>2 DEF DbTypeOK
    <3>2. PICK o \in Does(links[Current], Head(opPool)) : FirstDo(Head(opPool), o)
      BY <1>9, <2>2 DEF Drain
    <3> QED
      BY <1>9, <2>2, <3>1, <3>2, FirstDoStep DEF Drain
  <2> QED
    BY <2>1, <2>2
<1>10. CASE Ping
  <2>1. PICK o \in Does(links[1], "PING") : links' = [links EXCEPT ![1] = o.link]
    BY <1>10 DEF Ping
  <2>2. 1 \in DOMAIN links
    BY DEF DbTypeOK
  <2>3. links' \in Seq(Links) /\ links' # <<>> /\ LinkInv'
    BY <2>1, <2>2, LinksStep
  <2>4. UNCHANGED <<up, pc, cur, inReConn, opPool, later, loops, reconnCt, result, runs>>
    BY <1>10 DEF Ping
  <2> QED
    BY <2>3, <2>4 DEF DbTypeOK, ControlInv, RunInv, Running
<1>11. CASE RedisDown \/ RedisUp
  <2>1. /\ up' \in BOOLEAN
        /\ UNCHANGED <<links, pc, cur, inReConn, opPool, later, loops, reconnCt, result, runs>>
    BY <1>11 DEF RedisDown, RedisUp
  <2> QED
    BY <2>1 DEF DbTypeOK, LinkInv, ControlInv, RunInv, Running
<1>12. CASE UNCHANGED dbVars
  BY <1>12 DEF dbVars, DbTypeOK, LinkInv, ControlInv, RunInv, Running
<1> QED
  BY <1>1, <1>2, <1>3, <1>4, <1>5, <1>7, <1>8, <1>9, <1>10, <1>11, <1>12 DEF DbNext

LEMMA DbInvariant == DbSpec => []DbInv
<1> QED BY DbInit_Inv, DbStep, PTL DEF DbSpec

\* The reply DoDbTask returns is the one to its own command, never a late one
\* of an earlier command or of a PING, and redis executed it at least once and,
\* with Start and ReConn in between, at most twice.
THEOREM DbOwnReplyCorrect == DbSpec => []DbOwnReply
<1>1. DbInv => DbOwnReply
  BY DEF DbInv, RunInv, DbOwnReply
<1> QED BY <1>1, DbInvariant, PTL

(***************************************************************************)
(* The multiplexer.                                                        *)
(***************************************************************************)

\* Lists of numbers.
Has(s, n) == \E i \in DOMAIN s : s[i] = n

Increasing(s) == \A i, j \in DOMAIN s : i < j => s[i] < s[j]

MuxTypeOK ==
    /\ place \in [Muxers -> {"run", "lock", "blocked", "relock", "read", "pass"}]
    /\ ids \in [Muxers -> Seq(Nat)]
    /\ turn \in [Muxers -> Nat]
    /\ sends \in [Muxers -> Nat]
    /\ ended \in [Muxers -> BOOLEAN]
    /\ sendID \in Nat /\ recvID \in Nat
    /\ recvWait \in SUBSET Nat /\ recvMu \in SUBSET Muxers
    /\ buffered \in Seq(Nat) /\ stream \in Seq(Nat)
    /\ broken \in BOOLEAN

\* m is in Receive for the number turn[m].
Receiving(m) == place[m] \in {"lock", "blocked", "relock", "read"}

\* m has still to receive the reply to command n.
Holds(m, n) == Has(ids[m], n) \/ (Receiving(m) /\ turn[m] = n)

\* Every command that has been written and not answered is held by one goroutine.
OwnerInv ==
    /\ \A n \in Nat : recvID <= n /\ n < sendID => \E m \in Muxers : Holds(m, n)
    /\ \A m \in Muxers, n \in Nat : Holds(m, n) => recvID <= n /\ n < sendID
    /\ \A m, w \in Muxers, n \in Nat : Holds(m, n) /\ Holds(w, n) => m = w

\* A goroutine's commands ascend, and the one it receives is no longer listed.
AscendingInv ==
    \A m \in Muxers : /\ Increasing(ids[m])
                      /\ Receiving(m) => ~Has(ids[m], turn[m])

\* Who was woken or reads has the turn; at most one passes it on, to a goroutine
\* that is blocked; any other that is blocked has left its channel in recvWait.
TurnInv ==
    /\ recvID <= sendID
    /\ \A m \in Muxers :
          /\ place[m] \in {"relock", "read"} => turn[m] = recvID
          /\ place[m] = "read" => recvMu = {m}
          /\ place[m] = "pass" => /\ turn[m] + 1 = recvID
                                  /\ \E w \in Muxers : place[w] = "blocked" /\ turn[w] = recvID
          /\ place[m] = "blocked" =>
                \/ turn[m] \in recvWait
                \/ turn[m] = recvID /\ \E w \in Muxers : place[w] = "pass"
    /\ \A m, w \in Muxers : place[m] = "pass" /\ place[w] = "pass" => m = w

\* A channel in recvWait is that of a goroutine that blocks and is not yet due.
WaitInv ==
    \A n \in recvWait : n > recvID /\ \E m \in Muxers : place[m] = "blocked" /\ turn[m] = n

Numbered(q, from, to) == Len(q) = to - from /\ \A i \in 1..Len(q) : q[i] = from + i - 1

\* As long as the connection works, the replies to come are the ones that are due.
StreamInv == ~broken => Numbered(stream \o buffered, recvID, sendID)

MuxInv == MuxTypeOK /\ OwnerInv /\ AscendingInv /\ TurnInv /\ WaitInv /\ StreamInv

LEMMA AppendHas ==
  ASSUME NEW s \in Seq(Nat), NEW x \in Nat
  PROVE  /\ Append(s, x) \in Seq(Nat)
         /\ \A n \in Nat : Has(Append(s, x), n) <=> Has(s, n) \/ n = x
         /\ Increasing(s) /\ (\A n \in Nat : Has(s, n) => n < x) => Increasing(Append(s, x))
<1> DEFINE t == Append(s, x)
<1>1. /\ t \in Seq(Nat) /\ Len(s) \in Nat /\ Len(t) = Len(s) + 1
      /\ DOMAIN s = 1..Len(s) /\ DOMAIN t = 1..Len(t)
      /\ \A i \in 1..Len(s) : t[i] = s[i] /\ s[i] \in Nat
      /\ t[Len(s) + 1] = x
  OBVIOUS
<1> HIDE DEF t
<1>2. ASSUME NEW n \in Nat PROVE Has(t, n) <=> Has(s, n) \/ n = x
  BY <1>1 DEF Has
<1>3. ASSUME Increasing(s), \A n \in Nat : Has(s, n) => n < x PROVE Increasing(t)
  <2>1. \A i \in 1..Len(s) : s[i] < x
    BY <1>1, <1>3 DEF Has
  <2> QED
    BY <1>1, <1>3, <2>1, SMTT(30) DEF Increasing
<1> QED BY <1>1, <1>2, <1>3 DEF t

LEMMA HeadHas ==
  ASSUME NEW s \in Seq(Nat), s # <<>>, Increasing(s)
  PROVE  /\ Head(s) \in Nat /\ Tail(s) \in Seq(Nat)
         /\ \A n \in Nat : Has(s, n) <=> Has(Tail(s), n) \/ n = Head(s)
         /\ Increasing(Tail(s)) /\ ~Has(Tail(s), Head(s))
<1> DEFINE t == Tail(s)
<1>1. /\ t \in Seq(Nat) /\ Len(s) \in Nat /\ Len(s) > 0 /\ Len(t) = Len(s) - 1
      /\ DOMAIN s = 1..Len(s) /\ DOMAIN t = 1..Len(t)
      /\ \A i \in 1..Len(t) : t[i] = s[i + 1]
      /\ \A i \in 1..Len(s) : s[i] \in Nat
      /\ Head(s) = s[1]
  OBVIOUS
<1> HIDE DEF t
<1>2. ASSUME NEW n \in Nat PROVE Has(s, n) <=> Has(t, n) \/ n = Head(s)
  <2>1. ASSUME NEW i \in DOMAIN s, s[i] = n, i # 1 PROVE Has(t, n)
    <3>1. i - 1 \in DOMAIN t /\ t[i - 1] = n
      BY <1>1, <2>1
    <3> QED BY <3>1 DEF Has
  <2>2. ASSUME NEW i \in DOMAIN t, t[i] = n PROVE Has(s, n)
    <3>1. i + 1 \in DOMAIN s /\ s[i + 1] = n
      BY <1>1, <2>2
    <3> QED BY <3>1 DEF Has
  <2>3. 1 \in DOMAIN s
    BY <1>1
  <2> QED BY <1>1, <2>1, <2>2, <2>3 DEF Has
<1>3. Increasing(t)
  <2> SUFFICES ASSUME NEW i \in 1..Len(t), NEW j \in 1..Len(t), i < j PROVE t[i] < t[j]
    BY <1>1 DEF Increasing
  <2>1. i \in Int /\ j \in Int /\ i + 1 \in 1..Len(s) /\ j + 1 \in 1..Len(s)
    BY <1>1
  <2>2. s[i + 1] < s[j + 1]
    <3>1. i + 1 \in DOMAIN s /\ j + 1 \in DOMAIN s
      BY <1>1, <2>1
    <3>2. i + 1 < j + 1
      BY <2>1
    <3> QED BY <3>1, <3>2 DEF Increasing
  <2>3. t[i] = s[i + 1] /\ t[j] = s[j + 1]
    BY <1>1
  <2> QED BY <2>2, <2>3
<1>4. ~Has(t, Head(s))
  <2> SUFFICES ASSUME NEW i \in DOMAIN t, t[i] = Head(s) PROVE FALSE
    BY DEF Has
  <2>0. i \in 1..Len(t) /\ Len(t) \in Nat /\ Head(s) = s[1]
    BY <1>1
  <2>1. 1 \in DOMAIN s /\ i + 1 \in DOMAIN s /\ 1 < i + 1 /\ s[i + 1] = s[1] /\ s[1] \in Nat
    <3>1. t[i] = s[i + 1] /\ s[i + 1] = s[1]
      BY <1>1, <2>0
    <3>2. 1 \in DOMAIN s /\ i + 1 \in DOMAIN s /\ 1 < i + 1
      BY <1>1, <2>0
    <3> QED BY <3>1, <3>2
  <2>2. s[1] < s[i + 1]
    BY <2>1 DEF Increasing
  <2> QED BY <2>1, <2>2
<1> QED BY <1>1, <1>2, <1>3, <1>4 DEF t

(***************************************************************************)
(* The replies that are due, as a queue.                                   *)
(***************************************************************************)

LEMMA Concat ==
  ASSUME NEW s \in Seq(Nat), NEW b \in Seq(Nat), NEW x \in Nat
  PROVE  /\ s \o b \in Seq(Nat)
         /\ s \o Append(b, x) = Append(s \o b, x)
         /\ (s \o b) \o <<>> = s \o b
         /\ s # <<>> => Tail(s) \o b = Tail(s \o b)
<1>1. s \o b \in Seq(Nat)
  OBVIOUS
<1>2. s \o Append(b, x) = Append(s \o b, x)
  OBVIOUS
<1>3. (s \o b) \o <<>> = s \o b
  OBVIOUS
<1>4. s # <<>> => Tail(s) \o b = Tail(s \o b)
  OBVIOUS
<1> QED BY <1>1, <1>2, <1>3, <1>4

LEMMA Numbers ==
  ASSUME NEW q \in Seq(Nat), NEW lo \in Nat, NEW hi \in Nat, Numbered(q, lo, hi)
  PROVE  /\ Numbered(Append(q, hi), lo, hi + 1)
         /\ lo < hi => q # <<>> /\ Head(q) = lo
         /\ q # <<>> => Numbered(Tail(q), lo + 1, hi)
<1>1. Numbered(Append(q, hi), lo, hi + 1)
  BY DEF Numbered
<1>2. lo < hi => q # <<>> /\ Head(q) = lo
  BY DEF Numbered
<1>3. q # <<>> => Numbered(Tail(q), lo + 1, hi)
  BY DEF Numbered
<1> QED BY <1>1, <1>2, <1>3

(***************************************************************************)
(* Who holds which number.                                                 *)
(***************************************************************************)

\* A command is written: its writer holds the next number.
LEMMA OwnerGrows ==
  ASSUME MuxInv, NEW m \in Muxers,
         sendID' = sendID + 1, recvID' = recvID,
         \A w \in Muxers, n \in Nat : Holds(w, n)' <=> Holds(w, n) \/ (w = m /\ n = sendID)
  PROVE  OwnerInv'
<1> USE DEF MuxInv, MuxTypeOK
<1>1. sendID \in Nat /\ recvID \in Nat /\ recvID <= sendID
  BY DEF TurnInv
<1>2. ASSUME NEW n \in Nat, recvID' <= n, n < sendID' PROVE \E w \in Muxers : Holds(w, n)'
  <2>1. CASE n = sendID
    BY <2>1
  <2>2. CASE n # sendID
    <3>1. \E w \in Muxers : Holds(w, n)
      BY <1>1, <1>2, <2>2 DEF OwnerInv
    <3> QED BY <3>1
  <2> QED BY <2>1, <2>2
<1>3. ASSUME NEW w \in Muxers, NEW n \in Nat, Holds(w, n)' PROVE recvID' <= n /\ n < sendID'
  <2>1. Holds(w, n) => recvID <= n /\ n < sendID
    BY DEF OwnerInv
  <2> QED BY <1>1, <1>3, <2>1
<1>4. ASSUME NEW v \in Muxers, NEW w \in Muxers, NEW n \in Nat, Holds(v, n)', Holds(w, n)' PROVE v = w
  <2>1. n = sendID => ~Holds(v, n) /\ ~Holds(w, n)
    BY <1>1 DEF OwnerInv
  <2>2. Holds(v, n) /\ Holds(w, n) => v = w
    BY DEF OwnerInv
  <2> QED BY <1>4, <2>1, <2>2
<1> QED BY <1>2, <1>3, <1>4 DEF OwnerInv

\* Nothing is written or read.
LEMMA OwnerKept ==
  ASSUME MuxInv, sendID' = sendID, recvID' = recvID,
         \A w \in Muxers, n \in Nat : Holds(w, n)' <=> Holds(w, n)
  PROVE  OwnerInv'
<1>1. \A n \in Nat : recvID <= n /\ n < sendID => \E w \in Muxers : Holds(w, n)
  BY DEF MuxInv, OwnerInv
<1>2. \A w \in Muxers, n \in Nat : Holds(w, n) => recvID <= n /\ n < sendID
  BY DEF MuxInv, OwnerInv
<1>3. \A v, w \in Muxers, n \in Nat : Holds(v, n) /\ Holds(w, n) => v = w
  BY DEF MuxInv, OwnerInv
<1> QED BY <1>1, <1>2, <1>3 DEF OwnerInv

\* The holder of the number that is due reads the reply.
LEMMA OwnerShrinks ==
  ASSUME MuxInv, NEW m \in Muxers, Holds(m, recvID),
         sendID' = sendID, recvID' = recvID + 1,
         \A w \in Muxers, n \in Nat : Holds(w, n)' <=> Holds(w, n) /\ ~(w = m /\ n = recvID)
  PROVE  OwnerInv'
<1> USE DEF MuxInv, MuxTypeOK
<1>1. sendID \in Nat /\ recvID \in Nat
  OBVIOUS
<1>2. ASSUME NEW n \in Nat, recvID' <= n, n < sendID' PROVE \E w \in Muxers : Holds(w, n)'
  <2>1. \E w \in Muxers : Holds(w, n)
    BY <1>1, <1>2 DEF OwnerInv
  <2>2. n # recvID
    BY <1>1, <1>2
  <2> QED BY <2>1, <2>2
<1>3. ASSUME NEW w \in Muxers, NEW n \in Nat, Holds(w, n)' PROVE recvID' <= n /\ n < sendID'
  <2>1. Holds(w, n) /\ ~(w = m /\ n = recvID)
    BY <1>3
  <2>2. recvID <= n /\ n < sendID
    BY <2>1 DEF OwnerInv
  <2>3. n = recvID => w = m
    BY <2>1 DEF OwnerInv
  <2> QED BY <1>1, <2>1, <2>2, <2>3
<1>4. ASSUME NEW v \in Muxers, NEW w \in Muxers, NEW n \in Nat, Holds(v, n)', Holds(w, n)' PROVE v = w
  <2>1. Holds(v, n) /\ Holds(w, n)
    BY <1>4
  <2> QED BY <2>1 DEF OwnerInv
<1> QED BY <1>2, <1>3, <1>4 DEF OwnerInv

\* What follows for the order in which replies are read.
LEMMA Due ==
  ASSUME MuxInv, NEW m \in Muxers
  PROVE  /\ \A n \in Nat : Has(ids[m], n) => Holds(m, n)
         /\ Receiving(m) => Holds(m, turn[m]) /\ turn[m] \in Nat /\ recvID <= turn[m] /\ turn[m] < sendID
<1>1. \A n \in Nat : Has(ids[m], n) => Holds(m, n)
  BY DEF Holds
<1>2. ASSUME Receiving(m) PROVE Holds(m, turn[m]) /\ turn[m] \in Nat
  BY <1>2 DEF Holds, MuxInv, MuxTypeOK
<1> QED BY <1>1, <1>2 DEF MuxInv, OwnerInv

(***************************************************************************)
(* The steps.                                                              *)
(***************************************************************************)

\* The part of the invariant that only a receiver changes.
LEMMA TurnKept ==
  ASSUME MuxInv, UNCHANGED <<recvID, recvWait, recvMu>>, sendID' \in Nat, sendID <= sendID',
         \A w \in Muxers : (place'[w] = place[w] /\ turn'[w] = turn[w])
                              \/ (place[w] = "run" /\ place'[w] = "lock")
  PROVE  TurnInv' /\ WaitInv'
<1>1. TurnInv'
  <2>1. recvID' <= sendID'
    BY DEF MuxInv, MuxTypeOK, TurnInv
  <2>2. ASSUME NEW m \in Muxers
        PROVE  /\ place'[m] \in {"relock", "read"} => turn'[m] = recvID'
               /\ place'[m] = "read" => recvMu' = {m}
               /\ place'[m] = "pass" =>
                     /\ turn'[m] + 1 = recvID'
                     /\ \E w \in Muxers : place'[w] = "blocked" /\ turn'[w] = recvID'
               /\ place'[m] = "blocked" =>
                     \/ turn'[m] \in recvWait'
                     \/ turn'[m] = recvID' /\ \E w \in Muxers : place'[w] = "pass"
    BY DEF MuxInv, TurnInv
  <2>3. \A m, w \in Muxers : place'[m] = "pass" /\ place'[w] = "pass" => m = w
    BY DEF MuxInv, TurnInv
  <2> QED BY <2>1, <2>2, <2>3 DEF TurnInv
<1>2. WaitInv'
  BY DEF MuxInv, WaitInv
<1> QED BY <1>1, <1>2

LEMMA SendStep ==
  ASSUME MuxInv, NEW m \in Muxers, MuxSend(m)
  PROVE  MuxInv'
<1> USE DEF MuxSend
<1>1. /\ ids[m] \in Seq(Nat) /\ sendID \in Nat /\ recvID \in Nat
      /\ buffered \in Seq(Nat) /\ stream \in Seq(Nat) /\ recvID <= sendID
  BY DEF MuxInv, MuxTypeOK, TurnInv
<1>2. /\ ids'[m] \in Seq(Nat)
      /\ \A n \in Nat : Has(ids'[m], n) <=> Has(ids[m], n) \/ n = sendID
      /\ Increasing(ids'[m])
  <2>1. ids'[m] = Append(ids[m], sendID)
    BY DEF MuxInv, MuxTypeOK
  <2>2. Increasing(ids[m]) /\ \A n \in Nat : Has(ids[m], n) => n < sendID
    BY Due DEF MuxInv, AscendingInv, OwnerInv
  <2>3. /\ Append(ids[m], sendID) \in Seq(Nat) /\ Increasing(Append(ids[m], sendID))
        /\ \A n \in Nat : Has(Append(ids[m], sendID), n) <=> Has(ids[m], n) \/ n = sendID
    <3> HIDE DEF MuxSend
    <3> QED BY <1>1, <2>2, AppendHas
  <2> QED BY <2>1, <2>3
<1>3. \A w \in Muxers : w # m => ids'[w] = ids[w]
  BY DEF MuxInv, MuxTypeOK
<1>4. MuxTypeOK'
  <2>1. ids' \in [Muxers -> Seq(Nat)]
    BY <1>2 DEF MuxInv, MuxTypeOK
  <2>2. sends' \in [Muxers -> Nat] /\ sendID' \in Nat /\ buffered' \in Seq(Nat)
    BY <1>1 DEF MuxInv, MuxTypeOK
  <2> QED BY <2>1, <2>2 DEF MuxInv, MuxTypeOK
<1>5. OwnerInv'
  <2>1. \A w \in Muxers, n \in Nat : Holds(w, n)' <=> Holds(w, n) \/ (w = m /\ n = sendID)
    BY <1>2, <1>3 DEF Holds, Receiving
  <2> QED BY <2>1, OwnerGrows
<1>6. AscendingInv'
  <2>1. ASSUME NEW w \in Muxers PROVE Increasing(ids'[w])
    BY <1>2, <1>3 DEF MuxInv, AscendingInv
  <2>2. ASSUME NEW w \in Muxers, Receiving(w)' PROVE ~Has(ids'[w], turn'[w])
    BY <1>3, <2>2 DEF Receiving, MuxInv, AscendingInv
  <2> QED BY <2>1, <2>2 DEF AscendingInv
<1>7. TurnInv' /\ WaitInv'
  BY <1>1, TurnKept
<1>8. StreamInv'
  <2> SUFFICES ASSUME ~broken PROVE Numbered(stream' \o buffered', recvID', sendID')
    BY DEF StreamInv
  <2>1. Numbered(stream \o buffered, recvID, sendID)
    BY DEF MuxInv, StreamInv
  <2>2. stream' \o buffered' = Append(stream \o buffered, sendID) /\ stream \o buffered \in Seq(Nat)
    BY <1>1, Concat
  <2>3. Numbered(Append(stream \o buffered, sendID), recvID, sendID + 1)
    BY <1>1, <2>1, <2>2, Numbers
  <2> QED BY <2>2, <2>3
<1> QED BY <1>4, <1>5, <1>6, <1>7, <1>8 DEF MuxInv

\* Receive for the head of list, which m holds.
LEMMA EnterStep ==
  ASSUME MuxInv, NEW m \in Muxers, NEW list \in Seq(Nat), list # <<>>,
         place[m] = "run", Enter(m, list), Increasing(list)
  PROVE  /\ ids' \in [Muxers -> Seq(Nat)] /\ turn' \in [Muxers -> Nat]
         /\ place' \in [Muxers -> {"run", "lock", "blocked", "relock", "read", "pass"}]
         /\ AscendingInv'
         /\ \A w \in Muxers, n \in Nat :
               Holds(w, n)' <=> IF w = m THEN Has(list, n) ELSE Holds(w, n)
         /\ \A w \in Muxers : (place'[w] = place[w] /\ turn'[w] = turn[w])
                                 \/ (place[w] = "run" /\ place'[w] = "lock")
<1> USE DEF Enter
<1>1. /\ Head(list) \in Nat /\ Tail(list) \in Seq(Nat)
      /\ \A n \in Nat : Has(list, n) <=> Has(Tail(list), n) \/ n = Head(list)
      /\ Increasing(Tail(list)) /\ ~Has(Tail(list), Head(list))
  BY HeadHas
<1>2. /\ ids' \in [Muxers -> Seq(Nat)] /\ turn' \in [Muxers -> Nat]
      /\ place' \in [Muxers -> {"run", "lock", "blocked", "relock", "read", "pass"}]
  BY <1>1 DEF MuxInv, MuxTypeOK
<1>3. /\ ids'[m] = Tail(list) /\ turn'[m] = Head(list) /\ place'[m] = "lock"
      /\ \A w \in Muxers : w # m => ids'[w] = ids[w] /\ turn'[w] = turn[w] /\ place'[w] = place[w]
  BY DEF MuxInv, MuxTypeOK
<1>4. AscendingInv'
  <2>1. ASSUME NEW w \in Muxers, w = m
        PROVE  Increasing(ids'[w]) /\ (Receiving(w)' => ~Has(ids'[w], turn'[w]))
    BY <1>1, <1>3, <2>1
  <2>2. ASSUME NEW w \in Muxers, w # m
        PROVE  Increasing(ids'[w]) /\ (Receiving(w)' => ~Has(ids'[w], turn'[w]))
    BY <1>3, <2>2 DEF MuxInv, AscendingInv, Receiving
  <2> QED BY <2>1, <2>2 DEF AscendingInv
<1>5. ASSUME NEW n \in Nat PROVE Holds(m, n)' <=> Has(list, n)
  BY <1>1, <1>3 DEF Holds, Receiving
<1>6. ASSUME NEW w \in Muxers, NEW n \in Nat, w # m PROVE Holds(w, n)' <=> Holds(w, n)
  BY <1>3, <1>6 DEF Holds, Receiving
<1> QED BY <1>2, <1>3, <1>4, <1>5, <1>6

LEMMA DoStep ==
  ASSUME MuxInv, NEW m \in Muxers, MuxDo(m)
  PROVE  MuxInv'
<1> USE DEF MuxDo
<1> DEFINE list == Append(ids[m], sendID)
<1>1. /\ ids[m] \in Seq(Nat) /\ sendID \in Nat /\ recvID \in Nat
      /\ buffered \in Seq(Nat) /\ stream \in Seq(Nat) /\ recvID <= sendID
  BY DEF MuxInv, MuxTypeOK, TurnInv
<1>2. /\ list \in Seq(Nat) /\ list # <<>>
      /\ \A n \in Nat : Has(list, n) <=> Has(ids[m], n) \/ n = sendID
      /\ Increasing(list)
  <2>1. Increasing(ids[m]) /\ \A n \in Nat : Has(ids[m], n) => n < sendID
    BY Due DEF MuxInv, AscendingInv, OwnerInv
  <2>2. list # <<>>
    <3>1. Len(list) = Len(ids[m]) + 1 /\ Len(ids[m]) \in Nat
      BY <1>1
    <3> HIDE DEF list
    <3> QED BY <3>1
  <2> QED BY <1>1, <2>1, <2>2, AppendHas
<1>3. /\ ids' \in [Muxers -> Seq(Nat)] /\ turn' \in [Muxers -> Nat]
      /\ place' \in [Muxers -> {"run", "lock", "blocked", "relock", "read", "pass"}]
      /\ AscendingInv'
      /\ \A w \in Muxers, n \in Nat :
            Holds(w, n)' <=> IF w = m THEN Has(list, n) ELSE Holds(w, n)
      /\ \A w \in Muxers : (place'[w] = place[w] /\ turn'[w] = turn[w])
                              \/ (place[w] = "run" /\ place'[w] = "lock")
  <2>1. CASE broken
    <3>1. /\ ids'[m] = list /\ place' = place /\ turn' = turn
          /\ \A w \in Muxers : w # m => ids'[w] = ids[w]
      BY <2>1 DEF MuxInv, MuxTypeOK
    <3>2. ids' \in [Muxers -> Seq(Nat)]
      BY <1>2, <2>1 DEF MuxInv, MuxTypeOK
    <3>3. AscendingInv'
      <4>1. ASSUME NEW w \in Muxers PROVE Increasing(ids'[w])
        BY <1>2, <3>1 DEF MuxInv, AscendingInv
      <4>2. ASSUME NEW w \in Muxers, Receiving(w)' PROVE ~Has(ids'[w], turn'[w])
        BY <3>1, <4>2 DEF Receiving, MuxInv, AscendingInv
      <4> QED BY <4>1, <4>2 DEF AscendingInv
    <3>4. ASSUME NEW n \in Nat PROVE Holds(m, n)' <=> Has(list, n)
      BY <3>1 DEF Holds, Receiving
    <3>5. ASSUME NEW w \in Muxers, NEW n \in Nat, w # m PROVE Holds(w, n)' <=> Holds(w, n)
      BY <3>1, <3>5 DEF Holds, Receiving
    <3> QED BY <3>1, <3>2, <3>3, <3>4, <3>5 DEF MuxInv, MuxTypeOK
  <2>2. CASE ~broken
    <3>1. Enter(m, list) /\ place[m] = "run"
      BY <2>2
    <3>2. Increasing(list) /\ list \in Seq(Nat) /\ list # <<>>
      BY <1>2
    <3> HIDE DEF list, MuxDo
    <3> QED BY <3>1, <3>2, EnterStep
  <2> QED BY <2>1, <2>2
<1>4. stream' \in Seq(Nat) /\ buffered' \in Seq(Nat)
  <2>1. Append(buffered, sendID) \in Seq(Nat) /\ <<>> \in Seq(Nat)
    BY <1>1, AppendHas
  <2>2. stream \o Append(buffered, sendID) \in Seq(Nat)
    BY <1>1, <2>1, Concat
  <2> QED BY <1>1, <2>1, <2>2
<1>5. MuxTypeOK'
  <2>1. sends' \in [Muxers -> Nat] /\ sendID' \in Nat
    BY <1>1 DEF MuxInv, MuxTypeOK
  <2> QED BY <1>3, <1>4, <2>1 DEF MuxInv, MuxTypeOK
<1>6. OwnerInv'
  <2>1. \A n \in Nat : Holds(m, n) <=> Has(ids[m], n)
    BY DEF Holds, Receiving
  <2>2. \A w \in Muxers, n \in Nat : Holds(w, n)' <=> Holds(w, n) \/ (w = m /\ n = sendID)
    BY <1>2, <1>3, <2>1
  <2> QED BY <2>2, OwnerGrows
<1>7. TurnInv' /\ WaitInv'
  BY <1>1, <1>3, TurnKept
<1>8. StreamInv'
  <2> SUFFICES ASSUME ~broken PROVE Numbered(stream' \o buffered', recvID', sendID')
    BY DEF StreamInv
  <2>1. Numbered(stream \o buffered, recvID, sendID)
    BY DEF MuxInv, StreamInv
  <2>2. /\ stream \o Append(buffered, sendID) = Append(stream \o buffered, sendID)
        /\ stream \o buffered \in Seq(Nat)
    BY <1>1, Concat
  <2>3. stream' \o buffered' = Append(stream \o buffered, sendID)
    BY <1>1, <2>2
  <2>4. Numbered(Append(stream \o buffered, sendID), recvID, sendID + 1)
    BY <1>1, <2>1, <2>2, Numbers
  <2> QED BY <2>3, <2>4
<1> QED BY <1>3, <1>5, <1>6, <1>7, <1>8 DEF MuxInv

\* Steps that change neither a list nor the turn, and the replies at most by
\* moving them from the buffer to the stream or by losing them.
LEMMA QuietStep ==
  ASSUME MuxInv, MuxTypeOK',
         UNCHANGED <<place, ids, turn, sendID, recvID, recvWait, recvMu>>,
         broken' \/ (broken' = broken /\ stream' \o buffered' = stream \o buffered)
  PROVE  MuxInv'
<1>1. OwnerInv'
  <2>1. \A w \in Muxers, n \in Nat : Holds(w, n)' <=> Holds(w, n)
    BY DEF Holds, Receiving
  <2> QED BY <2>1, OwnerKept
<1>2. AscendingInv'
  BY DEF MuxInv, AscendingInv, Receiving
<1>3. TurnInv' /\ WaitInv'
  <2>1. sendID' \in Nat /\ sendID <= sendID'
    BY DEF MuxInv, MuxTypeOK
  <2> QED BY <2>1, TurnKept
<1>4. StreamInv'
  BY DEF MuxInv, StreamInv
<1> QED BY <1>1, <1>2, <1>3, <1>4 DEF MuxInv

LEMMA FlushStep ==
  ASSUME MuxInv, NEW m \in Muxers, MuxFlush(m) \/ MuxClose(m) \/ MuxBreak
  PROVE  MuxInv'
<1>1. /\ buffered \in Seq(Nat) /\ stream \in Seq(Nat) /\ <<>> \in Seq(Nat)
      /\ (stream \o buffered) \o <<>> = stream \o buffered
      /\ stream \o buffered \in Seq(Nat)
  <2>1. buffered \in Seq(Nat) /\ stream \in Seq(Nat) /\ <<>> \in Seq(Nat) /\ 0 \in Nat
    BY DEF MuxInv, MuxTypeOK
  <2> QED BY <2>1, Concat
<1>2. /\ buffered' \in Seq(Nat) /\ stream' \in Seq(Nat)
      /\ broken' \/ (broken' = broken /\ stream' \o buffered' = stream \o buffered)
      /\ broken' \in BOOLEAN
  BY <1>1 DEF MuxFlush, MuxClose, MuxBreak, MuxInv, MuxTypeOK
<1>3. UNCHANGED <<place, ids, turn, sends, sendID, recvID, recvWait, recvMu>> /\ ended' \in [Muxers -> BOOLEAN]
  BY DEF MuxFlush, MuxClose, MuxBreak, MuxInv, MuxTypeOK
<1>4. MuxTypeOK'
  BY <1>2, <1>3 DEF MuxInv, MuxTypeOK
<1> QED BY <1>2, <1>3, <1>4, QuietStep

LEMMA ReceiveStep ==
  ASSUME MuxInv, NEW m \in Muxers, MuxReceive(m)
  PROVE  MuxInv'
<1>1. ids[m] \in Seq(Nat) /\ ids[m] # <<>> /\ Increasing(ids[m]) /\ place[m] = "run" /\ Enter(m, ids[m])
  BY DEF MuxReceive, MuxInv, MuxTypeOK, AscendingInv
<1>2. /\ ids' \in [Muxers -> Seq(Nat)] /\ turn' \in [Muxers -> Nat]
      /\ place' \in [Muxers -> {"run", "lock", "blocked", "relock", "read", "pass"}]
      /\ AscendingInv'
      /\ \A w \in Muxers, n \in Nat :
            Holds(w, n)' <=> IF w = m THEN Has(ids[m], n) ELSE Holds(w, n)
      /\ \A w \in Muxers : (place'[w] = place[w] /\ turn'[w] = turn[w])
                              \/ (place[w] = "run" /\ place'[w] = "lock")
  BY <1>1, EnterStep
<1>3. UNCHANGED <<sends, ended, sendID, recvID, recvWait, recvMu, buffered, stream, broken>>
  BY DEF MuxReceive
<1>4. OwnerInv'
  <2>1. \A n \in Nat : Holds(m, n) <=> Has(ids[m], n)
    BY <1>1 DEF Holds, Receiving
  <2>2. \A w \in Muxers, n \in Nat : Holds(w, n)' <=> Holds(w, n)
    BY <1>2, <2>1
  <2> QED BY <1>3, <2>2, OwnerKept
<1>5. TurnInv' /\ WaitInv'
  <2>1. sendID' \in Nat /\ sendID <= sendID'
    BY <1>3 DEF MuxInv, MuxTypeOK
  <2> QED BY <1>2, <1>3, <2>1, TurnKept
<1>6. StreamInv'
  BY <1>3 DEF MuxInv, StreamInv
<1> QED BY <1>2, <1>3, <1>4, <1>5, <1>6 DEF MuxInv, MuxTypeOK

\* m moves on within Receive, without reading.
LEMMA WithinReceive ==
  ASSUME MuxInv, NEW f \in [Muxers -> {"run", "lock", "blocked", "relock", "read", "pass"}],
         place' = f, \A w \in Muxers : Receiving(w)' <=> Receiving(w),
         UNCHANGED <<ids, turn, sends, ended, sendID, recvID, buffered, stream, broken>>,
         recvWait' \in SUBSET Nat, recvMu' \in SUBSET Muxers, TurnInv', WaitInv'
  PROVE  MuxInv'
<1>1. OwnerInv'
  <2>1. \A w \in Muxers, n \in Nat : Holds(w, n)' <=> Holds(w, n)
    BY DEF Holds
  <2> QED BY <2>1, OwnerKept
<1>2. AscendingInv'
  BY DEF MuxInv, AscendingInv
<1>3. StreamInv'
  BY DEF MuxInv, StreamInv
<1>4. MuxTypeOK'
  BY DEF MuxInv, MuxTypeOK
<1> QED BY <1>1, <1>2, <1>3, <1>4 DEF MuxInv

LEMMA LockStep ==
  ASSUME MuxInv, NEW m \in Muxers, MuxLock(m)
  PROVE  MuxInv'
<1> USE DEF MuxLock
<1>1. /\ turn[m] \in Nat /\ recvID \in Nat /\ recvID <= turn[m]
      /\ turn' = turn /\ recvID' = recvID /\ sendID' = sendID
      /\ place[m] = "lock" /\ recvMu = {}
  BY Due DEF Receiving, MuxInv, MuxTypeOK
<1>2. \A w \in Muxers : w # m => place'[w] = place[w]
  BY DEF MuxInv, MuxTypeOK
<1>3. /\ place' \in [Muxers -> {"run", "lock", "blocked", "relock", "read", "pass"}]
      /\ recvWait' \in SUBSET Nat /\ recvMu' \in SUBSET Muxers
      /\ \A w \in Muxers : Receiving(w)' <=> Receiving(w)
  BY <1>1, <1>2 DEF MuxInv, MuxTypeOK, Receiving
<1>4. CASE recvID = turn[m]
  <2>1. place'[m] = "read" /\ recvMu' = {m} /\ recvWait' = recvWait
    BY <1>4 DEF MuxInv, MuxTypeOK
  <2>2. \A w \in Muxers : place[w] # "read"
    BY <1>1 DEF MuxInv, TurnInv
  <2>3. TurnInv'
    <3>1. ASSUME NEW w \in Muxers, place'[w] = "pass"
          PROVE  turn'[w] + 1 = recvID' /\ \E v \in Muxers : place'[v] = "blocked" /\ turn'[v] = recvID'
      BY <1>1, <1>2, <2>1, <3>1 DEF MuxInv, TurnInv
    <3>2. ASSUME NEW w \in Muxers, place'[w] = "blocked"
          PROVE  turn'[w] \in recvWait' \/ (turn'[w] = recvID' /\ \E v \in Muxers : place'[v] = "pass")
      BY <1>1, <1>2, <2>1, <3>2 DEF MuxInv, TurnInv
    <3> QED BY <1>1, <1>2, <1>4, <2>1, <2>2, <3>1, <3>2 DEF MuxInv, TurnInv
  <2>4. WaitInv'
    BY <1>1, <1>2, <2>1 DEF MuxInv, WaitInv
  <2> QED BY <1>3, <2>3, <2>4, WithinReceive
<1>5. CASE recvID # turn[m]
  <2>1. place'[m] = "blocked" /\ recvMu' = recvMu /\ recvWait' = recvWait \cup {turn[m]}
    BY <1>5 DEF MuxInv, MuxTypeOK
  <2>2. TurnInv'
    <3>1. ASSUME NEW w \in Muxers, place'[w] = "pass"
          PROVE  turn'[w] + 1 = recvID' /\ \E v \in Muxers : place'[v] = "blocked" /\ turn'[v] = recvID'
      BY <1>1, <1>2, <2>1, <3>1 DEF MuxInv, TurnInv
    <3>2. ASSUME NEW w \in Muxers, place'[w] = "blocked"
          PROVE  turn'[w] \in recvWait' \/ (turn'[w] = recvID' /\ \E v \in Muxers : place'[v] = "pass")
      BY <1>1, <1>2, <2>1, <3>2 DEF MuxInv, TurnInv
    <3> QED BY <1>1, <1>2, <2>1, <3>1, <3>2 DEF MuxInv, TurnInv
  <2>3. WaitInv'
    <3>1. turn[m] > recvID
      BY <1>1, <1>5
    <3>2. ASSUME NEW n \in recvWait'
          PROVE  n > recvID' /\ \E w \in Muxers : place'[w] = "blocked" /\ turn'[w] = n
      <4>1. CASE n = turn[m]
        BY <1>1, <2>1, <3>1, <4>1
      <4>2. CASE n \in recvWait
        <5>1. PICK w \in Muxers : place[w] = "blocked" /\ turn[w] = n
          BY <4>2 DEF MuxInv, WaitInv
        <5>2. place'[w] = "blocked"
          BY <1>1, <1>2, <5>1
        <5> QED BY <1>1, <4>2, <5>1, <5>2 DEF MuxInv, WaitInv
      <4> QED BY <2>1, <3>2, <4>1, <4>2
    <3> QED BY <3>2 DEF WaitInv
  <2> QED BY <1>3, <2>2, <2>3, WithinReceive
<1> QED BY <1>4, <1>5

\* It is the turn of whoever was woken up: "out of sync" does not happen.
LEMMA RelockStep ==
  ASSUME MuxInv, NEW m \in Muxers, MuxRelock(m)
  PROVE  MuxInv'
<1> USE DEF MuxRelock
<1>1. /\ turn[m] = recvID /\ turn' = turn /\ recvID' = recvID /\ sendID' = sendID
      /\ recvWait' = recvWait /\ recvMu = {} /\ place[m] = "relock"
  BY DEF MuxInv, TurnInv
<1>2. /\ \A w \in Muxers : w # m => place'[w] = place[w]
      /\ place'[m] = "read" /\ recvMu' = {m}
  BY <1>1 DEF MuxInv, MuxTypeOK
<1>3. /\ place' \in [Muxers -> {"run", "lock", "blocked", "relock", "read", "pass"}]
      /\ recvWait' \in SUBSET Nat /\ recvMu' \in SUBSET Muxers
      /\ \A w \in Muxers : Receiving(w)' <=> Receiving(w)
  BY <1>1, <1>2 DEF MuxInv, MuxTypeOK, Receiving
<1>4. TurnInv'
  <2>1. \A w \in Muxers : place[w] # "read"
    BY <1>1 DEF MuxInv, TurnInv
  <2>2. ASSUME NEW w \in Muxers, place'[w] = "pass"
        PROVE  turn'[w] + 1 = recvID' /\ \E v \in Muxers : place'[v] = "blocked" /\ turn'[v] = recvID'
    BY <1>1, <1>2, <2>2 DEF MuxInv, TurnInv
  <2>3. ASSUME NEW w \in Muxers, place'[w] = "blocked"
        PROVE  turn'[w] \in recvWait' \/ (turn'[w] = recvID' /\ \E v \in Muxers : place'[v] = "pass")
    BY <1>1, <1>2, <2>3 DEF MuxInv, TurnInv
  <2> QED BY <1>1, <1>2, <2>1, <2>2, <2>3 DEF MuxInv, TurnInv
<1>5. WaitInv'
  BY <1>1, <1>2 DEF MuxInv, WaitInv
<1> QED BY <1>3, <1>4, <1>5, WithinReceive

\* The turn goes to the one goroutine that waits for it.
LEMMA PassStep ==
  ASSUME MuxInv, NEW m \in Muxers, MuxPass(m)
  PROVE  MuxInv'
<1> USE DEF MuxPass
<1>1. PICK w \in Muxers : /\ place[w] = "blocked" /\ turn[w] = turn[m] + 1
                          /\ place' = [place EXCEPT ![m] = "run", ![w] = "relock"]
  OBVIOUS
<1>2. /\ place[m] = "pass" /\ m # w /\ turn[w] = recvID
      /\ UNCHANGED <<turn, recvID, sendID, recvWait, recvMu>>
  BY <1>1 DEF MuxInv, TurnInv
<1>3. /\ \A v \in Muxers : v # m /\ v # w => place'[v] = place[v]
      /\ place'[m] = "run" /\ place'[w] = "relock"
      /\ place' \in [Muxers -> {"run", "lock", "blocked", "relock", "read", "pass"}]
  BY <1>1, <1>2 DEF MuxInv, MuxTypeOK
<1>4. \A v \in Muxers : Receiving(v)' <=> Receiving(v)
  BY <1>1, <1>2, <1>3 DEF Receiving
<1>5. recvID \notin recvWait
  BY DEF MuxInv, WaitInv, MuxTypeOK
<1>6. \A v \in Muxers : place'[v] # "pass"
  BY <1>2, <1>3 DEF MuxInv, TurnInv
<1>7. \A v \in Muxers : place[v] = "blocked" /\ turn[v] = recvID => v = w
  <2>1. ASSUME NEW v \in Muxers, place[v] = "blocked", turn[v] = recvID PROVE v = w
    <3>1. Holds(v, recvID) /\ Holds(w, recvID) /\ recvID \in Nat
      BY <1>1, <1>2, <2>1 DEF Holds, Receiving, MuxInv, MuxTypeOK
    <3> QED BY <3>1 DEF MuxInv, OwnerInv
  <2> QED BY <2>1
<1>8. TurnInv'
  <2>1. ASSUME NEW v \in Muxers, place'[v] = "blocked" PROVE turn'[v] \in recvWait'
    <3>1. place[v] = "blocked" /\ v # w
      BY <1>3, <2>1
    <3> QED BY <1>2, <1>7, <3>1 DEF MuxInv, TurnInv
  <2>2. ASSUME NEW v \in Muxers, place'[v] \in {"relock", "read"} PROVE turn'[v] = recvID'
    BY <1>2, <1>3, <2>2 DEF MuxInv, TurnInv
  <2>3. ASSUME NEW v \in Muxers, place'[v] = "read" PROVE recvMu' = {v}
    BY <1>2, <1>3, <2>3 DEF MuxInv, TurnInv
  <2> QED BY <1>2, <1>6, <2>1, <2>2, <2>3 DEF MuxInv, TurnInv
<1>9. WaitInv'
  <2> SUFFICES ASSUME NEW n \in recvWait
               PROVE  n > recvID /\ \E v \in Muxers : place'[v] = "blocked" /\ turn[v] = n
    BY <1>2, ZenonT(40) DEF WaitInv
  <2>1. PICK v \in Muxers : place[v] = "blocked" /\ turn[v] = n
    BY DEF MuxInv, WaitInv
  <2>2. v # w /\ v # m
    BY <1>2, <1>5, <2>1
  <2>3. place'[v] = "blocked"
    BY <1>3, <2>1, <2>2
  <2> QED BY <2>1, <2>3 DEF MuxInv, WaitInv
<1>10. recvWait' \in SUBSET Nat /\ recvMu' \in SUBSET Muxers
  BY <1>2 DEF MuxInv, MuxTypeOK
<1> QED BY <1>3, <1>4, <1>8, <1>9, <1>10, WithinReceive

LEMMA ReadStep ==
  ASSUME MuxInv, NEW m \in Muxers, MuxRead(m)
  PROVE  MuxInv'
<1> USE DEF MuxRead
<1>1. /\ turn[m] = recvID /\ recvID \in Nat /\ sendID \in Nat /\ recvID < sendID
      /\ recvID' = recvID + 1 /\ recvWait' = recvWait \ {recvID + 1} /\ recvMu' = {}
      /\ place[m] = "read" /\ UNCHANGED <<turn, ids, sends, ended, sendID, buffered, broken>>
  BY Due DEF Receiving, MuxInv, MuxTypeOK, TurnInv
<1>2. /\ \A w \in Muxers : w # m => place'[w] = place[w]
      /\ place'[m] = IF recvID + 1 \in recvWait THEN "pass" ELSE "run"
      /\ place' \in [Muxers -> {"run", "lock", "blocked", "relock", "read", "pass"}]
  BY <1>1 DEF MuxInv, MuxTypeOK
<1>3. Holds(m, recvID) /\ \A w \in Muxers : Holds(w, recvID) => w = m
  BY <1>1, Due DEF Receiving, MuxInv, OwnerInv
<1>4. \A w \in Muxers : w # m => place[w] \notin {"read", "relock"}
  <2> SUFFICES ASSUME NEW w \in Muxers, w # m, place[w] \in {"read", "relock"} PROVE FALSE
    OBVIOUS
  <2>1. turn[w] = recvID /\ Holds(w, turn[w])
    BY Due DEF Receiving, MuxInv, TurnInv
  <2> QED BY <1>3, <2>1
<1>5. \A w \in Muxers : place[w] # "pass"
  <2> SUFFICES ASSUME NEW w \in Muxers, place[w] = "pass" PROVE FALSE
    OBVIOUS
  <2>1. PICK v \in Muxers : place[v] = "blocked" /\ turn[v] = recvID
    BY DEF MuxInv, TurnInv
  <2>2. Holds(v, turn[v])
    BY <2>1, Due DEF Receiving
  <2> QED BY <1>1, <1>3, <2>1, <2>2
<1>6. OwnerInv'
  <2>1. ASSUME NEW n \in Nat PROVE Holds(m, n)' <=> Holds(m, n) /\ n # recvID
    <3>1. ~Has(ids[m], recvID)
      BY <1>1 DEF Receiving, MuxInv, AscendingInv
    <3>2. ~Receiving(m)' /\ Receiving(m)
      BY <1>1, <1>2 DEF Receiving
    <3> QED BY <1>1, <3>1, <3>2 DEF Holds
  <2>2. ASSUME NEW w \in Muxers, NEW n \in Nat, w # m PROVE Holds(w, n)' <=> Holds(w, n)
    BY <1>1, <1>2, <2>2 DEF Holds, Receiving
  <2>3. \A w \in Muxers, n \in Nat : Holds(w, n)' <=> Holds(w, n) /\ ~(w = m /\ n = recvID)
    BY <2>1, <2>2
  <2> QED BY <1>1, <1>3, <2>3, OwnerShrinks
<1>7. AscendingInv'
  <2>1. ASSUME NEW w \in Muxers PROVE Receiving(w)' => Receiving(w)
    BY <1>1, <1>2 DEF Receiving
  <2> QED BY <1>1, <2>1 DEF MuxInv, AscendingInv
<1>8. \A w \in Muxers : place[w] = "blocked" => turn[w] \in recvWait /\ turn[w] \in Nat
  BY <1>5 DEF MuxInv, MuxTypeOK, TurnInv
<1>9. TurnInv'
  <2>1. \A w \in Muxers : place'[w] \notin {"read", "relock"}
    BY <1>2, <1>4
  <2>2. ASSUME NEW w \in Muxers, place'[w] = "pass"
        PROVE  /\ w = m /\ turn'[w] + 1 = recvID'
               /\ \E v \in Muxers : place'[v] = "blocked" /\ turn'[v] = recvID'
    <3>1. w = m /\ recvID + 1 \in recvWait
      BY <1>2, <1>5, <2>2
    <3>2. PICK v \in Muxers : place[v] = "blocked" /\ turn[v] = recvID + 1
      BY <3>1 DEF MuxInv, WaitInv
    <3>3. place'[v] = "blocked"
      BY <1>1, <1>2, <3>2
    <3> QED BY <1>1, <3>1, <3>2, <3>3
  <2>3. ASSUME NEW w \in Muxers, place'[w] = "blocked"
        PROVE  turn'[w] \in recvWait' \/ (turn'[w] = recvID' /\ \E v \in Muxers : place'[v] = "pass")
    <3>1. turn[w] \in recvWait
      BY <1>2, <1>8, <2>3
    <3>2. turn[w] = recvID + 1 => place'[m] = "pass"
      BY <1>2, <3>1
    <3> QED BY <1>1, <3>1, <3>2
  <2>4. recvID' <= sendID'
    BY <1>1
  <2> QED BY <2>1, <2>2, <2>3, <2>4 DEF TurnInv
<1>10. WaitInv'
  <2> SUFFICES ASSUME NEW n \in recvWait'
               PROVE  n > recvID' /\ \E v \in Muxers : place'[v] = "blocked" /\ turn'[v] = n
    BY DEF WaitInv
  <2>1. n \in recvWait /\ n # recvID + 1 /\ n \in Nat
    BY <1>1 DEF MuxInv, MuxTypeOK
  <2>2. n > recvID'
    BY <1>1, <2>1 DEF MuxInv, WaitInv
  <2>3. PICK v \in Muxers : place[v] = "blocked" /\ turn[v] = n
    BY <2>1 DEF MuxInv, WaitInv
  <2>4. place'[v] = "blocked"
    BY <1>1, <1>2, <2>3
  <2> QED BY <1>1, <2>2, <2>3, <2>4
<1>11. StreamInv'
  <2> SUFFICES ASSUME ~broken PROVE Numbered(stream' \o buffered', recvID', sendID')
    BY <1>1 DEF StreamInv
  <2>1. /\ stream # <<>> /\ stream' = Tail(stream) /\ stream \in Seq(Nat) /\ buffered \in Seq(Nat)
        /\ Numbered(stream \o buffered, recvID, sendID)
    BY DEF MuxInv, MuxTypeOK, StreamInv
  <2>2. Tail(stream) \o buffered = Tail(stream \o buffered) /\ stream \o buffered \in Seq(Nat)
    BY <1>1, <2>1, Concat
  <2>3. stream \o buffered # <<>>
    BY <1>1, <2>1, <2>2, Numbers
  <2>4. Numbered(Tail(stream \o buffered), recvID + 1, sendID)
    BY <1>1, <2>1, <2>2, <2>3, Numbers
  <2> QED BY <1>1, <2>1, <2>2, <2>4
<1>12. MuxTypeOK'
  <2>1. stream' \in Seq(Nat)
    BY DEF MuxInv, MuxTypeOK
  <2> QED BY <1>1, <1>2, <2>1 DEF MuxInv, MuxTypeOK
<1> QED BY <1>6, <1>7, <1>9, <1>10, <1>11, <1>12 DEF MuxInv

LEMMA MuxStep == MuxInv /\ [MuxNext]_muxVars => MuxInv'
<1> SUFFICES ASSUME MuxInv, [MuxNext]_muxVars PROVE MuxInv'
  OBVIOUS
<1>1. ASSUME NEW m \in Muxers, MuxSend(m) PROVE MuxInv'
  BY <1>1, SendStep
<1>2. ASSUME NEW m \in Muxers, MuxDo(m) PROVE MuxInv'
  BY <1>2, DoStep
<1>3. ASSUME NEW m \in Muxers, MuxFlush(m) \/ MuxClose(m) PROVE MuxInv'
  BY <1>3, FlushStep
<1>4. ASSUME NEW m \in Muxers, MuxReceive(m) PROVE MuxInv'
  BY <1>4, ReceiveStep
<1>5. ASSUME NEW m \in Muxers, MuxLock(m) PROVE MuxInv'
  BY <1>5, LockStep
<1>6. ASSUME NEW m \in Muxers, MuxRelock(m) PROVE MuxInv'
  BY <1>6, RelockStep
<1>7. ASSUME NEW m \in Muxers, MuxRead(m) PROVE MuxInv'
  BY <1>7, ReadStep
<1>8. ASSUME NEW m \in Muxers, MuxPass(m) PROVE MuxInv'
  BY <1>8, PassStep
<1>9. ASSUME MuxBreak PROVE MuxInv'
  <2>1. buffered' \in Seq(Nat) /\ stream' \in Seq(Nat) /\ broken' = TRUE
    BY <1>9 DEF MuxBreak
  <2>2. UNCHANGED <<place, ids, turn, sends, ended, sendID, recvID, recvWait, recvMu>>
    BY <1>9 DEF MuxBreak
  <2>3. MuxTypeOK'
    BY <2>1, <2>2 DEF MuxInv, MuxTypeOK
  <2> QED BY <2>1, <2>2, <2>3, QuietStep
<1>10. ASSUME UNCHANGED muxVars PROVE MuxInv'
  <2>1. MuxTypeOK'
    BY <1>10 DEF muxVars, MuxInv, MuxTypeOK
  <2>2. /\ UNCHANGED <<place, ids, turn, sendID, recvID, recvWait, recvMu>>
        /\ broken' = broken /\ stream' \o buffered' = stream \o buffered
    BY <1>10 DEF muxVars
  <2> QED BY <2>1, <2>2, QuietStep
<1> QED
  BY <1>1, <1>2, <1>3, <1>4, <1>5, <1>6, <1>7, <1>8, <1>9, <1>10 DEF MuxNext, MuxRest

LEMMA MuxStarts == MuxInit => MuxInv
<1> SUFFICES ASSUME MuxInit PROVE MuxInv
  OBVIOUS
<1> USE DEF MuxInit, MuxStart
<1>1. MuxTypeOK
  <2>1. <<>> \in Seq(Nat) /\ 0 \in Nat
    OBVIOUS
  <2>2. ids \in [Muxers -> Seq(Nat)] /\ buffered \in Seq(Nat) /\ stream \in Seq(Nat)
    BY <2>1
  <2>3. /\ turn \in [Muxers -> Nat] /\ sends \in [Muxers -> Nat]
        /\ place \in [Muxers -> {"run", "lock", "blocked", "relock", "read", "pass"}]
        /\ sendID \in Nat /\ recvID \in Nat
    OBVIOUS
  <2>4. ended \in [Muxers -> BOOLEAN] /\ broken \in BOOLEAN
    OBVIOUS
  <2>5. recvWait \in SUBSET Nat /\ recvMu \in SUBSET Muxers
    OBVIOUS
  <2> QED BY <2>2, <2>3, <2>4, <2>5 DEF MuxTypeOK
<1>2. \A m \in Muxers : ~Receiving(m) /\ \A n \in Nat : ~Has(ids[m], n)
  BY DEF Receiving, Has
<1>3. OwnerInv
  BY <1>2 DEF OwnerInv, Holds
<1>4. AscendingInv
  BY <1>2 DEF AscendingInv, Increasing
<1>5. TurnInv /\ WaitInv
  BY DEF TurnInv, WaitInv
<1>6. StreamInv
  <2>1. Len(stream \o buffered) = 0
    OBVIOUS
  <2> QED BY <2>1 DEF StreamInv, Numbered
<1> QED BY <1>1, <1>3, <1>4, <1>5, <1>6 DEF MuxInv

\* However many goroutines share a connection, and whoever sends, waits, closes
\* or finds the connection broken: the one that reads, reads the reply to its
\* own command, "out of sync" does not happen, and no turn is lost while a
\* goroutine waits for it (muxConn.Receive, connMux.Do).
THEOREM MuxOwnReplyCorrect == MuxSpec => []MuxOwnReply
<1>1. MuxInv => MuxOwnReply
  <2> SUFFICES ASSUME MuxInv, NEW m \in Muxers
               PROVE  /\ place[m] # "panic"
                      /\ place[m] = "read" /\ ~broken =>
                            stream \o buffered # <<>> /\ Head(stream \o buffered) = turn[m]
                      /\ place[m] = "blocked" => \E w \in Muxers : TurnKnown(w)
    BY DEF MuxOwnReply
  <2>1. place[m] # "panic"
    BY DEF MuxInv, MuxTypeOK
  <2>2. ASSUME place[m] = "read", ~broken
        PROVE  stream \o buffered # <<>> /\ Head(stream \o buffered) = turn[m]
    <3>1. turn[m] = recvID /\ recvID < sendID
      BY <2>2, Due DEF Receiving, MuxInv, TurnInv
    <3>2. /\ recvID \in Nat /\ sendID \in Nat /\ buffered \in Seq(Nat) /\ stream \in Seq(Nat)
          /\ Numbered(stream \o buffered, recvID, sendID)
      BY <2>2 DEF MuxInv, MuxTypeOK, StreamInv
    <3>3. stream \o buffered \in Seq(Nat)
      BY <3>2, Concat
    <3> QED BY <3>1, <3>2, <3>3, Numbers
  <2>3. ASSUME place[m] = "blocked" PROVE \E w \in Muxers : TurnKnown(w)
    <3>1. recvID \in Nat /\ sendID \in Nat /\ recvID < sendID
      BY <2>3, Due DEF Receiving, MuxInv, MuxTypeOK
    <3>2. PICK w \in Muxers : Holds(w, recvID)
      BY <3>1 DEF MuxInv, OwnerInv
    <3>3. CASE Has(ids[w], recvID)
      BY <3>3 DEF Has, TurnKnown
    <3>4. CASE Receiving(w) /\ turn[w] = recvID
      <4>1. CASE place[w] = "blocked"
        <5>1. recvID \notin recvWait
          BY <3>1 DEF MuxInv, WaitInv
        <5>2. PICK v \in Muxers : place[v] = "pass"
          BY <3>4, <4>1, <5>1 DEF MuxInv, TurnInv
        <5>3. turn[v] + 1 = recvID
          BY <5>2 DEF MuxInv, TurnInv
        <5> QED BY <3>4, <4>1, <5>2, <5>3 DEF TurnKnown
      <4>2. CASE place[w] # "blocked"
        BY <3>4, <4>2 DEF Receiving, TurnKnown
      <4> QED BY <4>1, <4>2
    <3> QED BY <3>2, <3>3, <3>4 DEF Holds
  <2> QED BY <2>1, <2>2, <2>3
<1> QED BY <1>1, MuxStarts, MuxStep, PTL DEF MuxSpec

(***************************************************************************)
(* What a connection reads (RedisWire).  A sequence stands at i in a       *)
(* buffer if the buffer, as far as it goes, holds it from i on: it may end *)
(* within it.                                                              *)
(***************************************************************************)
Stands(buf, i, s) == \A k \in 1..Len(s) : i + k - 1 <= Len(buf) => buf[i + k - 1] = s[k]

Whole(buf, i, s) == i + Len(s) - 1 <= Len(buf)

\* r is what a reader of x makes of its bytes s at i: x if they are all there, an
\* error if not.
Answered(r, buf, i, x, s) == IF Whole(buf, i, s) THEN r = Reads(x, i + Len(s)) ELSE r.err # "nil"

LEMMA StandsParts ==
    ASSUME NEW S, NEW buf \in Seq(S), NEW i \in Nat, NEW s \in Seq(S), NEW t \in Seq(S)
    PROVE  /\ s \o t \in Seq(S) /\ Len(s \o t) = Len(s) + Len(t)
           /\ Stands(buf, i, s \o t) => Stands(buf, i, s) /\ Stands(buf, i + Len(s), t)
<1>1. s \o t \in Seq(S) /\ Len(s \o t) = Len(s) + Len(t) /\ Len(s) \in Nat /\ Len(t) \in Nat
  OBVIOUS
<1>2. ASSUME Stands(buf, i, s \o t) PROVE Stands(buf, i, s)
  <2> SUFFICES ASSUME NEW k \in 1..Len(s), i + k - 1 <= Len(buf) PROVE buf[i + k - 1] = s[k]
    BY DEF Stands
  <2>1. (s \o t)[k] = s[k] /\ k \in 1..Len(s \o t)
    BY <1>1
  <2> QED
    BY <1>2, <2>1 DEF Stands
<1>3. ASSUME Stands(buf, i, s \o t) PROVE Stands(buf, i + Len(s), t)
  <2> SUFFICES ASSUME NEW k \in 1..Len(t), i + Len(s) + k - 1 <= Len(buf)
               PROVE  buf[i + Len(s) + k - 1] = t[k]
    BY DEF Stands
  <2>1. (s \o t)[Len(s) + k] = t[k]
    OBVIOUS
  <2>2. Len(s) + k \in 1..Len(s \o t)
    BY <1>1
  <2>3. i + (Len(s) + k) - 1 = i + Len(s) + k - 1
    BY <1>1
  <2> QED
    BY <1>3, <2>1, <2>2, <2>3 DEF Stands
<1> QED
  BY <1>1, <1>2, <1>3

LEMMA StandsPart ==
    ASSUME NEW S, NEW buf \in Seq(S), NEW i \in Nat \ {0}, NEW T, NEW s \in Seq(T),
           i + Len(s) - 1 <= Len(buf), \A k \in 1..Len(s) : buf[i + k - 1] = s[k]
    PROVE  SubSeq(buf, i, i + Len(s) - 1) = s
<1> DEFINE t == SubSeq(buf, i, i + Len(s) - 1)
<1>1. t = [k \in 1..Len(s) |-> buf[i + k - 1]]
  OBVIOUS
<1>2. s = [k \in 1..Len(s) |-> s[k]]
  OBVIOUS
<1>3. [k \in 1..Len(s) |-> buf[i + k - 1]] = [k \in 1..Len(s) |-> s[k]]
  OBVIOUS
<1> HIDE DEF t
<1> QED
  BY <1>1, <1>2, <1>3 DEF t

\* A line: it is read if its end is there.
LEMMA LineRead ==
    ASSUME NEW buf \in Seq(Chars), NEW i \in 1..Len(buf) + 1, NEW s \in Seq(Chars \ {LF}),
           Stands(buf, i, s \o <<CR, LF>>), Len(s) + 2 <= LineRoom
    PROVE  Answered(ReadLine(buf, i), buf, i, s, s \o <<CR, LF>>)
<1> DEFINE w    == s \o <<CR, LF>>
           ends == {j \in i..Len(buf) : buf[j] = LF /\ j < i + LineRoom}
           n    == Len(s)
<1>0. Stands(buf, i, w)
  OBVIOUS
<1>1. CR \in Chars /\ LF \in Chars /\ CR # LF /\ <<CR, LF>> \in Seq(Chars)
  BY DEF CR, LF, Chars, Letter
<1>2. n \in Nat /\ Len(buf) \in Nat /\ Len(w) = n + 2 /\ \A k \in 1..n : w[k] = s[k] /\ s[k] # LF
  OBVIOUS
<1>3. w[n + 1] = CR /\ w[n + 2] = LF
  BY <1>2
<1>4. \A k \in 1..n + 1 : i + k - 1 <= Len(buf) => buf[i + k - 1] # LF
  <2> SUFFICES ASSUME NEW k \in 1..n + 1, i + k - 1 <= Len(buf) PROVE buf[i + k - 1] # LF
    OBVIOUS
  <2>1. buf[i + k - 1] = w[k]
    BY <1>2 DEF Stands
  <2>2. w[k] # LF
    <3> HIDE DEF w
    <3>1. k \in 1..n \/ k = n + 1
      BY <1>2
    <3> QED
      BY <1>1, <1>2, <1>3, <3>1
  <2> QED
    BY <2>1, <2>2
<1>5. \A j \in ends : j >= i + n + 1
  <2>0. \A j \in ends : j \in Int
    OBVIOUS
  <2> SUFFICES ASSUME NEW j \in ends, j < i + n + 1 PROVE FALSE
    <3> HIDE DEF ends
    <3> QED
      BY <1>2, <2>0
  <2> DEFINE k == j - i + 1
  <2>1. k \in 1..n + 1 /\ i + k - 1 = j /\ j <= Len(buf) /\ buf[j] = LF
    BY <1>2
  <2> HIDE DEF k
  <2>2. i + k - 1 <= Len(buf) /\ buf[i + k - 1] = LF
    BY <2>1
  <2> QED
    BY <1>4, <2>1, <2>2
<1>6. CASE Whole(buf, i, w)
  <2> DEFINE e == i + n + 1
  <2>1. e <= Len(buf) /\ e \in i..Len(buf)
    BY <1>2, <1>6 DEF Whole
  <2>2. buf[e] = LF
    <3>1. n + 2 \in 1..Len(w) /\ i + (n + 2) - 1 = e
      BY <1>2
    <3> HIDE DEF w
    <3> QED
      BY <1>0, <1>3, <2>1, <3>1 DEF Stands
  <2>3. buf[e - 1] = CR
    <3>1. n + 1 \in 1..Len(w) /\ i + (n + 1) - 1 = e - 1 /\ e - 1 <= Len(buf)
      BY <1>2, <2>1
    <3> HIDE DEF w
    <3> QED
      BY <1>0, <1>3, <3>1 DEF Stands
  <2>4. e \in ends /\ e # i
    <3>1. LineRoom \in Nat /\ e < i + LineRoom
      BY <1>2, RespAssumption
    <3> QED
      BY <1>2, <2>1, <2>2, <3>1
  <2>5. (CHOOSE j \in ends : \A k \in ends : j <= k) = e
    <3>1. \A k \in ends : e <= k /\ k \in Int
      BY <1>5
    <3>2. \A j \in ends : (\A k \in ends : j <= k) => j = e
      BY <2>4, <3>1
    <3> HIDE DEF ends
    <3> QED
      BY <2>4, <3>1, <3>2
  <2>6. SubSeq(buf, i, e - 2) = s
    <3>1. e - 2 = i + n - 1 /\ i + n - 1 <= Len(buf)
      BY <1>2, <2>1
    <3>2. \A k \in 1..n : buf[i + k - 1] = s[k]
      <4> SUFFICES ASSUME NEW k \in 1..n PROVE buf[i + k - 1] = s[k]
        OBVIOUS
      <4>1. k \in 1..Len(w) /\ i + k - 1 <= Len(buf) /\ w[k] = s[k]
        BY <1>2, <3>1
      <4> HIDE DEF w
      <4> QED
        BY <1>0, <4>1 DEF Stands
    <3>3. i + Len(s) - 1 <= Len(buf) /\ i \in Nat \ {0} /\ e - 2 = i + Len(s) - 1
      BY <1>2, <3>1
    <3> HIDE DEF e
    <3> QED
      BY <3>2, <3>3, StandsPart
  <2>7. ReadLine(buf, i) = Reads(s, e + 1)
    <3> HIDE DEF ends, e
    <3>1. ends # {} /\ ~(e = i \/ buf[e - 1] # CR)
      BY <2>3, <2>4
    <3>2. ReadLine(buf, i) = Reads(SubSeq(buf, i, e - 2), e + 1)
      BY <2>5, <3>1 DEF ReadLine, ends
    <3> QED
      BY <2>6, <3>2
  <2>8. e + 1 = i + Len(w)
    BY <1>2
  <2> QED
    BY <1>6, <2>7, <2>8 DEF Answered
<1>7. CASE ~Whole(buf, i, w)
  <2>1. ends = {}
    <3>1. \A j \in ends : j <= Len(buf) /\ j \in Int
      OBVIOUS
    <3>2. Len(buf) < i + n + 1
      BY <1>2, <1>7 DEF Whole
    <3> HIDE DEF ends
    <3> QED
      BY <1>2, <1>5, <3>1, <3>2
  <2> DEFINE e == IF Len(buf) < i + LineRoom - 1 THEN "EOF" ELSE "long"
  <2>2. e # "nil"
    OBVIOUS
  <2>3. ReadLine(buf, i) = NotRead(i, e)
    BY <2>1 DEF ReadLine
  <2> HIDE DEF e
  <2> QED
    BY <1>7, <2>2, <2>3 DEF Answered, NotRead
<1> QED
  BY <1>6, <1>7

(***************************************************************************)
(* Numbers.                                                                *)
(***************************************************************************)
ValueTo(f, p) == f[0] = 0 /\ \A k \in 1..Len(p) : f[k] = 10 * f[k - 1] + p[k]

LEMMA FromDigitsValues ==
    ASSUME NEW p \in Seq(Nat)
    PROVE  \E f \in [0..Len(p) -> Nat] : FromDigits(p) = f[Len(p)] /\ ValueTo(f, p)
<1> DEFINE n == Len(p)
           D == 0..n
           step == [k \in D |-> [v \in Nat |-> IF k = 0 THEN v ELSE 10 * v + p[k]]]
           Is(f) == f = [k \in 0..n |-> IF k = 0 THEN 0 ELSE 10 * f[k - 1] + p[k]]
           f0 == CHOOSE f : Is(f)
<1>1. n \in Nat /\ Downward(D) /\ \A k \in 1..n : p[k] \in Nat /\ k \in D /\ k - 1 \in D /\ k # 0
  BY DEF Downward
<1>2. step \in [D -> [Nat -> Nat]]
  <2>1. \A k \in D, v \in Nat : (IF k = 0 THEN v ELSE 10 * v + p[k]) \in Nat
    OBVIOUS
  <2> QED
    BY <2>1
<1>3. PICK f \in [D -> Nat] : Recurs(f, D, step, 0)
  <2> HIDE DEF step, D
  <2> QED
    BY <1>1, <1>2, Recursion
<1>4. f[0] = 0 /\ \A k \in 1..n : f[k] = 10 * f[k - 1] + p[k]
  <2>1. 0 \in D
    OBVIOUS
  <2>2. f[0] = 0
    <3> HIDE DEF step, D
    <3> QED
      BY <1>3, <2>1 DEF Recurs
  <2>3. ASSUME NEW k \in 1..n PROVE f[k] = 10 * f[k - 1] + p[k]
    <3>1. f[k] = step[k][f[k - 1]]
      <4> HIDE DEF step, D
      <4> QED
        BY <1>1, <1>3 DEF Recurs
    <3>2. f[k - 1] \in Nat /\ k \in D /\ k # 0
      <4> HIDE DEF D
      <4> QED
        BY <1>1
    <3> QED
      BY <3>1, <3>2
  <2> QED
    BY <2>2, <2>3
<1>5. Is(f)
  <2>1. \A k \in 0..n : f[k] = IF k = 0 THEN 0 ELSE 10 * f[k - 1] + p[k]
    <3>1. \A k \in 0..n : k # 0 => k \in 1..n
      OBVIOUS
    <3> QED
      BY <1>4, <3>1
  <2> QED
    BY <2>1
<1>6. Is(f0)
  <2> HIDE DEF Is
  <2> QED
    BY <1>5
<1>7. FromDigits(p) = f0[n]
  BY DEF FromDigits
<1> HIDE DEF f0, step
<1>8. ValueTo(f0, p)
  <2>1. \A k \in 0..n : f0[k] = IF k = 0 THEN 0 ELSE 10 * f0[k - 1] + p[k]
    BY <1>6
  <2>2. \A k \in 1..n : k \in 0..n /\ k # 0
    OBVIOUS
  <2> QED
    BY <1>1, <2>1, <2>2 DEF ValueTo
<1>9. \A k \in 0..n : f0[k] \in Nat
  <2> DEFINE T == {k \in Nat : k <= n => f0[k] \in Nat}
  <2>1. 0 \in T
    BY <1>8 DEF ValueTo
  <2>2. ASSUME NEW k \in Nat, k \in T PROVE k + 1 \in T
    <3> SUFFICES ASSUME k + 1 <= n PROVE f0[k + 1] \in Nat
      OBVIOUS
    <3>1. k + 1 \in 1..n /\ (k + 1) - 1 = k /\ f0[k] \in Nat
      BY <1>1, <2>2
    <3>2. f0[k + 1] = 10 * f0[k] + p[k + 1] /\ p[k + 1] \in Nat
      BY <1>1, <1>8, <3>1 DEF ValueTo
    <3> QED
      BY <3>1, <3>2
  <2> HIDE DEF T
  <2>3. Nat \subseteq T
    BY <2>1, <2>2, SetInduction
  <2> QED
    BY <2>3 DEF T
<1>10. f0 \in [0..n -> Nat]
  <2>1. f0 = [k \in 0..n |-> f0[k]]
    BY <1>6
  <2> QED
    BY <1>9, <2>1
<1> QED
  BY <1>7, <1>8, <1>10

LEMMA FromDigitsAppend ==
    /\ FromDigits(<<>>) = 0
    /\ \A p \in Seq(Nat), d \in Nat : FromDigits(Append(p, d)) = 10 * FromDigits(p) + d
<1>1. FromDigits(<<>>) = 0
  <2>1. PICK f \in [0..Len(<<>>) -> Nat] : FromDigits(<<>>) = f[Len(<<>>)] /\ ValueTo(f, <<>>)
    <3>1. <<>> \in Seq(Nat)
      OBVIOUS
    <3> QED
      BY <3>1, FromDigitsValues
  <2> QED
    BY <2>1 DEF ValueTo
<1>2. ASSUME NEW p \in Seq(Nat), NEW d \in Nat PROVE FromDigits(Append(p, d)) = 10 * FromDigits(p) + d
  <2> DEFINE q == Append(p, d)
             n == Len(p)
  <2>1. q \in Seq(Nat) /\ Len(q) = n + 1 /\ n \in Nat /\ q[n + 1] = d /\ \A k \in 1..n : q[k] = p[k]
    OBVIOUS
  <2>2. PICK f \in [0..n -> Nat] : FromDigits(p) = f[n] /\ ValueTo(f, p)
    BY FromDigitsValues
  <2> HIDE DEF q
  <2>3. PICK g \in [0..Len(q) -> Nat] : FromDigits(q) = g[Len(q)] /\ ValueTo(g, q)
    BY <2>1, FromDigitsValues
  <2> DEFINE T == {k \in Nat : k <= n => g[k] = f[k]}
  <2>4. 0 \in T
    BY <2>2, <2>3 DEF ValueTo
  <2>5. ASSUME NEW k \in Nat, k \in T PROVE k + 1 \in T
    <3> SUFFICES ASSUME k + 1 <= n PROVE g[k + 1] = f[k + 1]
      OBVIOUS
    <3>1. k + 1 \in 1..n /\ k + 1 \in 1..Len(q) /\ (k + 1) - 1 = k /\ g[k] = f[k]
      BY <2>1, <2>5
    <3>2. g[k + 1] = 10 * g[k] + q[k + 1] /\ f[k + 1] = 10 * f[k] + p[k + 1]
      BY <2>2, <2>3, <3>1 DEF ValueTo
    <3> QED
      BY <2>1, <3>1, <3>2
  <2> HIDE DEF T
  <2>6. Nat \subseteq T
    BY <2>4, <2>5, SetInduction
  <2>7. g[n] = f[n]
    <3>1. n \in T /\ n <= n
      BY <2>1, <2>6
    <3> QED
      BY <3>1 DEF T
  <2>8. n + 1 \in 1..Len(q) /\ (n + 1) - 1 = n
    BY <2>1
  <2>9. g[n + 1] = 10 * g[n] + d
    BY <2>1, <2>3, <2>8 DEF ValueTo
  <2> QED
    BY <2>1, <2>2, <2>3, <2>7, <2>9 DEF q
<1> QED
  BY <1>1, <1>2

DigitsTo(f, n) == f = [m \in 0..n |-> IF m < 10 THEN <<m>> ELSE Append(f[m \div 10], m % 10)]

LEMMA Tenth ==
    ASSUME NEW m \in Nat
    PROVE  /\ m \div 10 \in Nat /\ m % 10 \in Digits /\ m = 10 * (m \div 10) + (m % 10)
           /\ (m >= 10 => m \div 10 < m)
<1> DEFINE q == m \div 10
           d == m % 10
<1>1. d = m - 10 * q /\ q \in Nat /\ d \in 0..9
  OBVIOUS
<1> HIDE DEF q, d
<1>2. q \in Nat /\ d \in Digits /\ m = 10 * q + d /\ (m >= 10 => q < m)
  BY <1>1 DEF Digits
<1> QED
  BY <1>2, Zenon DEF q, d

LEMMA DigitsExist == ASSUME NEW n \in Nat PROVE \E f : DigitsTo(f, n)
<1> DEFINE T == {k \in Nat : \E f : DigitsTo(f, k)}
<1>1. 0 \in T
  <2> DEFINE f == [m \in 0..0 |-> <<m>>]
  <2>1. f = [m \in 0..0 |-> IF m < 10 THEN <<m>> ELSE Append(f[m \div 10], m % 10)]
    OBVIOUS
  <2> QED
    BY <2>1 DEF DigitsTo
<1>2. ASSUME NEW k \in Nat, k \in T PROVE k + 1 \in T
  <2>1. PICK f : DigitsTo(f, k)
    BY <1>2
  <2> DEFINE Body(g, m) == IF m < 10 THEN <<m>> ELSE Append(g[m \div 10], m % 10)
             g == [m \in 0..k + 1 |-> IF m = k + 1 THEN Body(f, k + 1) ELSE f[m]]
  <2>2. \A m \in 0..k : g[m] = f[m] /\ f[m] = Body(f, m)
    <3>1. f = [m \in 0..k |-> Body(f, m)]
      BY <2>1 DEF DigitsTo
    <3>2. \A m \in 0..k : g[m] = f[m]
      OBVIOUS
    <3> HIDE DEF Body, g
    <3>3. \A m \in 0..k : f[m] = Body(f, m)
      BY <3>1
    <3> QED
      BY <3>2, <3>3
  <2>3. \A m \in 0..k + 1 : g[m] = Body(f, m)
    <3>1. \A m \in 0..k + 1 : m = k + 1 \/ m \in 0..k
      OBVIOUS
    <3>2. g[k + 1] = Body(f, k + 1)
      OBVIOUS
    <3> HIDE DEF g, Body
    <3> QED
      BY <2>2, <3>1, <3>2
  <2>4. \A m \in 0..k + 1 : Body(f, m) = Body(g, m)
    <3> SUFFICES ASSUME NEW m \in 0..k + 1, m >= 10 PROVE g[m \div 10] = f[m \div 10]
      OBVIOUS
    <3>1. m \div 10 \in 0..k
      BY Tenth
    <3> HIDE DEF g
    <3> QED
      BY <2>2, <3>1
  <2>5. g = [m \in 0..k + 1 |-> Body(g, m)]
    <3>1. g = [m \in 0..k + 1 |-> g[m]]
      OBVIOUS
    <3>2. \A m \in 0..k + 1 : g[m] = Body(g, m)
      <4> HIDE DEF g, Body
      <4> QED
        BY <2>3, <2>4
    <3> HIDE DEF g, Body
    <3> QED
      BY <3>1, <3>2
  <2>6. DigitsTo(g, k + 1)
    <3> HIDE DEF g
    <3> QED
      BY <2>5 DEF DigitsTo
  <2> QED
    BY <2>6
<1> HIDE DEF T
<1>3. Nat \subseteq T
  BY <1>1, <1>2, SetInduction
<1> QED
  BY <1>3 DEF T

\* What is written of a number is digits, at least one, and its value.
LEMMA DecimalValues ==
    ASSUME NEW n \in Nat
    PROVE  Decimal(n) \in Seq(Digits) /\ Decimal(n) # <<>> /\ FromDigits(Decimal(n)) = n
<1> DEFINE f == CHOOSE f : f = [m \in 0..n |-> IF m < 10 THEN <<m>> ELSE Append(f[m \div 10], m % 10)]
           Good(m) == f[m] \in Seq(Digits) /\ f[m] # <<>> /\ FromDigits(f[m]) = m
<1>1. Decimal(n) = f[n]
  BY DEF Decimal
<1>2. DigitsTo(f, n)
  <2>1. \E g : g = [m \in 0..n |-> IF m < 10 THEN <<m>> ELSE Append(g[m \div 10], m % 10)]
    <3>1. PICK g : DigitsTo(g, n)
      BY DigitsExist
    <3>2. g = [m \in 0..n |-> IF m < 10 THEN <<m>> ELSE Append(g[m \div 10], m % 10)]
      BY <3>1 DEF DigitsTo
    <3> QED
      BY <3>2, Zenon
  <2> QED
    BY <2>1, Zenon DEF DigitsTo
<1> HIDE DEF f
<1>3. \A m \in 0..n : f[m] = IF m < 10 THEN <<m>> ELSE Append(f[m \div 10], m % 10)
  BY <1>2 DEF DigitsTo
<1> DEFINE T == {k \in Nat : \A m \in 0..n : m <= k => Good(m)}
<1>4. ASSUME NEW m \in 0..n, m >= 10 => Good(m \div 10) PROVE Good(m)
  <2>0. f[m] = IF m < 10 THEN <<m>> ELSE Append(f[m \div 10], m % 10)
    BY <1>3
  <2>1. CASE m < 10
    <3>1. f[m] = <<m>> /\ m \in Digits
      <4>1. m \in Digits
        BY <2>1 DEF Digits
      <4> QED
        BY <2>0, <2>1, <4>1
    <3>2. <<m>> = Append(<<>>, m) /\ <<>> \in Seq(Nat) /\ m \in Nat
      OBVIOUS
    <3>3. FromDigits(<<m>>) = m
      <4>1. FromDigits(Append(<<>>, m)) = 10 * FromDigits(<<>>) + m /\ FromDigits(<<>>) = 0
        BY <3>2, FromDigitsAppend
      <4> QED
        BY <3>2, <4>1
    <3> QED
      BY <3>1, <3>3
  <2>2. CASE m >= 10
    <3> DEFINE q == m \div 10
               d == m % 10
    <3>1. d \in Digits /\ m = 10 * q + d /\ q \in Nat
      BY Tenth
    <3>2. f[m] = Append(f[q], d)
      <4>1. ~(m < 10)
        BY <2>2
      <4> QED
        BY <2>0, <4>1, Zenon
    <3>3. Good(q)
      BY <1>4, <2>2
    <3> HIDE DEF q, d
    <3>4. f[q] \in Seq(Nat) /\ d \in Nat
      <4>1. f[q] \in Seq(0..9)
        BY <3>3 DEF Digits
      <4> QED
        BY <3>1, <4>1 DEF Digits
    <3>5. FromDigits(Append(f[q], d)) = 10 * q + d
      BY <3>3, <3>4, FromDigitsAppend
    <3>6. Append(f[q], d) \in Seq(Digits) /\ Append(f[q], d) # <<>>
      BY <3>1, <3>3
    <3> QED
      BY <3>1, <3>2, <3>5, <3>6
  <2> QED
    BY <2>1, <2>2
<1>5. 0 \in T
  BY <1>4
<1>6. ASSUME NEW k \in Nat, k \in T PROVE k + 1 \in T
  <2> SUFFICES ASSUME NEW m \in 0..n, m <= k + 1 PROVE Good(m)
    OBVIOUS
  <2>1. m >= 10 => m \div 10 \in 0..n /\ m \div 10 <= k
    BY Tenth
  <2>2. m >= 10 => Good(m \div 10)
    <3> HIDE DEF Good
    <3> QED
      BY <1>6, <2>1
  <2> HIDE DEF Good
  <2> QED
    BY <1>4, <2>2
<1> HIDE DEF T
<1>7. Nat \subseteq T
  BY <1>5, <1>6, SetInduction
<1>8. Good(n)
  <2> HIDE DEF Good
  <2>1. n \in 0..n
    OBVIOUS
  <2> QED
    BY <1>7, <2>1 DEF T
<1> QED
  BY <1>1, <1>8

LEMMA DigitsAre ==
    ASSUME NEW p \in Seq(Digits)
    PROVE  ToSet(p) \subseteq Digits /\ p \in Seq(Chars \ {LF}) /\ p \in Seq(Chars \ {CR, LF})
           /\ (p # <<>> => p[1] \in Digits /\ p[1] # Minus)
<1>1. \A k \in 1..Len(p) : p[k] \in Digits
  OBVIOUS
<1>2. ToSet(p) \subseteq Digits
  BY <1>1 DEF ToSet
<1>3. \A x \in Digits : x \in Chars \ {CR, LF} /\ x # Minus
  BY DEF Digits, Chars, Letter, CR, LF, Minus
<1>4. p \in Seq(Chars \ {CR, LF})
  <2>1. \A k \in 1..Len(p) : p[k] \in Chars \ {CR, LF}
    BY <1>1, <1>3
  <2> QED
    BY <2>1
<1>5. p \in Seq(Chars \ {LF})
  <2>1. \A k \in 1..Len(p) : p[k] \in Chars \ {LF}
    BY <1>1, <1>3
  <2> QED
    BY <2>1
<1>6. p # <<>> => p[1] \in Digits /\ p[1] # Minus
  <2>1. p # <<>> => 1 \in 1..Len(p)
    OBVIOUS
  <2> QED
    BY <1>1, <1>3, <2>1
<1> QED
  BY <1>2, <1>4, <1>5, <1>6

LEMMA ParseLenValues == ASSUME NEW n \in Nat PROVE ParseLen(Decimal(n)) = [n |-> n, err |-> "nil"]
<1> DEFINE p == Decimal(n)
<1>1. p \in Seq(Digits) /\ p # <<>> /\ FromDigits(p) = n
  BY DecimalValues
<1> HIDE DEF p
<1>2. ToSet(p) \subseteq Digits /\ p[1] # Minus
  BY <1>1, DigitsAre
<1>3. p # <<Minus, 1>>
  BY <1>2
<1>4. ParseLen(p) = [n |-> n, err |-> "nil"]
  BY <1>1, <1>2, <1>3 DEF ParseLen
<1> QED
  BY <1>4 DEF p

LEMMA ParseIntValues ==
    ASSUME NEW n \in Int
    PROVE  /\ NumberText(n) \in Seq(Chars \ {LF})
           /\ ParseInt(NumberText(n)) = [n |-> n, err |-> "nil"]
<1>1. CASE n >= 0
  <2> DEFINE p == Decimal(n)
  <2>1. p \in Seq(Digits) /\ p # <<>> /\ FromDigits(p) = n
    BY <1>1, DecimalValues
  <2>2. NumberText(n) = p
    BY <1>1 DEF NumberText
  <2> HIDE DEF p
  <2>3. ToSet(p) \subseteq Digits /\ p[1] # Minus /\ p \in Seq(Chars \ {LF})
    BY <2>1, DigitsAre
  <2>4. ParseInt(p) = [n |-> n, err |-> "nil"]
    BY <2>1, <2>3 DEF ParseInt
  <2> QED
    BY <2>2, <2>3, <2>4
<1>2. CASE n < 0
  <2> DEFINE q == Decimal(-n)
             p == <<Minus>> \o q
  <2>1. q \in Seq(Digits) /\ q # <<>> /\ FromDigits(q) = -n /\ NumberText(n) = p
    <3>1. -n \in Nat
      BY <1>2
    <3>2. q \in Seq(Digits) /\ q # <<>> /\ FromDigits(q) = -n
      BY <3>1, DecimalValues
    <3> QED
      BY <1>2, <3>2 DEF NumberText
  <2> HIDE DEF q
  <2>2. ToSet(q) \subseteq Digits /\ q \in Seq(Chars \ {LF})
    BY <2>1, DigitsAre
  <2>3. Minus \in Chars \ {LF}
    BY DEF Minus, Chars, Letter, LF
  <2>4. p \in Seq(Chars \ {LF}) /\ p # <<>> /\ p[1] = Minus /\ Tail(p) = q
    BY <2>2, <2>3
  <2> HIDE DEF p
  <2>5. ParseInt(p) = [n |-> -FromDigits(q), err |-> "nil"]
    BY <2>1, <2>2, <2>4 DEF ParseInt
  <2>6. -(-n) = n
    OBVIOUS
  <2> QED
    BY <2>1, <2>4, <2>5, <2>6
<1>3. n >= 0 \/ n < 0
  OBVIOUS
<1> QED
  BY <1>1, <1>2, <1>3, Zenon

(***************************************************************************)
(* One reply.                                                              *)
(***************************************************************************)
Line(c, rest) == <<c>> \o rest \o <<CR, LF>>

LEMMA CharsAre ==
    /\ CR \in Chars /\ LF \in Chars /\ CR # LF
    /\ \A c \in {Minus, Plus, Colon, Dollar, Star} : c \in Chars \ {LF}
    /\ 1 \in Chars \ {LF} /\ 0 \in Chars
BY DEF CR, LF, Minus, Plus, Colon, Dollar, Star, Chars, Letter

LEMMA LineType ==
    ASSUME NEW c \in Chars \ {LF}, NEW rest \in Seq(Chars \ {LF})
    PROVE  Line(c, rest) \in Seq(Chars) /\ Len(Line(c, rest)) = Len(rest) + 3 /\ Line(c, rest) # <<>>
<1> DEFINE s == <<c>> \o rest
<1>1. s \in Seq(Chars) /\ Len(s) = Len(rest) + 1 /\ Len(rest) \in Nat
  OBVIOUS
<1>2. <<CR, LF>> \in Seq(Chars) /\ Len(<<CR, LF>>) = 2
  BY CharsAre
<1>3. Line(c, rest) = s \o <<CR, LF>>
  BY DEF Line
<1> HIDE DEF s
<1>4. s \o <<CR, LF>> \in Seq(Chars) /\ Len(s \o <<CR, LF>>) = Len(s) + 2
  BY <1>1, <1>2
<1>5. Len(Line(c, rest)) = Len(rest) + 3 /\ Line(c, rest) \in Seq(Chars)
  BY <1>1, <1>3, <1>4
<1> HIDE DEF s
<1>6. Len(Line(c, rest)) # 0
  BY <1>1, <1>5
<1> QED
  BY <1>5, <1>6

\* What readLine returns for the line of c and rest.
Shows(line, c, rest) == line.err = "nil" /\ line.v # <<>> /\ line.v[1] = c /\ Tail(line.v) = rest

LEMMA LineShows ==
    ASSUME NEW c \in Chars \ {LF}, NEW rest \in Seq(Chars \ {LF}),
           NEW buf \in Seq(Chars), NEW i \in 1..Len(buf) + 1, Stands(buf, i, Line(c, rest)), Fits(rest)
    PROVE  IF Whole(buf, i, Line(c, rest))
           THEN Shows(ReadLine(buf, i), c, rest) /\ ReadLine(buf, i).i = i + Len(Line(c, rest))
           ELSE ReadLine(buf, i).err # "nil"
<1> DEFINE s    == <<c>> \o rest
           w    == Line(c, rest)
           line == ReadLine(buf, i)
<1>1. /\ s \in Seq(Chars \ {LF}) /\ s # <<>> /\ s[1] = c /\ Tail(s) = rest
      /\ Len(s) + 2 <= LineRoom
  <2>1. Len(s) = Len(rest) + 1 /\ Len(rest) \in Nat
    OBVIOUS
  <2> QED
    BY <2>1, RespAssumption DEF Fits
<1>2. w = s \o <<CR, LF>>
  BY DEF Line
<1>3. Stands(buf, i, w)
  OBVIOUS
<1> HIDE DEF s, w
<1>4. Answered(line, buf, i, s, w)
  BY <1>1, <1>2, <1>3, LineRead
<1> HIDE DEF line
<1>5. CASE Whole(buf, i, w)
  <2>1. line = Reads(s, i + Len(w))
    BY <1>4, <1>5 DEF Answered
  <2>2. line.err = "nil" /\ line.v = s /\ line.i = i + Len(w)
    BY <2>1 DEF Reads
  <2>3. Shows(line, c, rest)
    BY <1>1, <2>2 DEF Shows
  <2> QED
    BY <1>5, <2>2, <2>3 DEF w, line
<1>6. CASE ~Whole(buf, i, w)
  BY <1>4, <1>6 DEF Answered, w, line
<1> QED
  BY <1>5, <1>6

LEMMA JoinsAssociate ==
    ASSUME NEW S, NEW a \in Seq(S), NEW b \in Seq(S), NEW c \in Seq(S)
    PROVE  (a \o b) \o c = a \o (b \o c)
  OBVIOUS

LEMMA BulkRead ==
    ASSUME NEW buf \in Seq(Chars), NEW p \in 1..Len(buf) + 1, NEW s \in Seq(Chars),
           Stands(buf, p, s \o <<CR, LF>>)
    PROVE  Answered(ReadBulk(buf, p, Len(s)), buf, p, Bulk(s), s \o <<CR, LF>>)
<1> DEFINE e == <<CR, LF>>
           n == Len(s)
<1>0. Stands(buf, p, s \o e)
  OBVIOUS
<1>1. e \in Seq(Chars) /\ Len(e) = 2 /\ n \in Nat /\ Len(buf) \in Nat /\ p \in Nat
  BY CharsAre
<1>2. Len(s \o e) = n + 2 /\ Stands(buf, p, s) /\ Stands(buf, p + n, e)
  <2>1. p \in Nat
    OBVIOUS
  <2>2. \A t \in Seq(Chars) :
            /\ Len(s \o t) = Len(s) + Len(t)
            /\ Stands(buf, p, s \o t) => Stands(buf, p, s) /\ Stands(buf, p + Len(s), t)
    BY <2>1, StandsParts
  <2> HIDE DEF e
  <2> QED
    BY <1>0, <1>1, <2>2
<1>3. CASE p + n - 1 > Len(buf)
  <2>1. ReadBulk(buf, p, n) = NotRead(p, "EOF")
    BY <1>1, <1>3 DEF ReadBulk
  <2>2. ~Whole(buf, p, s \o e)
    BY <1>1, <1>2, <1>3 DEF Whole
  <2> QED
    BY <2>1, <2>2 DEF Answered, NotRead
<1>4. CASE ~(p + n - 1 > Len(buf))
  <2> DEFINE line == ReadLine(buf, p + n)
  <2>1. p + n \in 1..Len(buf) + 1 /\ <<>> \o e = e /\ <<>> \in Seq(Chars \ {LF})
    BY <1>1, <1>4
  <2>2. Answered(line, buf, p + n, <<>>, e)
    <3>1. Len(<<>>) + 2 <= LineRoom
      BY RespAssumption
    <3> QED
      BY <1>2, <2>1, <3>1, LineRead
  <2>3. Whole(buf, p + n, e) <=> Whole(buf, p, s \o e)
    BY <1>1, <1>2 DEF Whole
  <2>4. SubSeq(buf, p, p + n - 1) = s
    <3>1. \A k \in 1..n : buf[p + k - 1] = s[k]
      BY <1>1, <1>2, <1>4 DEF Stands
    <3>2. p + n - 1 <= Len(buf)
      BY <1>1, <1>4
    <3> QED
      BY <3>1, <3>2, StandsPart
  <2>5. p + n - 1 <= Len(buf)
    BY <1>1, <1>4
  <2> HIDE DEF line
  <2>6. ReadBulk(buf, p, n) =
            IF line.err # "nil" THEN line
            ELSE IF line.v # <<>> THEN NotRead(line.i, "format") ELSE Reads(Bulk(s), line.i)
    BY <1>4, <2>4, <2>5 DEF ReadBulk, line
  <2>7. CASE Whole(buf, p, s \o e)
    <3>1. line = Reads(<<>>, p + n + 2)
      BY <1>1, <2>2, <2>3, <2>7 DEF Answered
    <3>2. line.err = "nil" /\ line.v = <<>> /\ line.i = p + n + 2
      BY <3>1 DEF Reads
    <3>3. ReadBulk(buf, p, n) = Reads(Bulk(s), p + n + 2)
      BY <2>6, <3>2
    <3>4. p + Len(s \o e) = p + n + 2
      BY <1>1, <1>2
    <3> QED
      BY <2>7, <3>3, <3>4 DEF Answered
  <2>8. CASE ~Whole(buf, p, s \o e)
    <3>1. line.err # "nil"
      BY <2>2, <2>3, <2>8 DEF Answered
    <3> QED
      BY <2>6, <2>8, <3>1 DEF Answered
  <2> QED
    BY <2>7, <2>8
<1> QED
  BY <1>3, <1>4

(***************************************************************************)
(* What readReply makes of a line, by its first character.                 *)
(***************************************************************************)
LEMMA ReplyUnread ==
    ASSUME NEW buf, NEW i, NEW reply, ReadLine(buf, i).err # "nil"
    PROVE  ReplyAt(buf, i, reply) = ReadLine(buf, i)
  BY DEF ReplyAt

LEMMA ReplyByKind ==
    ASSUME NEW buf, NEW i, NEW reply, NEW c, NEW rest, Shows(ReadLine(buf, i), c, rest)
    PROVE  ReplyAt(buf, i, reply) =
                 CASE c = Plus  -> Reads(Status(rest), ReadLine(buf, i).i)
                   [] c = Minus -> Reads(ErrorReply(rest), ReadLine(buf, i).i)
                   [] c = Colon -> IF ParseInt(rest).err # "nil" THEN NotRead(ReadLine(buf, i).i, ParseInt(rest).err)
                                   ELSE Reads(Integer(ParseInt(rest).n), ReadLine(buf, i).i)
                   [] c \in {Dollar, Star} ->
                          IF ParseLen(rest).n < 0
                          THEN [v |-> NilReply, i |-> ReadLine(buf, i).i, err |-> ParseLen(rest).err]
                          ELSE IF c = Dollar THEN ReadBulk(buf, ReadLine(buf, i).i, ParseLen(rest).n)
                          ELSE ReadElements(reply, ReadLine(buf, i).i, ParseLen(rest).n)
                   [] OTHER -> NotRead(ReadLine(buf, i).i, "unexpected")
<1> DEFINE line == ReadLine(buf, i)
<1>1. line.err = "nil" /\ line.v # <<>> /\ line.v[1] = c /\ Tail(line.v) = rest
  BY DEF Shows
<1> QED
  BY <1>1, Zenon DEF ReplyAt

LEMMA KindsApart ==
    /\ Plus # Minus /\ Plus # Colon /\ Plus # Dollar /\ Plus # Star /\ Minus # Colon
    /\ Minus # Dollar /\ Minus # Star /\ Colon # Dollar /\ Colon # Star /\ Dollar # Star
BY DEF Plus, Minus, Colon, Dollar, Star

LEMMA ReplyStatus ==
    ASSUME NEW buf, NEW i, NEW reply, NEW rest, Shows(ReadLine(buf, i), Plus, rest)
    PROVE  ReplyAt(buf, i, reply) = Reads(Status(rest), ReadLine(buf, i).i)
<1>1. Plus # Minus /\ Plus # Colon /\ Plus \notin {Dollar, Star}
  BY KindsApart
<1> QED
  BY <1>1, ReplyByKind, ZenonT(60)

LEMMA ReplyError ==
    ASSUME NEW buf, NEW i, NEW reply, NEW rest, Shows(ReadLine(buf, i), Minus, rest)
    PROVE  ReplyAt(buf, i, reply) = Reads(ErrorReply(rest), ReadLine(buf, i).i)
<1>1. Minus # Plus /\ Minus # Colon /\ Minus \notin {Dollar, Star}
  BY KindsApart
<1> QED
  BY <1>1, ReplyByKind

LEMMA ReplyInteger ==
    ASSUME NEW buf, NEW i, NEW reply, NEW rest, NEW n, Shows(ReadLine(buf, i), Colon, rest),
           ParseInt(rest) = [n |-> n, err |-> "nil"]
    PROVE  ReplyAt(buf, i, reply) = Reads(Integer(n), ReadLine(buf, i).i)
<1>1. Colon # Plus /\ Colon # Minus /\ Colon \notin {Dollar, Star}
  BY KindsApart
<1>2. ParseInt(rest).n = n /\ ParseInt(rest).err = "nil"
  OBVIOUS
<1> QED
  BY <1>1, <1>2, ReplyByKind

LEMMA ReplyCounted ==
    ASSUME NEW buf, NEW i, NEW reply, NEW rest, NEW c \in {Dollar, Star}, Shows(ReadLine(buf, i), c, rest),
           NEW n \in Int, NEW e, ParseLen(rest) = [n |-> n, err |-> e]
    PROVE  ReplyAt(buf, i, reply) =
               IF n < 0 THEN [v |-> NilReply, i |-> ReadLine(buf, i).i, err |-> e]
               ELSE IF c = Dollar THEN ReadBulk(buf, ReadLine(buf, i).i, n)
               ELSE ReadElements(reply, ReadLine(buf, i).i, n)
<1>1. c # Plus /\ c # Minus /\ c # Colon
  BY KindsApart
<1>2. ParseLen(rest).n = n /\ ParseLen(rest).err = e
  OBVIOUS
<1>3. ReplyAt(buf, i, reply) =
          IF ParseLen(rest).n < 0
          THEN [v |-> NilReply, i |-> ReadLine(buf, i).i, err |-> ParseLen(rest).err]
          ELSE IF c = Dollar THEN ReadBulk(buf, ReadLine(buf, i).i, ParseLen(rest).n)
          ELSE ReadElements(reply, ReadLine(buf, i).i, ParseLen(rest).n)
  BY <1>1, ReplyByKind
<1> QED
  BY <1>2, <1>3

LEMMA LineAnswered ==
    ASSUME NEW c \in Chars \ {LF}, NEW rest \in Seq(Chars \ {LF}), NEW buf \in Seq(Chars),
           NEW i \in 1..Len(buf) + 1, NEW reply, NEW x, Stands(buf, i, Line(c, rest)), Fits(rest),
           Shows(ReadLine(buf, i), c, rest) => ReplyAt(buf, i, reply) = Reads(x, ReadLine(buf, i).i)
    PROVE  Answered(ReplyAt(buf, i, reply), buf, i, x, Line(c, rest))
<1>1. IF Whole(buf, i, Line(c, rest))
      THEN Shows(ReadLine(buf, i), c, rest) /\ ReadLine(buf, i).i = i + Len(Line(c, rest))
      ELSE ReadLine(buf, i).err # "nil"
  BY LineShows
<1>2. ReadLine(buf, i).err # "nil" => ReplyAt(buf, i, reply) = ReadLine(buf, i)
  BY ReplyUnread
<1>3. CASE Whole(buf, i, Line(c, rest))
  BY <1>1, <1>3 DEF Answered
<1>4. CASE ~Whole(buf, i, Line(c, rest))
  <2>1. ReplyAt(buf, i, reply).err # "nil"
    BY <1>1, <1>2, <1>4
  <2> QED
    BY <1>4, <2>1 DEF Answered
<1> QED
  BY <1>3, <1>4

\* The bytes w of x are bytes, and whoever meets them reads x.
ReadAs(x, w, buf, i, reply) ==
    /\ w \in Seq(Chars) /\ w # <<>>
    /\ Stands(buf, i, w) => Answered(ReplyAt(buf, i, reply), buf, i, x, w)

LEMMA ReadAsLine ==
    ASSUME NEW c \in Chars \ {LF}, NEW rest \in Seq(Chars \ {LF}), NEW buf \in Seq(Chars),
           NEW i \in 1..Len(buf) + 1, NEW reply, NEW x, Fits(rest),
           Shows(ReadLine(buf, i), c, rest) => ReplyAt(buf, i, reply) = Reads(x, ReadLine(buf, i).i)
    PROVE  ReadAs(x, Line(c, rest), buf, i, reply)
BY LineType, LineAnswered DEF ReadAs

\* What readReply does after a line that counts.
ReadBehind(c, buf, p, n, reply) == IF c = Dollar THEN ReadBulk(buf, p, n) ELSE ReadElements(reply, p, n)

LEMMA CountedAnswered ==
    ASSUME NEW c \in {Dollar, Star}, NEW n \in Nat, Fits(Decimal(n)), NEW t \in Seq(Chars), NEW x,
           NEW buf \in Seq(Chars), NEW i \in 1..Len(buf) + 1, NEW reply,
           \A p \in 1..Len(buf) + 1 :
               Stands(buf, p, t) => Answered(ReadBehind(c, buf, p, n, reply), buf, p, x, t)
    PROVE  ReadAs(x, Line(c, Decimal(n)) \o t, buf, i, reply)
<1> DEFINE h == Line(c, Decimal(n))
           w == h \o t
           line == ReadLine(buf, i)
           r == ReplyAt(buf, i, reply)
<1>1. c \in Chars \ {LF} /\ Decimal(n) \in Seq(Chars \ {LF})
  <2>1. c \in Chars \ {LF}
    BY CharsAre
  <2>2. Decimal(n) \in Seq(Digits)
    BY DecimalValues
  <2> QED
    BY <2>1, <2>2, DigitsAre
<1>2. h \in Seq(Chars) /\ h # <<>>
  BY <1>1, LineType
<1>3. i \in Nat /\ Len(buf) \in Nat
  OBVIOUS
<1>4. ASSUME Shows(line, c, Decimal(n)) PROVE r = ReadBehind(c, buf, line.i, n, reply)
  <2>1. ParseLen(Decimal(n)) = [n |-> n, err |-> "nil"]
    BY ParseLenValues
  <2>2. n \in Int /\ ~(n < 0)
    OBVIOUS
  <2>3. r = IF n < 0 THEN [v |-> NilReply, i |-> line.i, err |-> "nil"]
            ELSE IF c = Dollar THEN ReadBulk(buf, line.i, n) ELSE ReadElements(reply, line.i, n)
    <3> DEFINE d == Decimal(n)
    <3>1. Shows(ReadLine(buf, i), c, d) /\ ParseLen(d) = [n |-> n, err |-> "nil"]
      BY <1>4, <2>1
    <3> HIDE DEF d
    <3> QED
      BY <2>2, <3>1, ReplyCounted
  <2> HIDE DEF line, r
  <2> QED
    BY <2>2, <2>3 DEF ReadBehind
<1> HIDE DEF h
<1>5. w \in Seq(Chars) /\ w # <<>> /\ Len(w) = Len(h) + Len(t) /\ Len(h) \in Nat /\ Len(t) \in Nat
  BY <1>2
<1>6. ASSUME Stands(buf, i, w) PROVE Answered(r, buf, i, x, w)
  <2>1. Stands(buf, i, h) /\ Stands(buf, i + Len(h), t)
    BY <1>2, <1>3, <1>6, StandsParts
  <2>2. IF Whole(buf, i, h) THEN Shows(line, c, Decimal(n)) /\ line.i = i + Len(h) ELSE line.err # "nil"
    BY <1>1, <2>1, LineShows DEF h
  <2>3. CASE Whole(buf, i, h)
    <3> DEFINE p == i + Len(h)
    <3>1. p \in 1..Len(buf) + 1 /\ p + Len(t) = i + Len(w)
      BY <1>3, <1>5, <2>3 DEF Whole
    <3>2. r = ReadBehind(c, buf, p, n, reply)
      BY <1>4, <2>2, <2>3
    <3>3. Whole(buf, p, t) <=> Whole(buf, i, w)
      BY <1>3, <1>5 DEF Whole
    <3> HIDE DEF r, p, w
    <3>4. Answered(r, buf, p, x, t)
      BY <2>1, <3>1, <3>2 DEF p
    <3> QED
      BY <3>1, <3>3, <3>4 DEF Answered
  <2>4. CASE ~Whole(buf, i, h)
    <3>1. r = line /\ line.err # "nil"
      BY <2>2, <2>4, ReplyUnread
    <3>2. ~Whole(buf, i, w)
      BY <1>3, <1>5, <2>4 DEF Whole
    <3> HIDE DEF r, line, w
    <3> QED
      BY <3>1, <3>2 DEF Answered
  <2> QED
    BY <2>3, <2>4
<1> QED
  BY <1>5, <1>6 DEF ReadAs, h

LEMMA FlatAnswered ==
    ASSUME NEW x \in FlatReplies, NEW written, NEW buf \in Seq(Chars), NEW i \in 1..Len(buf) + 1, NEW reply
    PROVE  ReadAs(x, ReplyBytes(x, written), buf, i, reply)
<1>1. CASE x \in [kind : {"status"}, of : {s \in Seq(Chars \ {CR, LF}) : Fits(s)}]
  <2>1. x = Status(x.of) /\ x.of \in Seq(Chars \ {LF}) /\ Fits(x.of) /\ x.kind = "status" /\ Plus \in Chars \ {LF}
    BY <1>1, CharsAre DEF Status
  <2>2. ReplyBytes(x, written) = Line(Plus, x.of)
    BY <2>1 DEF ReplyBytes, Line
  <2>3. Shows(ReadLine(buf, i), Plus, x.of) => ReplyAt(buf, i, reply) = Reads(Status(x.of), ReadLine(buf, i).i)
    BY ReplyStatus
  <2> QED
    BY <2>1, <2>2, <2>3, ReadAsLine
<1>2. CASE x \in [kind : {"error"}, of : {s \in Seq(Chars \ {CR, LF}) : Fits(s)}]
  <2>1. x = ErrorReply(x.of) /\ x.of \in Seq(Chars \ {LF}) /\ Fits(x.of) /\ x.kind = "error" /\ Minus \in Chars \ {LF}
    BY <1>2, CharsAre DEF ErrorReply
  <2>2. ReplyBytes(x, written) = Line(Minus, x.of)
    BY <2>1 DEF ReplyBytes, Line
  <2>3. Shows(ReadLine(buf, i), Minus, x.of) => ReplyAt(buf, i, reply) = Reads(ErrorReply(x.of), ReadLine(buf, i).i)
    BY ReplyError
  <2> QED
    BY <2>1, <2>2, <2>3, ReadAsLine
<1>3. CASE x \in [kind : {"int"}, n : {n \in Int : Fits(NumberText(n))}]
  <2> DEFINE s == NumberText(x.n)
  <2>1. x = Integer(x.n) /\ x.n \in Int /\ Fits(s) /\ x.kind = "int" /\ Colon \in Chars \ {LF}
    BY <1>3, CharsAre DEF Integer
  <2>2. ReplyBytes(x, written) = Line(Colon, s)
    BY <2>1 DEF ReplyBytes, Line, NumberText
  <2>3. s \in Seq(Chars \ {LF}) /\ ParseInt(s) = [n |-> x.n, err |-> "nil"]
    BY <2>1, ParseIntValues
  <2> HIDE DEF s
  <2>4. Shows(ReadLine(buf, i), Colon, s) => ReplyAt(buf, i, reply) = Reads(Integer(x.n), ReadLine(buf, i).i)
    BY <2>3, ReplyInteger
  <2> QED
    BY <2>1, <2>2, <2>3, <2>4, ReadAsLine
<1>4. CASE x = NilReply
  <2> DEFINE s == <<Minus, 1>>
  <2>1. x.kind = "nil" /\ Dollar \in Chars \ {LF} /\ s \in Seq(Chars \ {LF}) /\ s # <<>> /\ Fits(s)
    BY <1>4, CharsAre, RespAssumption DEF NilReply, Fits
  <2>2. ReplyBytes(x, written) = Line(Dollar, s)
    BY <2>1 DEF ReplyBytes, Line
  <2>3. ParseLen(s) = [n |-> -1, err |-> "nil"]
    BY <2>1 DEF ParseLen
  <2> HIDE DEF s
  <2>4. ASSUME Shows(ReadLine(buf, i), Dollar, s)
        PROVE  ReplyAt(buf, i, reply) = Reads(NilReply, ReadLine(buf, i).i)
    <3>1. -1 \in Int /\ -1 < 0 /\ Dollar \in {Dollar, Star}
      OBVIOUS
    <3>2. ReplyAt(buf, i, reply) = [v |-> NilReply, i |-> ReadLine(buf, i).i, err |-> "nil"]
      BY <2>3, <2>4, <3>1, ReplyCounted
    <3> QED
      BY <3>2 DEF Reads
  <2> QED
    BY <1>4, <2>1, <2>2, <2>4, ReadAsLine
<1>5. CASE x \in [kind : {"bulk"}, of : {s \in Seq(Chars) : Fits(Decimal(Len(s)))}]
  <2> DEFINE s == x.of
             n == Len(s)
             t == s \o <<CR, LF>>
  <2>1. x = Bulk(s) /\ s \in Seq(Chars) /\ n \in Nat /\ Fits(Decimal(n)) /\ x.kind = "bulk" /\ Dollar \in {Dollar, Star}
    BY <1>5 DEF Bulk
  <2>2. t \in Seq(Chars) /\ <<CR, LF>> \in Seq(Chars)
    <3>1. <<CR, LF>> \in Seq(Chars)
      BY CharsAre
    <3> QED
      BY <2>1, <3>1
  <2>3. ReplyBytes(x, written) = Line(Dollar, Decimal(n)) \o t
    <3> DEFINE h == Line(Dollar, Decimal(n))
    <3>1. ReplyBytes(x, written) = (h \o s) \o <<CR, LF>>
      BY <2>1 DEF ReplyBytes, WriteBytes, WriteLen, Line
    <3>2. h \in Seq(Chars)
      BY <2>1, DecimalValues, DigitsAre, LineType, CharsAre
    <3> HIDE DEF h, s
    <3>3. (h \o s) \o <<CR, LF>> = h \o (s \o <<CR, LF>>)
      BY <2>1, <2>2, <3>2, JoinsAssociate
    <3> QED
      BY <3>1, <3>3 DEF h
  <2>4. ASSUME NEW p \in 1..Len(buf) + 1, Stands(buf, p, t)
        PROVE  Answered(ReadBehind(Dollar, buf, p, n, reply), buf, p, x, t)
    <3>1. Answered(ReadBulk(buf, p, n), buf, p, x, t)
      BY <2>1, <2>4, BulkRead
    <3>2. ReadBehind(Dollar, buf, p, n, reply) = ReadBulk(buf, p, n)
      BY DEF ReadBehind
    <3> QED
      BY <3>1, <3>2
  <2> HIDE DEF n, t
  <2>6. ReadAs(x, Line(Dollar, Decimal(n)) \o t, buf, i, reply)
    BY <2>1, <2>2, <2>4, CountedAnswered
  <2> QED
    BY <2>3, <2>6
<1> QED
  BY <1>1, <1>2, <1>3, <1>4, <1>5 DEF FlatReplies

(***************************************************************************)
(* Replies one after the other.                                            *)
(***************************************************************************)
NextTurn(before, reply) ==
    IF before.err # "nil" THEN before
    ELSE IF reply[before.i].err # "nil" THEN [v |-> before.v, i |-> reply[before.i].i, err |-> reply[before.i].err]
    ELSE Reads(Append(before.v, reply[before.i].v), reply[before.i].i)

TurnsTo(f, reply, i, n) == f = [k \in 0..n |-> IF k = 0 THEN Reads(<<>>, i) ELSE NextTurn(f[k-1], reply)]

LEMMA TurnsExist == ASSUME NEW reply, NEW i, NEW n \in Nat PROVE \E f : TurnsTo(f, reply, i, n)
<1> DEFINE T == {k \in Nat : \E f : TurnsTo(f, reply, i, k)}
           x0 == Reads(<<>>, i)
<1>1. 0 \in T
  <2> DEFINE f == [k \in 0..0 |-> x0]
  <2> HIDE DEF x0
  <2>1. f = [k \in 0..0 |-> IF k = 0 THEN x0 ELSE NextTurn(f[k-1], reply)]
    OBVIOUS
  <2> QED
    BY <2>1 DEF TurnsTo, x0
<1>2. ASSUME NEW k \in Nat, k \in T PROVE k + 1 \in T
  <2>1. PICK f : TurnsTo(f, reply, i, k)
    BY <1>2
  <2> DEFINE y == NextTurn(f[k], reply)
             g == [j \in 0..k+1 |-> IF j = k + 1 THEN y ELSE f[j]]
  <2>2. \A j \in 0..k : f[j] = IF j = 0 THEN x0 ELSE NextTurn(f[j-1], reply)
    BY <2>1 DEF TurnsTo
  <2> HIDE DEF x0, T
  <2>3. \A j \in 0..k : g[j] = f[j]
    <3> HIDE DEF y
    <3> QED
      OBVIOUS
  <2>4. g[k + 1] = y
    <3> HIDE DEF y
    <3> QED
      OBVIOUS
  <2>5. ASSUME NEW j \in 0..k+1 PROVE g[j] = IF j = 0 THEN x0 ELSE NextTurn(g[j-1], reply)
    <3>1. CASE j = k + 1
      <4>1. j - 1 = k /\ j # 0 /\ k \in 0..k
        BY <3>1
      <4>2. g[j - 1] = f[k] /\ g[j] = y
        BY <2>3, <2>4, <3>1, <4>1
      <4> HIDE DEF g
      <4> QED
        BY <4>1, <4>2
    <3>2. CASE j \in 0..k
      <4>1. g[j] = f[j] /\ (j # 0 => j - 1 \in 0..k /\ g[j-1] = f[j-1])
        BY <2>3, <3>2
      <4> HIDE DEF g
      <4> QED
        BY <2>2, <3>2, <4>1
    <3> QED
      BY <3>1, <3>2
  <2>6. g = [j \in 0..k+1 |-> g[j]]
    <3> HIDE DEF y
    <3> QED
      OBVIOUS
  <2> HIDE DEF g
  <2>7. g = [j \in 0..k+1 |-> IF j = 0 THEN x0 ELSE NextTurn(g[j-1], reply)]
    BY <2>5, <2>6
  <2>8. TurnsTo(g, reply, i, k + 1)
    BY <2>7 DEF TurnsTo, x0
  <2> QED
    BY <2>8 DEF T
<1> HIDE DEF T
<1>3. Nat \subseteq T
  BY <1>1, <1>2, SetInduction
<1> QED
  BY <1>3 DEF T

Turns(f, reply, i, n) == f[0] = Reads(<<>>, i) /\ \A k \in 1..n : f[k] = NextTurn(f[k-1], reply)

LEMMA ReadInTurnValues ==
    ASSUME NEW reply, NEW i, NEW n \in Nat
    PROVE  \E f : ReadInTurn(reply, i, n) = f[n] /\ Turns(f, reply, i, n)
<1> DEFINE f == CHOOSE f : f = [k \in 0..n |-> IF k = 0 THEN Reads(<<>>, i) ELSE NextTurn(f[k-1], reply)]
<1>1. ReadInTurn(reply, i, n) = f[n]
  BY Zenon DEF ReadInTurn, NextTurn
<1>2. f = [k \in 0..n |-> IF k = 0 THEN Reads(<<>>, i) ELSE NextTurn(f[k-1], reply)]
  <2>1. \E g : g = [k \in 0..n |-> IF k = 0 THEN Reads(<<>>, i) ELSE NextTurn(g[k-1], reply)]
    <3>1. PICK g : TurnsTo(g, reply, i, n)
      BY TurnsExist
    <3>2. g = [k \in 0..n |-> IF k = 0 THEN Reads(<<>>, i) ELSE NextTurn(g[k-1], reply)]
      BY <3>1, Zenon DEF TurnsTo
    <3> QED
      BY <3>2, Zenon
  <2> QED
    BY <2>1, Zenon
<1> HIDE DEF f
<1>3. \A k \in 0..n : f[k] = IF k = 0 THEN Reads(<<>>, i) ELSE NextTurn(f[k-1], reply)
  BY <1>2
<1>4. \A k \in 1..n : k \in 0..n /\ k # 0
  OBVIOUS
<1>5. Turns(f, reply, i, n)
  BY <1>3, <1>4 DEF Turns
<1> QED
  BY <1>1, <1>5

\* The joined sequence and its beginnings.
Beginnings(g, qs, n) == g[0] = <<>> /\ \A k \in 1..n : g[k] = g[k - 1] \o qs[k]

LEMMA FlattenValues ==
    ASSUME NEW S, NEW n \in Nat, NEW qs \in [1..n -> Seq(S)]
    PROVE  \E g \in [0..n -> Seq(S)] : FlattenSeq(qs) = g[n] /\ Beginnings(g, qs, n)
<1>1. Len(qs) = n
  OBVIOUS
<1> DEFINE Q == Seq(S)
           D == 0..n
           step == [k \in D |-> [v \in Q |-> IF k = 0 THEN v ELSE v \o qs[k]]]
           Is(f) == f = [i \in 1..n |-> IF i = 1 THEN qs[i] ELSE f[i - 1] \o qs[i]]
<1>2. <<>> \in Q /\ Downward(D) /\ \A v \in Q : v \in Seq(S) /\ <<>> \o v = v
  BY DEF Downward
<1>3. \A k \in 1..n, v \in Q : v \o qs[k] \in Q
  OBVIOUS
<1>4. \A k \in 1..n : qs[k] \in Q
  OBVIOUS
<1> HIDE DEF Q
<1>5. step \in [D -> [Q -> Q]]
  BY <1>3
<1>6. PICK f \in [D -> Q] : Recurs(f, D, step, <<>>)
  <2> HIDE DEF step, D
  <2> QED
    BY <1>2, <1>5, Recursion
<1>7. Beginnings(f, qs, n)
  <2>1. f[0] = <<>>
    <3>1. 0 \in D
      OBVIOUS
    <3> HIDE DEF step, D
    <3> QED
      BY <1>6, <3>1 DEF Recurs
  <2>2. ASSUME NEW k \in 1..n PROVE f[k] = f[k - 1] \o qs[k]
    <3>1. k \in D /\ k # 0 /\ k - 1 \in D
      OBVIOUS
    <3>2. f[k] = step[k][f[k - 1]] /\ f[k - 1] \in Q
      <4> HIDE DEF step, D
      <4> QED
        BY <1>6, <3>1 DEF Recurs
    <3> QED
      BY <3>1, <3>2
  <2> QED
    BY <2>1, <2>2 DEF Beginnings
<1> HIDE DEF step
<1>8. CASE n = 0
  <2>1. FlattenSeq(qs) = qs /\ qs = <<>>
    BY <1>1, <1>8 DEF FlattenSeq
  <2> QED
    BY <1>7, <1>8, <2>1 DEF Beginnings, Q
<1>9. CASE n > 0
  <2> DEFINE h == [i \in 1..n |-> f[i]]
             g == CHOOSE f1 : Is(f1)
  <2>1. \A i \in 1..n : f[i] = IF i = 1 THEN qs[i] ELSE h[i - 1] \o qs[i]
    <3> SUFFICES ASSUME NEW i \in 1..n PROVE f[i] = IF i = 1 THEN qs[i] ELSE h[i - 1] \o qs[i]
      OBVIOUS
    <3>1. f[i] = f[i - 1] \o qs[i] /\ f[0] = <<>> /\ qs[i] \in Q
      BY <1>4, <1>7 DEF Beginnings
    <3>2. CASE i = 1
      <4>1. i - 1 = 0
        BY <3>2
      <4>2. <<>> \o qs[i] = qs[i]
        BY <1>2, <3>1
      <4> QED
        BY <3>1, <3>2, <4>1, <4>2
    <3>3. CASE i # 1
      <4>1. i - 1 \in 1..n
        BY <3>3
      <4>2. h[i - 1] = f[i - 1]
        BY <4>1
      <4> QED
        BY <3>1, <3>3, <4>2
    <3> QED
      BY <3>2, <3>3
  <2>2. Is(h)
    BY <2>1
  <2>3. Is(g)
    <3> HIDE DEF Is
    <3> QED
      BY <2>2
  <2>4. FlattenSeq(qs) = g[n]
    BY <1>1, <1>9 DEF FlattenSeq
  <2> HIDE DEF g, h
  <2> DEFINE T == {k \in Nat : k \in 1..n => g[k] = f[k]}
  <2>5. 0 \in T
    OBVIOUS
  <2>6. ASSUME NEW k \in Nat, k \in T PROVE k + 1 \in T
    <3> SUFFICES ASSUME k + 1 \in 1..n PROVE g[k + 1] = f[k + 1]
      OBVIOUS
    <3>1. g[k + 1] = IF k + 1 = 1 THEN qs[k + 1] ELSE g[k] \o qs[k + 1]
      <4>1. (k + 1) - 1 = k
        OBVIOUS
      <4>2. \A i \in 1..n : g[i] = IF i = 1 THEN qs[i] ELSE g[i - 1] \o qs[i]
        BY <2>3
      <4> QED
        BY <4>1, <4>2
    <3>2. f[k + 1] = f[k] \o qs[k + 1] /\ f[0] = <<>> /\ <<>> \o qs[k + 1] = qs[k + 1]
      <4>1. (k + 1) - 1 = k
        OBVIOUS
      <4> QED
        BY <1>2, <1>4, <1>7, <4>1 DEF Beginnings
    <3>3. CASE k = 0
      BY <3>1, <3>2, <3>3
    <3>4. CASE k # 0
      <4>1. k \in 1..n /\ k + 1 # 1
        BY <3>4
      <4>2. g[k] = f[k]
        BY <2>6, <4>1
      <4> QED
        BY <3>1, <3>2, <4>1, <4>2
    <3> QED
      BY <3>3, <3>4
  <2> HIDE DEF T
  <2>7. Nat \subseteq T
    BY <2>5, <2>6, SetInduction
  <2>8. g[n] = f[n]
    BY <1>9, <2>7 DEF T
  <2> QED
    BY <1>7, <2>4, <2>8 DEF Q
<1> QED
  BY <1>8, <1>9

LEMMA BeginningsStand ==
    ASSUME NEW n \in Nat, NEW qs \in [1..n -> Seq(Chars)], NEW g \in [0..n -> Seq(Chars)],
           Beginnings(g, qs, n), NEW buf \in Seq(Chars), NEW i \in Nat, Stands(buf, i, g[n])
    PROVE  \A k \in 1..n : /\ Stands(buf, i, g[k - 1]) /\ Stands(buf, i + Len(g[k - 1]), qs[k])
                           /\ Len(g[k]) = Len(g[k - 1]) + Len(qs[k])
<1>1. ASSUME NEW k \in 1..n, Stands(buf, i, g[k])
      PROVE  Stands(buf, i, g[k - 1]) /\ Stands(buf, i + Len(g[k - 1]), qs[k])
  <2> DEFINE a == g[k - 1]
             b == qs[k]
  <2>1. a \in Seq(Chars) /\ b \in Seq(Chars) /\ g[k] = a \o b
    <3>1. k - 1 \in 0..n /\ k \in 0..n
      OBVIOUS
    <3> QED
      BY <3>1 DEF Beginnings
  <2>2. Stands(buf, i, a \o b)
    BY <1>1, <2>1
  <2> HIDE DEF a, b
  <2>3. Stands(buf, i, a) /\ Stands(buf, i + Len(a), b)
    BY <2>1, <2>2, StandsParts
  <2> QED
    BY <2>3 DEF a, b
<1> DEFINE T == {d \in Nat : d <= n => Stands(buf, i, g[n - d])}
<1>2. 0 \in T
  OBVIOUS
<1>3. ASSUME NEW d \in Nat, d \in T PROVE d + 1 \in T
  <2> SUFFICES ASSUME d + 1 <= n PROVE Stands(buf, i, g[n - (d + 1)])
    OBVIOUS
  <2>1. n - d \in 1..n /\ (n - d) - 1 = n - (d + 1) /\ Stands(buf, i, g[n - d])
    BY <1>3
  <2> QED
    BY <1>1, <2>1
<1> HIDE DEF T
<1>4. Nat \subseteq T
  BY <1>2, <1>3, SetInduction
<1>5. \A k \in 1..n : Stands(buf, i, g[k])
  <2> SUFFICES ASSUME NEW k \in 1..n PROVE Stands(buf, i, g[k])
    OBVIOUS
  <2>1. n - k \in Nat /\ n - k <= n /\ n - (n - k) = k
    OBVIOUS
  <2> QED
    BY <1>4, <2>1 DEF T
<1>6. ASSUME NEW k \in 1..n PROVE Len(g[k]) = Len(g[k - 1]) + Len(qs[k])
  <2>1. g[k - 1] \in Seq(Chars) /\ qs[k] \in Seq(Chars) /\ g[k] = g[k - 1] \o qs[k]
    <3>1. k - 1 \in 0..n /\ k \in 0..n
      OBVIOUS
    <3> QED
      BY <3>1 DEF Beginnings
  <2> QED
    BY <2>1
<1> QED
  BY <1>1, <1>5, <1>6

\* v is a beginning of ys, of at most n of them.
Begins(v, ys, n) == \E j \in 0..n : v = SubSeq(ys, 1, j)

\* The reader reads them one after the other as far as they are there, and
\* keeps those that it has read.
LEMMA TurnsRead ==
    ASSUME NEW n \in Nat, NEW qs \in [1..n -> Seq(Chars)], NEW g \in [0..n -> Seq(Chars)],
           Beginnings(g, qs, n), NEW buf \in Seq(Chars), NEW i \in 1..Len(buf) + 1, Stands(buf, i, g[n]),
           NEW Y, NEW ys \in Seq(Y), Len(ys) = n, NEW reply,
           \A k \in 1..n : \A p \in 1..Len(buf) + 1 :
               Stands(buf, p, qs[k]) => Answered(reply[p], buf, p, ys[k], qs[k]),
           NEW m \in Nat, n <= m, NEW f, Turns(f, reply, i, m)
    PROVE  \A k \in 0..n : /\ Answered(f[k], buf, i, SubSeq(ys, 1, k), g[k])
                           /\ Begins(f[k].v, ys, k)
<1>5. \A j \in 1..n : /\ Stands(buf, i, g[j - 1]) /\ Stands(buf, i + Len(g[j - 1]), qs[j])
                       /\ Len(g[j]) = Len(g[j - 1]) + Len(qs[j])
  <2>1. i \in Nat
    OBVIOUS
  <2> QED
    BY <2>1, BeginningsStand, ZenonT(60)
<1> DEFINE Read(k) == Answered(f[k], buf, i, SubSeq(ys, 1, k), g[k])
           Kept(k) == Begins(f[k].v, ys, k)
           T == {k \in Nat : k <= n => Read(k) /\ Kept(k)}
<1>0. i \in Nat /\ Len(buf) \in Nat
  OBVIOUS
<1>1. 0 \in T
  <2>1. SubSeq(ys, 1, 0) = <<>> /\ g[0] = <<>> /\ Len(g[0]) = 0
    BY DEF Beginnings
  <2>2. f[0] = Reads(<<>>, i) /\ i + Len(g[0]) = i /\ Whole(buf, i, g[0])
    BY <1>0, <2>1 DEF Turns, Whole
  <2>3. Read(0)
    BY <2>1, <2>2 DEF Answered
  <2>4. f[0].v = SubSeq(ys, 1, 0)
    BY <2>1, <2>2 DEF Reads
  <2>5. 0 \in 0..0
    OBVIOUS
  <2>6. Kept(0)
    BY <2>4, <2>5 DEF Begins
  <2> HIDE DEF Read, Kept
  <2> QED
    BY <2>3, <2>6
<1>2. ASSUME NEW k \in Nat, k \in T PROVE k + 1 \in T
  <2> SUFFICES ASSUME k + 1 <= n PROVE Read(k + 1) /\ Kept(k + 1)
    OBVIOUS
  <2>0. k + 1 \in 1..n /\ k + 1 \in 1..m /\ (k + 1) - 1 = k /\ k \in 0..n
    <3> HIDE DEF T, Read, Kept
    <3> QED
      OBVIOUS
  <2>1. Read(k) /\ Kept(k)
    BY <1>2, <2>0
  <2>2. f[k + 1] = NextTurn(f[k], reply)
    BY <2>0 DEF Turns
  <2> DEFINE q == qs[k + 1]
             y == ys[k + 1]
             h == g[k]
             h1 == g[k + 1]
             s == SubSeq(ys, 1, k)
             s1 == SubSeq(ys, 1, k + 1)
  <2>3. Stands(buf, i, h) /\ Stands(buf, i + Len(h), q) /\ Len(h1) = Len(h) + Len(q)
    BY <1>5, <2>0
  <2>4. q \in Seq(Chars) /\ h \in Seq(Chars) /\ y \in Y /\ s \in Seq(Y) /\ Append(s, y) = s1
        /\ Len(h) \in Nat /\ Len(q) \in Nat
    <3>1. q \in Seq(Chars) /\ h \in Seq(Chars)
      BY <2>0
    <3>2. y \in Y /\ s \in Seq(Y) /\ Append(s, y) = s1
      BY <2>0
    <3> HIDE DEF h, q
    <3> QED
      BY <3>1, <3>2
  <2>5. \A p \in 1..Len(buf) + 1 : Stands(buf, p, q) => Answered(reply[p], buf, p, y, q)
    BY <2>0
  <2>6. CASE Whole(buf, i, h)
    <3> DEFINE p == i + Len(h)
               r == reply[p]
    <3>1. f[k] = Reads(s, p)
      BY <2>1, <2>6 DEF Answered
    <3>2. p \in 1..Len(buf) + 1 /\ p + Len(q) = i + Len(h1) /\ (Whole(buf, p, q) <=> Whole(buf, i, h1))
      <4> HIDE DEF h, h1, q
      <4> QED
        BY <1>0, <2>3, <2>4, <2>6 DEF Whole
    <3>3. Answered(r, buf, p, y, q)
      <4> HIDE DEF q, y, h
      <4> QED
        BY <2>3, <2>5, <3>2 DEF h
    <3>4. f[k].err = "nil" /\ f[k].v = s /\ f[k].i = p
      <4> HIDE DEF s, p
      <4> QED
        BY <3>1 DEF Reads
    <3> HIDE DEF s, s1, y, q, p, h, h1
    <3>5. f[k + 1] = IF r.err # "nil" THEN [v |-> s, i |-> r.i, err |-> r.err] ELSE Reads(Append(s, r.v), r.i)
      BY <2>2, <3>4 DEF NextTurn
    <3> HIDE DEF r
    <3>6. CASE Whole(buf, p, q)
      <4>1. r = Reads(y, p + Len(q))
        BY <3>3, <3>6 DEF Answered
      <4>2. r.err = "nil" /\ r.v = y /\ r.i = p + Len(q)
        BY <4>1 DEF Reads
      <4>3. f[k + 1] = Reads(s1, i + Len(h1))
        BY <2>4, <3>2, <3>5, <4>2
      <4>4. f[k + 1].v = s1
        BY <4>3 DEF Reads
      <4>5. Answered(f[k + 1], buf, i, s1, h1)
        BY <3>2, <3>6, <4>3 DEF Answered
      <4>6. k + 1 \in 0..k + 1
        OBVIOUS
      <4> QED
        BY <4>4, <4>5, <4>6 DEF s1, h1, Begins
    <3>7. CASE ~Whole(buf, p, q)
      <4>1. r.err # "nil"
        BY <3>3, <3>7 DEF Answered
      <4>2. f[k + 1] = [v |-> s, i |-> r.i, err |-> r.err]
        BY <3>5, <4>1
      <4>3. f[k + 1].v = SubSeq(ys, 1, k) /\ f[k + 1].err # "nil"
        BY <4>1, <4>2 DEF s
      <4>4. Answered(f[k + 1], buf, i, s1, h1)
        BY <3>2, <3>7, <4>3 DEF Answered
      <4>5. k \in 0..k + 1
        OBVIOUS
      <4> QED
        BY <4>3, <4>4, <4>5 DEF s1, h1, Begins
    <3> QED
      BY <3>6, <3>7
  <2>7. CASE ~Whole(buf, i, h)
    <3>1. f[k].err # "nil"
      BY <2>1, <2>7 DEF Answered
    <3>2. f[k + 1] = f[k]
      BY <2>2, <3>1 DEF NextTurn
    <3>3. ~Whole(buf, i, h1)
      <4> HIDE DEF h, h1, q
      <4> QED
        BY <1>0, <2>3, <2>4, <2>7 DEF Whole
    <3>4. Read(k + 1)
      BY <3>1, <3>2, <3>3 DEF Answered
    <3>5. Kept(k + 1)
      <4>1. PICK j \in 0..k : f[k].v = SubSeq(ys, 1, j)
        BY <2>1 DEF Begins
      <4>2. j \in 0..k + 1
        OBVIOUS
      <4> QED
        BY <3>2, <4>1, <4>2 DEF Begins
    <3> QED
      BY <3>4, <3>5
  <2> QED
    BY <2>6, <2>7
<1> HIDE DEF T
<1>3. Nat \subseteq T
  BY <1>1, <1>2, SetInduction
<1>4. \A k \in 0..n : k \in Nat /\ k <= n
  OBVIOUS
<1> QED
  BY <1>3, <1>4 DEF T

(***************************************************************************)
(* Replies within replies.                                                 *)
(***************************************************************************)
WrittenWith(d, written) == [x \in NestedReplies[d] |-> ReplyBytes(x, written)]
ReaderWith(buf, reply) == [j \in 1..Len(buf) + 1 |-> ReplyAt(buf, j, reply)]

NestedTo(f, n) == f = [d \in 0..n |-> IF d = 0 THEN FlatReplies ELSE FlatReplies \cup ArraysOf(f[d-1])]

LEMMA NestedExist == ASSUME NEW n \in Nat PROVE \E f : NestedTo(f, n)
<1> DEFINE T == {k \in Nat : \E f : NestedTo(f, k)}
           x0 == FlatReplies
<1>1. 0 \in T
  <2> DEFINE f == [d \in 0..0 |-> x0]
  <2> HIDE DEF x0
  <2>1. f = [d \in 0..0 |-> IF d = 0 THEN x0 ELSE FlatReplies \cup ArraysOf(f[d-1])]
    OBVIOUS
  <2> QED
    BY <2>1 DEF NestedTo, x0
<1>2. ASSUME NEW k \in Nat, k \in T PROVE k + 1 \in T
  <2>1. PICK f : NestedTo(f, k)
    BY <1>2
  <2> DEFINE y == FlatReplies \cup ArraysOf(f[k])
             g == [d \in 0..k+1 |-> IF d = k + 1 THEN y ELSE f[d]]
  <2>2. \A d \in 0..k : f[d] = IF d = 0 THEN x0 ELSE FlatReplies \cup ArraysOf(f[d-1])
    BY <2>1 DEF NestedTo
  <2> HIDE DEF x0, T
  <2>3. (\A d \in 0..k : g[d] = f[d]) /\ g[k + 1] = y /\ g = [d \in 0..k+1 |-> g[d]]
    <3> HIDE DEF y
    <3> QED
      OBVIOUS
  <2>4. ASSUME NEW d \in 0..k+1 PROVE g[d] = IF d = 0 THEN x0 ELSE FlatReplies \cup ArraysOf(g[d-1])
    <3>1. CASE d = k + 1
      <4>1. d - 1 = k /\ d # 0 /\ k \in 0..k
        BY <3>1
      <4>2. g[d - 1] = f[k] /\ g[d] = y
        BY <2>3, <3>1, <4>1
      <4> HIDE DEF g
      <4> QED
        BY <3>1, <4>1, <4>2
    <3>2. CASE d \in 0..k
      <4>1. g[d] = f[d] /\ (d # 0 => d - 1 \in 0..k /\ g[d-1] = f[d-1])
        BY <2>3, <3>2
      <4> HIDE DEF g
      <4> QED
        BY <2>2, <3>2, <4>1
    <3> QED
      BY <3>1, <3>2
  <2> HIDE DEF g
  <2>5. g = [d \in 0..k+1 |-> IF d = 0 THEN x0 ELSE FlatReplies \cup ArraysOf(g[d-1])]
    BY <2>3, <2>4
  <2>6. NestedTo(g, k + 1)
    BY <2>5 DEF NestedTo, x0
  <2> QED
    BY <2>6 DEF T
<1> HIDE DEF T
<1>3. Nat \subseteq T
  BY <1>1, <1>2, SetInduction
<1> QED
  BY <1>3 DEF T

LEMMA NestedValues ==
    /\ NestedReplies[0] = FlatReplies
    /\ \A d \in 1..MaxNesting : NestedReplies[d] = FlatReplies \cup ArraysOf(NestedReplies[d-1])
<1> DEFINE M == MaxNesting
<1>1. M \in Nat
  BY RespAssumption
<1>2. \E f : f = [d \in 0..M |-> FlatReplies \cup IF d = 0 THEN {} ELSE ArraysOf(f[d-1])]
  <2>1. PICK f : NestedTo(f, M)
    BY <1>1, NestedExist
  <2>2. ASSUME NEW d \in 0..M
        PROVE  f[d] = FlatReplies \cup IF d = 0 THEN {} ELSE ArraysOf(f[d-1])
    <3>1. f[d] = IF d = 0 THEN FlatReplies ELSE FlatReplies \cup ArraysOf(f[d-1])
      BY <2>1 DEF NestedTo
    <3>2. FlatReplies \cup {} = FlatReplies
      OBVIOUS
    <3> QED
      BY <3>1, <3>2
  <2>3. f = [d \in 0..M |-> f[d]]
    BY <2>1 DEF NestedTo
  <2>4. f = [d \in 0..M |-> FlatReplies \cup IF d = 0 THEN {} ELSE ArraysOf(f[d-1])]
    BY <2>2, <2>3
  <2> QED
    BY <2>4, Zenon
<1>3. NestedReplies = [d \in 0..M |-> FlatReplies \cup IF d = 0 THEN {} ELSE ArraysOf(NestedReplies[d-1])]
  BY <1>2, Zenon DEF NestedReplies
<1>4. \A d \in 0..M : NestedReplies[d] = FlatReplies \cup IF d = 0 THEN {} ELSE ArraysOf(NestedReplies[d-1])
  BY <1>3
<1>5. 0 \in 0..M /\ \A d \in 1..M : d \in 0..M /\ d # 0
  BY <1>1
<1> QED
  BY <1>4, <1>5

WrittenTo(f, n) == f = [d \in 0..n |-> IF d = 0 THEN WrittenWith(0, <<>>) ELSE WrittenWith(d, f[d-1])]

LEMMA WrittenExist == ASSUME NEW n \in Nat PROVE \E f : WrittenTo(f, n)
<1> DEFINE T == {k \in Nat : \E f : WrittenTo(f, k)}
           x0 == WrittenWith(0, <<>>)
<1>1. 0 \in T
  <2> DEFINE f == [d \in 0..0 |-> x0]
  <2> HIDE DEF x0
  <2>1. f = [d \in 0..0 |-> IF d = 0 THEN x0 ELSE WrittenWith(d, f[d-1])]
    OBVIOUS
  <2> QED
    BY <2>1 DEF WrittenTo, x0
<1>2. ASSUME NEW k \in Nat, k \in T PROVE k + 1 \in T
  <2>1. PICK f : WrittenTo(f, k)
    BY <1>2
  <2> DEFINE y == WrittenWith(k + 1, f[k])
             g == [d \in 0..k+1 |-> IF d = k + 1 THEN y ELSE f[d]]
  <2>2. \A d \in 0..k : f[d] = IF d = 0 THEN x0 ELSE WrittenWith(d, f[d-1])
    BY <2>1 DEF WrittenTo
  <2> HIDE DEF x0, T
  <2>3. (\A d \in 0..k : g[d] = f[d]) /\ g[k + 1] = y /\ g = [d \in 0..k+1 |-> g[d]]
    <3> HIDE DEF y
    <3> QED
      OBVIOUS
  <2>4. ASSUME NEW d \in 0..k+1 PROVE g[d] = IF d = 0 THEN x0 ELSE WrittenWith(d, g[d-1])
    <3>1. CASE d = k + 1
      <4>1. d - 1 = k /\ d # 0 /\ k \in 0..k
        BY <3>1
      <4>2. g[d - 1] = f[k] /\ g[d] = y
        BY <2>3, <3>1, <4>1
      <4> HIDE DEF g
      <4> QED
        BY <3>1, <4>1, <4>2
    <3>2. CASE d \in 0..k
      <4>1. g[d] = f[d] /\ (d # 0 => d - 1 \in 0..k /\ g[d-1] = f[d-1])
        BY <2>3, <3>2
      <4> HIDE DEF g
      <4> QED
        BY <2>2, <3>2, <4>1
    <3> QED
      BY <3>1, <3>2
  <2> HIDE DEF g
  <2>5. g = [d \in 0..k+1 |-> IF d = 0 THEN x0 ELSE WrittenWith(d, g[d-1])]
    BY <2>3, <2>4
  <2>6. WrittenTo(g, k + 1)
    BY <2>5 DEF WrittenTo, x0
  <2> QED
    BY <2>6 DEF T
<1> HIDE DEF T
<1>3. Nat \subseteq T
  BY <1>1, <1>2, SetInduction
<1> QED
  BY <1>3 DEF T

LEMMA WrittenValues ==
    /\ Written[0] = WrittenWith(0, <<>>)
    /\ \A d \in 1..MaxNesting : Written[d] = WrittenWith(d, Written[d-1])
<1> DEFINE M == MaxNesting
           Body(f, d) == [x \in NestedReplies[d] |-> ReplyBytes(x, IF d = 0 THEN <<>> ELSE f[d-1])]
<1>1. M \in Nat
  BY RespAssumption
<1>0. \A f, d : Body(f, d) = IF d = 0 THEN WrittenWith(0, <<>>) ELSE WrittenWith(d, f[d-1])
  BY DEF WrittenWith
<1>2. \E f : f = [d \in 0..M |-> Body(f, d)]
  <2>1. PICK f : WrittenTo(f, M)
    BY <1>1, WrittenExist
  <2> HIDE DEF Body
  <2>2. \A d \in 0..M : f[d] = Body(f, d)
    BY <1>0, <2>1 DEF WrittenTo
  <2>3. f = [d \in 0..M |-> f[d]]
    BY <2>1 DEF WrittenTo
  <2>4. f = [d \in 0..M |-> Body(f, d)]
    BY <2>2, <2>3
  <2> QED
    BY <2>4, Zenon
<1>3. Written = [d \in 0..M |-> Body(Written, d)]
  BY <1>2, Zenon DEF Written
<1> HIDE DEF Body
<1>4. \A d \in 0..M : Written[d] = Body(Written, d)
  BY <1>3
<1>5. 0 \in 0..M /\ \A d \in 1..M : d \in 0..M /\ d # 0
  BY <1>1
<1> QED
  BY <1>0, <1>4, <1>5

ReaderTo(f, buf, n) == f = [d \in 0..n |-> IF d = 0 THEN ReaderWith(buf, NoReply(buf)) ELSE ReaderWith(buf, f[d-1])]

LEMMA ReaderExists == ASSUME NEW buf, NEW n \in Nat PROVE \E f : ReaderTo(f, buf, n)
<1> DEFINE T == {k \in Nat : \E f : ReaderTo(f, buf, k)}
           x0 == ReaderWith(buf, NoReply(buf))
<1>1. 0 \in T
  <2> DEFINE f == [d \in 0..0 |-> x0]
  <2> HIDE DEF x0
  <2>1. f = [d \in 0..0 |-> IF d = 0 THEN x0 ELSE ReaderWith(buf, f[d-1])]
    OBVIOUS
  <2> QED
    BY <2>1 DEF ReaderTo, x0
<1>2. ASSUME NEW k \in Nat, k \in T PROVE k + 1 \in T
  <2>1. PICK f : ReaderTo(f, buf, k)
    BY <1>2
  <2> DEFINE y == ReaderWith(buf, f[k])
             g == [d \in 0..k+1 |-> IF d = k + 1 THEN y ELSE f[d]]
  <2>2. \A d \in 0..k : f[d] = IF d = 0 THEN x0 ELSE ReaderWith(buf, f[d-1])
    BY <2>1 DEF ReaderTo
  <2> HIDE DEF x0, T
  <2>3. (\A d \in 0..k : g[d] = f[d]) /\ g[k + 1] = y /\ g = [d \in 0..k+1 |-> g[d]]
    <3> HIDE DEF y
    <3> QED
      OBVIOUS
  <2>4. ASSUME NEW d \in 0..k+1 PROVE g[d] = IF d = 0 THEN x0 ELSE ReaderWith(buf, g[d-1])
    <3>1. CASE d = k + 1
      <4>1. d - 1 = k /\ d # 0 /\ k \in 0..k
        BY <3>1
      <4>2. g[d - 1] = f[k] /\ g[d] = y
        BY <2>3, <3>1, <4>1
      <4> HIDE DEF g
      <4> QED
        BY <3>1, <4>1, <4>2
    <3>2. CASE d \in 0..k
      <4>1. g[d] = f[d] /\ (d # 0 => d - 1 \in 0..k /\ g[d-1] = f[d-1])
        BY <2>3, <3>2
      <4> HIDE DEF g
      <4> QED
        BY <2>2, <3>2, <4>1
    <3> QED
      BY <3>1, <3>2
  <2> HIDE DEF g
  <2>5. g = [d \in 0..k+1 |-> IF d = 0 THEN x0 ELSE ReaderWith(buf, g[d-1])]
    BY <2>3, <2>4
  <2>6. ReaderTo(g, buf, k + 1)
    BY <2>5 DEF ReaderTo, x0
  <2> QED
    BY <2>6 DEF T
<1> HIDE DEF T
<1>3. Nat \subseteq T
  BY <1>1, <1>2, SetInduction
<1> QED
  BY <1>3 DEF T

LEMMA ReaderValues ==
    ASSUME NEW buf
    PROVE  \E R : /\ \A i : ReadReply(buf, i) = R[MaxNesting][i]
                  /\ R[0] = ReaderWith(buf, NoReply(buf))
                  /\ \A d \in 1..MaxNesting : R[d] = ReaderWith(buf, R[d-1])
<1> DEFINE M == MaxNesting
           Body(f, d) == [j \in 1..Len(buf) + 1 |-> ReplyAt(buf, j, IF d = 0 THEN NoReply(buf) ELSE f[d-1])]
           R == CHOOSE R : R = [d \in 0..M |-> Body(R, d)]
<1>1. M \in Nat
  BY RespAssumption
<1>2. \A f, d : Body(f, d) = IF d = 0 THEN ReaderWith(buf, NoReply(buf)) ELSE ReaderWith(buf, f[d-1])
  BY DEF ReaderWith
<1>3. \E f : f = [d \in 0..M |-> Body(f, d)]
  <2>1. PICK f : ReaderTo(f, buf, M)
    BY <1>1, ReaderExists
  <2> HIDE DEF Body, R
  <2>2. \A d \in 0..M : f[d] = Body(f, d)
    BY <1>2, <2>1 DEF ReaderTo
  <2>3. f = [d \in 0..M |-> f[d]]
    BY <2>1 DEF ReaderTo
  <2>4. f = [d \in 0..M |-> Body(f, d)]
    BY <2>2, <2>3
  <2> QED
    BY <2>4, Zenon
<1>4. R = [d \in 0..M |-> Body(R, d)]
  <2> HIDE DEF Body
  <2> QED
    BY <1>3, Zenon
<1>5. \A i : ReadReply(buf, i) = R[M][i]
  BY Zenon DEF ReadReply
<1> HIDE DEF R, Body
<1>6. \A d \in 0..M : R[d] = Body(R, d)
  BY <1>4
<1>7. 0 \in 0..M /\ \A d \in 1..M : d \in 0..M /\ d # 0
  BY <1>1
<1>8. R[0] = ReaderWith(buf, NoReply(buf)) /\ \A d \in 1..M : R[d] = ReaderWith(buf, R[d-1])
  BY <1>2, <1>6, <1>7
<1> QED
  BY <1>5, <1>8

\* The elements of an array.
LEMMA ElementsAnswered ==
    ASSUME NEW n \in Nat, NEW qs \in [1..n -> Seq(Chars)], NEW buf \in Seq(Chars),
           NEW i \in 1..Len(buf) + 1, Stands(buf, i, FlattenSeq(qs)),
           NEW Y, NEW ys \in Seq(Y), Len(ys) = n, NEW reply,
           \A k \in 1..n : \A p \in 1..Len(buf) + 1 :
               Stands(buf, p, qs[k]) => Answered(reply[p], buf, p, ys[k], qs[k])
    PROVE  Answered(ReadElements(reply, i, n), buf, i, Array(ys), FlattenSeq(qs))
<1>1. PICK g \in [0..n -> Seq(Chars)] : FlattenSeq(qs) = g[n] /\ Beginnings(g, qs, n)
  BY FlattenValues
<1>2. PICK f : ReadInTurn(reply, i, n) = f[n] /\ Turns(f, reply, i, n)
  BY ReadInTurnValues
<1>3. Answered(f[n], buf, i, SubSeq(ys, 1, n), g[n])
  <2>1. n <= n /\ n \in 0..n /\ Stands(buf, i, g[n])
    BY <1>1
  <2>2. \A k \in 0..n : Answered(f[k], buf, i, SubSeq(ys, 1, k), g[k])
    BY <1>1, <1>2, <2>1, TurnsRead
  <2> QED
    BY <2>1, <2>2
<1>4. SubSeq(ys, 1, n) = ys
  OBVIOUS
<1> DEFINE all == ReadInTurn(reply, i, n)
           w   == FlattenSeq(qs)
<1>5. Answered(all, buf, i, ys, w)
  BY <1>1, <1>2, <1>3, <1>4
<1>6. ReadElements(reply, i, n) = IF all.err # "nil" THEN NotRead(all.i, all.err) ELSE Reads(Array(all.v), all.i)
  BY DEF ReadElements
<1> HIDE DEF all, w
<1>7. CASE Whole(buf, i, w)
  <2>1. all = Reads(ys, i + Len(w))
    BY <1>5, <1>7 DEF Answered
  <2>2. all.err = "nil" /\ all.v = ys /\ all.i = i + Len(w)
    BY <2>1 DEF Reads
  <2>3. ReadElements(reply, i, n) = Reads(Array(ys), i + Len(w))
    BY <1>6, <2>2
  <2> QED
    BY <1>7, <2>3 DEF Answered, w
<1>8. CASE ~Whole(buf, i, w)
  <2>1. all.err # "nil"
    BY <1>5, <1>8 DEF Answered
  <2>2. ReadElements(reply, i, n).err # "nil"
    BY <1>6, <2>1 DEF NotRead
  <2> QED
    BY <1>8, <2>2 DEF Answered, w
<1> QED
  BY <1>7, <1>8

\* What a server writes of a reply.
LEMMA WrittenAre ==
    /\ \A x \in FlatReplies : x \in NestedReplies[0] /\ Written[0][x] = ReplyBytes(x, <<>>)
    /\ NestedReplies[0] = FlatReplies
    /\ \A d \in 1..MaxNesting :
         /\ NestedReplies[d] = FlatReplies \cup ArraysOf(NestedReplies[d-1])
         /\ \A x \in NestedReplies[d] : Written[d][x] = ReplyBytes(x, Written[d-1])
<1>1. NestedReplies[0] = FlatReplies
  BY NestedValues
<1>2. \A x \in FlatReplies : Written[0][x] = ReplyBytes(x, <<>>)
  <2>1. Written[0] = [x \in FlatReplies |-> ReplyBytes(x, <<>>)]
    BY <1>1, WrittenValues DEF WrittenWith
  <2> QED
    BY <2>1
<1>3. ASSUME NEW d \in 1..MaxNesting
      PROVE  \A x \in NestedReplies[d] : Written[d][x] = ReplyBytes(x, Written[d-1])
  <2>1. Written[d] = [x \in NestedReplies[d] |-> ReplyBytes(x, Written[d-1])]
    BY WrittenValues DEF WrittenWith
  <2> QED
    BY <2>1
<1> QED
  BY <1>1, <1>2, <1>3, NestedValues

\* All readers for the replies of one depth.
ReadsAll(d, buf, reply) ==
    \A x \in NestedReplies[d] :
        /\ Written[d][x] \in Seq(Chars) /\ Written[d][x] # <<>>
        /\ \A i \in 1..Len(buf) + 1 :
               Stands(buf, i, Written[d][x]) => Answered(reply[i], buf, i, x, Written[d][x])

LEMMA ReadsFlat ==
    ASSUME NEW buf \in Seq(Chars)
    PROVE  ReadsAll(0, buf, ReaderWith(buf, NoReply(buf)))
<1> SUFFICES ASSUME NEW x \in FlatReplies
             PROVE  /\ Written[0][x] \in Seq(Chars) /\ Written[0][x] # <<>>
                    /\ \A i \in 1..Len(buf) + 1 : Stands(buf, i, Written[0][x]) =>
                           Answered(ReaderWith(buf, NoReply(buf))[i], buf, i, x, Written[0][x])
  BY WrittenAre DEF ReadsAll
<1> DEFINE w == Written[0][x]
           R == ReaderWith(buf, NoReply(buf))
<1>1. w = ReplyBytes(x, <<>>)
  BY WrittenAre
<1>2. \A i \in 1..Len(buf) + 1 : R[i] = ReplyAt(buf, i, NoReply(buf))
  BY DEF ReaderWith
<1>3. \A i \in 1..Len(buf) + 1 : ReadAs(x, w, buf, i, NoReply(buf))
  BY <1>1, FlatAnswered
<1>4. 1 \in 1..Len(buf) + 1
  OBVIOUS
<1> HIDE DEF w, R
<1>5. w \in Seq(Chars) /\ w # <<>>
  BY <1>3, <1>4 DEF ReadAs
<1>6. \A i \in 1..Len(buf) + 1 : Stands(buf, i, w) => Answered(R[i], buf, i, x, w)
  BY <1>2, <1>3 DEF ReadAs
<1> QED
  BY <1>5, <1>6 DEF w, R

LEMMA ReadsDeeper ==
    ASSUME NEW buf \in Seq(Chars), NEW d \in 1..MaxNesting, NEW reply, ReadsAll(d - 1, buf, reply)
    PROVE  ReadsAll(d, buf, ReaderWith(buf, reply))
<1> SUFFICES ASSUME NEW x \in NestedReplies[d]
             PROVE  /\ Written[d][x] \in Seq(Chars) /\ Written[d][x] # <<>>
                    /\ \A i \in 1..Len(buf) + 1 : Stands(buf, i, Written[d][x]) =>
                           Answered(ReaderWith(buf, reply)[i], buf, i, x, Written[d][x])
  BY DEF ReadsAll
<1> DEFINE w == Written[d][x]
           R == ReaderWith(buf, reply)
           W == Written[d-1]
           Y == NestedReplies[d-1]
<1>1. w = ReplyBytes(x, W) /\ (x \in FlatReplies \/ x \in ArraysOf(Y))
  BY WrittenAre
<1>2. \A i \in 1..Len(buf) + 1 : R[i] = ReplyAt(buf, i, reply)
  BY DEF ReaderWith
<1>3. \A i \in 1..Len(buf) + 1 : ReadAs(x, w, buf, i, reply)
  <2>1. CASE x \in FlatReplies
    BY <1>1, <2>1, FlatAnswered
  <2>2. CASE x \in ArraysOf(Y)
    <3> DEFINE ys == x.of
               n  == Len(ys)
               qs == [k \in 1..n |-> W[ys[k]]]
               t  == FlattenSeq(qs)
    <3>1. x = Array(ys) /\ ys \in Seq(Y) /\ n \in Nat /\ Fits(Decimal(n)) /\ x.kind = "array"
      BY <2>2 DEF ArraysOf, Array
    <3>2. DOMAIN ys = 1..n /\ \A k \in 1..n : ys[k] \in Y
      BY <3>1
    <3>3. w = Line(Star, Decimal(n)) \o t
      BY <1>1, <3>1, <3>2 DEF ReplyBytes, WriteLen, Line
    <3>4. \A k \in 1..n : qs[k] \in Seq(Chars)
                         /\ \A p \in 1..Len(buf) + 1 :
                              Stands(buf, p, qs[k]) => Answered(reply[p], buf, p, ys[k], qs[k])
      <4> HIDE DEF ys
      <4> QED
        BY <3>2 DEF ReadsAll
    <3>5. qs \in [1..n -> Seq(Chars)]
      BY <3>4
    <3> HIDE DEF qs, ys
    <3>6. t \in Seq(Chars)
      <4>1. PICK g \in [0..n -> Seq(Chars)] : FlattenSeq(qs) = g[n] /\ Beginnings(g, qs, n)
        BY <3>1, <3>5, FlattenValues
      <4>2. n \in 0..n
        BY <3>1
      <4> QED
        BY <4>1, <4>2
    <3>7. ASSUME NEW p \in 1..Len(buf) + 1, Stands(buf, p, t)
          PROVE  Answered(ReadBehind(Star, buf, p, n, reply), buf, p, x, t)
      <4>1. Answered(ReadElements(reply, p, n), buf, p, Array(ys), t)
        BY <3>1, <3>4, <3>5, <3>7, ElementsAnswered
      <4>2. ReadBehind(Star, buf, p, n, reply) = ReadElements(reply, p, n)
        BY KindsApart DEF ReadBehind
      <4> QED
        BY <3>1, <4>1, <4>2
    <3>8. Star \in {Dollar, Star}
      OBVIOUS
    <3> HIDE DEF t, n, w
    <3>9. \A i \in 1..Len(buf) + 1 : ReadAs(x, Line(Star, Decimal(n)) \o t, buf, i, reply)
      BY <3>1, <3>6, <3>7, <3>8, CountedAnswered
    <3> QED
      BY <3>3, <3>9
  <2> QED
    BY <1>1, <2>1, <2>2
<1>4. 1 \in 1..Len(buf) + 1
  OBVIOUS
<1> HIDE DEF w, R
<1>5. w \in Seq(Chars) /\ w # <<>>
  BY <1>3, <1>4 DEF ReadAs
<1>6. \A i \in 1..Len(buf) + 1 : Stands(buf, i, w) => Answered(R[i], buf, i, x, w)
  BY <1>2, <1>3 DEF ReadAs
<1> QED
  BY <1>5, <1>6 DEF w, R

\* readReply reads what the server writes.
LEMMA ReplyRead ==
    ASSUME NEW buf \in Seq(Chars)
    PROVE  ReadsAll(MaxNesting, buf, [i \in 1..Len(buf) + 1 |-> ReadReply(buf, i)])
<1>1. PICK R : /\ \A i : ReadReply(buf, i) = R[MaxNesting][i]
               /\ R[0] = ReaderWith(buf, NoReply(buf))
               /\ \A d \in 1..MaxNesting : R[d] = ReaderWith(buf, R[d-1])
  BY ReaderValues
<1> DEFINE T == {d \in Nat : d <= MaxNesting => ReadsAll(d, buf, R[d])}
<1>2. 0 \in T
  BY <1>1, ReadsFlat
<1>3. ASSUME NEW d \in Nat, d \in T PROVE d + 1 \in T
  <2> SUFFICES ASSUME d + 1 <= MaxNesting PROVE ReadsAll(d + 1, buf, R[d + 1])
    OBVIOUS
  <2>1. d + 1 \in 1..MaxNesting /\ (d + 1) - 1 = d /\ ReadsAll(d, buf, R[d])
    BY <1>3, RespAssumption
  <2>2. R[d + 1] = ReaderWith(buf, R[d])
    BY <1>1, <2>1
  <2> QED
    BY <2>1, <2>2, ReadsDeeper
<1> HIDE DEF T
<1>4. Nat \subseteq T
  BY <1>2, <1>3, SetInduction
<1>5. ReadsAll(MaxNesting, buf, R[MaxNesting])
  BY <1>4, RespAssumption DEF T
<1> DEFINE r == [i \in 1..Len(buf) + 1 |-> ReadReply(buf, i)]
<1>6. \A i \in 1..Len(buf) + 1 : r[i] = R[MaxNesting][i]
  BY <1>1
<1> HIDE DEF r
<1> QED
  BY <1>5, <1>6 DEF ReadsAll, r

LEMMA NothingMore ==
    ASSUME NEW buf \in Seq(Chars)
    PROVE  ReadReply(buf, Len(buf) + 1).err # "nil"
<1> DEFINE e == Len(buf) + 1
<1>1. PICK R : /\ \A i : ReadReply(buf, i) = R[MaxNesting][i]
               /\ R[0] = ReaderWith(buf, NoReply(buf))
               /\ \A d \in 1..MaxNesting : R[d] = ReaderWith(buf, R[d-1])
  BY ReaderValues
<1>2. MaxNesting \in 1..MaxNesting /\ e \in 1..Len(buf) + 1
  BY RespAssumption
<1>3. ReadReply(buf, e) = ReplyAt(buf, e, R[MaxNesting - 1])
  <2>1. R[MaxNesting] = ReaderWith(buf, R[MaxNesting - 1])
    BY <1>1, <1>2
  <2> QED
    BY <1>1, <1>2, <2>1 DEF ReaderWith
<1>4. ReadLine(buf, e).err # "nil"
  <2> DEFINE x == IF Len(buf) < e + LineRoom - 1 THEN "EOF" ELSE "long"
  <2>1. {j \in e..Len(buf) : buf[j] = LF /\ j < e + LineRoom} = {}
    OBVIOUS
  <2>2. x # "nil"
    OBVIOUS
  <2>3. ReadLine(buf, e) = NotRead(e, x)
    BY <2>1 DEF ReadLine
  <2> HIDE DEF x
  <2> QED
    BY <2>2, <2>3 DEF NotRead
<1> QED
  BY <1>3, <1>4, ReplyUnread

\* What is read of the bytes of some replies is a beginning of them, and all of
\* them if all bytes are there.
ReadOf(v, ys, buf, all) == Begins(v, ys, Len(ys)) /\ (Len(buf) = Len(all) => v = ys)

\* All that is read by one that tries to read more than there are.
LEMMA TurnsBeyond ==
    ASSUME NEW n \in Nat, NEW qs \in [1..n -> Seq(Chars)], NEW all, all = FlattenSeq(qs),
           NEW buf \in Seq(Chars), NEW i \in 1..Len(buf) + 1, i = 1, Stands(buf, i, all), Len(buf) <= Len(all),
           NEW Y, NEW ys \in Seq(Y), Len(ys) = n, NEW reply,
           \A k \in 1..n : \A p \in 1..Len(buf) + 1 :
               Stands(buf, p, qs[k]) => Answered(reply[p], buf, p, ys[k], qs[k]),
           reply[Len(buf) + 1].err # "nil", NEW m \in Nat, n < m
    PROVE  ReadOf(ReadInTurn(reply, i, m).v, ys, buf, all)
<1>1. n \in Nat /\ m \in Nat /\ n < m
  OBVIOUS
<1>2. reply[Len(buf) + 1].err # "nil" /\ i = 1 /\ i \in 1..Len(buf) + 1 /\ Len(buf) \in Nat
  OBVIOUS
<1>3. PICK g \in [0..n -> Seq(Chars)] : all = g[n] /\ Beginnings(g, qs, n)
  BY FlattenValues
<1>4. PICK f : ReadInTurn(reply, i, m) = f[m] /\ Turns(f, reply, i, m)
  BY ReadInTurnValues
<1>5. Answered(f[n], buf, i, ys, all) /\ Begins(f[n].v, ys, n)
  <2>1. n <= m /\ n \in 0..n /\ Stands(buf, i, g[n]) /\ SubSeq(ys, 1, n) = ys
    BY <1>1, <1>3
  <2>2. \A k \in 0..n : Answered(f[k], buf, i, SubSeq(ys, 1, k), g[k])
    BY <1>3, <1>4, <2>1, TurnsRead
  <2>3. \A k \in 0..n : Begins(f[k].v, ys, k)
    BY <1>3, <1>4, <2>1, TurnsRead
  <2> QED
    BY <1>3, <2>1, <2>2, <2>3
<1>6. \A k \in 1..m : f[k] = NextTurn(f[k - 1], reply)
  BY <1>4 DEF Turns
<1>7. f[n + 1].err # "nil" /\ f[n + 1].v = f[n].v
  <2>1. n + 1 \in 1..m /\ (n + 1) - 1 = n
    BY <1>1
  <2>2. f[n + 1] = NextTurn(f[n], reply)
    BY <1>6, <2>1
  <2>3. CASE f[n].err # "nil"
    BY <2>2, <2>3 DEF NextTurn
  <2>4. CASE f[n].err = "nil"
    <3>1. f[n] = Reads(ys, 1 + Len(all)) /\ 1 + Len(all) - 1 <= Len(buf)
      BY <1>2, <1>5, <2>4 DEF Answered, Whole
    <3>2. Len(all) \in Nat
      BY <1>1, <1>3
    <3>3. 1 + Len(all) = Len(buf) + 1
      BY <1>2, <3>1, <3>2
    <3>4. f[n].i = Len(buf) + 1
      BY <3>1, <3>3 DEF Reads
    <3>5. reply[f[n].i].err # "nil"
      BY <1>2, <3>4
    <3>6. f[n + 1] = [v |-> f[n].v, i |-> reply[f[n].i].i, err |-> reply[f[n].i].err]
      BY <2>2, <2>4, <3>5 DEF NextTurn
    <3> QED
      BY <3>5, <3>6
  <2> QED
    BY <2>3, <2>4
<1> DEFINE T == {k \in Nat : n + 1 + k <= m => f[n + 1 + k].err # "nil" /\ f[n + 1 + k].v = f[n].v}
<1>8. 0 \in T
  <2>1. n + 1 + 0 = n + 1
    BY <1>1
  <2> QED
    BY <1>7, <2>1
<1>9. ASSUME NEW k \in Nat, k \in T PROVE k + 1 \in T
  <2> SUFFICES ASSUME n + 1 + (k + 1) <= m
               PROVE  f[n + 1 + (k + 1)].err # "nil" /\ f[n + 1 + (k + 1)].v = f[n].v
    OBVIOUS
  <2> DEFINE l == n + 1 + (k + 1)
  <2>1. l \in 1..m /\ l - 1 = n + 1 + k /\ n + 1 + k <= m
    BY <1>1
  <2>2. f[l - 1].err # "nil" /\ f[l - 1].v = f[n].v
    BY <1>9, <2>1
  <2>3. f[l] = NextTurn(f[l - 1], reply)
    BY <1>6, <2>1
  <2> QED
    BY <2>2, <2>3 DEF NextTurn
<1> HIDE DEF T
<1>10. Nat \subseteq T
  BY <1>8, <1>9, SetInduction
<1>11. f[m].v = f[n].v
  <2> DEFINE k == m - (n + 1)
  <2>1. k \in Nat /\ n + 1 + k = m /\ m <= m
    BY <1>1
  <2> HIDE DEF k
  <2> QED
    BY <1>10, <2>1 DEF T
<1>12. ASSUME Len(buf) = Len(all) PROVE f[n].v = ys
  <2>1. Whole(buf, i, all)
    BY <1>2, <1>12 DEF Whole
  <2>2. f[n] = Reads(ys, 1 + Len(all))
    BY <1>2, <1>5, <2>1 DEF Answered
  <2> QED
    BY <2>2 DEF Reads
<1> QED
  BY <1>4, <1>5, <1>11, <1>12 DEF ReadOf

LEMMA AllRead ==
    ASSUME NEW xs \in Seq(NestedReplies[MaxNesting]), Len(xs) <= MaxReplies,
           NEW all, all = FlattenSeq([k \in DOMAIN xs |-> ServerWrites(xs[k])]),
           NEW buf \in Seq(Chars), Stands(buf, 1, all), Len(buf) <= Len(all)
    PROVE  ReadOf(AllReplies(buf), xs, buf, all)
<1> DEFINE n == Len(xs)
           m == MaxReplies + 1
           Y == NestedReplies[MaxNesting]
           qs == [k \in 1..n |-> ServerWrites(xs[k])]
           reply == [i \in 1..Len(buf) + 1 |-> ReadReply(buf, i)]
<1>1. n \in Nat /\ m \in Nat /\ n < m /\ DOMAIN xs = 1..n /\ \A k \in 1..n : xs[k] \in Y
  BY RespAssumption
<1>2. all = FlattenSeq(qs)
  BY <1>1
<1>3. ReadsAll(MaxNesting, buf, reply)
  BY ReplyRead
<1>4. \A k \in 1..n : /\ qs[k] \in Seq(Chars)
                      /\ \A p \in 1..Len(buf) + 1 :
                            Stands(buf, p, qs[k]) => Answered(reply[p], buf, p, xs[k], qs[k])
  <2> HIDE DEF reply
  <2> QED
    BY <1>1, <1>3 DEF ReadsAll, ServerWrites
<1>5. qs \in [1..n -> Seq(Chars)]
  BY <1>4
<1>6. reply[Len(buf) + 1].err # "nil" /\ 1 \in 1..Len(buf) + 1 /\ Len(buf) \in Nat
  <2>1. Len(buf) + 1 \in 1..Len(buf) + 1 /\ 1 \in 1..Len(buf) + 1 /\ Len(buf) \in Nat
    OBVIOUS
  <2>2. reply[Len(buf) + 1] = ReadReply(buf, Len(buf) + 1)
    BY <2>1
  <2> QED
    BY <2>1, <2>2, NothingMore
<1>7. AllReplies(buf) = ReadInTurn(reply, 1, m).v
  BY DEF AllReplies
<1> HIDE DEF qs, reply
<1> DEFINE i == 1
<1>8. /\ xs \in Seq(Y) /\ Len(xs) = n /\ all = FlattenSeq(qs) /\ i = 1 /\ i \in 1..Len(buf) + 1
      /\ Stands(buf, i, all) /\ Len(buf) <= Len(all) /\ AllReplies(buf) = ReadInTurn(reply, i, m).v
  BY <1>2, <1>6, <1>7
<1> HIDE DEF n, m, Y, i
<1>9. \A k \in 1..n : \A p \in 1..Len(buf) + 1 :
          Stands(buf, p, qs[k]) => Answered(reply[p], buf, p, xs[k], qs[k])
  BY <1>4
<1>10. ReadOf(ReadInTurn(reply, i, m).v, xs, buf, all)
  BY <1>1, <1>5, <1>6, <1>8, <1>9, TurnsBeyond
<1> QED
  BY <1>8, <1>10

\* A command is written as a server would write the array of its arguments.
LEMMA CommandWritten ==
    ASSUME NEW c \in Sendable, NEW x, x = AsArray(c)
    PROVE  x \in NestedReplies[MaxNesting] /\ WriteCommand(c) = Written[MaxNesting][x]
<1> DEFINE M == MaxNesting
           n == Len(c)
           ys == [k \in 1..n |-> AsString(c[k])]
           W == Written[M - 1]
           Y == NestedReplies[M - 1]
<1>1. M \in 1..M /\ M \in Nat /\ (M - 1 = 0 \/ M - 1 \in 1..M)
  BY RespAssumption
<1>2. c \in Seq(Arguments) /\ x \in NestedReplies[M]
  BY DEF Sendable
<1>3. n \in Nat /\ DOMAIN c = 1..n /\ \A k \in 1..n : c[k] \in Arguments
  BY <1>2
<1>4. ASSUME NEW a \in Arguments
      PROVE  AsString(a).kind = "bulk" /\ WriteArg(a) = WriteBytes(AsString(a).of)
  <2>1. CASE a.kind = "int"
    <3> DEFINE s == NumberText(a.n)
    <3>1. AsString(a) = Bulk(s) /\ WriteArg(a) = WriteBytes(s)
      BY <2>1 DEF AsString, WriteArg, WriteInt64
    <3> HIDE DEF s
    <3> QED
      BY <3>1 DEF Bulk
  <2>2. CASE a.kind = "bool"
    <3> DEFINE s == <<IF a.b THEN 1 ELSE 0>>
    <3>1. AsString(a) = Bulk(s) /\ WriteArg(a) = WriteBytes(s)
      BY <2>2 DEF AsString, WriteArg
    <3> HIDE DEF s
    <3> QED
      BY <3>1 DEF Bulk
  <2>3. CASE a.kind = "bulk"
    BY <2>3 DEF AsString, WriteArg
  <2>4. CASE a.kind = "nil"
    <3>1. AsString(a) = Bulk(<<>>) /\ WriteArg(a) = WriteBytes(<<>>)
      BY <2>4 DEF AsString, WriteArg
    <3> QED
      BY <3>1 DEF Bulk
  <2>5. a.kind \in {"int", "bool", "bulk", "nil"}
    BY DEF Arguments, NilReply
  <2> QED
    BY <2>1, <2>2, <2>3, <2>4, <2>5
<1>5. ASSUME NEW b \in Y, b.kind = "bulk" PROVE W[b] = WriteBytes(b.of)
  <2>1. \A w : ReplyBytes(b, w) = WriteBytes(b.of)
    BY <1>5 DEF ReplyBytes
  <2>2. CASE M - 1 = 0
    BY <2>1, <2>2, WrittenAre
  <2>3. CASE M - 1 \in 1..M
    BY <2>1, <2>3, WrittenAre
  <2> QED
    BY <1>1, <2>2, <2>3
<1>6. x = Array(ys) /\ x.kind = "array" /\ x.of = ys
  BY <1>3 DEF AsArray, Array
<1>7. ys \in Seq(Y)
  <2>1. x \in FlatReplies \/ x \in ArraysOf(Y)
    BY <1>1, <1>2, WrittenAre
  <2>2. x \notin FlatReplies
    BY <1>6 DEF FlatReplies, NilReply
  <2> HIDE DEF Y, ys
  <2> QED
    BY <1>6, <2>1, <2>2 DEF ArraysOf
<1>8. Len(ys) = n /\ DOMAIN ys = 1..n /\ \A k \in 1..n : ys[k] = AsString(c[k])
  BY <1>3
<1> HIDE DEF ys, W, Y
<1>9. \A k \in 1..n : WriteArg(c[k]) = W[ys[k]]
  <2> SUFFICES ASSUME NEW k \in 1..n PROVE WriteArg(c[k]) = W[ys[k]]
    OBVIOUS
  <2>1. ys[k] = AsString(c[k]) /\ c[k] \in Arguments
    BY <1>3, <1>8
  <2>2. ys[k] \in Y
    BY <1>7, <1>8
  <2> QED
    BY <1>4, <1>5, <2>1, <2>2
<1>10. Written[M][x] = WriteLen(Star, n) \o FlattenSeq([k \in 1..n |-> W[ys[k]]])
  <2>1. Written[M][x] = ReplyBytes(x, W)
    BY <1>1, <1>2, WrittenAre DEF W
  <2> QED
    BY <1>6, <1>8, <2>1 DEF ReplyBytes
<1>11. [k \in 1..n |-> W[ys[k]]] = [k \in DOMAIN c |-> WriteArg(c[k])]
  BY <1>3, <1>9
<1>12. WriteCommand(c) = WriteLen(Star, n) \o FlattenSeq([k \in DOMAIN c |-> WriteArg(c[k])])
  BY DEF WriteCommand
<1> QED
  BY <1>2, <1>10, <1>11, <1>12

LEMMA StandsItself ==
    ASSUME NEW s \in Seq(Chars), NEW n \in 0..Len(s)
    PROVE  SubSeq(s, 1, n) \in Seq(Chars) /\ Len(SubSeq(s, 1, n)) = n /\ Stands(SubSeq(s, 1, n), 1, s)
<1> DEFINE b == SubSeq(s, 1, n)
<1>1. b \in Seq(Chars) /\ Len(b) = n /\ \A k \in 1..n : b[k] = s[k]
  OBVIOUS
<1> HIDE DEF b
<1>2. Stands(b, 1, s)
  <2> SUFFICES ASSUME NEW k \in 1..Len(s), 1 + k - 1 <= Len(b) PROVE b[1 + k - 1] = s[k]
    BY DEF Stands
  <2>1. 1 + k - 1 = k /\ k \in 1..n
    BY <1>1
  <2> QED
    BY <1>1, <2>1
<1> QED
  BY <1>1, <1>2 DEF b

LEMMA CommandsRead ==
    ASSUME NEW c \in SentCommands, NEW r1, r1 = ReadReply(WriteCommand(c), 1)
    PROVE  r1.err = "nil" /\ r1.v = AsArray(c)
<1> DEFINE x == AsArray(c)
           w == WriteCommand(c)
<1>1. c \in Sendable
  BY RespAssumption
<1>2. x \in NestedReplies[MaxNesting] /\ w = Written[MaxNesting][x]
  BY <1>1, CommandWritten
<1> HIDE DEF x, w
<1>3. w \in Seq(Chars)
  <2>1. <<>> \in Seq(Chars)
    OBVIOUS
  <2>2. ReadsAll(MaxNesting, <<>>, [i \in 1..Len(<<>>) + 1 |-> ReadReply(<<>>, i)])
    BY <2>1, ReplyRead
  <2> QED
    BY <1>2, <2>2 DEF ReadsAll
<1> DEFINE reply == [i \in 1..Len(w) + 1 |-> ReadReply(w, i)]
<1>4. 1 \in 1..Len(w) + 1 /\ Len(w) \in 0..Len(w) /\ SubSeq(w, 1, Len(w)) = w /\ Len(w) \in Nat
  BY <1>3
<1>5. Stands(w, 1, w) /\ Whole(w, 1, w)
  <2>1. Stands(SubSeq(w, 1, Len(w)), 1, w)
    BY <1>3, <1>4, StandsItself
  <2>2. 1 + Len(w) - 1 <= Len(w)
    BY <1>4
  <2> QED
    BY <1>4, <2>1, <2>2 DEF Whole
<1>6. reply[1] = r1
  BY <1>4 DEF w
<1>7. ReadsAll(MaxNesting, w, reply)
  BY <1>3, ReplyRead
<1> HIDE DEF reply
<1>8. Answered(r1, w, 1, x, w)
  BY <1>2, <1>4, <1>5, <1>6, <1>7 DEF ReadsAll
<1>9. r1 = Reads(x, 1 + Len(w))
  BY <1>5, <1>8 DEF Answered
<1> QED
  BY <1>9 DEF Reads, x

RespInv == answered \in Seq(Replies) /\ Len(answered) <= MaxReplies

LEMMA RespInvReads == ASSUME RespInv PROVE RespIntact
<1> DEFINE xs == answered
           all == FlattenSeq([i \in DOMAIN xs |-> ServerWrites(xs[i])])
           Y == NestedReplies[MaxNesting]
<1>1. xs \in Seq(Y) /\ Len(xs) <= MaxReplies /\ Len(xs) \in Nat /\ DOMAIN xs = 1..Len(xs)
  BY RespAssumption DEF RespInv
<1>2. all \in Seq(Chars)
  <2> DEFINE n == Len(xs)
             qs == [k \in 1..n |-> ServerWrites(xs[k])]
  <2>1. \A x \in Y : ServerWrites(x) \in Seq(Chars)
    <3>1. <<>> \in Seq(Chars)
      OBVIOUS
    <3>2. ReadsAll(MaxNesting, <<>>, [i \in 1..Len(<<>>) + 1 |-> ReadReply(<<>>, i)])
      BY <3>1, ReplyRead
    <3> QED
      BY <3>2 DEF ReadsAll, ServerWrites
  <2>2. qs \in [1..n -> Seq(Chars)]
    BY <1>1, <2>1
  <2>3. all = FlattenSeq(qs)
    BY <1>1
  <2> HIDE DEF qs, all
  <2>4. PICK g \in [0..n -> Seq(Chars)] : FlattenSeq(qs) = g[n] /\ Beginnings(g, qs, n)
    BY <1>1, <2>2, FlattenValues
  <2>5. n \in 0..n
    BY <1>1
  <2> QED
    BY <2>3, <2>4, <2>5
<1>3. ASSUME NEW cut \in 0..Len(all)
      PROVE  Begins(AllReplies(SubSeq(all, 1, cut)), xs, Len(xs)) /\ (cut = Len(all) => AllReplies(SubSeq(all, 1, cut)) = xs)
  <2> DEFINE b == SubSeq(all, 1, cut)
  <2>1. b \in Seq(Chars) /\ Len(b) = cut /\ Stands(b, 1, all)
    BY <1>2, StandsItself
  <2>2. Len(b) <= Len(all)
    BY <1>2, <2>1
  <2> HIDE DEF b
  <2>3. ReadOf(AllReplies(b), xs, b, all)
    BY <1>1, <2>1, <2>2, AllRead
  <2> QED
    BY <2>1, <2>3 DEF b, ReadOf
<1>4. AllReplies(all) = xs
  <2>1. Len(all) \in 0..Len(all) /\ SubSeq(all, 1, Len(all)) = all
    BY <1>2
  <2> HIDE DEF all
  <2> QED
    BY <1>3, <2>1
<1>5. ASSUME NEW cut \in 0..Len(all) PROVE IsPrefix(AllReplies(SubSeq(all, 1, cut)), xs)
  <2>1. PICK j \in 0..Len(xs) : AllReplies(SubSeq(all, 1, cut)) = SubSeq(xs, 1, j)
    BY <1>3 DEF Begins
  <2>2. IsPrefix(SubSeq(xs, 1, j), xs)
    <3>1. Len(SubSeq(xs, 1, j)) = j
      BY <1>1
    <3>2. j <= Len(xs) /\ SubSeq(SubSeq(xs, 1, j), 1, j) = SubSeq(xs, 1, j)
      BY <1>1
    <3> QED
      BY <3>1, <3>2 DEF IsPrefix
  <2> QED
    BY <2>1, <2>2
<1>6. \A c \in SentCommands : LET r1 == ReadReply(WriteCommand(c), 1) IN
                           r1.err = "nil" /\ r1.v = AsArray(c)
  BY CommandsRead
<1> HIDE DEF all
<1>7. /\ AllReplies(all) = answered
      /\ \A cut \in 0..Len(all) : IsPrefix(AllReplies(SubSeq(all, 1, cut)), answered)
  BY <1>4, <1>5
<1> QED
  BY <1>6, <1>7 DEF RespIntact, all

\* Whatever the server answers, a program on the connection reads those answers,
\* in order and never one made of the bytes of others, wherever the connection is
\* cut; and a server reads a command as the arguments it was given (RespIntact,
\* conn.go's writeCommand and readReply), for every nesting of arrays, all bulk
\* strings and all numbers.
THEOREM RespIntactCorrect == RespSpec => []RespIntact
<1>1. RespInit => RespInv
  BY RespAssumption DEF RespInit, RespInv
<1>2. RespInv /\ [RespNext]_answered => RespInv'
  <2> SUFFICES ASSUME RespInv, [RespNext]_answered PROVE RespInv'
    OBVIOUS
  <2>1. ASSUME NEW x \in Replies, ServerAnswers(x) PROVE RespInv'
    <3>1. Len(answered) < MaxReplies /\ answered' = Append(answered, x) /\ MaxReplies \in Nat
      BY <2>1, RespAssumption DEF ServerAnswers
    <3> QED
      BY <3>1 DEF RespInv
  <2>2. CASE UNCHANGED answered
    BY <2>2 DEF RespInv
  <2> QED
    BY <2>1, <2>2 DEF RespNext
<1>3. RespInv => RespIntact
  BY RespInvReads
<1> QED
  BY <1>1, <1>2, <1>3, PTL DEF RespSpec
=============================================================================
