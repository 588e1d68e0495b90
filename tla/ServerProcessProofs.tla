------------------------- MODULE ServerProcessProofs -------------------------
(***************************************************************************)
(* Proofs about ServerProcess, for every number of connections, requests,  *)
(* delayed calls and workers, every capacity and every set of setups.      *)
(***************************************************************************)
EXTENDS ServerProcess, TLAPS

Spots == {"top", "make", "web", "chans", "select", "msg", "call", "req", "serve", "udp"}

Jobs == {None} \cup (Conns \X Nat) \cup Calls \cup Requests

ProcessTypeOK ==
    /\ setup \in Setups
    /\ nread \in [Conns -> Nat] /\ hand \subseteq Conns
    /\ queue \in [Queues -> Seq(Conns \X Nat)]
    /\ loose \subseteq Conns \X Nat
    /\ handled \in [Conns -> Seq(Nat)]
    /\ worker \in [Queues -> [at : Spots, job : Jobs]]
    /\ reqChan \in Seq(Requests)
    /\ webObj \in BOOLEAN /\ reqClosed \in BOOLEAN /\ stopped \in BOOLEAN

(***************************************************************************)
(* Messages with the pool.  Those of one connection that wait are exactly  *)
(* the ones behind the last that was handled, up to the last delivered, in *)
(* ascending order in the connection's own queue.                          *)
(***************************************************************************)

\* The queue of a connection's messages in a process with setup s.
HomeOf(s, c) == IF s.role = "gate" THEN {0}
                ELSE IF s.role = "net" THEN {SessionId[c] % PoolSize} ELSE {}

\* The number of the last message of c that was delivered when n were read and
\* the readers of h still hold theirs.
Delivered(n, h, c) == IF c \in h THEN n[c] - 1 ELSE n[c]

QueuedOnce ==
    \A q \in Queues : \A i \in DOMAIN queue[q] :
        /\ HomeOf(setup, queue[q][i][1]) = {q}
        /\ Len(handled[queue[q][i][1]]) < queue[q][i][2]
        /\ queue[q][i][2] <= Delivered(nread, hand, queue[q][i][1])

QueuedAscending ==
    \A q \in Queues : \A i, j \in DOMAIN queue[q] :
        i < j /\ queue[q][i][1] = queue[q][j][1] => queue[q][i][2] < queue[q][j][2]

QueuedAll ==
    \A c \in Conns, n \in Nat : \A q \in HomeOf(setup, c) :
        Len(handled[c]) < n /\ n <= Delivered(nread, hand, c)
            => \E i \in DOMAIN queue[q] : queue[q][i] = <<c, n>>

HandledInOrder ==
    \A c \in Conns : /\ Len(handled[c]) <= Delivered(nread, hand, c)
                     /\ \A i \in DOMAIN handled[c] : handled[c][i] = i

MsgAtItsWorker ==
    \A w \in Queues : worker[w].at = "msg" => HomeOf(setup, worker[w].job[1]) = {w}

PoolInv ==
    setup.pool => /\ loose = {}
                  /\ \A c \in hand : nread[c] >= 1
                  /\ QueuedOnce /\ QueuedAscending /\ QueuedAll
                  /\ HandledInOrder /\ MsgAtItsWorker

(***************************************************************************)
(* The end of the process: what FinnalClose takes from the web interface   *)
(* is taken behind OnServerStop.                                           *)
(***************************************************************************)
BehindStop == {"close", "closeChan", "clear", "return", "exited"}

ToldInv ==
    /\ setup.server /\ main \in BehindStop => stopped = TRUE
    /\ reqClosed = TRUE => main \in {"clear", "return", "exited"}
    /\ setup.web => webObj = TRUE \/ main \in {"return", "exited"}
    /\ webObj = TRUE => setup.web
    /\ \A w \in Queues : worker[w].at \in {"chans", "serve"} => setup.web
    /\ setup.server /\ panicked \in {"nilweb", "closed", "listener"} => stopped = TRUE

ProcessInv == ProcessTypeOK /\ PoolInv /\ ToldInv

LEMMA RouteIsHome == \A c : Route(c) = HomeOf(setup, c)
BY DEF Route, HomeOf, IsGate, IsNet

LEMMA HomeIsQueue ==
    ASSUME NEW s, NEW c \in Conns, NEW q \in HomeOf(s, c)
    PROVE  q \in Queues /\ HomeOf(s, c) = {q}
<1>1. 0 \in Queues
  BY ProcessAssumption DEF Queues
<1>2. SessionId[c] % PoolSize \in Queues
  <2>1. SessionId[c] \in Nat /\ PoolSize \in Nat /\ PoolSize > 0
    BY ProcessAssumption
  <2>2. SessionId[c] % PoolSize \in 0..(PoolSize - 1)
    BY <2>1
  <2> QED
    BY <2>2 DEF Queues
<1> QED
  BY <1>1, <1>2 DEF HomeOf

LEMMA ProcessInit_Inv == Init => ProcessInv
<1> SUFFICES ASSUME Init PROVE ProcessInv
  OBVIOUS
<1> USE DEF Init
<1>1. setup \in Setups /\ setup.web \in BOOLEAN
  BY ProcessAssumption DEF Setup
<1>2. ProcessTypeOK
  <2>1. nread \in [Conns -> Nat] /\ hand \subseteq Conns /\ loose \subseteq Conns \X Nat
    OBVIOUS
  <2>2. <<>> \in Seq(Conns \X Nat) /\ <<>> \in Seq(Nat) /\ <<>> \in Seq(Requests)
    OBVIOUS
  <2>3. queue \in [Queues -> Seq(Conns \X Nat)] /\ handled \in [Conns -> Seq(Nat)] /\ reqChan \in Seq(Requests)
    BY <2>2
  <2>4. worker \in [Queues -> [at : Spots, job : Jobs]]
    <3>1. Loop \in [at : Spots, job : Jobs]
      BY DEF Loop, Spots, Jobs
    <3> QED
      BY <3>1
  <2>5. webObj \in BOOLEAN
    BY <1>1
  <2>6. reqClosed \in BOOLEAN /\ stopped \in BOOLEAN
    BY Zenon
  <2> QED
    BY <1>1, <2>1, <2>3, <2>4, <2>5, <2>6, Zenon DEF ProcessTypeOK
<1>3. PoolInv
  <2>1. \A c \in Conns : handled[c] = <<>> /\ Len(handled[c]) = 0 /\ nread[c] = 0
    OBVIOUS
  <2>2. \A q \in Queues : queue[q] = <<>> /\ worker[q].at # "msg"
    BY DEF Loop
  <2>3. QueuedOnce /\ QueuedAscending
    BY <2>2 DEF QueuedOnce, QueuedAscending
  <2>4. QueuedAll
    BY <2>1 DEF QueuedAll, Delivered
  <2>5. HandledInOrder /\ MsgAtItsWorker
    BY <2>1, <2>2 DEF HandledInOrder, MsgAtItsWorker, Delivered
  <2> QED
    BY <2>3, <2>4, <2>5 DEF PoolInv
<1>4. ToldInv
  <2>1. \A q \in Queues : worker[q].at \notin {"chans", "serve"}
    BY DEF Loop
  <2>2. main \notin BehindStop /\ reqClosed = FALSE /\ panicked = "no"
    BY DEF BehindStop
  <2>3. webObj = TRUE <=> setup.web
    BY <1>1
  <2> HIDE DEF Init
  <2> QED
    BY <2>1, <2>2, <2>3 DEF ToldInv
<1> QED
  BY <1>2, <1>3, <1>4 DEF ProcessInv

(***************************************************************************)
(* Steps of the messages.                                                  *)
(***************************************************************************)

LEMMA QueueEntries ==
    ProcessTypeOK => \A q \in Queues : \A i \in DOMAIN queue[q] :
        /\ queue[q][i][1] \in Conns /\ queue[q][i][2] \in Nat
        /\ Len(handled[queue[q][i][1]]) \in Nat
<1> SUFFICES ASSUME ProcessTypeOK, NEW q \in Queues, NEW i \in DOMAIN queue[q]
             PROVE  /\ queue[q][i][1] \in Conns /\ queue[q][i][2] \in Nat
                    /\ Len(handled[queue[q][i][1]]) \in Nat
  OBVIOUS
<1>1. queue[q][i][1] \in Conns /\ queue[q][i][2] \in Nat
  BY DEF ProcessTypeOK
<1> QED
  BY <1>1 DEF ProcessTypeOK

\* A step that handles no message of the pool.
LEMMA PoolQuiet ==
    ASSUME PoolInv, UNCHANGED <<setup, msgs>>,
           \A w \in Queues : worker'[w].at = "msg" => worker'[w] = worker[w]
    PROVE  PoolInv'
<1>1. UNCHANGED <<nread, hand, queue, loose, handled>>
  BY DEF msgs
<1>2. CASE ~setup.pool
  BY <1>2 DEF PoolInv
<1>3. CASE setup.pool
  <2>1. QueuedOnce' /\ QueuedAscending' /\ QueuedAll' /\ HandledInOrder'
    <3>1. QueuedOnce'
      BY <1>1, <1>3 DEF PoolInv, QueuedOnce
    <3>2. QueuedAscending'
      BY <1>1, <1>3 DEF PoolInv, QueuedAscending
    <3>3. QueuedAll'
      BY <1>1, <1>3 DEF PoolInv, QueuedAll
    <3>4. HandledInOrder'
      BY <1>1, <1>3 DEF PoolInv, HandledInOrder
    <3> QED
      BY <3>1, <3>2, <3>3, <3>4
  <2>2. MsgAtItsWorker'
    BY <1>3 DEF PoolInv, MsgAtItsWorker
  <2> QED
    BY <1>1, <1>3, <2>1, <2>2 DEF PoolInv
<1> QED
  BY <1>2, <1>3

LEMMA ReadMsgStep ==
    ASSUME ProcessTypeOK, PoolInv, NEW c \in Conns, ReadMsg(c)
    PROVE  PoolInv'
<1>1. /\ nread' = [nread EXCEPT ![c] = @ + 1] /\ hand' = hand \cup {c} /\ c \notin hand
      /\ UNCHANGED <<setup, queue, loose, handled, worker>>
  BY DEF ReadMsg
<1>2. \A d \in Conns : Delivered(nread', hand', d) = Delivered(nread, hand, d)
  BY <1>1 DEF ProcessTypeOK, Delivered
<1>3. CASE ~setup.pool
  BY <1>1, <1>3 DEF PoolInv
<1>4. CASE setup.pool
  <2>1. \A d \in hand' : nread'[d] >= 1
    BY <1>1, <1>4 DEF PoolInv, ProcessTypeOK
  <2>2. QueuedOnce'
    <3>1. \A q \in Queues : \A i \in DOMAIN queue[q] : queue[q][i][1] \in Conns
      BY DEF ProcessTypeOK
    <3> QED
      BY <1>1, <1>2, <1>4, <3>1 DEF PoolInv, QueuedOnce
  <2>3. QueuedAscending' /\ HandledInOrder' /\ MsgAtItsWorker'
    BY <1>1, <1>2, <1>4 DEF PoolInv, QueuedAscending, HandledInOrder, MsgAtItsWorker
  <2>4. QueuedAll'
    BY <1>1, <1>2, <1>4 DEF PoolInv, QueuedAll
  <2> QED
    BY <1>1, <1>4, <2>1, <2>2, <2>3, <2>4 DEF PoolInv
<1> QED
  BY <1>3, <1>4

LEMMA DeliverStep ==
    ASSUME ProcessTypeOK, PoolInv, NEW c \in Conns, DeliverToMsgQueue(c)
    PROVE  PoolInv' /\ queue' \in [Queues -> Seq(Conns \X Nat)]
<1> DEFINE m == <<c, nread[c]>>
<1>1. PICK q \in HomeOf(setup, c) : queue' = [queue EXCEPT ![q] = Append(@, m)]
  BY RouteIsHome DEF DeliverToMsgQueue
<1>2. /\ setup.pool /\ c \in hand /\ hand' = hand \ {c}
      /\ UNCHANGED <<setup, nread, loose, handled, worker>>
  BY DEF DeliverToMsgQueue
<1>3. q \in Queues /\ HomeOf(setup, c) = {q}
  BY HomeIsQueue
<1>4. m \in Conns \X Nat /\ m[1] = c /\ m[2] = nread[c] /\ nread[c] \in Nat
  BY DEF ProcessTypeOK
<1>5. queue[q] \in Seq(Conns \X Nat) /\ queue \in [Queues -> Seq(Conns \X Nat)]
  BY <1>3 DEF ProcessTypeOK
<1> HIDE DEF m
<1>6. queue' \in [Queues -> Seq(Conns \X Nat)] /\ queue'[q] = Append(queue[q], m)
      /\ \A p \in Queues : p # q => queue'[p] = queue[p]
  BY <1>1, <1>3, <1>4, <1>5
<1>7. /\ DOMAIN queue'[q] = 1..(Len(queue[q]) + 1) /\ DOMAIN queue[q] = 1..Len(queue[q])
      /\ Len(queue[q]) \in Nat /\ queue'[q][Len(queue[q]) + 1] = m
      /\ \A i \in DOMAIN queue[q] : queue'[q][i] = queue[q][i]
  BY <1>4, <1>5, <1>6
<1>8. /\ Delivered(nread, hand, c) = nread[c] - 1 /\ Delivered(nread', hand', c) = nread[c]
      /\ \A d \in Conns : d # c => Delivered(nread', hand', d) = Delivered(nread, hand, d)
  BY <1>2 DEF Delivered
<1>9. \A p \in Queues : \A i \in DOMAIN queue'[p] :
        \/ i \in DOMAIN queue[p] /\ queue'[p][i] = queue[p][i]
        \/ p = q /\ i = Len(queue[q]) + 1 /\ queue'[p][i] = m
  <2> TAKE p \in Queues
  <2>1. CASE p = q
    <3>1. \A i \in 1..(Len(queue[q]) + 1) : i \in 1..Len(queue[q]) \/ i = Len(queue[q]) + 1
      BY <1>7
    <3> QED
      BY <1>7, <2>1, <3>1
  <2>2. CASE p # q
    BY <1>6, <2>2
  <2> QED
    BY <2>1, <2>2
<1>10. \A p \in Queues : \A i \in DOMAIN queue[p] : queue[p][i][1] \in Conns /\ queue[p][i][2] \in Nat
  BY DEF ProcessTypeOK
<1>11. Len(handled[c]) \in Nat /\ Len(handled[c]) <= nread[c] - 1
  BY <1>2, <1>8 DEF PoolInv, HandledInOrder, ProcessTypeOK
<1>12. QueuedOnce'
  <2> SUFFICES ASSUME NEW p \in Queues, NEW i \in DOMAIN queue'[p]
               PROVE  /\ HomeOf(setup, queue'[p][i][1]) = {p}
                      /\ Len(handled[queue'[p][i][1]]) < queue'[p][i][2]
                      /\ queue'[p][i][2] <= Delivered(nread', hand', queue'[p][i][1])
    BY <1>2 DEF QueuedOnce
  <2>1. CASE p = q /\ queue'[p][i] = m
    BY <1>3, <1>4, <1>8, <1>11, <2>1
  <2>2. CASE i \in DOMAIN queue[p] /\ queue'[p][i] = queue[p][i]
    <3>1. /\ HomeOf(setup, queue[p][i][1]) = {p}
          /\ Len(handled[queue[p][i][1]]) < queue[p][i][2]
          /\ queue[p][i][2] <= Delivered(nread, hand, queue[p][i][1])
      BY <1>2, <2>2 DEF PoolInv, QueuedOnce
    <3> QED
      BY <1>4, <1>8, <1>10, <2>2, <3>1
  <2> QED
    BY <1>9, <2>1, <2>2
<1>13. QueuedAscending'
  <2> SUFFICES ASSUME NEW p \in Queues, NEW i \in DOMAIN queue'[p], NEW j \in DOMAIN queue'[p],
                      i < j, queue'[p][i][1] = queue'[p][j][1]
               PROVE  queue'[p][i][2] < queue'[p][j][2]
    BY DEF QueuedAscending
  <2>1. i \in DOMAIN queue[p] /\ queue'[p][i] = queue[p][i]
    BY <1>3, <1>5, <1>6, <1>7, <1>9
  <2>2. CASE j \in DOMAIN queue[p] /\ queue'[p][j] = queue[p][j]
    BY <1>2, <2>1, <2>2 DEF PoolInv, QueuedAscending
  <2>3. CASE p = q /\ queue'[p][j] = m
    <3>1. queue[p][i][1] = c /\ queue[p][i][2] <= Delivered(nread, hand, c)
      BY <1>2, <1>4, <2>1, <2>3 DEF PoolInv, QueuedOnce
    <3> QED
      BY <1>4, <1>8, <1>10, <2>1, <2>3, <3>1
  <2> QED
    BY <1>9, <2>2, <2>3
<1>14. QueuedAll'
  <2> SUFFICES ASSUME NEW d \in Conns, NEW n \in Nat, NEW p \in HomeOf(setup, d),
                      Len(handled[d]) < n, n <= Delivered(nread', hand', d)
               PROVE  \E i \in DOMAIN queue'[p] : queue'[p][i] = <<d, n>>
    BY <1>2 DEF QueuedAll
  <2>1. CASE d = c /\ n = nread[c]
    <3>1. p = q /\ <<d, n>> = m
      BY <1>3, <2>1 DEF m
    <3> QED
      BY <1>7, <3>1
  <2>2. CASE ~(d = c /\ n = nread[c])
    <3>1. n <= Delivered(nread, hand, d)
      BY <1>4, <1>8, <2>2
    <3>2. PICK i \in DOMAIN queue[p] : queue[p][i] = <<d, n>>
      BY <1>2, <3>1 DEF PoolInv, QueuedAll
    <3>3. p \in Queues
      BY HomeIsQueue
    <3>4. i \in DOMAIN queue'[p] /\ queue'[p][i] = queue[p][i]
      <4>1. CASE p = q
        <5>1. i \in 1..(Len(queue[q]) + 1)
          BY <1>7, <3>2, <4>1
        <5> QED
          BY <1>7, <3>2, <4>1, <5>1
      <4>2. CASE p # q
        BY <1>6, <3>2, <3>3, <4>2
      <4> QED
        BY <4>1, <4>2
    <3> QED
      BY <3>2, <3>4
  <2> QED
    BY <2>1, <2>2
<1>15. HandledInOrder'
  <2>1. \A d \in Conns : Len(handled[d]) <= Delivered(nread', hand', d)
    <3> TAKE d \in Conns
    <3>1. CASE d = c
      BY <1>4, <1>8, <1>11, <3>1
    <3>2. CASE d # c
      BY <1>2, <1>8, <3>2 DEF PoolInv, HandledInOrder
    <3> QED
      BY <3>1, <3>2
  <2> QED
    BY <1>2, <2>1 DEF PoolInv, HandledInOrder
<1>16. MsgAtItsWorker'
  BY <1>2 DEF PoolInv, MsgAtItsWorker
<1>17. loose' = {} /\ \A d \in hand' : nread'[d] >= 1
  BY <1>2 DEF PoolInv
<1> QED
  BY <1>2, <1>6, <1>12, <1>13, <1>14, <1>15, <1>16, <1>17 DEF PoolInv

\* Messages that nobody takes, and processes without the pool.
LEMMA OtherMsgStep ==
    ASSUME ProcessTypeOK, PoolInv, NEW c \in Conns,
           DeliverToNobody(c) \/ DoMsgFromGoRoutine(c) \/ \E m \in loose : DoLooseMsg(m)
    PROVE  /\ PoolInv' /\ handled' \in [Conns -> Seq(Nat)]
           /\ hand' \subseteq Conns /\ loose' \subseteq Conns \X Nat
           /\ UNCHANGED <<setup, nread, queue, worker>>
<1>1. CASE DeliverToNobody(c)
  <2>1. /\ setup.pool /\ HomeOf(setup, c) = {} /\ hand' = hand \ {c} /\ c \in hand
        /\ UNCHANGED <<setup, nread, queue, loose, handled, worker>>
    BY <1>1, RouteIsHome DEF DeliverToNobody
  <2>2. \A d \in Conns : d # c => Delivered(nread', hand', d) = Delivered(nread, hand, d)
    BY <2>1 DEF Delivered
  <2>3. Delivered(nread, hand, c) = nread[c] - 1 /\ Delivered(nread', hand', c) = nread[c]
        /\ nread[c] \in Nat /\ Len(handled[c]) \in Nat
    BY <2>1 DEF Delivered, ProcessTypeOK
  <2>4. QueuedOnce'
    <3>1. \A q \in Queues : \A i \in DOMAIN queue[q] : queue[q][i][1] \in Conns /\ queue[q][i][1] # c
      <4>1. \A q \in Queues : \A i \in DOMAIN queue[q] : HomeOf(setup, queue[q][i][1]) # {}
        BY <2>1 DEF PoolInv, QueuedOnce
      <4> QED
        BY <2>1, <4>1, QueueEntries
    <3> QED
      BY <2>1, <2>2, <3>1 DEF PoolInv, QueuedOnce
  <2>5. QueuedAscending'
    BY <2>1 DEF PoolInv, QueuedAscending
  <2>6. QueuedAll'
    <3> SUFFICES ASSUME NEW d \in Conns, NEW n \in Nat, NEW p \in HomeOf(setup, d),
                        Len(handled[d]) < n, n <= Delivered(nread', hand', d)
                 PROVE  \E i \in DOMAIN queue[p] : queue[p][i] = <<d, n>>
      BY <2>1 DEF QueuedAll
    <3>1. d # c
      BY <2>1
    <3>2. n <= Delivered(nread, hand, d)
      BY <2>2, <3>1
    <3> QED
      BY <2>1, <3>2 DEF PoolInv, QueuedAll
  <2>7. HandledInOrder'
    <3>1. \A d \in Conns : Len(handled[d]) <= Delivered(nread', hand', d)
      <4> TAKE d \in Conns
      <4>1. Len(handled[d]) <= Delivered(nread, hand, d)
        BY <2>1 DEF PoolInv, HandledInOrder
      <4>2. CASE d = c
        BY <2>3, <4>1, <4>2
      <4>3. CASE d # c
        BY <2>2, <4>1, <4>3
      <4> QED
        BY <4>2, <4>3
    <3> QED
      BY <2>1, <3>1 DEF PoolInv, HandledInOrder
  <2>8. MsgAtItsWorker' /\ loose' = {} /\ \A d \in hand' : nread'[d] >= 1
    BY <2>1 DEF PoolInv, MsgAtItsWorker
  <2> QED
    BY <2>1, <2>4, <2>5, <2>6, <2>7, <2>8 DEF PoolInv, ProcessTypeOK
<1>2. CASE DoMsgFromGoRoutine(c)
  <2>1. /\ ~setup.pool /\ UNCHANGED <<setup, nread, queue, handled, worker>>
        /\ hand' = hand \ {c} /\ loose' = loose \cup {<<c, nread[c]>>}
    BY <1>2 DEF DoMsgFromGoRoutine
  <2> QED
    BY <2>1 DEF PoolInv, ProcessTypeOK
<1>3. ASSUME NEW m \in loose, DoLooseMsg(m)
      PROVE  /\ PoolInv' /\ handled' \in [Conns -> Seq(Nat)]
             /\ hand' \subseteq Conns /\ loose' \subseteq Conns \X Nat
             /\ UNCHANGED <<setup, nread, queue, worker>>
  <2>1. /\ loose' = loose \ {m} /\ handled' = [handled EXCEPT ![m[1]] = Append(@, m[2])]
        /\ UNCHANGED <<setup, nread, hand, queue, worker>>
    BY <1>3 DEF DoLooseMsg
  <2>2. ~setup.pool
    BY <1>3 DEF PoolInv
  <2>3. m[1] \in Conns /\ m[2] \in Nat /\ handled[m[1]] \in Seq(Nat)
    BY <1>3 DEF ProcessTypeOK
  <2>4. handled' \in [Conns -> Seq(Nat)]
    BY <2>1, <2>3 DEF ProcessTypeOK
  <2> QED
    BY <2>1, <2>2, <2>4 DEF PoolInv, ProcessTypeOK
<1> QED
  BY <1>1, <1>2, <1>3

\* The head of a queue is the message of its connection that is due.
LEMMA HeadIsNext ==
    ASSUME ProcessTypeOK, PoolInv, setup.pool, NEW w \in Queues, queue[w] # <<>>
    PROVE  Head(queue[w])[2] = Len(handled[Head(queue[w])[1]]) + 1
<1> DEFINE c == queue[w][1][1]
           n == queue[w][1][2]
<1>1. queue[w] \in Seq(Conns \X Nat)
  BY DEF ProcessTypeOK
<1>2. Head(queue[w]) = queue[w][1] /\ 1 \in DOMAIN queue[w] /\ DOMAIN queue[w] = 1..Len(queue[w])
      /\ Len(queue[w]) \in Nat
  BY <1>1
<1>3. c \in Conns /\ n \in Nat /\ Len(handled[c]) \in Nat
  BY <1>1, <1>2 DEF ProcessTypeOK
<1>4. HomeOf(setup, c) = {w} /\ Len(handled[c]) < n /\ n <= Delivered(nread, hand, c)
  BY <1>2 DEF PoolInv, QueuedOnce
<1>5. Delivered(nread, hand, c) \in Int
  BY <1>3 DEF Delivered, ProcessTypeOK
<1> HIDE DEF c, n
<1>6. PICK i \in DOMAIN queue[w] : queue[w][i] = <<c, Len(handled[c]) + 1>>
  <2>1. Len(handled[c]) + 1 \in Nat /\ Len(handled[c]) < Len(handled[c]) + 1
        /\ Len(handled[c]) + 1 <= Delivered(nread, hand, c) /\ w \in HomeOf(setup, c)
    BY <1>3, <1>4, <1>5
  <2> QED
    BY <1>3, <2>1 DEF PoolInv, QueuedAll
<1>7. i >= 1 /\ queue[w][i][1] = c /\ queue[w][i][2] = Len(handled[c]) + 1
  BY <1>2, <1>6
<1>8. CASE i = 1
  BY <1>2, <1>7, <1>8 DEF c, n
<1>9. CASE i > 1
  <2>1. n < Len(handled[c]) + 1
    BY <1>2, <1>6, <1>7, <1>9 DEF c, n, PoolInv, QueuedAscending
  <2> QED
    BY <1>3, <1>4, <2>1
<1> QED
  BY <1>2, <1>6, <1>7, <1>8, <1>9

\* A worker takes the message that is due.
LEMMA TakeMsgStep ==
    ASSUME ProcessTypeOK, PoolInv, NEW w \in Workers, TakeMsg(w)
    PROVE  /\ PoolInv' /\ handled' \in [Conns -> Seq(Nat)]
           /\ queue' \in [Queues -> Seq(Conns \X Nat)] /\ worker' \in [Queues -> [at : Spots, job : Jobs]]
<1> DEFINE m == Head(queue[w])
           c == m[1]
<1>1. w \in Queues
  BY HomeIsQueue, ProcessAssumption DEF Workers, Queues
<1>2. queue[w] \in Seq(Conns \X Nat) /\ queue[w] # <<>> /\ queue \in [Queues -> Seq(Conns \X Nat)]
  BY <1>1 DEF TakeMsg, ProcessTypeOK
<1>3. /\ m \in Conns \X Nat /\ m = queue[w][1] /\ Tail(queue[w]) \in Seq(Conns \X Nat)
      /\ Len(queue[w]) \in Nat /\ Len(queue[w]) >= 1 /\ DOMAIN queue[w] = 1..Len(queue[w])
      /\ DOMAIN Tail(queue[w]) = 1..(Len(queue[w]) - 1)
      /\ \A i \in 1..(Len(queue[w]) - 1) : Tail(queue[w])[i] = queue[w][i + 1]
  BY <1>2
<1>4. c \in Conns /\ m[2] \in Nat /\ handled[c] \in Seq(Nat) /\ Len(handled[c]) \in Nat
  BY <1>3, SMTT(30) DEF ProcessTypeOK
<1>5. /\ handled' = [handled EXCEPT ![c] = Append(@, m[2])] /\ queue' = [queue EXCEPT ![w] = Tail(@)]
      /\ worker' = [worker EXCEPT ![w] = [at |-> "msg", job |-> m]]
      /\ UNCHANGED <<setup, nread, hand, loose>>
  BY DEF TakeMsg, Go
<1>6. m[2] = Len(handled[c]) + 1 \/ ~setup.pool
  BY <1>1, <1>2, HeadIsNext
<1>7. 1 \in DOMAIN queue[w]
  BY <1>3
<1> HIDE DEF m, c
<1>8. /\ handled' \in [Conns -> Seq(Nat)] /\ handled'[c] = Append(handled[c], m[2])
      /\ Len(handled'[c]) = Len(handled[c]) + 1 /\ DOMAIN handled'[c] = 1..(Len(handled[c]) + 1)
      /\ handled'[c][Len(handled[c]) + 1] = m[2]
      /\ \A i \in 1..Len(handled[c]) : handled'[c][i] = handled[c][i]
      /\ \A d \in Conns : d # c => handled'[d] = handled[d]
  BY <1>4, <1>5 DEF ProcessTypeOK
<1>9. /\ queue' \in [Queues -> Seq(Conns \X Nat)] /\ queue'[w] = Tail(queue[w])
      /\ \A p \in Queues : p # w => queue'[p] = queue[p]
  BY <1>1, <1>2, <1>3, <1>5
<1>10. /\ worker' \in [Queues -> [at : Spots, job : Jobs]] /\ worker'[w] = [at |-> "msg", job |-> m]
       /\ \A p \in Queues : p # w => worker'[p] = worker[p]
  <2>1. [at |-> "msg", job |-> m] \in [at : Spots, job : Jobs]
    BY <1>3 DEF Spots, Jobs
  <2> QED
    BY <1>1, <1>5, <2>1 DEF ProcessTypeOK
<1>11. CASE ~setup.pool
  BY <1>5, <1>8, <1>9, <1>10, <1>11 DEF PoolInv
<1>12. CASE setup.pool
  <2>1. m[2] = Len(handled[c]) + 1 /\ HomeOf(setup, c) = {w} /\ m[2] <= Delivered(nread, hand, c)
    BY <1>1, <1>3, <1>6, <1>7, <1>12 DEF PoolInv, QueuedOnce, c
  \* Every message that still waits waited before, in the same order.
  <2>2. \A p \in Queues : \A i \in DOMAIN queue'[p] :
          \/ p # w /\ i \in DOMAIN queue[p] /\ queue'[p][i] = queue[p][i]
          \/ p = w /\ i \in Nat /\ i >= 1 /\ i + 1 \in DOMAIN queue[w] /\ queue'[p][i] = queue[w][i + 1]
    <3> TAKE p \in Queues
    <3>1. CASE p = w
      <4> TAKE i \in DOMAIN queue'[p]
      <4>1. i \in 1..(Len(queue[w]) - 1) /\ queue'[p][i] = Tail(queue[w])[i]
        BY <1>3, <1>9, <3>1
      <4>2. i \in Nat /\ i >= 1 /\ i + 1 \in 1..Len(queue[w])
        BY <1>3, <4>1
      <4> QED
        BY <1>3, <3>1, <4>1, <4>2
    <3>2. CASE p # w
      BY <1>9, <3>2
    <3> QED
      BY <3>1, <3>2
  <2>3. \A p \in Queues : \A i \in DOMAIN queue[p] :
          /\ queue[p][i][1] \in Conns /\ queue[p][i][2] \in Nat
          /\ HomeOf(setup, queue[p][i][1]) = {p}
          /\ Len(handled[queue[p][i][1]]) < queue[p][i][2]
          /\ queue[p][i][2] <= Delivered(nread, hand, queue[p][i][1])
    BY <1>12, QueueEntries DEF PoolInv, QueuedOnce
  <2>4. \A i \in DOMAIN queue[w] : i > 1 /\ queue[w][i][1] = c => queue[w][i][2] > Len(handled[c]) + 1
    BY <1>1, <1>3, <1>7, <1>12, <2>1 DEF PoolInv, QueuedAscending, c
  <2>5. QueuedOnce'
    <3> SUFFICES ASSUME NEW p \in Queues, NEW i \in DOMAIN queue'[p]
                 PROVE  /\ HomeOf(setup, queue'[p][i][1]) = {p}
                        /\ Len(handled'[queue'[p][i][1]]) < queue'[p][i][2]
                        /\ queue'[p][i][2] <= Delivered(nread, hand, queue'[p][i][1])
      BY <1>5 DEF QueuedOnce
    <3>1. CASE p # w /\ i \in DOMAIN queue[p] /\ queue'[p][i] = queue[p][i]
      <4>1. queue[p][i][1] # c
        BY <2>1, <2>3, <3>1
      <4>2. handled'[queue[p][i][1]] = handled[queue[p][i][1]]
        BY <1>8, <2>3, <3>1, <4>1
      <4> QED
        BY <2>3, <3>1, <4>2
    <3>2. CASE p = w /\ i \in Nat /\ i >= 1 /\ i + 1 \in DOMAIN queue[w] /\ queue'[p][i] = queue[w][i + 1]
      <4>1. i + 1 > 1
        BY <3>2
      <4> DEFINE d == queue[w][i + 1][1]
                 k == queue[w][i + 1][2]
      <4>2. d \in Conns /\ k \in Nat /\ HomeOf(setup, d) = {w} /\ Len(handled[d]) < k
            /\ k <= Delivered(nread, hand, d)
        BY <1>1, <2>3, <3>2
      <4>3. d = c => k > Len(handled[c]) + 1
        BY <2>4, <3>2, <4>1
      <4>4. queue'[p][i][1] = d /\ queue'[p][i][2] = k
        BY <3>2
      <4> HIDE DEF d, k
      <4>5. Len(handled'[d]) < k
        BY <1>8, <4>2, <4>3
      <4> QED
        BY <3>2, <4>2, <4>4, <4>5
    <3> QED
      BY <2>2, <3>1, <3>2
  <2>6. QueuedAscending'
    <3> SUFFICES ASSUME NEW p \in Queues, NEW i \in DOMAIN queue'[p], NEW j \in DOMAIN queue'[p],
                        i < j, queue'[p][i][1] = queue'[p][j][1]
                 PROVE  queue'[p][i][2] < queue'[p][j][2]
      BY DEF QueuedAscending
    <3>1. CASE p # w
      BY <1>9, <1>12, <3>1 DEF PoolInv, QueuedAscending
    <3>2. CASE p = w
      <4>1. /\ i \in Nat /\ i + 1 \in DOMAIN queue[w] /\ queue'[p][i] = queue[w][i + 1]
            /\ j \in Nat /\ j + 1 \in DOMAIN queue[w] /\ queue'[p][j] = queue[w][j + 1]
        BY <2>2, <3>2
      <4>2. i + 1 < j + 1
        BY <4>1
      <4> QED
        BY <1>1, <1>12, <4>1, <4>2 DEF PoolInv, QueuedAscending
    <3> QED
      BY <3>1, <3>2
  <2>7. QueuedAll'
    <3> SUFFICES ASSUME NEW d \in Conns, NEW n \in Nat, NEW p \in HomeOf(setup, d),
                        Len(handled'[d]) < n, n <= Delivered(nread, hand, d)
                 PROVE  \E i \in DOMAIN queue'[p] : queue'[p][i] = <<d, n>>
      BY <1>5 DEF QueuedAll
    <3>1. p \in Queues /\ HomeOf(setup, d) = {p}
      BY HomeIsQueue
    <3>2. Len(handled[d]) < n /\ (d = c => n # m[2])
      BY <1>4, <1>8, <2>1
    <3>3. PICK i \in DOMAIN queue[p] : queue[p][i] = <<d, n>>
      BY <1>12, <3>2 DEF PoolInv, QueuedAll
    <3>4. CASE p # w
      BY <1>9, <3>1, <3>3, <3>4
    <3>5. CASE p = w
      <4>1. i # 1
        BY <1>3, <3>2, <3>3, <3>5 DEF c
      <4>2. i - 1 \in DOMAIN queue'[w] /\ queue'[w][i - 1] = queue[w][i]
        <5>1. i \in 1..Len(queue[w]) /\ i - 1 \in 1..(Len(queue[w]) - 1) /\ (i - 1) + 1 = i
          BY <1>3, <3>3, <3>5, <4>1
        <5> QED
          BY <1>3, <1>9, <5>1
      <4> QED
        BY <3>3, <3>5, <4>2
    <3> QED
      BY <3>4, <3>5
  <2>8. HandledInOrder'
    <3> SUFFICES ASSUME NEW d \in Conns
                 PROVE  /\ Len(handled'[d]) <= Delivered(nread, hand, d)
                        /\ \A i \in DOMAIN handled'[d] : handled'[d][i] = i
      BY <1>5 DEF HandledInOrder
    <3>1. CASE d = c
      <4>1. \A i \in 1..(Len(handled[c]) + 1) : i \in 1..Len(handled[c]) \/ i = Len(handled[c]) + 1
        BY <1>4
      <4>2. \A i \in 1..Len(handled[c]) : handled[c][i] = i
        BY <1>4, <1>12 DEF PoolInv, HandledInOrder
      <4>3. \A i \in DOMAIN handled'[c] : handled'[c][i] = i
        BY <1>8, <2>1, <4>1, <4>2
      <4> QED
        BY <1>8, <2>1, <3>1, <4>3
    <3>2. CASE d # c
      BY <1>8, <1>12, <3>2 DEF PoolInv, HandledInOrder
    <3> QED
      BY <3>1, <3>2
  <2>9. MsgAtItsWorker'
    BY <1>5, <1>10, <1>12, <2>1 DEF PoolInv, MsgAtItsWorker, c
  <2> QED
    BY <1>5, <1>8, <1>9, <1>10, <1>12, <2>5, <2>6, <2>7, <2>8, <2>9 DEF PoolInv
<1> QED
  BY <1>11, <1>12

(***************************************************************************)
(* Steps of everything else.                                               *)
(***************************************************************************)

\* A worker that is at no message: its record moves to another spot.
Moves == \E w \in Queues, at \in Spots \ {"msg"}, job \in Jobs :
           Go(w, at, job)

\* The steps of a worker that take no message.
WorkerStep(w) ==
    \/ Work(w) \/ TakeReq(w) \/ TakeNilReq(w) \/ TakeUdp(w) \/ \E d \in Calls : TakeCall(w, d)

\* Back to the loop.
LEMMA LoopMoves ==
    ASSUME NEW w \in Queues
    PROVE  worker' = [worker EXCEPT ![w] = Loop] => Moves
<1> DEFINE at == IF IsGate THEN "top" ELSE "select"
<1>1. Loop = [at |-> at, job |-> None] /\ at \in Spots \ {"msg"} /\ None \in Jobs
  BY DEF Loop, Spots, Jobs
<1>2. worker' = [worker EXCEPT ![w] = Loop] => Go(w, at, None)
  BY <1>1 DEF Go
<1> HIDE DEF at
<1> QED
  BY <1>1, <1>2 DEF Moves

LEMMA WorkersAreQueues == Workers \subseteq Queues
BY ProcessAssumption DEF Workers, Queues

LEMMA WorkerMoves ==
    ASSUME ProcessTypeOK, NEW w \in Queues, WorkerStep(w)
    PROVE  UNCHANGED <<setup, msgs>> /\ (Moves \/ worker' = worker)
<1>1. UNCHANGED <<setup, msgs>>
  BY DEF WorkerStep, Work, TakeReq, TakeNilReq, TakeUdp, TakeCall, NeedUdp, WorkerNewUdp, TestWeb,
         GetChans, Handle, TestReq, HandleReqCall, HandleUdp
<1> SUFFICES Moves \/ worker' = worker
  BY <1>1
<1>2. None \in Jobs /\ {"top", "make", "web", "chans", "select", "call", "req", "serve", "udp"} \subseteq Spots \ {"msg"}
  BY DEF Jobs, Spots
<1>3. \A at \in {"top", "make", "web", "chans", "select", "call", "req", "serve", "udp"}, job \in Jobs :
        Go(w, at, job) => Moves
  BY <1>2 DEF Moves
<1>4. CASE NeedUdp(w)
  <2>1. Go(w, "make", None)
    BY <1>4 DEF NeedUdp
  <2> QED
    BY <1>2, <1>3, <2>1
<1>5. CASE WorkerNewUdp(w)
  <2>1. Go(w, "web", None)
    BY <1>5 DEF WorkerNewUdp
  <2> QED
    BY <1>2, <1>3, <2>1
<1>6. CASE TestWeb(w)
  <2>1. Go(w, "chans", None) \/ Go(w, "top", None)
    BY <1>6 DEF TestWeb
  <2> QED
    BY <1>2, <1>3, <2>1
<1>7. CASE GetChans(w)
  <2>1. Go(w, "select", None) \/ worker' = worker
    BY <1>7 DEF GetChans
  <2> QED
    BY <1>2, <1>3, <2>1
<1>8. CASE Handle(w) \/ HandleUdp(w) \/ TakeNilReq(w)
  <2>1. worker' = [worker EXCEPT ![w] = Loop]
    BY <1>8 DEF Handle, HandleUdp, TakeNilReq
  <2>2. worker' = [worker EXCEPT ![w] = Loop] => Moves
    BY LoopMoves
  <2> QED
    BY <2>1, <2>2
<1>9. CASE TestReq(w)
  <2>1. worker[w].job \in Jobs /\ [worker[w] EXCEPT !.at = "serve"] = [at |-> "serve", job |-> worker[w].job]
    <3>1. worker[w] \in [at : Spots, job : Jobs]
      BY DEF ProcessTypeOK
    <3> QED
      BY <3>1
  <2>2. CASE webObj
    <3>1. worker' = [worker EXCEPT ![w] = [worker[w] EXCEPT !.at = "serve"]]
      BY <1>9, <2>2 DEF TestReq
    <3>2. Go(w, "serve", worker[w].job)
      BY <2>1, <3>1 DEF Go
    <3> QED
      BY <1>3, <2>1, <3>2
  <2>3. CASE ~webObj
    <3>1. worker' = [worker EXCEPT ![w] = Loop]
      BY <1>9, <2>3 DEF TestReq
    <3>2. worker' = [worker EXCEPT ![w] = Loop] => Moves
      BY LoopMoves
    <3> QED
      BY <3>1, <3>2
  <2> QED
    BY <2>2, <2>3
<1>10. CASE HandleReqCall(w)
  <2>1. worker' = [worker EXCEPT ![w] = Loop] \/ worker' = worker
    BY <1>10 DEF HandleReqCall
  <2>2. worker' = [worker EXCEPT ![w] = Loop] => Moves
    BY LoopMoves
  <2> QED
    BY <2>1, <2>2
<1>11. CASE TakeReq(w)
  <2>1. Go(w, "req", Head(reqChan))
    BY <1>11 DEF TakeReq
  <2>2. Head(reqChan) \in Requests
    BY <1>11 DEF TakeReq, ProcessTypeOK
  <2>3. Head(reqChan) \in Jobs
    BY <2>2 DEF Jobs
  <2> QED
    BY <1>3, <2>1, <2>3
<1>12. CASE TakeUdp(w)
  <2>1. Go(w, "udp", None)
    BY <1>12 DEF TakeUdp
  <2> QED
    BY <1>2, <1>3, <2>1
<1>13. ASSUME NEW d \in Calls, TakeCall(w, d) PROVE Moves
  <2>1. d \in Jobs /\ Go(w, "call", d)
    BY <1>13 DEF TakeCall, Jobs
  <2> QED
    BY <1>3, <2>1
<1> QED
  BY <1>4, <1>5, <1>6, <1>7, <1>8, <1>9, <1>10, <1>11, <1>12, <1>13 DEF WorkerStep, Work

\* What the main goroutine, the web interface, the UDP server and the delayed
\* calls do without the workers.
LEMMA AsideStep ==
    ASSUME \/ \E d \in Calls : CallDelayed(d) \/ CallDue(d)
           \/ \E r \in Requests : AcceptReq(r) \/ ReadReq(r) \/ PutReq(r) \/ PutReqPanic(r)
           \/ ParserTake \/ ParserAnswer
           \/ ListenUdp \/ ReadUdp \/ PutUdp \/ UdpExit \/ UdpOver
           \/ Main \/ Signal \/ Terminated \/ UNCHANGED vars
    PROVE  UNCHANGED <<setup, msgs, worker>>
BY DEF CallDelayed, CallDue, AcceptReq, ReadReq, PutReq, PutReqPanic, ParserTake, ParserAnswer,
       ListenUdp, ReadUdp, PutUdp, UdpExit, UdpOver, Main, MainStart, MainNewUdp, OnServerStop,
       RawClose, CloseReqChan, ClearWebObj, Return, UdpExitSend, Signal, Terminated, vars

LEMMA MovesKeep ==
    ASSUME ProcessTypeOK, Moves \/ worker' = worker
    PROVE  /\ worker' \in [Queues -> [at : Spots, job : Jobs]]
           /\ \A v \in Queues : worker'[v].at = "msg" => worker'[v] = worker[v]
<1>1. CASE worker' = worker
  BY <1>1 DEF ProcessTypeOK
<1>2. CASE Moves
  <2>1. PICK w \in Queues, at \in Spots \ {"msg"}, job \in Jobs :
          worker' = [worker EXCEPT ![w] = [at |-> at, job |-> job]]
    BY <1>2 DEF Moves, Go
  <2>2. [at |-> at, job |-> job] \in [at : Spots, job : Jobs] /\ [at |-> at, job |-> job].at # "msg"
    OBVIOUS
  <2>3. worker'[w] = [at |-> at, job |-> job] /\ \A v \in Queues : v # w => worker'[v] = worker[v]
    BY <2>1 DEF ProcessTypeOK
  <2>4. worker' \in [Queues -> [at : Spots, job : Jobs]]
    BY <2>1, <2>2 DEF ProcessTypeOK
  <2> QED
    BY <2>2, <2>3, <2>4
<1> QED
  BY <1>1, <1>2

\* The web interface's channel and the flags.
LEMMA WebTypes ==
    ASSUME ProcessTypeOK, [Next]_vars
    PROVE  reqChan' \in Seq(Requests) /\ webObj' \in BOOLEAN /\ reqClosed' \in BOOLEAN /\ stopped' \in BOOLEAN
<1> USE DEF ProcessTypeOK
<1>1. reqChan' \in Seq(Requests)
  <2>1. \/ reqChan' = reqChan
        \/ \E w \in Queues : TakeReq(w)
        \/ ParserTake
        \/ \E r \in Requests : PutReq(r)
    BY DEF Next, vars, msgs, web, udps, ending, ReadMsg, DeliverToMsgQueue, DeliverToNobody,
           DoMsgFromGoRoutine, DoLooseMsg, TakeMsg, TakeNilReq, TakeUdp, Work, NeedUdp,
           WorkerNewUdp, TestWeb, GetChans, Handle, TestReq, HandleReqCall, HandleUdp, TakeCall,
           CallDelayed, CallDue, AcceptReq, ReadReq, PutReqPanic, ParserAnswer,
           ListenUdp, ReadUdp, PutUdp, UdpExit, UdpOver, Main, MainStart, MainNewUdp, OnServerStop,
           RawClose, CloseReqChan, ClearWebObj, Return, UdpExitSend, Signal, Terminated
  <2>2. \A r \in Requests : PutReq(r) => reqChan' \in Seq(Requests)
    BY DEF PutReq
  <2>3. reqChan \in Seq(Requests) /\ reqChan # <<>> => Tail(reqChan) \in Seq(Requests)
    OBVIOUS
  <2>4. ASSUME NEW w \in Queues, TakeReq(w) PROVE reqChan' \in Seq(Requests)
    <3>1. reqChan # <<>> /\ reqChan' = Tail(reqChan)
      BY <2>4 DEF TakeReq
    <3> QED
      BY <2>3, <3>1
  <2>5. CASE ParserTake
    <3>1. reqChan # <<>> /\ reqChan' = Tail(reqChan)
      BY <2>5 DEF ParserTake
    <3> QED
      BY <2>3, <3>1
  <2> QED
    BY <2>1, <2>2, <2>4, <2>5
<1>2. webObj' \in {webObj, FALSE} /\ reqClosed' \in {reqClosed, TRUE} /\ stopped' \in {stopped, TRUE}
  BY DEF Next, vars, msgs, web, udps, ending, ReadMsg, DeliverToMsgQueue, DeliverToNobody,
         DoMsgFromGoRoutine, DoLooseMsg, TakeMsg, TakeReq, TakeNilReq, TakeUdp, Work, NeedUdp,
         WorkerNewUdp, TestWeb, GetChans, Handle, TestReq, HandleReqCall, HandleUdp, TakeCall,
         CallDelayed, CallDue, AcceptReq, ReadReq, PutReq, PutReqPanic, ParserTake, ParserAnswer,
         ListenUdp, ReadUdp, PutUdp, UdpExit, UdpOver, Main, MainStart, MainNewUdp, OnServerStop,
         RawClose, CloseReqChan, ClearWebObj, Return, UdpExitSend, Signal, Terminated
<1> QED
  BY <1>1, <1>2

\* A step leaves the messages to PoolQuiet unless it is one of theirs.
LEMMA PoolStep ==
    ASSUME ProcessTypeOK, PoolInv, [Next]_vars
    PROVE  ProcessTypeOK' /\ PoolInv'
<1>0. reqChan' \in Seq(Requests) /\ webObj' \in BOOLEAN /\ reqClosed' \in BOOLEAN /\ stopped' \in BOOLEAN
  BY WebTypes
<1>1. ASSUME NEW c \in Conns, ReadMsg(c) PROVE ProcessTypeOK' /\ PoolInv'
  <2>1. PoolInv'
    BY <1>1, ReadMsgStep
  <2>2. /\ nread' = [nread EXCEPT ![c] = @ + 1] /\ hand' = hand \cup {c}
        /\ UNCHANGED <<setup, queue, loose, handled, worker>>
    BY <1>1 DEF ReadMsg
  <2>3. nread' \in [Conns -> Nat] /\ hand' \subseteq Conns
    BY <2>2 DEF ProcessTypeOK
  <2> QED
    BY <1>0, <2>1, <2>2, <2>3 DEF ProcessTypeOK
<1>2. ASSUME NEW c \in Conns, DeliverToMsgQueue(c) PROVE ProcessTypeOK' /\ PoolInv'
  <2>1. PoolInv' /\ queue' \in [Queues -> Seq(Conns \X Nat)]
    BY <1>2, DeliverStep
  <2>2. hand' = hand \ {c} /\ UNCHANGED <<setup, nread, loose, handled, worker>>
    BY <1>2 DEF DeliverToMsgQueue
  <2> QED
    BY <1>0, <2>1, <2>2 DEF ProcessTypeOK
<1>3. ASSUME NEW c \in Conns, DeliverToNobody(c) \/ DoMsgFromGoRoutine(c) \/ \E m \in loose : DoLooseMsg(m)
      PROVE  ProcessTypeOK' /\ PoolInv'
  <2>1. /\ PoolInv' /\ handled' \in [Conns -> Seq(Nat)]
        /\ hand' \subseteq Conns /\ loose' \subseteq Conns \X Nat
        /\ UNCHANGED <<setup, nread, queue, worker>>
    BY <1>3, OtherMsgStep
  <2> QED
    BY <1>0, <2>1 DEF ProcessTypeOK
<1>4. ASSUME NEW m \in loose, DoLooseMsg(m) PROVE ProcessTypeOK' /\ PoolInv'
  <2>1. m[1] \in Conns
    BY DEF ProcessTypeOK
  <2> QED
    BY <1>3, <1>4, <2>1
<1>5. ASSUME NEW w \in Queues, TakeMsg(w) PROVE ProcessTypeOK' /\ PoolInv'
  <2>1. w \in Workers
    BY <1>5 DEF TakeMsg
  <2>2. /\ PoolInv' /\ handled' \in [Conns -> Seq(Nat)]
        /\ queue' \in [Queues -> Seq(Conns \X Nat)] /\ worker' \in [Queues -> [at : Spots, job : Jobs]]
    BY <1>5, <2>1, TakeMsgStep
  <2>3. UNCHANGED <<setup, nread, hand, loose>>
    BY <1>5 DEF TakeMsg
  <2> QED
    BY <1>0, <2>2, <2>3 DEF ProcessTypeOK
<1>6. ASSUME UNCHANGED <<setup, msgs>>, Moves \/ worker' = worker PROVE ProcessTypeOK' /\ PoolInv'
  <2>1. /\ worker' \in [Queues -> [at : Spots, job : Jobs]]
        /\ \A v \in Queues : worker'[v].at = "msg" => worker'[v] = worker[v]
    BY <1>6, MovesKeep
  <2>2. PoolInv'
    BY <1>6, <2>1, PoolQuiet
  <2> QED
    BY <1>0, <1>6, <2>1, <2>2 DEF ProcessTypeOK, msgs
<1>7. ASSUME NEW w \in Queues, WorkerStep(w) PROVE ProcessTypeOK' /\ PoolInv'
  BY <1>6, <1>7, WorkerMoves
<1>8. ASSUME \/ \E d \in Calls : CallDelayed(d) \/ CallDue(d)
             \/ \E r \in Requests : AcceptReq(r) \/ ReadReq(r) \/ PutReq(r) \/ PutReqPanic(r)
             \/ ParserTake \/ ParserAnswer
             \/ ListenUdp \/ ReadUdp \/ PutUdp \/ UdpExit \/ UdpOver
             \/ Main \/ Signal \/ Terminated \/ UNCHANGED vars
      PROVE  ProcessTypeOK' /\ PoolInv'
  <2>1. UNCHANGED <<setup, msgs, worker>>
    BY <1>8, AsideStep
  <2> QED
    BY <1>6, <2>1
<1> QED
  BY <1>1, <1>2, <1>3, <1>4, <1>5, <1>7, <1>8 DEF Next, WorkerStep

(***************************************************************************)
(* The steps that the end of the process is made of.                       *)
(***************************************************************************)

\* Nothing of it happens, and no worker gets behind a test of WebObj.
LEMMA ToldQuiet ==
    ASSUME ToldInv, UNCHANGED <<setup, main, stopped, panicked, webObj, reqClosed>>,
           \A v \in Queues : worker'[v].at \in {"chans", "serve"} =>
               worker[v].at \in {"chans", "serve"} \/ setup.web
    PROVE  ToldInv'
BY DEF ToldInv, BehindStop

\* The main goroutine goes on, or the process panics.
LEMMA ToldMain ==
    ASSUME ToldInv, UNCHANGED <<setup, worker>>, webObj \in BOOLEAN, Alive,
           Main \/ Signal \/ UdpExit \/ \E r \in Requests : PutReqPanic(r)
    PROVE  ToldInv'
<1> USE DEF ToldInv, BehindStop
<1>1. panicked = "no"
  BY DEF Alive
<1>2. CASE MainStart \/ MainNewUdp \/ UdpExitSend \/ UdpExit \/ Signal
  <2>1. /\ main' \notin {"closeChan", "clear", "return", "exited"}
        /\ main \notin {"clear", "return", "exited"} /\ (main' = "close" => ~setup.server)
        /\ panicked' \in {"no", "port"}
        /\ UNCHANGED <<stopped, webObj, reqClosed>>
    BY <1>1, <1>2 DEF MainStart, MainNewUdp, UdpExitSend, UdpExit, Signal, NewUdpServ, web, udps
  <2> QED
    BY <2>1
<1>3. CASE OnServerStop
  <2>1. main = "stop" /\ stopped' = TRUE /\ main' = "close" /\ UNCHANGED <<panicked, webObj, reqClosed>>
    BY <1>3 DEF OnServerStop, web
  <2> QED
    BY <2>1
<1>4. CASE RawClose
  <2>1. /\ main = "close" /\ main' = IF webObj THEN "closeChan" ELSE "return"
        /\ panicked' \in {"listener", "no"} /\ UNCHANGED <<webObj, reqClosed, stopped>>
    BY <1>4 DEF RawClose
  <2>2. setup.server => stopped = TRUE
    BY <2>1
  <2>3. reqClosed # TRUE
    BY <2>1
  <2>4. CASE webObj
    BY <2>1, <2>2, <2>3, <2>4
  <2>5. CASE ~webObj
    BY <2>1, <2>2, <2>3, <2>5
  <2> QED
    BY <2>4, <2>5
<1>5. CASE CloseReqChan
  <2>1. main = "closeChan" /\ reqClosed' = TRUE /\ main' = "clear" /\ UNCHANGED <<webObj, stopped, panicked>>
    BY <1>5 DEF CloseReqChan
  <2> QED
    BY <2>1
<1>6. CASE ClearWebObj
  <2>1. main = "clear" /\ webObj' = FALSE /\ main' = "return" /\ UNCHANGED <<reqClosed, stopped, panicked>>
    BY <1>6 DEF ClearWebObj
  <2> QED
    BY <2>1
<1>7. CASE Return
  <2>1. main = "return" /\ main' = "exited" /\ UNCHANGED <<webObj, reqClosed, stopped, panicked>>
    BY <1>7 DEF Return, web
  <2> QED
    BY <2>1
<1>8. ASSUME NEW r \in Requests, PutReqPanic(r) PROVE ToldInv'
  <2>1. reqClosed /\ panicked' = "closed" /\ UNCHANGED <<main, stopped, webObj, reqClosed>>
    BY <1>8 DEF PutReqPanic, web
  <2> QED
    BY <2>1
<1> QED
  BY <1>2, <1>3, <1>4, <1>5, <1>6, <1>7, <1>8 DEF Main

\* A worker meets the end: its test of WebObj came before.
LEMMA ToldWorker ==
    ASSUME ProcessTypeOK, ToldInv, NEW w \in Queues, WorkerStep(w) \/ TakeMsg(w)
    PROVE  ToldInv'
<1>1. panicked = "no" /\ UNCHANGED <<setup, main, stopped, webObj, reqClosed>>
  BY DEF WorkerStep, Work, TakeReq, TakeNilReq, TakeUdp, TakeCall, NeedUdp, WorkerNewUdp, TestWeb,
         GetChans, Handle, TestReq, HandleReqCall, HandleUdp, TakeMsg, Alive, web, ending
<1>2. \A v \in Queues : v # w => worker'[v] = worker[v]
  BY DEF WorkerStep, Work, TakeReq, TakeNilReq, TakeUdp, TakeCall, NeedUdp, WorkerNewUdp, TestWeb,
         GetChans, Handle, TestReq, HandleReqCall, HandleUdp, TakeMsg, Go, ProcessTypeOK
<1>3. CASE GetChans(w) \/ HandleReqCall(w)
  <2>1. worker[w].at \in {"chans", "serve"}
    BY <1>3 DEF GetChans, HandleReqCall
  <2>2. setup.web
    BY <2>1 DEF ToldInv
  <2>3. panicked' = panicked \/ (panicked' = "nilweb" /\ ~webObj)
    BY <1>3 DEF GetChans, HandleReqCall
  <2> QED
    BY <1>1, <2>2, <2>3 DEF ToldInv, BehindStop
<1>4. CASE ~(GetChans(w) \/ HandleReqCall(w))
  <2>1. panicked' \in {"no", "port"}
    BY <1>1, <1>4 DEF WorkerStep, Work, TakeReq, TakeNilReq, TakeUdp, TakeCall, NeedUdp, WorkerNewUdp,
         TestWeb, Handle, TestReq, HandleUdp, TakeMsg, NewUdpServ, ending
  <2>2. worker'[w].at \in {"chans", "serve"} => setup.web
    <3>1. worker'[w].at \in {"chans", "serve"} => webObj
      BY <1>4 DEF WorkerStep, Work, TakeReq, TakeNilReq, TakeUdp, TakeCall, NeedUdp, WorkerNewUdp,
           TestWeb, Handle, TestReq, HandleUdp, TakeMsg, Go, Loop, ProcessTypeOK
    <3> QED
      BY <3>1 DEF ProcessTypeOK, ToldInv
  <2> QED
    BY <1>1, <1>2, <2>1, <2>2 DEF ToldInv, BehindStop
<1> QED
  BY <1>3, <1>4

LEMMA ToldStep ==
    ASSUME ProcessTypeOK, ToldInv, [Next]_vars
    PROVE  ToldInv'
<1>1. ASSUME NEW w \in Queues, WorkerStep(w) \/ TakeMsg(w) PROVE ToldInv'
  BY <1>1, ToldWorker
<1>2. CASE Main \/ Signal \/ UdpExit \/ \E r \in Requests : PutReqPanic(r)
  <2>1. UNCHANGED <<setup, worker>>
    BY <1>2, AsideStep
  <2>2. Alive
    BY <1>2 DEF Main, MainStart, MainNewUdp, OnServerStop, RawClose, CloseReqChan, ClearWebObj, Return,
                UdpExitSend, Signal, UdpExit, PutReqPanic
  <2>3. webObj \in BOOLEAN
    BY DEF ProcessTypeOK
  <2> QED
    BY <1>2, <2>1, <2>2, <2>3, ToldMain
<1>3. CASE \/ \E c \in Conns : ReadMsg(c) \/ DeliverToMsgQueue(c) \/ DeliverToNobody(c) \/ DoMsgFromGoRoutine(c)
           \/ \E m \in loose : DoLooseMsg(m)
           \/ \E d \in Calls : CallDelayed(d) \/ CallDue(d)
           \/ \E r \in Requests : AcceptReq(r) \/ ReadReq(r) \/ PutReq(r)
           \/ ParserTake \/ ParserAnswer \/ ListenUdp \/ ReadUdp \/ PutUdp \/ UdpOver
           \/ Terminated \/ UNCHANGED vars
  <2>1. UNCHANGED <<setup, worker, main, stopped, panicked, webObj, reqClosed>>
    BY <1>3 DEF ReadMsg, DeliverToMsgQueue, DeliverToNobody, DoMsgFromGoRoutine, DoLooseMsg, CallDelayed,
         CallDue, AcceptReq, ReadReq, PutReq, ParserTake, ParserAnswer, ListenUdp, ReadUdp, PutUdp,
         UdpOver, Terminated, vars, web, ending
  <2> QED
    BY <2>1, ToldQuiet
<1> QED
  BY <1>1, <1>2, <1>3 DEF Next, WorkerStep

LEMMA ProcessInvariant == Spec => []ProcessInv
<1>1. ProcessInv /\ [Next]_vars => ProcessInv'
  <2> SUFFICES ASSUME ProcessInv, [Next]_vars PROVE ProcessInv'
    OBVIOUS
  <2>1. ProcessTypeOK /\ PoolInv /\ ToldInv
    BY DEF ProcessInv
  <2>2. ProcessTypeOK' /\ PoolInv'
    BY <2>1, PoolStep
  <2>3. ToldInv'
    BY <2>1, ToldStep
  <2> QED
    BY <2>2, <2>3 DEF ProcessInv
<1> QED
  BY <1>1, ProcessInit_Inv, PTL DEF Spec

\* With the worker pool the messages of one connection are handled in the order in
\* which they were read, each once, and never two of them at a time, however many
\* workers, connections and delayed calls there are and whatever the queues'
\* capacity (DeliverToMsgQueue and the worker loops).
THEOREM InOrderCorrect == Spec => []InOrder
<1>1. ProcessInv => InOrder
  <2> SUFFICES ASSUME ProcessInv, setup.pool PROVE InOrder
    BY DEF InOrder
  <2>1. HandledInOrder /\ MsgAtItsWorker
    BY DEF ProcessInv, PoolInv
  <2>2. ASSUME NEW v \in Workers, NEW w \in Workers, worker[v].at = "msg", worker[w].at = "msg", v # w
        PROVE  worker[v].job[1] # worker[w].job[1]
    <3>1. HomeOf(setup, worker[v].job[1]) = {v} /\ HomeOf(setup, worker[w].job[1]) = {w}
      BY <2>1, <2>2, WorkersAreQueues DEF MsgAtItsWorker
    <3> QED
      BY <2>2, <3>1
  <2> QED
    BY <2>1, <2>2 DEF InOrder, HandledInOrder
<1> QED
  BY <1>1, ProcessInvariant, PTL

\* A panic that FinnalClose provokes in the web interface comes after OnServerStop
\* in every process that has a server, wherever its workers and HTTP goroutines
\* are when the signal arrives.
THEOREM ToldFirstCorrect == Spec => []ToldFirst
<1>1. ProcessInv => ToldFirst
  BY DEF ProcessInv, ToldInv, ToldFirst
<1> QED
  BY <1>1, ProcessInvariant, PTL
=============================================================================
