-------------------------- MODULE ConnectionProofs --------------------------
(***************************************************************************)
(* Proofs about Connection, for every set of connections and application   *)
(* goroutines, every limit, queue capacity and range of session ids.       *)
(***************************************************************************)
EXTENDS Connection, TLAPS

(***************************************************************************)
(* The inductive invariant.  LostAtMostOnce and NoChannelPanic hold because *)
(* whoever is between the test of isClosed and the use of a channel holds  *)
(* the lock (LockInv), and because a channel is closed only together with  *)
(* the one report of the loss (ClosedInv).                                 *)
(***************************************************************************)

ConnPcs == {"none", "add", "made", "read", "stop", "stopping", "done"}
AppPcs  == {"idle", "sendbuff", "select", "lost", "mark", "stop", "stopping"}

\* Goroutines of connections and of the application keep to their own steps,
\* and an application goroutine in a call has a connection.
WorkerInv ==
    /\ \A c \in Conns : at[c] \in ConnPcs
    /\ \A a \in Apps : at[a] \in AppPcs /\ (at[a] # "idle" => target[a] \in Conns)

\* A goroutine past the test of isClosed holds the lock of an unclosed buffer.
LockInv ==
    \A w \in Workers : at[w] \in {"select", "stopping"} =>
        /\ guard[Target(w)] = w
        /\ ~bufClosed[Target(w)]
        /\ at[w] = "stopping" => isClosed[Target(w)]

\* The channels are closed when the loss is reported, and isClosed is set then.
ClosedInv ==
    \A c \in Conns : /\ bufClosed[c] => isClosed[c]
                     /\ lost[c] = IF bufClosed[c] THEN 1 ELSE 0

StopInv == TypeOK /\ WorkerInv /\ LockInv /\ ClosedInv /\ NoChannelPanic

(***************************************************************************)
(* FoundById holds because, until the ids start over, those given out lie  *)
(* below the next one and differ (SidInv), and because the accept loop     *)
(* handles only connections that have no goroutine yet (AdmitInv).         *)
(***************************************************************************)

AdmitInv ==
    /\ \A c \in Conns : tcp[c] = "unborn" => at[c] = "none"
    /\ acceptor.at \in {"check", "handle"} =>
          /\ acceptor.conn \in Conns
          /\ at[acceptor.conn] = "none"
          /\ tcp[acceptor.conn] # "unborn"

SidInv ==
    wrapped \/ /\ \A c \in Conns : at[c] # "none" => sid[c] \in 1 .. ct - 1
               /\ \A c, d \in Conns :
                     at[c] # "none" /\ at[d] # "none" /\ sid[c] = sid[d] => c = d
               /\ \A c \in Conns : at[c] \notin {"none", "add"} => mgr[sid[c]] = c

IdInv == StopInv /\ AdmitInv /\ SidInv

LEMMA NextSidType == \A i \in Sids : NextSid(i) \in Sids
  BY ConnectionAssumption DEF NextSid, Sids

\* Every action keeps the types.
LEMMA TypeStep == StopInv /\ [Next]_vars => TypeOK'
<1> SUFFICES ASSUME StopInv, [Next]_vars PROVE TypeOK'
  OBVIOUS
<1> USE ConnectionAssumption DEF StopInv, TypeOK, WorkerInv, Workers
<1>1. CASE MakePool
  BY <1>1 DEF MakePool, server, chans, calls
<1>2. CASE Refuse
  BY <1>2 DEF Refuse, server, chans, calls
<1>3. CASE Admit
  BY <1>3 DEF Admit, server, chans, calls
<1>4. CASE HandleConnection
  <2>1. NextSid(ct) \in Sids
    BY NextSidType
  <2> QED
    BY <1>4, <2>1 DEF HandleConnection, server, chans, calls, Sids
<1>5. CASE HandleConnectionNil
  BY <1>5 DEF HandleConnectionNil, server, chans, calls
<1>6. ASSUME NEW c \in Conns, Accept(c) PROVE TypeOK'
  BY <1>6 DEF Accept, server, chans, calls
<1>7. ASSUME NEW c \in Conns, Add(c) PROVE TypeOK'
  BY <1>7 DEF Add, server, chans, calls
<1>8. ASSUME NEW c \in Conns, OnConnectionMade(c) PROVE TypeOK'
  BY <1>8 DEF OnConnectionMade, server, chans, calls
<1>9. ASSUME NEW c \in Conns, ReadError(c) PROVE TypeOK'
  BY <1>9 DEF ReadError, server, chans, calls
<1>10. ASSUME NEW c \in Conns, ReadBadPacket(c) PROVE TypeOK'
  BY <1>10 DEF ReadBadPacket, server, chans, calls
<1>11. ASSUME NEW c \in Conns, PeerClose(c) PROVE TypeOK'
  BY <1>11 DEF PeerClose, server, chans, calls
<1>12. ASSUME NEW a \in Apps, NEW i \in Sids, NEW op \in Ops, Get(a, i, op) PROVE TypeOK'
  BY <1>12 DEF Get, Ops, server, chans, calls
<1>13. ASSUME NEW a \in Apps, SendBuffEnter(a) PROVE TypeOK'
  BY <1>13 DEF SendBuffEnter, server, chans, calls
<1>14. ASSUME NEW a \in Apps, SendBuffPut(a) PROVE TypeOK'
  <2>1. PICK c \in Conns : c = target[a]
    BY <1>14 DEF SendBuffPut
  <2>2. sendBuff' \in [Conns -> 0 .. SendCap]
    BY <1>14, <2>1 DEF SendBuffPut
  <2>3. panicked' \in BOOLEAN
    BY <1>14, <2>1 DEF SendBuffPut
  <2> QED
    BY <1>14, <2>1, <2>2, <2>3 DEF SendBuffPut, server, chans, calls
<1>15. ASSUME NEW a \in Apps, SendBuffTimeout(a) PROVE TypeOK'
  BY <1>15 DEF SendBuffTimeout, server, chans, calls
<1>16. ASSUME NEW a \in Apps, LostConnection(a) PROVE TypeOK'
  BY <1>16 DEF LostConnection, server, chans, calls
<1>17. ASSUME NEW a \in Apps, LostConnectionMark(a) PROVE TypeOK'
  BY <1>17 DEF LostConnectionMark, server, chans, calls
<1>18. ASSUME NEW w \in Workers, StopEnter(w) PROVE TypeOK'
  <2>1. PICK c \in Conns : c = Target(w)
    BY <1>18 DEF Target, StopEnter
  <2>2. Return(w) \in {"done", "idle"}
    BY DEF Return
  <2> HIDE DEF WorkerInv
  <2>3. at' \in [Workers -> {"none", "add", "made", "read", "stop", "stopping", "done",
                           "idle", "sendbuff", "select", "lost", "mark"}]
    BY <1>18, <2>2 DEF StopEnter
  <2>4. guard' \in [Conns -> Workers \cup {None}]
    BY <1>18, <2>1 DEF StopEnter
  <2>5. isClosed' \in [Conns -> BOOLEAN]
    BY <1>18, <2>1 DEF StopEnter
  <2> QED
    BY <1>18, <2>3, <2>4, <2>5 DEF StopEnter, server, chans, calls
<1>19. ASSUME NEW w \in Workers, StopFinish(w) PROVE TypeOK'
  <2>1. PICK c \in Conns : c = Target(w)
    BY <1>19 DEF Target, StopFinish
  <2>2. Return(w) \in {"done", "idle"}
    BY DEF Return
  <2> HIDE DEF WorkerInv
  <2>3. at' \in [Workers -> {"none", "add", "made", "read", "stop", "stopping", "done",
                           "idle", "sendbuff", "select", "lost", "mark"}]
    BY <1>19, <2>2 DEF StopFinish
  <2>4. panicked' \in BOOLEAN
    BY <1>19, <2>1 DEF StopFinish
  <2>5. lost' \in [Conns -> Nat] /\ extSend' \in [Conns -> {0, 1}]
    BY <1>19, <2>1 DEF StopFinish
  <2> QED
    BY <1>19, <2>1, <2>3, <2>4, <2>5 DEF StopFinish, server, chans, calls
<1>20. ASSUME NEW c \in Conns, WriterExit(c) PROVE TypeOK'
  BY <1>20 DEF WriterExit, server, chans, calls
<1>21. ASSUME NEW c \in Conns, WriterSend(c) PROVE TypeOK'
  BY <1>21 DEF WriterSend, server, chans, calls
<1>22. CASE UNCHANGED vars
  BY <1>22 DEF vars, server, chans, calls
<1> QED
  BY <1>1, <1>2, <1>3, <1>4, <1>5, <1>6, <1>7, <1>8, <1>9, <1>10, <1>11, <1>12, <1>13,
     <1>14, <1>15, <1>16, <1>17, <1>18, <1>19, <1>20, <1>21, <1>22
  DEF Next, ServerStep, ConnStep, AppStep

\* Every action keeps goroutines on their own steps.
LEMMA WorkerStep == StopInv /\ [Next]_vars => WorkerInv'
<1> SUFFICES ASSUME StopInv, [Next]_vars PROVE WorkerInv'
  OBVIOUS
<1> USE ConnectionAssumption DEF StopInv, TypeOK, WorkerInv, Workers, ConnPcs, AppPcs
<1>1. CASE MakePool
  BY <1>1 DEF MakePool, server, chans, calls
<1>2. CASE Refuse
  BY <1>2 DEF Refuse, server, chans, calls
<1>3. CASE Admit
  BY <1>3 DEF Admit, server, chans, calls
<1>4. CASE HandleConnection
  BY <1>4 DEF HandleConnection, server, chans, calls
<1>5. CASE HandleConnectionNil
  BY <1>5 DEF HandleConnectionNil, server, chans, calls
<1>6. ASSUME NEW c \in Conns, Accept(c) PROVE WorkerInv'
  BY <1>6 DEF Accept, server, chans, calls
<1>7. ASSUME NEW c \in Conns, Add(c) PROVE WorkerInv'
  BY <1>7 DEF Add, server, chans, calls
<1>8. ASSUME NEW c \in Conns, OnConnectionMade(c) PROVE WorkerInv'
  BY <1>8 DEF OnConnectionMade, server, chans, calls
<1>9. ASSUME NEW c \in Conns, ReadError(c) PROVE WorkerInv'
  BY <1>9 DEF ReadError, server, chans, calls
<1>10. ASSUME NEW c \in Conns, ReadBadPacket(c) PROVE WorkerInv'
  BY <1>10 DEF ReadBadPacket, server, chans, calls
<1>11. ASSUME NEW c \in Conns, PeerClose(c) PROVE WorkerInv'
  BY <1>11 DEF PeerClose, server, chans, calls
<1>12. ASSUME NEW a \in Apps, NEW i \in Sids, NEW op \in Ops, Get(a, i, op) PROVE WorkerInv'
  BY <1>12 DEF Get, Ops, server, chans, calls
<1>13. ASSUME NEW a \in Apps, SendBuffEnter(a) PROVE WorkerInv'
  BY <1>13 DEF SendBuffEnter, server, chans, calls
<1>14. ASSUME NEW a \in Apps, SendBuffPut(a) PROVE WorkerInv'
  BY <1>14 DEF SendBuffPut, server, chans, calls
<1>15. ASSUME NEW a \in Apps, SendBuffTimeout(a) PROVE WorkerInv'
  BY <1>15 DEF SendBuffTimeout, server, chans, calls
<1>16. ASSUME NEW a \in Apps, LostConnection(a) PROVE WorkerInv'
  BY <1>16 DEF LostConnection, server, chans, calls
<1>17. ASSUME NEW a \in Apps, LostConnectionMark(a) PROVE WorkerInv'
  BY <1>17 DEF LostConnectionMark, server, chans, calls
<1>18. ASSUME NEW w \in Workers, StopEnter(w) PROVE WorkerInv'
  BY <1>18 DEF StopEnter, Return, server, chans, calls
<1>19. ASSUME NEW w \in Workers, StopFinish(w) PROVE WorkerInv'
  BY <1>19 DEF StopFinish, Return, server, chans, calls
<1>20. ASSUME NEW c \in Conns, WriterExit(c) PROVE WorkerInv'
  BY <1>20 DEF WriterExit, server, chans, calls
<1>21. ASSUME NEW c \in Conns, WriterSend(c) PROVE WorkerInv'
  BY <1>21 DEF WriterSend, server, chans, calls
<1>22. CASE UNCHANGED vars
  BY <1>22 DEF vars, server, chans, calls
<1> QED
  BY <1>1, <1>2, <1>3, <1>4, <1>5, <1>6, <1>7, <1>8, <1>9, <1>10, <1>11, <1>12, <1>13,
     <1>14, <1>15, <1>16, <1>17, <1>18, <1>19, <1>20, <1>21, <1>22
  DEF Next, ServerStep, ConnStep, AppStep

\* Every action keeps the lock with whoever needs it.
LEMMA LockStep == StopInv /\ [Next]_vars => LockInv'
<1> SUFFICES ASSUME StopInv, [Next]_vars PROVE LockInv'
  OBVIOUS
<1> USE ConnectionAssumption DEF StopInv, TypeOK, WorkerInv, LockInv, ClosedInv, Workers, Target, ConnPcs, AppPcs
<1>1. CASE MakePool
  BY <1>1 DEF MakePool, server, chans, calls
<1>2. CASE Refuse
  BY <1>2 DEF Refuse, server, chans, calls
<1>3. CASE Admit
  BY <1>3 DEF Admit, server, chans, calls
<1>4. CASE HandleConnection
  BY <1>4 DEF HandleConnection, server, chans, calls
<1>5. CASE HandleConnectionNil
  BY <1>5 DEF HandleConnectionNil, server, chans, calls
<1>6. ASSUME NEW c \in Conns, Accept(c) PROVE LockInv'
  BY <1>6 DEF Accept, server, chans, calls
<1>7. ASSUME NEW c \in Conns, Add(c) PROVE LockInv'
  BY <1>7 DEF Add, server, chans, calls
<1>8. ASSUME NEW c \in Conns, OnConnectionMade(c) PROVE LockInv'
  BY <1>8 DEF OnConnectionMade, server, chans, calls
<1>9. ASSUME NEW c \in Conns, ReadError(c) PROVE LockInv'
  BY <1>9 DEF ReadError, server, chans, calls
<1>10. ASSUME NEW c \in Conns, ReadBadPacket(c) PROVE LockInv'
  BY <1>10 DEF ReadBadPacket, server, chans, calls
<1>11. ASSUME NEW c \in Conns, PeerClose(c) PROVE LockInv'
  BY <1>11 DEF PeerClose, server, chans, calls
<1>12. ASSUME NEW a \in Apps, NEW i \in Sids, NEW op \in Ops, Get(a, i, op) PROVE LockInv'
  BY <1>12 DEF Get, Ops, server, chans, calls
<1>13. ASSUME NEW a \in Apps, SendBuffEnter(a) PROVE LockInv'
  BY <1>13 DEF SendBuffEnter, server, chans, calls
<1>14. ASSUME NEW a \in Apps, SendBuffPut(a) PROVE LockInv'
  BY <1>14 DEF SendBuffPut, server, chans, calls
<1>15. ASSUME NEW a \in Apps, SendBuffTimeout(a) PROVE LockInv'
  BY <1>15 DEF SendBuffTimeout, server, chans, calls
<1>16. ASSUME NEW a \in Apps, LostConnection(a) PROVE LockInv'
  BY <1>16 DEF LostConnection, server, chans, calls
<1>17. ASSUME NEW a \in Apps, LostConnectionMark(a) PROVE LockInv'
  BY <1>17 DEF LostConnectionMark, server, chans, calls
<1>18. ASSUME NEW w \in Workers, StopEnter(w) PROVE LockInv'
  BY <1>18 DEF StopEnter, Return, server, chans, calls
<1>19. ASSUME NEW w \in Workers, StopFinish(w) PROVE LockInv'
  BY <1>19 DEF StopFinish, Return, server, chans, calls
<1>20. ASSUME NEW c \in Conns, WriterExit(c) PROVE LockInv'
  BY <1>20 DEF WriterExit, server, chans, calls
<1>21. ASSUME NEW c \in Conns, WriterSend(c) PROVE LockInv'
  BY <1>21 DEF WriterSend, server, chans, calls
<1>22. CASE UNCHANGED vars
  BY <1>22 DEF vars, server, chans, calls
<1> QED
  BY <1>1, <1>2, <1>3, <1>4, <1>5, <1>6, <1>7, <1>8, <1>9, <1>10, <1>11, <1>12, <1>13,
     <1>14, <1>15, <1>16, <1>17, <1>18, <1>19, <1>20, <1>21, <1>22
  DEF Next, ServerStep, ConnStep, AppStep

\* Every action closes channels and reports losses together, and none panics.
LEMMA ClosedStep == StopInv /\ [Next]_vars => (ClosedInv /\ NoChannelPanic)'
<1> SUFFICES ASSUME StopInv, [Next]_vars PROVE (ClosedInv /\ NoChannelPanic)'
  OBVIOUS
<1> USE ConnectionAssumption DEF StopInv, TypeOK, WorkerInv, LockInv, ClosedInv, NoChannelPanic, Workers, Target
<1>1. CASE MakePool
  BY <1>1 DEF MakePool, server, chans, calls
<1>2. CASE Refuse
  BY <1>2 DEF Refuse, server, chans, calls
<1>3. CASE Admit
  BY <1>3 DEF Admit, server, chans, calls
<1>4. CASE HandleConnection
  BY <1>4 DEF HandleConnection, server, chans, calls
<1>5. CASE HandleConnectionNil
  BY <1>5 DEF HandleConnectionNil, server, chans, calls
<1>6. ASSUME NEW c \in Conns, Accept(c) PROVE (ClosedInv /\ NoChannelPanic)'
  BY <1>6 DEF Accept, server, chans, calls
<1>7. ASSUME NEW c \in Conns, Add(c) PROVE (ClosedInv /\ NoChannelPanic)'
  BY <1>7 DEF Add, server, chans, calls
<1>8. ASSUME NEW c \in Conns, OnConnectionMade(c) PROVE (ClosedInv /\ NoChannelPanic)'
  BY <1>8 DEF OnConnectionMade, server, chans, calls
<1>9. ASSUME NEW c \in Conns, ReadError(c) PROVE (ClosedInv /\ NoChannelPanic)'
  BY <1>9 DEF ReadError, server, chans, calls
<1>10. ASSUME NEW c \in Conns, ReadBadPacket(c) PROVE (ClosedInv /\ NoChannelPanic)'
  BY <1>10 DEF ReadBadPacket, server, chans, calls
<1>11. ASSUME NEW c \in Conns, PeerClose(c) PROVE (ClosedInv /\ NoChannelPanic)'
  BY <1>11 DEF PeerClose, server, chans, calls
<1>12. ASSUME NEW a \in Apps, NEW i \in Sids, NEW op \in Ops, Get(a, i, op) PROVE (ClosedInv /\ NoChannelPanic)'
  BY <1>12 DEF Get, server, chans, calls
<1>13. ASSUME NEW a \in Apps, SendBuffEnter(a) PROVE (ClosedInv /\ NoChannelPanic)'
  BY <1>13 DEF SendBuffEnter, server, chans, calls
<1>14. ASSUME NEW a \in Apps, SendBuffPut(a) PROVE (ClosedInv /\ NoChannelPanic)'
  BY <1>14 DEF SendBuffPut, server, chans, calls
<1>15. ASSUME NEW a \in Apps, SendBuffTimeout(a) PROVE (ClosedInv /\ NoChannelPanic)'
  BY <1>15 DEF SendBuffTimeout, server, chans, calls
<1>16. ASSUME NEW a \in Apps, LostConnection(a) PROVE (ClosedInv /\ NoChannelPanic)'
  BY <1>16 DEF LostConnection, server, chans, calls
<1>17. ASSUME NEW a \in Apps, LostConnectionMark(a) PROVE (ClosedInv /\ NoChannelPanic)'
  BY <1>17 DEF LostConnectionMark, server, chans, calls
<1>18. ASSUME NEW w \in Workers, StopEnter(w) PROVE (ClosedInv /\ NoChannelPanic)'
  BY <1>18 DEF StopEnter, Return, server, chans, calls
<1>19. ASSUME NEW w \in Workers, StopFinish(w) PROVE (ClosedInv /\ NoChannelPanic)'
  BY <1>19 DEF StopFinish, Return, server, chans, calls
<1>20. ASSUME NEW c \in Conns, WriterExit(c) PROVE (ClosedInv /\ NoChannelPanic)'
  BY <1>20 DEF WriterExit, server, chans, calls
<1>21. ASSUME NEW c \in Conns, WriterSend(c) PROVE (ClosedInv /\ NoChannelPanic)'
  BY <1>21 DEF WriterSend, server, chans, calls
<1>22. CASE UNCHANGED vars
  BY <1>22 DEF vars, server, chans, calls
<1> QED
  BY <1>1, <1>2, <1>3, <1>4, <1>5, <1>6, <1>7, <1>8, <1>9, <1>10, <1>11, <1>12, <1>13,
     <1>14, <1>15, <1>16, <1>17, <1>18, <1>19, <1>20, <1>21, <1>22
  DEF Next, ServerStep, ConnStep, AppStep

\* The accept loop handles connections that have no goroutine yet.
LEMMA AdmitStep == IdInv /\ [Next]_vars => AdmitInv'
<1> SUFFICES ASSUME IdInv, [Next]_vars PROVE AdmitInv'
  OBVIOUS
<1> USE ConnectionAssumption DEF IdInv, StopInv, TypeOK, WorkerInv, AdmitInv, Workers, Target, ConnPcs, AppPcs
<1>1. CASE MakePool
  BY <1>1 DEF MakePool, server, chans, calls
<1>2. CASE Refuse
  BY <1>2 DEF Refuse, server, chans, calls
<1>3. CASE Admit
  BY <1>3 DEF Admit, server, chans, calls
<1>4. CASE HandleConnection
  BY <1>4 DEF HandleConnection, server, chans, calls
<1>5. CASE HandleConnectionNil
  BY <1>5 DEF HandleConnectionNil, server, chans, calls
<1>6. ASSUME NEW c \in Conns, Accept(c) PROVE AdmitInv'
  BY <1>6 DEF Accept, server, chans, calls
<1>7. ASSUME NEW c \in Conns, Add(c) PROVE AdmitInv'
  BY <1>7 DEF Add, server, chans, calls
<1>8. ASSUME NEW c \in Conns, OnConnectionMade(c) PROVE AdmitInv'
  BY <1>8 DEF OnConnectionMade, server, chans, calls
<1>9. ASSUME NEW c \in Conns, ReadError(c) PROVE AdmitInv'
  BY <1>9 DEF ReadError, server, chans, calls
<1>10. ASSUME NEW c \in Conns, ReadBadPacket(c) PROVE AdmitInv'
  BY <1>10 DEF ReadBadPacket, server, chans, calls
<1>11. ASSUME NEW c \in Conns, PeerClose(c) PROVE AdmitInv'
  BY <1>11 DEF PeerClose, server, chans, calls
<1>12. ASSUME NEW a \in Apps, NEW i \in Sids, NEW op \in Ops, Get(a, i, op) PROVE AdmitInv'
  BY <1>12 DEF Get, Ops, server, chans, calls
<1>13. ASSUME NEW a \in Apps, SendBuffEnter(a) PROVE AdmitInv'
  BY <1>13 DEF SendBuffEnter, server, chans, calls
<1>14. ASSUME NEW a \in Apps, SendBuffPut(a) PROVE AdmitInv'
  BY <1>14 DEF SendBuffPut, server, chans, calls
<1>15. ASSUME NEW a \in Apps, SendBuffTimeout(a) PROVE AdmitInv'
  BY <1>15 DEF SendBuffTimeout, server, chans, calls
<1>16. ASSUME NEW a \in Apps, LostConnection(a) PROVE AdmitInv'
  BY <1>16 DEF LostConnection, server, chans, calls
<1>17. ASSUME NEW a \in Apps, LostConnectionMark(a) PROVE AdmitInv'
  BY <1>17 DEF LostConnectionMark, server, chans, calls
<1>18. ASSUME NEW w \in Workers, StopEnter(w) PROVE AdmitInv'
  BY <1>18 DEF StopEnter, Return, server, chans, calls
<1>19. ASSUME NEW w \in Workers, StopFinish(w) PROVE AdmitInv'
  BY <1>19 DEF StopFinish, Return, server, chans, calls
<1>20. ASSUME NEW c \in Conns, WriterExit(c) PROVE AdmitInv'
  BY <1>20 DEF WriterExit, server, chans, calls
<1>21. ASSUME NEW c \in Conns, WriterSend(c) PROVE AdmitInv'
  BY <1>21 DEF WriterSend, server, chans, calls
<1>22. CASE UNCHANGED vars
  BY <1>22 DEF vars, server, chans, calls
<1> QED
  BY <1>1, <1>2, <1>3, <1>4, <1>5, <1>6, <1>7, <1>8, <1>9, <1>10, <1>11, <1>12, <1>13,
     <1>14, <1>15, <1>16, <1>17, <1>18, <1>19, <1>20, <1>21, <1>22
  DEF Next, ServerStep, ConnStep, AppStep

\* Ids given out stay distinct, below the next one, and entered.
LEMMA SidStep == IdInv /\ [Next]_vars => SidInv'
<1> SUFFICES ASSUME IdInv, [Next]_vars PROVE SidInv'
  OBVIOUS
<1> USE ConnectionAssumption DEF IdInv, StopInv, TypeOK, WorkerInv, AdmitInv, SidInv, Workers, Sids, ConnPcs, AppPcs
<1>1. CASE MakePool
  BY <1>1 DEF MakePool, server, chans, calls
<1>2. CASE Refuse
  BY <1>2 DEF Refuse, server, chans, calls
<1>3. CASE Admit
  BY <1>3 DEF Admit, server, chans, calls
<1>4. CASE HandleConnection
  <2>1. CASE ct + 1 = MaxSid
    BY <1>4, <2>1 DEF HandleConnection
  <2>2. CASE ct + 1 # MaxSid
    BY <1>4, <2>2 DEF HandleConnection, NextSid
  <2> QED
    BY <2>1, <2>2
<1>5. CASE HandleConnectionNil
  BY <1>5 DEF HandleConnectionNil, server, chans, calls
<1>6. ASSUME NEW c \in Conns, Accept(c) PROVE SidInv'
  BY <1>6 DEF Accept, server, chans, calls
<1>7. ASSUME NEW c \in Conns, Add(c) PROVE SidInv'
  BY <1>7 DEF Add, server, chans, calls
<1>8. ASSUME NEW c \in Conns, OnConnectionMade(c) PROVE SidInv'
  BY <1>8 DEF OnConnectionMade, server, chans, calls
<1>9. ASSUME NEW c \in Conns, ReadError(c) PROVE SidInv'
  BY <1>9 DEF ReadError, server, chans, calls
<1>10. ASSUME NEW c \in Conns, ReadBadPacket(c) PROVE SidInv'
  BY <1>10 DEF ReadBadPacket, server, chans, calls
<1>11. ASSUME NEW c \in Conns, PeerClose(c) PROVE SidInv'
  BY <1>11 DEF PeerClose, server, chans, calls
<1>12. ASSUME NEW a \in Apps, NEW i \in Sids, NEW op \in Ops, Get(a, i, op) PROVE SidInv'
  BY <1>12 DEF Get, Ops, server, chans, calls
<1>13. ASSUME NEW a \in Apps, SendBuffEnter(a) PROVE SidInv'
  <2>1. /\ UNCHANGED <<ct, wrapped, mgr, sid>>
        /\ \A c \in Conns : at'[c] = at[c]
    BY <1>13 DEF SendBuffEnter, server, chans, calls
  <2> QED
    BY <2>1
<1>14. ASSUME NEW a \in Apps, SendBuffPut(a) PROVE SidInv'
  BY <1>14 DEF SendBuffPut, server, chans, calls
<1>15. ASSUME NEW a \in Apps, SendBuffTimeout(a) PROVE SidInv'
  BY <1>15 DEF SendBuffTimeout, server, chans, calls
<1>16. ASSUME NEW a \in Apps, LostConnection(a) PROVE SidInv'
  BY <1>16 DEF LostConnection, server, chans, calls
<1>17. ASSUME NEW a \in Apps, LostConnectionMark(a) PROVE SidInv'
  BY <1>17 DEF LostConnectionMark, server, chans, calls
<1>18. ASSUME NEW w \in Workers, StopEnter(w) PROVE SidInv'
  <2>1. UNCHANGED <<ct, wrapped, mgr, sid>>
    BY <1>18 DEF StopEnter, server
  <2>2. ASSUME NEW c \in Conns
        PROVE  at'[c] = at[c] \/ (at[c] = "stop" /\ at'[c] \in {"stopping", "done"})
    <3>1. PICK x \in {"stopping", Return(w)} : at[w] = "stop" /\ at' = [at EXCEPT ![w] = x]
      BY <1>18 DEF StopEnter
    <3>2. w \in Conns => Return(w) = "done"
      BY DEF Return
    <3>3. DOMAIN at = Workers /\ Conns \subseteq Workers
      OBVIOUS
    <3> HIDE DEF IdInv, StopInv, TypeOK, WorkerInv, AdmitInv, SidInv, Workers, Sids, ConnPcs,
                 AppPcs
    <3> QED
      BY <3>1, <3>2, <3>3
  <2>3. \A c \in Conns :
            /\ at'[c] # "none" => at[c] # "none"
            /\ at'[c] \notin {"none", "add"} => at[c] \notin {"none", "add"}
    BY <2>2
  <2>4. SidInv
    BY DEF IdInv
  <2> HIDE DEF IdInv, StopInv, TypeOK, WorkerInv, AdmitInv, Workers, Sids, ConnPcs, AppPcs
  <2> QED
    BY <2>1, <2>3, <2>4 DEF SidInv
<1>19. ASSUME NEW w \in Workers, StopFinish(w) PROVE SidInv'
  BY <1>19 DEF StopFinish, Return, server, chans, calls
<1>20. ASSUME NEW c \in Conns, WriterExit(c) PROVE SidInv'
  BY <1>20 DEF WriterExit, server, chans, calls
<1>21. ASSUME NEW c \in Conns, WriterSend(c) PROVE SidInv'
  BY <1>21 DEF WriterSend, server, chans, calls
<1>22. CASE UNCHANGED vars
  BY <1>22 DEF vars, server, chans, calls
<1> QED
  BY <1>1, <1>2, <1>3, <1>4, <1>5, <1>6, <1>7, <1>8, <1>9, <1>10, <1>11, <1>12, <1>13,
     <1>14, <1>15, <1>16, <1>17, <1>18, <1>19, <1>20, <1>21, <1>22
  DEF Next, ServerStep, ConnStep, AppStep

LEMMA StopInvInit == Init => StopInv
<1> SUFFICES ASSUME Init PROVE StopInv
  OBVIOUS
<1> USE ConnectionAssumption DEF Init
<1>1. TypeOK
  <2>1. ct \in Sids /\ sid \in [Conns -> Sids \cup {0}] /\ mgr \in [Sids -> Conns \cup {None}]
    BY DEF Sids
  <2>2. at \in [Workers -> {"none", "idle"}] /\ target \in [Apps -> Conns \cup {None}]
    BY DEF Workers
  <2>3. sendBuff \in [Conns -> 0 .. SendCap] /\ lost \in [Conns -> Nat] /\ extSend \in [Conns -> {0, 1}]
    OBVIOUS
  <2>4. acceptor \in [at : {"accept"}, conn : {None}]
    OBVIOUS
  <2> QED
    BY <2>1, <2>2, <2>3, <2>4 DEF TypeOK
<1>2. WorkerInv
  BY DEF WorkerInv, Workers, ConnPcs, AppPcs
<1>3. LockInv /\ ClosedInv /\ NoChannelPanic
  BY DEF LockInv, ClosedInv, NoChannelPanic, Workers
<1> QED
  BY <1>1, <1>2, <1>3 DEF StopInv

LEMMA StopInvStep == StopInv /\ [Next]_vars => StopInv'
  BY TypeStep, WorkerStep, LockStep, ClosedStep DEF StopInv

LEMMA IdInvInit == Init => IdInv
  BY StopInvInit DEF Init, IdInv, AdmitInv, SidInv, Workers

LEMMA IdInvStep == IdInv /\ [Next]_vars => IdInv'
  BY StopInvStep, AdmitStep, SidStep DEF IdInv

LEMMA ConnectionInvariant == Spec => []IdInv
<1>1. Init => IdInv
  BY IdInvInit
<1>2. IdInv /\ [Next]_vars => IdInv'
  BY IdInvStep
<1> QED
  BY <1>1, <1>2, PTL DEF Spec

\* The variables keep their types.
THEOREM ConnectionTypeCorrect == Spec => []TypeOK
<1>1. IdInv => TypeOK
  BY DEF IdInv, StopInv
<1> QED
  BY <1>1, ConnectionInvariant, PTL

\* Connection.Stop and LostConnection by any number of goroutines: a loss is
\* reported at most once.
THEOREM LostAtMostOnceCorrect == Spec => []LostAtMostOnce
<1>1. IdInv => LostAtMostOnce
  BY DEF IdInv, StopInv, ClosedInv, LostAtMostOnce
<1> QED
  BY <1>1, ConnectionInvariant, PTL

\* SendBuff and Stop never use a closed channel.
THEOREM NoChannelPanicCorrect == Spec => []NoChannelPanic
<1>1. IdInv => NoChannelPanic
  BY DEF IdInv, StopInv
<1> QED
  BY <1>1, ConnectionInvariant, PTL

\* ConnectionMgr.Get finds every connection in service until the session ids
\* start over.
THEOREM FoundByIdCorrect == Spec => []FoundById
<1>1. IdInv => FoundById
  BY DEF IdInv, SidInv, FoundById
<1> QED
  BY <1>1, ConnectionInvariant, PTL
=============================================================================
