----------------------------- MODULE Connection -----------------------------
(***************************************************************************)
(* The TCP server and its connections (viphxin/xingo/fserver/server.go,    *)
(* fnet/connection.go, fnet/connectionmgr.go and the read threads of       *)
(* fnet/protocol.go and cluster/rpcprotocol.go).                           *)
(*                                                                         *)
(* One goroutine accepts connections, takes session ids from a pool that   *)
(* another one fills, and starts a goroutine per connection.  That one     *)
(* enters the connection in the manager, calls OnConnectionMade, starts    *)
(* the write thread (on the master) and reads until an error, when it      *)
(* calls Stop.  Application goroutines, which get connections from the     *)
(* manager, call SendBuff, Stop and LostConnection at any time.            *)
(*                                                                         *)
(* A goroutine is named by its connection or is one of Apps.  What is sent *)
(* or received does not matter here: SendBuffChan is its length.           *)
(***************************************************************************)
EXTENDS Integers, FiniteSets

CONSTANTS Conns,      \* TCP connections that clients make
          Apps,       \* application goroutines
          MaxConn,    \* GlobalObject.MaxConn
          MaxSid,     \* MAX_UINT32: ids run from 1 to MaxSid - 1
          SendCap,    \* capacity of SendBuffChan
          IsMaster,   \* GlobalObject.IsMaster()
          None

ASSUME ConnectionAssumption ==
    /\ IsFiniteSet(Conns)
    /\ Conns \cap Apps = {}
    /\ None \notin Conns \cup Apps
    /\ MaxConn \in Nat \ {0} /\ MaxSid \in Nat /\ MaxSid > 1 /\ SendCap \in Nat \ {0}
    /\ IsMaster \in BOOLEAN

VARIABLES
    \* the server
    acceptor,  \* where the accept loop is, and with which connection
    poolMade,  \* Server.sessIdPool is a channel, not nil
    ct,        \* the next session id of the pool
    wrapped,   \* the ids have started over
    mgr,       \* ConnectionMgr.connections
    \* the connections
    tcp,       \* state of the socket
    sid,       \* SessionId
    isClosed,
    guard,     \* holder of sendtagGuard
    sendBuff,  \* number of messages in SendBuffChan
    bufClosed, \* both channels are closed
    extSend,   \* number of signals in ExtSendChan
    made,      \* OnConnectionMade was called
    lost,      \* number of calls of OnConnectionLost
    writer,    \* the write thread
    \* the goroutines
    at,        \* where a goroutine is
    target,    \* the connection an application goroutine works on
    panicked   \* a send on, or close of, a closed channel happened

server == <<acceptor, poolMade, ct, wrapped, mgr>>
chans  == <<sendBuff, bufClosed, extSend>>
calls  == <<made, lost>>
vars   == <<server, tcp, sid, isClosed, guard, chans, calls, writer, at, target, panicked>>

Sids == 1 .. MaxSid - 1
Workers == Conns \cup Apps

Init ==
    /\ acceptor = [at |-> "accept", conn |-> None]
    /\ poolMade = FALSE
    /\ ct = 1
    /\ wrapped = FALSE
    /\ mgr = [i \in Sids |-> None]
    /\ tcp = [c \in Conns |-> "unborn"]
    /\ sid = [c \in Conns |-> 0]
    /\ isClosed = [c \in Conns |-> FALSE]
    /\ guard = [c \in Conns |-> None]
    /\ sendBuff = [c \in Conns |-> 0]
    /\ bufClosed = [c \in Conns |-> FALSE]
    /\ extSend = [c \in Conns |-> 0]
    /\ made = {}
    /\ lost = [c \in Conns |-> 0]
    /\ writer = [c \in Conns |-> "none"]
    /\ at = [w \in Workers |-> IF w \in Conns THEN "none" ELSE "idle"]
    /\ target = [w \in Apps |-> None]
    /\ panicked = FALSE

\* The connection a goroutine works on.
Target(w) == IF w \in Conns THEN w ELSE target[w]

\* Where a goroutine is after a call of Stop.
Return(w) == IF w \in Conns THEN "done" ELSE "idle"

Size(m) == Cardinality({i \in Sids : m[i] # None})

(***************************************************************************)
(* Session ids and the accept loop.                                        *)
(***************************************************************************)

\* The goroutine of initSessIdPool makes the channel.
MakePool ==
    /\ ~poolMade
    /\ poolMade' = TRUE
    /\ UNCHANGED <<acceptor, ct, wrapped, mgr, tcp, sid, isClosed, guard, chans,
                   calls, writer, at, target, panicked>>

\* Mutant: the ids run one too far.
FaultyNextSidWide(i) == IF i = MaxSid THEN 1 ELSE i + 1

\* Mutant: the same id again.
FaultyNextSidStuck(i) == i

NextSid(i) == IF i + 1 = MaxSid THEN 1 ELSE i + 1

Accept(c) ==
    /\ acceptor.at = "accept"
    /\ tcp[c] = "unborn"
    /\ tcp' = [tcp EXCEPT ![c] = "open"]
    /\ acceptor' = [at |-> "check", conn |-> c]
    /\ UNCHANGED <<poolMade, ct, wrapped, mgr, sid, isClosed, guard, chans, calls,
                   writer, at, target, panicked>>

\* "max client exceed"
Refuse ==
    /\ acceptor.at = "check"
    /\ Size(mgr) >= MaxConn
    /\ tcp' = [tcp EXCEPT ![acceptor.conn] = "closed"]
    /\ acceptor' = [at |-> "accept", conn |-> None]
    /\ UNCHANGED <<poolMade, ct, wrapped, mgr, sid, isClosed, guard, chans, calls, writer,
                   at, target, panicked>>

Admit ==
    /\ acceptor.at = "check"
    /\ Size(mgr) < MaxConn
    /\ acceptor' = [acceptor EXCEPT !.at = "handle"]
    /\ UNCHANGED <<poolMade, ct, wrapped, mgr, tcp, sid, isClosed, guard, chans,
                   calls, writer, at, target, panicked>>

\* Take an id, make the Connection and start its goroutine.
HandleConnection ==
    LET c == acceptor.conn IN
    /\ acceptor.at = "handle"
    /\ poolMade
    /\ sid' = [sid EXCEPT ![c] = ct]
    /\ ct' = NextSid(ct)
    /\ wrapped' = (wrapped \/ ct + 1 = MaxSid)
    /\ at' = [at EXCEPT ![c] = "add"]
    /\ acceptor' = [at |-> "accept", conn |-> None]
    /\ UNCHANGED <<poolMade, mgr, tcp, isClosed, guard, chans, calls, writer,
                   target, panicked>>

\* A receive from a channel that is still nil never returns.
HandleConnectionNil ==
    /\ acceptor.at = "handle"
    /\ ~poolMade
    /\ acceptor' = [acceptor EXCEPT !.at = "stuck"]
    /\ UNCHANGED <<poolMade, ct, wrapped, mgr, tcp, sid, isClosed, guard, chans,
                   calls, writer, at, target, panicked>>

(***************************************************************************)
(* The goroutine of a connection.                                          *)
(***************************************************************************)

\* Start: enter the connection in the manager.
Add(c) ==
    /\ at[c] = "add"
    /\ mgr' = [mgr EXCEPT ![sid[c]] = c]
    /\ at' = [at EXCEPT ![c] = "made"]
    /\ UNCHANGED <<acceptor, poolMade, ct, wrapped, tcp, sid, isClosed, guard,
                   chans, calls, writer, target, panicked>>

\* Start: OnConnectionMade returns, the write thread of a master starts.
OnConnectionMade(c) ==
    /\ at[c] = "made"
    /\ made' = made \cup {c}
    /\ writer' = IF IsMaster THEN [writer EXCEPT ![c] = "run"] ELSE writer
    /\ at' = [at EXCEPT ![c] = "read"]
    /\ UNCHANGED <<server, tcp, sid, isClosed, guard, chans, lost, target, panicked>>

\* Mutant: the read thread just ends.
FaultyReadErrorSilent(c) ==
    /\ at[c] = "read"
    /\ tcp[c] # "open"
    /\ at' = [at EXCEPT ![c] = "done"]
    /\ UNCHANGED <<server, tcp, sid, isClosed, guard, chans, calls, writer, target, panicked>>

\* StartReadThread meets the end of the stream.
ReadError(c) ==
    /\ at[c] = "read"
    /\ tcp[c] # "open"
    /\ at' = [at EXCEPT ![c] = "stop"]
    /\ UNCHANGED <<server, tcp, sid, isClosed, guard, chans, calls, writer, target, panicked>>

\* StartReadThread meets a packet that it cannot unpack.
ReadBadPacket(c) ==
    /\ at[c] = "read"
    /\ tcp[c] = "open"
    /\ at' = [at EXCEPT ![c] = "stop"]
    /\ UNCHANGED <<server, tcp, sid, isClosed, guard, chans, calls, writer, target, panicked>>

\* The client closes the connection, or it breaks.
PeerClose(c) ==
    /\ tcp[c] = "open"
    /\ tcp' = [tcp EXCEPT ![c] = "broken"]
    /\ UNCHANGED <<server, sid, isClosed, guard, chans, calls, writer, at, target, panicked>>

(***************************************************************************)
(* What application goroutines do with a connection.                       *)
(***************************************************************************)

Ops == {"sendbuff", "stop", "lost"}

\* ConnectionMgr.Get, then a call on the connection.
Get(a, i, op) ==
    /\ at[a] = "idle"
    /\ mgr[i] # None
    /\ at' = [at EXCEPT ![a] = op]
    /\ target' = [target EXCEPT ![a] = mgr[i]]
    /\ UNCHANGED <<server, tcp, sid, isClosed, guard, chans, calls, writer, panicked>>

\* Mutant: the lock is not held while waiting for room.
FaultySendBuffEnterUnlocked(a) ==
    /\ at[a] = "sendbuff"
    /\ at' = [at EXCEPT ![a] = IF isClosed[target[a]] THEN "idle" ELSE "select"]
    /\ UNCHANGED <<server, tcp, sid, isClosed, guard, chans, calls, writer, target, panicked>>

\* SendBuff takes the lock; a closed connection is an error.
SendBuffEnter(a) ==
    LET c == target[a] IN
    /\ at[a] = "sendbuff"
    /\ guard[c] = None
    /\ IF isClosed[c]
       THEN /\ at' = [at EXCEPT ![a] = "idle"]
            /\ UNCHANGED guard
       ELSE /\ at' = [at EXCEPT ![a] = "select"]
            /\ guard' = [guard EXCEPT ![c] = a]
    /\ UNCHANGED <<server, tcp, sid, isClosed, chans, calls, writer, target, panicked>>

\* SendBuff, the select: there is room.
SendBuffPut(a) ==
    LET c == target[a] IN
    /\ at[a] = "select"
    /\ bufClosed[c] \/ sendBuff[c] < SendCap
    /\ panicked' = (panicked \/ bufClosed[c])
    /\ sendBuff' = IF bufClosed[c] THEN sendBuff ELSE [sendBuff EXCEPT ![c] = @ + 1]
    /\ guard' = [guard EXCEPT ![c] = None]
    /\ at' = [at EXCEPT ![a] = "idle"]
    /\ UNCHANGED <<server, tcp, sid, isClosed, bufClosed, extSend, calls, writer, target>>

\* Mutant: no timeout.
FaultySendBuffTimeoutNever(a) == at[a] = "select" /\ FALSE

\* SendBuff, the select: no room for two seconds.
SendBuffTimeout(a) ==
    LET c == target[a] IN
    /\ at[a] = "select"
    /\ ~bufClosed[c] /\ sendBuff[c] = SendCap
    /\ guard' = [guard EXCEPT ![c] = None]
    /\ at' = [at EXCEPT ![a] = "idle"]
    /\ UNCHANGED <<server, tcp, sid, isClosed, chans, calls, writer, target, panicked>>

\* LostConnection, without the lock: close the socket ...
LostConnection(a) ==
    /\ at[a] = "lost"
    /\ tcp' = [tcp EXCEPT ![target[a]] = "closed"]
    /\ at' = [at EXCEPT ![a] = "mark"]
    /\ UNCHANGED <<server, sid, isClosed, guard, chans, calls, writer, target, panicked>>

\* ... and set isClosed.
LostConnectionMark(a) ==
    /\ at[a] = "mark"
    /\ isClosed' = [isClosed EXCEPT ![target[a]] = TRUE]
    /\ at' = [at EXCEPT ![a] = "idle"]
    /\ UNCHANGED <<server, tcp, sid, guard, chans, calls, writer, target, panicked>>

\* Mutant: isClosed is not tested.
FaultyStopEnterAlways(w) ==
    LET c == Target(w) IN
    /\ at[w] = "stop"
    /\ guard[c] = None
    /\ at' = [at EXCEPT ![w] = "stopping"]
    /\ guard' = [guard EXCEPT ![c] = w]
    /\ isClosed' = [isClosed EXCEPT ![c] = TRUE]
    /\ UNCHANGED <<server, tcp, sid, chans, calls, writer, target, panicked>>

\* Stop takes the lock; a connection already closed is left alone.
StopEnter(w) ==
    LET c == Target(w) IN
    /\ at[w] = "stop"
    /\ guard[c] = None
    /\ IF isClosed[c]
       THEN /\ at' = [at EXCEPT ![w] = Return(w)]
            /\ UNCHANGED <<guard, isClosed>>
       ELSE /\ at' = [at EXCEPT ![w] = "stopping"]
            /\ guard' = [guard EXCEPT ![c] = w]
            /\ isClosed' = [isClosed EXCEPT ![c] = TRUE]
    /\ UNCHANGED <<server, tcp, sid, chans, calls, writer, target, panicked>>

\* Stop: signal the write thread (blocking while a signal is there), start the
\* OnConnectionLost goroutine, close the channels and the socket.
StopFinish(w) ==
    LET c == Target(w) IN
    /\ at[w] = "stopping"
    /\ bufClosed[c] \/ extSend[c] = 0
    /\ panicked' = (panicked \/ bufClosed[c])
    /\ extSend' = [extSend EXCEPT ![c] = 1]
    /\ lost' = [lost EXCEPT ![c] = @ + 1]
    /\ bufClosed' = [bufClosed EXCEPT ![c] = TRUE]
    /\ tcp' = [tcp EXCEPT ![c] = "closed"]
    /\ guard' = [guard EXCEPT ![c] = None]
    /\ at' = [at EXCEPT ![w] = Return(w)]
    /\ UNCHANGED <<server, sid, isClosed, sendBuff, made, writer, target>>

(***************************************************************************)
(* The write thread (StartWriteThread1).                                   *)
(***************************************************************************)

\* The signal, or the closed channel, ends it.
WriterExit(c) ==
    /\ writer[c] = "run"
    /\ extSend[c] > 0 \/ bufClosed[c]
    /\ extSend' = [extSend EXCEPT ![c] = 0]
    /\ writer' = [writer EXCEPT ![c] = "exit"]
    /\ UNCHANGED <<server, tcp, sid, isClosed, guard, sendBuff, bufClosed, calls, at, target,
                   panicked>>

\* It takes a message, or the nothing a closed channel gives; an error of
\* Conn.Write ends it.
WriterSend(c) ==
    /\ writer[c] = "run"
    /\ sendBuff[c] > 0 \/ bufClosed[c]
    /\ sendBuff' = IF sendBuff[c] > 0 THEN [sendBuff EXCEPT ![c] = @ - 1] ELSE sendBuff
    /\ writer' = IF tcp[c] = "open" THEN writer ELSE [writer EXCEPT ![c] = "exit"]
    /\ UNCHANGED <<server, tcp, sid, isClosed, guard, bufClosed, extSend, calls, at, target,
                   panicked>>

ServerStep ==
    \/ MakePool
    \/ Refuse
    \/ Admit
    \/ HandleConnection
    \/ HandleConnectionNil

ConnStep(c) == Add(c) \/ OnConnectionMade(c) \/ ReadError(c)

AppStep(a) ==
    \/ SendBuffEnter(a)
    \/ SendBuffPut(a)
    \/ SendBuffTimeout(a)
    \/ LostConnection(a)
    \/ LostConnectionMark(a)

Next ==
    \/ ServerStep
    \/ \E c \in Conns : Accept(c) \/ ConnStep(c) \/ ReadBadPacket(c) \/ PeerClose(c)
    \/ \E a \in Apps, i \in Sids, op \in Ops : Get(a, i, op)
    \/ \E a \in Apps : AppStep(a)
    \/ \E w \in Workers : StopEnter(w) \/ StopFinish(w)
    \/ \E c \in Conns : WriterExit(c) \/ WriterSend(c)

Spec == Init /\ [][Next]_vars

(***************************************************************************)
(* Goroutines that can run do run; a Lock of sync.RWMutex is granted to    *)
(* everyone who waits for it, however often others take it.  Nothing is    *)
(* assumed of clients or of what the application calls.                    *)
(***************************************************************************)
Fairness ==
    /\ WF_vars(ServerStep)
    /\ \A c \in Conns : WF_vars(ConnStep(c)) /\ WF_vars(WriterExit(c) \/ WriterSend(c))
    /\ \A a \in Apps : /\ SF_vars(SendBuffEnter(a))
                       /\ WF_vars(SendBuffPut(a) \/ SendBuffTimeout(a))
                       /\ WF_vars(LostConnection(a) \/ LostConnectionMark(a))
    /\ \A w \in Workers : SF_vars(StopEnter(w)) /\ WF_vars(StopFinish(w))

FairSpec == Spec /\ Fairness

(***************************************************************************)
(* Properties.                                                             *)
(***************************************************************************)

\* Type invariant.
TypeOK ==
    /\ acceptor \in [at : {"accept"}, conn : {None}]
                      \cup [at : {"check", "handle", "stuck"}, conn : Conns]
    /\ poolMade \in BOOLEAN /\ wrapped \in BOOLEAN /\ panicked \in BOOLEAN
    /\ ct \in Sids
    /\ mgr \in [Sids -> Conns \cup {None}]
    /\ made \subseteq Conns
    /\ tcp \in [Conns -> {"unborn", "open", "broken", "closed"}]
    /\ sid \in [Conns -> Sids \cup {0}]
    /\ isClosed \in [Conns -> BOOLEAN] /\ bufClosed \in [Conns -> BOOLEAN]
    /\ guard \in [Conns -> Workers \cup {None}]
    /\ sendBuff \in [Conns -> 0 .. SendCap]
    /\ extSend \in [Conns -> {0, 1}]
    /\ lost \in [Conns -> Nat]
    /\ writer \in [Conns -> {"none", "run", "exit"}]
    /\ at \in [Workers -> {"none", "add", "made", "read", "stop", "stopping", "done",
                           "idle", "sendbuff", "select", "lost", "mark"}]
    /\ target \in [Apps -> Conns \cup {None}]

\* A connection reports its loss at most once, whoever calls Stop and
\* LostConnection and however their steps mix (Connection.Stop).
LostAtMostOnce == \A c \in Conns : lost[c] <= 1

\* No goroutine sends on or closes a closed channel, although SendBuff tests
\* isClosed long before it sends (sendtagGuard in SendBuff and Stop).
NoChannelPanic == ~panicked

\* Until the ids start over, a connection in service is found under its
\* session id (initSessIdPool, ConnectionMgr.Add and Get).
FoundById ==
    wrapped \/ \A c \in Conns : at[c] \in {"made", "read", "stop", "stopping"} => mgr[sid[c]] = c

\* Every call of Stop by the read thread returns, although SendBuff keeps the
\* lock while it waits for room, and Stop itself waits on ExtSendChan.
StopReturns == \A c \in Conns : at[c] = "stop" ~> at[c] = "done"

\* A connection in service that breaks is reported to OnConnectionLost: "the
\* callback of a connection that is closed" (OnClosed), unless LostConnection,
\* which sets isClosed without the lock, came before Stop.
LossReported ==
    \A c \in Conns :
        (tcp[c] # "open" /\ at[c] = "read") ~> (lost[c] = 1 \/ (isClosed[c] /\ guard[c] = None))
=============================================================================
