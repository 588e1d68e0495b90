---------------------------- MODULE ServerProcess ----------------------------
(***************************************************************************)
(* What goes on inside one xingo process: the message workers, delayed     *)
(* calls, the web interface, the UDP server, and how the process stops     *)
(* (viphxin/xingo/fnet/msghandle.go, fserver/server.go, web/web.go,        *)
(* udpserv/serv.go, clusterserver/clusterserver.go).                       *)
(*                                                                         *)
(* The name of a process decides its role.  A net process has PoolSize     *)
(* workers that take messages and delayed calls.  A gate has one worker    *)
(* that also serves web requests and datagrams; an admin process answers   *)
(* web requests in a goroutine of their own.  Messages come from the read  *)
(* threads of client connections (net) or from whoever calls ManualMsgPush *)
(* (gate), one at a time per connection.                                   *)
(*                                                                         *)
(* Every process shuts down the same way: on a signal the main goroutine   *)
(* closes the UDP server (gate), calls OnServerStop, closes the web        *)
(* interface and returns, while all the other goroutines go on.            *)
(*                                                                         *)
(* What handlers do is left out, also that they may panic: XingoTry and    *)
(* DelayCall.Call recover.  A gate's router has the handler 112 for        *)
(* datagrams.  UdpServ.dataChan is its length.                             *)
(***************************************************************************)
EXTENDS Integers, Sequences, FiniteSets

CONSTANTS Conns,        \* connections that messages come from
          Requests,     \* HTTP connections
          Laters,       \* uses of CallLater
          Loops,        \* uses of CallLoop
          SessionId,    \* session id of each connection
          MaxMsgs,      \* bound: messages per connection
          PoolSize,     \* length of TaskQueue
          MaxWorkerLen, \* capacity of one task queue
          ReqCap,       \* capacity of Web.reqChan
          UdpCap,       \* capacity of UdpServ.dataChan
          Setups,       \* role, IsUsePool, whether there is a RootServer, a WebObj
                        \* and a port for it, and which of the traffic there is
          None

Calls  == Laters \cup Loops
Queues == 0 .. PoolSize - 1

Setup == [role : {"gate", "net", "admin"}, pool : BOOLEAN, server : BOOLEAN,
          web : BOOLEAN, http : BOOLEAN,
          conns : SUBSET Conns, requests : SUBSET Requests, calls : SUBSET Calls]

ASSUME ProcessAssumption ==
    /\ IsFiniteSet(Conns) /\ IsFiniteSet(Requests) /\ IsFiniteSet(Calls)
    /\ Laters \cap Loops = {}
    /\ SessionId \in [Conns -> Nat \ {0}]
    /\ MaxMsgs \in Nat \ {0} /\ PoolSize \in Nat \ {0} /\ MaxWorkerLen \in Nat \ {0}
    /\ ReqCap \in Nat \ {0} /\ UdpCap \in Nat \ {0}
    /\ Setups \subseteq Setup
    /\ \A s \in Setups : s.http => s.web
    /\ \A s \in Setups : ~s.server => s.conns = {} /\ s.calls = {}

VARIABLES
    setup,    \* fixed when the process starts
    \* messages
    nread,    \* messages a connection's reader has decoded
    hand,     \* connections whose last message is not delivered yet
    queue,    \* MsgHandle.TaskQueue
    loose,    \* messages with a goroutine of their own (DoMsgFromGoRoutine)
    worker,   \* where each worker is, and with which job
    handled,  \* history: messages of a connection in the order of their handling
    \* delayed calls
    call,     \* state of each delayed call's goroutine
    \* the web interface
    webObj,   \* GlobalObject.WebObj is not nil
    listener, \* Web.l
    reqChan, reqClosed,  \* Web.reqChan
    req,      \* state of each HTTP connection
    parser,   \* the request the admin's goroutine is answering
    \* the UDP server
    udp,      \* GlobalUdpServ is not nil
    running,  \* UdpServ.Running
    reader,   \* the UDP server's reading goroutine
    data, dataClosed,    \* UdpServ.dataChan
    \* the main goroutine
    main, stopped,       \* where it is; OnServerStop was called
    panicked  \* what ended the process, if it was a panic

msgs   == <<nread, hand, queue, loose, handled>>
web    == <<webObj, listener, reqChan, reqClosed, req, parser>>
udps   == <<udp, running, reader, data, dataClosed>>
ending == <<main, stopped, panicked>>
vars   == <<setup, msgs, worker, call, web, udps, ending>>

IsGate  == setup.role = "gate"
IsNet   == setup.role = "net"
IsAdmin == setup.role = "admin"

(***************************************************************************)
(* Definitions named Faulty... are plausible mistakes in the definition    *)
(* that follows them; no specification uses them.                          *)
(***************************************************************************)

\* Mutant: one worker is started, as in the pool for RPCs.
FaultyWorkersOne == IF setup.server THEN {0} ELSE {}

\* StartWorkerLoop, called when the server starts: a gate uses the first queue
\* only.
Workers == IF ~setup.server THEN {} ELSE IF IsGate THEN {0} ELSE Queues

\* The gate's loop begins with tests, the others' with select.
Loop == [at |-> IF IsGate THEN "top" ELSE "select", job |-> None]

Init ==
    /\ setup \in Setups
    /\ nread = [c \in Conns |-> 0]
    /\ hand = {}
    /\ queue = [q \in Queues |-> <<>>]
    /\ loose = {}
    /\ worker = [q \in Queues |-> Loop]
    /\ handled = [c \in Conns |-> <<>>]
    /\ call = [d \in Calls |-> "unused"]
    /\ webObj = setup.web
    /\ listener = IF setup.http THEN "open" ELSE "nil"
    /\ reqChan = <<>>
    /\ reqClosed = FALSE
    /\ req = [r \in Requests |-> "unused"]
    /\ parser = None
    /\ udp = FALSE
    /\ running = FALSE
    /\ reader = "none"
    /\ data = 0
    /\ dataClosed = FALSE
    /\ main = "start"
    /\ stopped = FALSE
    /\ panicked = "no"

Alive == main # "exited" /\ panicked = "no"

\* The process has not begun to stop.
Serving == panicked = "no" /\ main \in {"start", "make", "run"}

(***************************************************************************)
(* Messages.                                                               *)
(***************************************************************************)

\* StartReadThread decodes a message, or somebody calls ManualMsgPush.
ReadMsg(c) ==
    /\ Alive
    /\ c \in setup.conns \ hand
    /\ nread[c] < MaxMsgs
    /\ nread' = [nread EXCEPT ![c] = @ + 1]
    /\ hand' = hand \cup {c}
    /\ UNCHANGED <<setup, queue, loose, handled, worker, call, web, udps, ending>>

\* Mutant: any queue will do, as in the line that is commented out.
FaultyRouteRandom(c) == IF IsGate THEN {0} ELSE Queues

\* The queue for the messages of a connection; there is none unless the
\* process is a gate or a net.
Route(c) == IF IsGate THEN {0}
            ELSE IF IsNet THEN {SessionId[c] % PoolSize}
            ELSE {}

\* The reader waits for room in the queue.
DeliverToMsgQueue(c) ==
    /\ Alive /\ setup.pool
    /\ c \in hand
    /\ \E q \in Route(c) :
          /\ Len(queue[q]) < MaxWorkerLen
          /\ queue' = [queue EXCEPT ![q] = Append(@, <<c, nread[c]>>)]
    /\ hand' = hand \ {c}
    /\ UNCHANGED <<setup, nread, loose, handled, worker, call, web, udps, ending>>

\* In a process that is neither gate nor net the message is gone.
DeliverToNobody(c) ==
    /\ Alive /\ setup.pool
    /\ c \in hand
    /\ Route(c) = {}
    /\ hand' = hand \ {c}
    /\ UNCHANGED <<setup, nread, queue, loose, handled, worker, call, web, udps, ending>>

\* Without a pool each message gets a goroutine.
DoMsgFromGoRoutine(c) ==
    /\ Alive /\ ~setup.pool
    /\ c \in hand
    /\ loose' = loose \cup {<<c, nread[c]>>}
    /\ hand' = hand \ {c}
    /\ UNCHANGED <<setup, nread, queue, handled, worker, call, web, udps, ending>>

DoLooseMsg(m) ==
    /\ Alive
    /\ m \in loose
    /\ loose' = loose \ {m}
    /\ handled' = [handled EXCEPT ![m[1]] = Append(@, m[2])]
    /\ UNCHANGED <<setup, nread, hand, queue, worker, call, web, udps, ending>>

(***************************************************************************)
(* The worker loops.                                                       *)
(***************************************************************************)

Go(w, at, job) == worker' = [worker EXCEPT ![w] = [at |-> at, job |-> job]]

\* The head of GateWorkerLoop: NewUdpServ finds that there is no UDP server.
NeedUdp(w) ==
    /\ Alive /\ w \in Workers
    /\ worker[w].at = "top" /\ ~udp
    /\ Go(w, "make", None)
    /\ UNCHANGED <<setup, msgs, call, web, udps, ending>>

\* What NewUdpServ does after its test.  If the other goroutine that runs it
\* got there first, the second ListenUDP finds the port in use and panics.
NewUdpServ ==
    /\ udp' = TRUE
    /\ running' = TRUE
    /\ reader' = IF udp THEN reader ELSE "bind"
    /\ panicked' = IF udp THEN "port" ELSE "no"
    /\ UNCHANGED <<data, dataClosed>>

WorkerNewUdp(w) ==
    /\ Alive /\ w \in Workers
    /\ worker[w].at = "make"
    /\ NewUdpServ
    /\ Go(w, "web", None)
    /\ UNCHANGED <<setup, msgs, call, web, main, stopped>>

\* WebObj is tested; without one the loop goes round and never reaches select.
TestWeb(w) ==
    /\ Alive /\ w \in Workers
    /\ \/ worker[w].at = "web"
       \/ worker[w].at = "top" /\ udp
    /\ Go(w, IF webObj THEN "chans" ELSE "top", None)
    /\ UNCHANGED <<setup, msgs, call, web, udps, ending>>

\* The channels of select are evaluated, WebObj.GetReqChan() among them.
GetChans(w) ==
    /\ Alive /\ w \in Workers
    /\ worker[w].at = "chans"
    /\ IF webObj THEN Go(w, "select", None) /\ UNCHANGED panicked
       ELSE panicked' = "nilweb" /\ UNCHANGED worker
    /\ UNCHANGED <<setup, msgs, call, web, udps, main, stopped>>

TakeMsg(w) ==
    /\ Alive /\ w \in Workers
    /\ worker[w].at = "select"
    /\ queue[w] # <<>>
    /\ LET m == Head(queue[w]) IN
       /\ handled' = [handled EXCEPT ![m[1]] = Append(@, m[2])]
       /\ Go(w, "msg", m)
    /\ queue' = [queue EXCEPT ![w] = Tail(@)]
    /\ UNCHANGED <<setup, nread, hand, loose, call, web, udps, ending>>

\* TimeChan has no buffer: the worker takes a call from a goroutine that offers
\* it, and a goroutine of CallLoop sleeps again.
TakeCall(w, d) ==
    /\ Alive /\ w \in Workers
    /\ worker[w].at = "select"
    /\ call[d] = "send"
    /\ call' = [call EXCEPT ![d] = IF d \in Loops THEN "sleep" ELSE "done"]
    /\ Go(w, "call", d)
    /\ UNCHANGED <<setup, msgs, web, udps, ending>>

\* The handler of a message, or a delayed call, returns.
Handle(w) ==
    /\ Alive /\ w \in Workers
    /\ worker[w].at \in {"msg", "call"}
    /\ worker' = [worker EXCEPT ![w] = Loop]
    /\ UNCHANGED <<setup, msgs, call, web, udps, ending>>

(***************************************************************************)
(* Delayed calls.                                                          *)
(***************************************************************************)

\* CallLater or CallLoop starts a goroutine.
CallDelayed(d) ==
    /\ Alive
    /\ d \in setup.calls
    /\ call[d] = "unused"
    /\ call' = [call EXCEPT ![d] = "sleep"]
    /\ UNCHANGED <<setup, msgs, worker, web, udps, ending>>

\* Its sleep is over and it offers the call to the workers.
CallDue(d) ==
    /\ Alive
    /\ call[d] = "sleep"
    /\ call' = [call EXCEPT ![d] = "send"]
    /\ UNCHANGED <<setup, msgs, worker, web, udps, ending>>

(***************************************************************************)
(* The web interface.                                                      *)
(***************************************************************************)

\* Web.Start accepts a connection.
AcceptReq(r) ==
    /\ Alive
    /\ r \in setup.requests
    /\ listener = "open"
    /\ req[r] = "unused"
    /\ req' = [req EXCEPT ![r] = "read"]
    /\ UNCHANGED <<setup, msgs, worker, call, webObj, listener, reqChan, reqClosed, parser, udps, ending>>

\* Its goroutine has read a full request, or fails and closes.
ReadReq(r) ==
    /\ Alive
    /\ req[r] = "read"
    /\ \E s \in {"send", "closed"} : req' = [req EXCEPT ![r] = s]
    /\ UNCHANGED <<setup, msgs, worker, call, webObj, listener, reqChan, reqClosed, parser, udps, ending>>

PutReq(r) ==
    /\ Alive
    /\ req[r] = "send"
    /\ ~reqClosed
    /\ Len(reqChan) < ReqCap
    /\ reqChan' = Append(reqChan, r)
    /\ req' = [req EXCEPT ![r] = "queued"]
    /\ UNCHANGED <<setup, msgs, worker, call, webObj, listener, reqClosed, parser, udps, ending>>

\* The channel was closed before, or while, the goroutine sends.
PutReqPanic(r) ==
    /\ Alive
    /\ req[r] = "send"
    /\ reqClosed
    /\ panicked' = "closed"
    /\ UNCHANGED <<setup, msgs, worker, call, web, udps, main, stopped>>

\* The gate's worker takes a request.
TakeReq(w) ==
    /\ Alive /\ w \in Workers /\ IsGate
    /\ worker[w].at = "select"
    /\ reqChan # <<>>
    /\ Go(w, "req", Head(reqChan))
    /\ reqChan' = Tail(reqChan)
    /\ UNCHANGED <<setup, msgs, call, webObj, listener, reqClosed, req, parser, udps, ending>>

\* A closed channel yields nil, which is skipped.
TakeNilReq(w) ==
    /\ Alive /\ w \in Workers /\ IsGate
    /\ worker[w].at = "select"
    /\ reqClosed /\ reqChan = <<>>
    /\ worker' = [worker EXCEPT ![w] = Loop]
    /\ UNCHANGED <<setup, msgs, call, web, udps, ending>>

\* WebObj is tested again; a request that finds it nil is dropped.
TestReq(w) ==
    /\ Alive /\ w \in Workers
    /\ worker[w].at = "req"
    /\ worker' = [worker EXCEPT ![w] = IF webObj THEN [@ EXCEPT !.at = "serve"] ELSE Loop]
    /\ UNCHANGED <<setup, msgs, call, web, udps, ending>>

\* HandleReqCall: handleRequest answers and closes the connection.
HandleReqCall(w) ==
    /\ Alive /\ w \in Workers
    /\ worker[w].at = "serve"
    /\ IF webObj THEN /\ req' = [req EXCEPT ![worker[w].job] = "answered"]
                      /\ worker' = [worker EXCEPT ![w] = Loop]
                      /\ UNCHANGED panicked
       ELSE panicked' = "nilweb" /\ UNCHANGED <<req, worker>>
    /\ UNCHANGED <<setup, msgs, call, webObj, listener, reqChan, reqClosed, parser, udps, main, stopped>>

\* StartParseReq, in the admin's goroutine.
ParserTake ==
    /\ Alive /\ IsAdmin
    /\ parser = None
    /\ reqChan # <<>>
    /\ parser' = Head(reqChan)
    /\ reqChan' = Tail(reqChan)
    /\ UNCHANGED <<setup, msgs, worker, call, webObj, listener, reqClosed, req, udps, ending>>

ParserAnswer ==
    /\ Alive
    /\ parser # None
    /\ req' = [req EXCEPT ![parser] = "answered"]
    /\ parser' = None
    /\ UNCHANGED <<setup, msgs, worker, call, webObj, listener, reqChan, reqClosed, udps, ending>>

(***************************************************************************)
(* The UDP server.                                                         *)
(***************************************************************************)

ListenUdp ==
    /\ Alive
    /\ reader = "bind"
    /\ reader' = "read"
    /\ UNCHANGED <<setup, msgs, worker, call, web, udp, running, data, dataClosed, ending>>

\* A datagram arrives.
ReadUdp ==
    /\ Alive
    /\ reader = "read"
    /\ reader' = "put"
    /\ UNCHANGED <<setup, msgs, worker, call, web, udp, running, data, dataClosed, ending>>

PutUdp ==
    /\ Alive
    /\ reader = "put"
    /\ data < UdpCap
    /\ data' = data + 1
    /\ reader' = "read"
    /\ UNCHANGED <<setup, msgs, worker, call, web, udp, running, dataClosed, ending>>

\* Between two reads the goroutine takes the exit signal of Close ...
UdpExit ==
    /\ Alive
    /\ main = "exit" /\ reader = "read"
    /\ main' = "exitSend"
    /\ reader' = "over"
    /\ UNCHANGED <<setup, msgs, worker, call, web, udp, running, data, dataClosed, stopped, panicked>>

\* ... and closes its channel.
UdpOver ==
    /\ Alive
    /\ reader = "over"
    /\ reader' = "gone"
    /\ dataClosed' = TRUE
    /\ UNCHANGED <<setup, msgs, worker, call, web, udp, running, data, ending>>

\* The sender takes the exit signal too, but its flag is local to the loop's
\* body and it goes on.
UdpExitSend ==
    /\ Alive
    /\ main = "exitSend"
    /\ main' = "stop"
    /\ UNCHANGED <<setup, msgs, worker, call, web, udps, stopped, panicked>>

\* Mutant: a server that is closing takes no datagrams any more.
FaultyTakeUdpRunning(w) ==
    /\ Alive /\ w \in Workers /\ IsGate
    /\ worker[w].at = "select"
    /\ running /\ data > 0
    /\ data' = data - 1
    /\ Go(w, "udp", None)
    /\ UNCHANGED <<setup, msgs, call, web, udp, running, reader, dataClosed, ending>>

\* The gate's worker takes a datagram, or nil from the closed channel.
TakeUdp(w) ==
    /\ Alive /\ w \in Workers /\ IsGate
    /\ worker[w].at = "select"
    /\ data > 0 \/ dataClosed
    /\ data' = IF data > 0 THEN data - 1 ELSE 0
    /\ Go(w, "udp", None)
    /\ UNCHANGED <<setup, msgs, call, web, udp, running, reader, dataClosed, ending>>

\* Its handler returns: what it sends is taken by a goroutine that does nothing
\* else.  When the server is closing there is no handler.
HandleUdp(w) ==
    /\ Alive /\ w \in Workers
    /\ worker[w].at = "udp"
    /\ worker' = [worker EXCEPT ![w] = Loop]
    /\ UNCHANGED <<setup, msgs, call, web, udps, ending>>

(***************************************************************************)
(* The main goroutine.                                                     *)
(***************************************************************************)

\* StartClusterServer after ConnectToMaster: a gate without a UDP server makes
\* one.
MainStart ==
    /\ Alive
    /\ main = "start"
    /\ main' = IF IsGate /\ ~udp THEN "make" ELSE "run"
    /\ UNCHANGED <<setup, msgs, worker, call, web, udps, stopped, panicked>>

MainNewUdp ==
    /\ Alive
    /\ main = "make"
    /\ NewUdpServ
    /\ main' = "run"
    /\ UNCHANGED <<setup, msgs, worker, call, web, stopped>>

\* Mutant: the web interface is closed before the server is stopped.
FaultySignalWebFirst ==
    /\ Alive
    /\ main = "run"
    /\ main' = "close"
    /\ running' = IF IsGate THEN FALSE ELSE running
    /\ UNCHANGED <<setup, msgs, worker, call, web, udp, reader, data, dataClosed, stopped, panicked>>

\* A signal ends WaitSignal; FinnalClose stops the server, if there is one.
Signal ==
    /\ Alive
    /\ main = "run"
    /\ main' = IF ~setup.server THEN "close" ELSE IF IsGate THEN "exit" ELSE "stop"
    /\ running' = IF IsGate THEN FALSE ELSE running
    /\ UNCHANGED <<setup, msgs, worker, call, web, udp, reader, data, dataClosed, stopped, panicked>>

OnServerStop ==
    /\ Alive
    /\ main = "stop"
    /\ stopped' = TRUE
    /\ main' = "close"
    /\ UNCHANGED <<setup, msgs, worker, call, web, udps, panicked>>

\* RawClose: the listener is closed, which panics if it never was opened ...
RawClose ==
    /\ Alive
    /\ main = "close"
    /\ main' = IF webObj THEN "closeChan" ELSE "return"
    /\ listener' = IF listener = "open" THEN "closed" ELSE listener
    /\ panicked' = IF webObj /\ listener = "nil" THEN "listener" ELSE "no"
    /\ UNCHANGED <<setup, msgs, worker, call, webObj, reqChan, reqClosed, req, parser, udps, stopped>>

\* ... then the channel ...
CloseReqChan ==
    /\ Alive
    /\ main = "closeChan"
    /\ reqClosed' = TRUE
    /\ main' = "clear"
    /\ UNCHANGED <<setup, msgs, worker, call, webObj, listener, reqChan, req, parser, udps, stopped, panicked>>

\* ... and FinnalClose sets WebObj to nil.
ClearWebObj ==
    /\ Alive
    /\ main = "clear"
    /\ webObj' = FALSE
    /\ main' = "return"
    /\ UNCHANGED <<setup, msgs, worker, call, listener, reqChan, reqClosed, req, parser, udps, stopped, panicked>>

Return ==
    /\ Alive
    /\ main = "return"
    /\ main' = "exited"
    /\ UNCHANGED <<setup, msgs, worker, call, web, udps, stopped, panicked>>

\* The process is gone.
Terminated == ~Alive /\ UNCHANGED vars

Work(w) ==
    \/ NeedUdp(w) \/ WorkerNewUdp(w) \/ TestWeb(w) \/ GetChans(w)
    \/ Handle(w) \/ TestReq(w) \/ HandleReqCall(w) \/ HandleUdp(w)

Main ==
    \/ MainStart \/ MainNewUdp \/ OnServerStop \/ RawClose \/ CloseReqChan
    \/ ClearWebObj \/ Return \/ UdpExitSend

Next ==
    \/ \E c \in Conns : ReadMsg(c) \/ DeliverToMsgQueue(c) \/ DeliverToNobody(c) \/ DoMsgFromGoRoutine(c)
    \/ \E m \in loose : DoLooseMsg(m)
    \/ \E w \in Queues : TakeMsg(w) \/ TakeReq(w) \/ TakeNilReq(w) \/ TakeUdp(w) \/ Work(w)
    \/ \E w \in Queues, d \in Calls : TakeCall(w, d)
    \/ \E d \in Calls : CallDelayed(d) \/ CallDue(d)
    \/ \E r \in Requests : AcceptReq(r) \/ ReadReq(r) \/ PutReq(r) \/ PutReqPanic(r)
    \/ ParserTake \/ ParserAnswer
    \/ ListenUdp \/ ReadUdp \/ PutUdp \/ UdpExit \/ UdpOver
    \/ Main \/ Signal
    \/ Terminated

Spec == Init /\ [][Next]_vars

\* Goroutines run.  Strong fairness where a worker or the UDP reader chooses:
\* select takes one of its ready cases at random.  Nothing is assumed of
\* clients, of what the application calls, or of signals.
Fairness ==
    /\ \A c \in Conns : WF_vars(DeliverToMsgQueue(c)) /\ WF_vars(DoMsgFromGoRoutine(c))
    /\ WF_vars(\E m \in loose : DoLooseMsg(m))
    /\ \A w \in Queues : SF_vars(TakeMsg(w)) /\ WF_vars(Work(w))
    /\ SF_vars(TakeReq(0)) /\ SF_vars(TakeUdp(0))
    /\ \A d \in Calls : SF_vars(\E w \in Queues : TakeCall(w, d))
    /\ \A r \in Requests : WF_vars(PutReq(r))
    /\ WF_vars(ParserTake) /\ WF_vars(ParserAnswer)
    /\ WF_vars(ListenUdp) /\ WF_vars(PutUdp) /\ SF_vars(UdpExit)
    /\ WF_vars(Main)

FairSpec == Spec /\ Fairness

(***************************************************************************)
(* Properties.                                                             *)
(***************************************************************************)

\* "consistent routing": with the pool, the messages of a connection are handled
\* one after the other in the order in which they were read (msghandle.go 32).
InOrder ==
    setup.pool => /\ \A c \in Conns : \A i \in DOMAIN handled[c] : handled[c][i] = i
                  /\ \A v, w \in Workers :
                        worker[v].at = "msg" /\ worker[w].at = "msg" /\ v # w
                           => worker[v].job[1] # worker[w].job[1]

\* The web interface can make a process panic while it stops, but not before the
\* application was told by OnServerStop, if the process has a server.
ToldFirst == setup.server /\ panicked \in {"nilweb", "closed", "listener"} => stopped

\* A message that was read and not yet handled.
Pending == \E c \in Conns : Len(handled[c]) < nread[c]

\* A full HTTP request that has no answer yet.
Asking == \E r \in Requests : req[r] \in {"send", "queued"}

\* As long as the process does not stop, all that was read is handled, a delayed
\* call that is due is made and all full HTTP requests to a gate or an admin
\* process are answered: neither a full queue nor what else the workers have to
\* do keeps any of them out (the workers' select, CallLater, CallLoop, Web.Start,
\* StartParseReq).
Served ==
    /\ (Pending /\ ~IsAdmin) ~> (~Pending \/ ~Serving)
    /\ \A d \in Calls : call[d] = "send" ~> (call[d] # "send" \/ ~Serving)
    /\ Asking ~> (~Asking \/ ~Serving)

\* A process with a server that gets the signal to stop tells the application:
\* UdpServ.Close gets its two signals through although the reader may be waiting
\* for room in dataChan.
StopReached == main = "exit" ~> (stopped \/ panicked # "no")
=============================================================================
