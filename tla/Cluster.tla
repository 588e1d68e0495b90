------------------------------- MODULE Cluster -------------------------------
(***************************************************************************)
(* How the nodes of a xingo cluster find each other                        *)
(* (viphxin/xingo/clusterserver, sys_rpc, cluster/child.go,                *)
(* fnet/tcpclient.go).                                                     *)
(*                                                                         *)
(* A node registers with the master (TakeProxy), is told which of the      *)
(* parents ("roots") it is configured with are online, and connects to     *)
(* them.  The master tells the children of a node that registers to        *)
(* connect to it (RootTakeProxy).  A child announces itself to a root      *)
(* (TakeProxy again), which enters it in ChildsMgr.  Two goroutines of a   *)
(* node run ConnectToRemote: the main one, for the roots of the master's   *)
(* answer, and the RPC worker, for notifications.  Lost connections are    *)
(* reported by callbacks that clear the entries by NAME, not by            *)
(* connection.                                                             *)
(*                                                                         *)
(* The RPC layer below is XingoRpc: requests of one connection arrive in   *)
(* order and are handled by one worker; requests on a dead connection are  *)
(* lost.                                                                   *)
(***************************************************************************)
EXTENDS Integers, Sequences, FiniteSets

CONSTANTS Nodes,        \* server names of the configuration, master excluded
          Remotes,      \* ClusterConf: the parents of each node
          Links,        \* bound: identities of child-to-root connections
          Slots,        \* bound: identities of one node's master connections
          MaxStarts,    \* bound: processes started, restarts included
          MaxCrashes,   \* bound: processes that fail by themselves
          MaxDrops,     \* bound: connections that break by themselves
          MaxMasterCrashes, \* bound: failures of the master
          Calm,         \* failures happen only when the cluster is quiet,
                        \* restarts only once every peer has noticed them, and
                        \* a node listens before it registers
          None

ASSUME ClusterAssumption ==
    /\ IsFiniteSet(Nodes) /\ IsFiniteSet(Links) /\ IsFiniteSet(Slots)
    /\ Remotes \in [Nodes -> SUBSET Nodes]
    /\ \A n \in Nodes : n \notin Remotes[n]
    /\ None \notin Nodes \cup Links \cup Slots \cup (Nodes \X Slots)
    /\ MaxStarts \in Nat /\ MaxCrashes \in Nat /\ MaxDrops \in Nat /\ MaxMasterCrashes \in Nat
    /\ Calm \in BOOLEAN

Threads == {"main", "rpc"}

VARIABLES
    \* the master
    mup,       \* the master's process runs
    online,    \* Master.OnlineNodes
    childs,    \* Master.Childs: the master connection a name is bound to
    mprop,     \* master connections <<n, s>> with the property "child"
    mq,        \* TakeProxy requests in the master's task queue
    mtask,     \* TakeProxy that has done AddNode but not answered
    mconn,     \* state of each node's master connections
    \* the nodes
    life,      \* a node's process runs
    listening, \* nodes whose accept goroutine listens
    pc,        \* where a node is in ConnectToMaster or ReConnectMasterCB
    todo,      \* roots of the master's answer still to connect to
    notes,     \* RootTakeProxy requests in a node's task queue
    thr,       \* the two goroutines that run ConnectToRemote
    remotes,   \* ClusterServer.RemoteNodesMgr: link bound to a root's name
    kids,      \* ClusterServer.ChildsMgr: link bound to a child's name
    rq,        \* TakeProxy requests in a root's task queue
    \* the links
    link,      \* ends and state of each child-to-root connection
    rprop,     \* links whose TcpClient has the property "remote"
    cprop,     \* links whose Connection has the property "child"
    \* history and bounds
    panicked,  \* nodes whose process a panic has ended
    starts, crashes, drops, mcrashes

master == <<mup, online, childs, mprop, mq, mtask>>
node   == <<pc, todo, notes, thr, remotes, kids, rq>>
links  == <<link, rprop, cprop>>
bounds == <<starts, crashes, drops, mcrashes>>
vars   == <<master, mconn, life, listening, node, links, panicked, bounds>>

Idle   == [at |-> "idle", root |-> None, link |-> None]
Unused == [from |-> None, to |-> None, up |-> FALSE, cli |-> FALSE, srv |-> FALSE]

Init ==
    /\ mup = TRUE
    /\ online = {}
    /\ childs = [n \in Nodes |-> None]
    /\ mprop = {}
    /\ mq = <<>>
    /\ mtask = None
    /\ mconn = [n \in Nodes |-> [s \in Slots |-> "unused"]]
    /\ life = [n \in Nodes |-> FALSE]
    /\ listening = {}
    /\ pc = [n \in Nodes |-> "off"]
    /\ todo = [n \in Nodes |-> {}]
    /\ notes = [n \in Nodes |-> <<>>]
    /\ thr = [n \in Nodes |-> [t \in Threads |-> Idle]]
    /\ remotes = [n \in Nodes |-> [r \in Nodes |-> None]]
    /\ kids = [n \in Nodes |-> [c \in Nodes |-> None]]
    /\ rq = [n \in Nodes |-> <<>>]
    /\ link = [l \in Links |-> Unused]
    /\ rprop = {}
    /\ cprop = {}
    /\ panicked = {}
    /\ starts = 0
    /\ crashes = 0
    /\ drops = 0
    /\ mcrashes = 0

(***************************************************************************)
(* What is still under way.                                                *)
(***************************************************************************)

\* A broken connection that one of its ends has yet to notice.
LossPending ==
    \/ \E l \in Links : ~link[l].up /\ (link[l].cli \/ link[l].srv)
    \/ \E n \in Nodes, s \in Slots : mconn[n][s] \in {"broken", "cut"}

\* Nothing is under way anywhere.
Quiet ==
    /\ mq = <<>> /\ mtask = None
    /\ \A n \in Nodes : /\ pc[n] \in {"off", "ready"}
                        /\ life[n] => n \in listening
                        /\ todo[n] = {} /\ notes[n] = <<>> /\ rq[n] = <<>>
                        /\ \A t \in Threads : thr[n][t] = Idle
    /\ ~LossPending

\* An identity nothing refers to any more.
FreeLinks ==
    {l \in Links :
        /\ ~link[l].up /\ ~link[l].cli /\ ~link[l].srv
        /\ \A n, r \in Nodes : remotes[n][r] # l /\ kids[n][r] # l
        /\ \A n \in Nodes, t \in Threads : thr[n][t].link # l
        /\ \A n \in Nodes : \A i \in DOMAIN rq[n] : rq[n][i][2] # l}

FreeSlots(n) ==
    {s \in Slots : /\ mconn[n][s] \in {"unused", "closed"}
                   /\ childs[n] # s
                   /\ \A i \in DOMAIN mq : mq[i] # <<n, s>>
                   /\ mtask # <<n, s>>}

(***************************************************************************)
(* A node registers with the master.                                       *)
(***************************************************************************)

\* Mutant: the master counts a node online as soon as it is connected.
FaultyRegisterOnline(n) ==
    LET s == CHOOSE x \in FreeSlots(n) : TRUE IN
    /\ mup
    /\ FreeSlots(n) # {}
    /\ mq' = Append(mq, <<n, s>>)
    /\ online' = online \cup {n}
    /\ mprop' = mprop \ {<<n, s>>}
    /\ mconn' = [mconn EXCEPT ![n][s] = "open"]
    /\ UNCHANGED <<mup, childs, mtask>>

\* A TakeProxy request on a new connection reaches the master's task queue.
Register(n) ==
    LET s == CHOOSE x \in FreeSlots(n) : TRUE IN
    /\ mup
    /\ FreeSlots(n) # {}
    /\ mq' = Append(mq, <<n, s>>)
    /\ mprop' = mprop \ {<<n, s>>}
    /\ mconn' = [mconn EXCEPT ![n] =
                    [x \in Slots |-> IF x = s THEN "open"
                                     ELSE IF mconn[n][x] = "cut" THEN "closed"
                                     ELSE mconn[n][x]]]
    /\ UNCHANGED <<mup, online, childs, mtask>>

\* The process starts: Server.Start leaves listening to a goroutine, and the
\* main one runs ConnectToMaster up to its wait for the answer.
Start(n) ==
    /\ ~life[n]
    /\ starts < MaxStarts
    /\ Calm => ~LossPending
    /\ Register(n)
    /\ starts' = starts + 1
    /\ life' = [life EXCEPT ![n] = TRUE]
    /\ listening' = IF Calm THEN listening \cup {n} ELSE listening
    /\ pc' = [pc EXCEPT ![n] = "await"]
    /\ UNCHANGED <<todo, notes, thr, remotes, kids, rq, links, panicked,
                   crashes, drops, mcrashes>>

\* The goroutine of Server.Start reaches ListenTCP.
Listen(n) ==
    /\ life[n]
    /\ n \notin listening
    /\ listening' = listening \cup {n}
    /\ UNCHANGED <<master, mconn, life, node, links, panicked, bounds>>

\* TcpClient.Stop on the master connection: dial again, start the read
\* thread, and call ReConnectMasterCB, which registers again.
ReConnectMaster(n) ==
    /\ life[n]
    /\ pc[n] \in {"await", "ready", "again"}
    /\ \E s \in Slots : mconn[n][s] = "cut"
    /\ Register(n)
    /\ pc' = [pc EXCEPT ![n] = "again"]
    /\ UNCHANGED <<life, listening, todo, notes, thr, remotes, kids, rq, links, panicked, bounds>>

(***************************************************************************)
(* The master handles TakeProxy and lost connections.                      *)
(***************************************************************************)

\* MasterRpc.TakeProxy: AddNode, under the master's lock.
AddNode ==
    /\ mup
    /\ mtask = None
    /\ mq # <<>>
    /\ LET n == Head(mq)[1]
           s == Head(mq)[2]
       IN  /\ childs' = [childs EXCEPT ![n] = s]
           /\ mprop' = mprop \cup {<<n, s>>}
           /\ online' = online \cup {n}
           /\ mtask' = <<n, s>>
    /\ mq' = Tail(mq)
    /\ UNCHANGED <<mup, mconn, life, listening, node, links, panicked, bounds>>

\* Mutant: the children of a node that registers are not notified.
FaultyTakeProxySilent ==
    /\ mup
    /\ mtask # None
    /\ LET n == mtask[1]
       IN  /\ todo' = [todo EXCEPT ![n] = Remotes[n] \cap online]
           /\ pc' = [pc EXCEPT ![n] = "ready"]
    /\ mtask' = None
    /\ UNCHANGED <<mup, online, childs, mprop, mq, mconn, life, listening, notes, thr,
                   remotes, kids, rq, links, panicked, bounds>>

\* MasterRpc.TakeProxy, the rest: answer with the parents that are online,
\* notify the registered children of the node.  Requests on a connection that
\* is gone are lost.
TakeProxy ==
    /\ mup
    /\ mtask # None
    /\ LET n == mtask[1]
           s == mtask[2]
           roots == Remotes[n] \cap online
           told == {c \in Nodes : /\ childs[c] # None
                                  /\ n \in Remotes[c]
                                  /\ mconn[c][childs[c]] = "open"}
       IN  /\ CASE mconn[n][s] = "open" /\ pc[n] = "await" ->
                     /\ todo' = [todo EXCEPT ![n] = roots]
                     /\ pc' = [pc EXCEPT ![n] = "ready"]
                [] mconn[n][s] = "open" /\ pc[n] # "await" ->
                     /\ pc' = [pc EXCEPT ![n] = "answered"]
                     /\ UNCHANGED todo
                [] OTHER -> UNCHANGED <<todo, pc>>
           /\ notes' = [c \in Nodes |-> IF c \in told THEN Append(notes[c], n) ELSE notes[c]]
    /\ mtask' = None
    /\ UNCHANGED <<mup, online, childs, mprop, mq, mconn, life, listening, thr, remotes, kids, rq,
                   links, panicked, bounds>>

\* DoConnectionLost: the name bound to the connection is removed, whatever
\* connection the name is bound to by now.
MasterLost(n, s) ==
    /\ mup
    /\ mconn[n][s] = "broken"
    /\ mconn' = [mconn EXCEPT ![n][s] = "closed"]
    /\ IF <<n, s>> \in mprop
       THEN /\ childs' = [childs EXCEPT ![n] = None]
            /\ online' = online \ {n}
       ELSE UNCHANGED <<childs, online>>
    /\ UNCHANGED <<mup, mprop, mq, mtask, life, listening, node, links, panicked, bounds>>

(***************************************************************************)
(* The end of a process: by itself, or by a panic.                         *)
(***************************************************************************)

\* A task queue when the requests of one sender are lost.
Without(q, n) ==
    IF \E i \in DOMAIN q : q[i][1] = n THEN SelectSeq(q, LAMBDA m : m[1] # n) ELSE q

\* Everything the process held is gone; its connections break, and the
\* requests it sent may be lost with them.
Die(n) ==
    /\ life' = [life EXCEPT ![n] = FALSE]
    /\ listening' = listening \ {n}
    /\ pc' = [pc EXCEPT ![n] = "off"]
    /\ todo' = [todo EXCEPT ![n] = {}]
    /\ notes' = [notes EXCEPT ![n] = <<>>]
    /\ thr' = [thr EXCEPT ![n] = [t \in Threads |-> Idle]]
    /\ remotes' = [remotes EXCEPT ![n] = [r \in Nodes |-> None]]
    /\ kids' = [kids EXCEPT ![n] = [c \in Nodes |-> None]]
    /\ \E lost \in BOOLEAN :
          /\ mq' = IF lost THEN Without(mq, n) ELSE mq
          /\ rq' = [r \in Nodes |-> IF r = n THEN <<>>
                                   ELSE IF lost THEN Without(rq[r], n) ELSE rq[r]]
    /\ link' = [l \in Links |->
                  IF n \notin {link[l].from, link[l].to} THEN link[l]
                  ELSE [link[l] EXCEPT !.up = FALSE,
                                       !.cli = @ /\ link[l].from # n,
                                       !.srv = @ /\ link[l].to # n]]
    /\ mconn' = [mconn EXCEPT ![n] =
                    [s \in Slots |-> CASE mconn[n][s] = "open" -> "broken"
                                       [] mconn[n][s] = "cut" -> "closed"
                                       [] OTHER -> mconn[n][s]]]
    /\ UNCHANGED <<mup, online, childs, mprop, mtask, rprop, cprop>>

Crash(n) ==
    /\ life[n]
    /\ crashes < MaxCrashes
    /\ Calm => Quiet
    /\ Die(n)
    /\ crashes' = crashes + 1
    /\ UNCHANGED <<panicked, starts, drops, mcrashes>>

Panic(n) ==
    /\ Die(n)
    /\ panicked' = panicked \cup {n}
    /\ UNCHANGED bounds

\* ConnectToMaster panics when the answer does not come in time.  A master
\* that is reachable is assumed to answer within the five seconds.
TakeProxyTimeout(n) ==
    /\ life[n]
    /\ pc[n] \in {"await", "again"}
    /\ \E s \in Slots : mconn[n][s] = "cut"
    /\ Panic(n)

\* ReConnectMasterCB asserts that the answer's roots are a []interface{};
\* the master sends a []string.
ReConnectPanic(n) ==
    /\ life[n]
    /\ pc[n] = "answered"
    /\ Panic(n)

(***************************************************************************)
(* ConnectToRemote, in either goroutine.                                   *)
(***************************************************************************)

\* The test for an existing entry; without one, go on to dial.
CheckRemote(n, t, r) ==
    thr' = [thr EXCEPT ![n][t] =
              IF remotes[n][r] # None THEN Idle
              ELSE [at |-> "dial", root |-> r, link |-> None]]

\* ConnectToMaster takes the next root of the answer.
NextRoot(n) ==
    /\ thr[n]["main"] = Idle
    /\ \E r \in todo[n] :
          /\ CheckRemote(n, "main", r)
          /\ todo' = [todo EXCEPT ![n] = @ \ {r}]
    /\ UNCHANGED <<master, mconn, life, listening, pc, notes, remotes, kids, rq, links, panicked, bounds>>

\* The RPC worker takes the next RootTakeProxy.
RootTakeProxy(n) ==
    /\ thr[n]["rpc"] = Idle
    /\ notes[n] # <<>>
    /\ CheckRemote(n, "rpc", Head(notes[n]))
    /\ notes' = [notes EXCEPT ![n] = Tail(@)]
    /\ UNCHANGED <<master, mconn, life, listening, pc, todo, remotes, kids, rq, links, panicked, bounds>>

\* NewTcpClient, AddChild and Start: connect, enter the link, read from it.
Dial(n, t) ==
    LET r == thr[n][t].root
        l == CHOOSE x \in FreeLinks : TRUE
    IN  /\ thr[n][t].at = "dial"
        /\ r \in listening
        /\ FreeLinks # {}
        /\ link' = [link EXCEPT ![l] = [from |-> n, to |-> r, up |-> TRUE,
                                        cli |-> TRUE, srv |-> TRUE]]
        /\ rprop' = rprop \ {l}
        /\ cprop' = cprop \ {l}
        /\ remotes' = [remotes EXCEPT ![n][r] = l]
        /\ thr' = [thr EXCEPT ![n][t] = [at |-> "mark", root |-> r, link |-> l]]
        /\ UNCHANGED <<master, mconn, life, listening, pc, todo, notes, kids, rq, panicked, bounds>>

\* Mutant: dial again and again.
FaultyDialRetries(n, t) ==
    /\ thr[n][t].at = "dial"
    /\ thr[n][t].root \notin listening
    /\ UNCHANGED vars

\* NewTcpClient panics when nobody listens.
DialPanic(n, t) ==
    /\ thr[n][t].at = "dial"
    /\ thr[n][t].root \notin listening
    /\ Panic(n)

\* SetProperty("remote", rname).
MarkRemote(n, t) ==
    /\ thr[n][t].at = "mark"
    /\ rprop' = rprop \cup {thr[n][t].link}
    /\ thr' = [thr EXCEPT ![n][t].at = "announce"]
    /\ UNCHANGED <<master, mconn, life, listening, pc, todo, notes, remotes, kids, rq, link, cprop,
                   panicked, bounds>>

\* Mutant: the child does not announce itself.
FaultyAnnounceSilent(n, t) ==
    /\ thr[n][t].at = "announce"
    /\ thr' = [thr EXCEPT ![n][t] = Idle]
    /\ UNCHANGED <<master, mconn, life, listening, pc, todo, notes, remotes, kids, rq, links,
                   panicked, bounds>>

\* GetChild and the cast of TakeProxy over whatever link is entered now.
Announce(n, t) ==
    LET r == thr[n][t].root
        l == remotes[n][r]
    IN  /\ thr[n][t].at = "announce"
        /\ rq' = IF l # None /\ link[l].up
                 THEN [rq EXCEPT ![r] = Append(@, <<n, l>>)] ELSE rq
        /\ thr' = [thr EXCEPT ![n][t] = Idle]
        /\ UNCHANGED <<master, mconn, life, listening, pc, todo, notes, remotes, kids, links,
                       panicked, bounds>>

\* RootRpc.TakeProxy on the root: AddChild, under the server's lock.
AddChild(r) ==
    /\ rq[r] # <<>>
    /\ LET c == Head(rq[r])[1]
           l == Head(rq[r])[2]
       IN  /\ kids' = [kids EXCEPT ![r][c] = l]
           /\ cprop' = cprop \cup {l}
    /\ rq' = [rq EXCEPT ![r] = Tail(@)]
    /\ UNCHANGED <<master, mconn, life, listening, pc, todo, notes, thr, remotes, link, rprop,
                   panicked, bounds>>

(***************************************************************************)
(* Lost links.                                                             *)
(***************************************************************************)

\* The child's read thread meets the error; the link has no retries, so
\* TcpClient.Stop calls DoCCConnectionLost.
RemoteLost(l) ==
    LET n == link[l].from
        r == link[l].to
    IN  /\ ~link[l].up /\ link[l].cli
        /\ link' = [link EXCEPT ![l].cli = FALSE]
        /\ remotes' = IF l \in rprop THEN [remotes EXCEPT ![n][r] = None] ELSE remotes
        /\ UNCHANGED <<master, mconn, life, listening, pc, todo, notes, thr, kids, rq, rprop, cprop,
                       panicked, bounds>>

\* The root's read thread meets the error: Connection.Stop runs
\* DoCSConnectionLost in a goroutine.
ChildLost(l) ==
    LET n == link[l].from
        r == link[l].to
    IN  /\ ~link[l].up /\ link[l].srv
        /\ link' = [link EXCEPT ![l].srv = FALSE]
        /\ kids' = IF l \in cprop THEN [kids EXCEPT ![r][n] = None] ELSE kids
        /\ UNCHANGED <<master, mconn, life, listening, pc, todo, notes, thr, remotes, rq, rprop, cprop,
                       panicked, bounds>>

\* A link breaks between two processes that go on; requests in flight may be
\* lost with it.
Drop(l) ==
    /\ link[l].up
    /\ drops < MaxDrops
    /\ Calm => Quiet
    /\ link' = [link EXCEPT ![l].up = FALSE]
    /\ \/ UNCHANGED rq
       \/ rq' = [rq EXCEPT ![link[l].to] = SelectSeq(@, LAMBDA m : m[2] # l)]
    /\ drops' = drops + 1
    /\ UNCHANGED <<master, mconn, life, listening, pc, todo, notes, thr, remotes, kids, rprop, cprop,
                   panicked, starts, crashes, mcrashes>>

(***************************************************************************)
(* The master fails and is started again.                                  *)
(***************************************************************************)

MasterCrash ==
    /\ mup
    /\ mcrashes < MaxMasterCrashes
    /\ Calm => Quiet
    /\ mup' = FALSE
    /\ online' = {}
    /\ childs' = [n \in Nodes |-> None]
    /\ mprop' = {}
    /\ mq' = <<>>
    /\ mtask' = None
    /\ mconn' = [n \in Nodes |->
                    [s \in Slots |-> CASE mconn[n][s] = "open" -> "cut"
                                       [] mconn[n][s] = "broken" -> "closed"
                                       [] OTHER -> mconn[n][s]]]
    /\ \E lost \in SUBSET Nodes :
          notes' = [n \in Nodes |-> IF n \in lost THEN <<>> ELSE notes[n]]
    /\ mcrashes' = mcrashes + 1
    /\ UNCHANGED <<life, listening, pc, todo, thr, remotes, kids, rq, links, panicked,
                   starts, crashes, drops>>

MasterStart ==
    /\ ~mup
    /\ mup' = TRUE
    /\ UNCHANGED <<online, childs, mprop, mq, mtask, mconn, life, listening, node, links, panicked, bounds>>

\* A quiet cluster may stay as it is.
Rest == Quiet /\ UNCHANGED vars

NodeStep(n) ==
    \/ Listen(n)
    \/ ReConnectMaster(n)
    \/ TakeProxyTimeout(n)
    \/ ReConnectPanic(n)
    \/ NextRoot(n)
    \/ RootTakeProxy(n)
    \/ AddChild(n)
    \/ \E t \in Threads : \/ Dial(n, t) \/ DialPanic(n, t)
                          \/ MarkRemote(n, t) \/ Announce(n, t)

Next ==
    \/ \E n \in Nodes : Start(n) \/ Crash(n) \/ NodeStep(n)
    \/ AddNode
    \/ TakeProxy
    \/ \E n \in Nodes, s \in Slots : MasterLost(n, s)
    \/ \E l \in Links : RemoteLost(l) \/ ChildLost(l) \/ Drop(l)
    \/ MasterCrash
    \/ MasterStart
    \/ Rest

Spec == Init /\ [][Next]_vars

(***************************************************************************)
(* Goroutines that can run do run, broken connections are noticed, the     *)
(* redial loop of the master connection and the timeout of TakeProxy make  *)
(* progress; nothing is assumed of starts and failures.                    *)
(***************************************************************************)
Fairness ==
    /\ \A n \in Nodes : /\ WF_vars(Listen(n)) /\ WF_vars(NextRoot(n)) /\ WF_vars(RootTakeProxy(n)) /\ WF_vars(AddChild(n))
                        /\ WF_vars(ReConnectMaster(n)) /\ WF_vars(ReConnectPanic(n))
                        /\ WF_vars(TakeProxyTimeout(n))
    /\ \A n \in Nodes, t \in Threads :
          WF_vars(Dial(n, t) \/ DialPanic(n, t) \/ MarkRemote(n, t) \/ Announce(n, t))
    /\ WF_vars(AddNode \/ TakeProxy)
    /\ \A n \in Nodes, s \in Slots : WF_vars(MasterLost(n, s))
    /\ \A l \in Links : WF_vars(RemoteLost(l)) /\ WF_vars(ChildLost(l))

FairSpec == Spec /\ Fairness

(***************************************************************************)
(* Properties.                                                             *)
(***************************************************************************)

\* A child and a root that are linked both know it, over the same link.
Linked(n, r) ==
    \E l \in Links : remotes[n][r] = l /\ kids[r][n] = l /\ link[l].up

\* No node dies of a panic: the roots it is told to connect to are there when
\* ConnectToRemote dials, and the master's answer comes.  And once nothing is
\* under way, the master lists exactly the nodes that run, and every running
\* node is linked with each of its running parents, whichever registered first
\* and whoever was restarted (MasterRpc.TakeProxy, RootTakeProxy,
\* ConnectToRemote, the loss callbacks).
Discovered ==
    /\ panicked = {}
    /\ Quiet /\ mup => /\ online = {n \in Nodes : life[n]}
                       /\ \A n \in Nodes : \A r \in Remotes[n] :
                             life[n] /\ life[r] => Linked(n, r)

\* No manager offers a connection that is gone once nothing is under way
\* (GetRemote, GetChild): the loss callbacks removed it.
NoGhost ==
    Quiet => \A n, r \in Nodes : /\ remotes[n][r] # None => link[remotes[n][r]].up
                                 /\ kids[n][r] # None => link[kids[n][r]].up

\* A child and a root never have two connections, although the main goroutine
\* and the RPC worker both run ConnectToRemote, which tests for an entry long
\* before it makes one, and although entries are cleared by name; and the
\* managers forget the connections that are gone.
OneLiveLink ==
    /\ NoGhost
    /\ \A l, m \in Links :
          link[l].up /\ link[m].up /\ link[l].from = link[m].from /\ link[l].to = link[m].to
              => l = m

\* When all nodes run, they become linked as configured, unless one stops.
LinksUp ==
    (\A n \in Nodes : life[n]) ~>
        \/ \A n \in Nodes : \A r \in Remotes[n] : Linked(n, r)
        \/ \E n \in Nodes : ~life[n]

\* Whatever fails and whenever, all the activity this causes comes to an end -
\* no goroutine waits forever, no notification or loss goes unhandled - unless
\* the master stays away (the master's worker, the two users of
\* ConnectToRemote, the loss callbacks, ReConnection).
Settles == <>[]~mup \/ <>[]Quiet

\* "handles the case that the master was lost and notifies again"
\* (ConnectToRemote): the nodes get over a restart of the master.
SurvivesMasterRestart == panicked = {}

\* "return the parent nodes to connect to ... parent node online"
\* (MasterRpc.TakeProxy): when nothing is under way the master knows which
\* nodes run.
RegistryAccurate == Quiet /\ mup => online = {n \in Nodes : life[n]}
=============================================================================
