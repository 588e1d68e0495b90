---------------------------- MODULE ClusterProofs ----------------------------
(***************************************************************************)
(* Machine-checked proofs about Cluster: while processes fail only when    *)
(* the cluster is quiet, and neither connections nor the master fail by    *)
(* themselves, every pair of configured nodes that runs gets linked, once. *)
(***************************************************************************)
EXTENDS Cluster, TLAPS

\* The failures the theorems allow, as the run cluster_calm does: processes of
\* nodes fail while nothing is under way; connections break only with them,
\* and the master stays.
Steady == Calm = TRUE /\ MaxDrops = 0 /\ MaxMasterCrashes = 0

(***************************************************************************)
(* Queues.                                                                 *)
(***************************************************************************)

Items(q) == {q[i] : i \in 1..Len(q)}

Once(q) == \A i, j \in 1..Len(q) : q[i] = q[j] => i = j

OncePerName(q) == \A i, j \in 1..Len(q) : q[i][1] = q[j][1] => i = j

LEMMA ItemsEmpty == Items(<<>>) = {} /\ Once(<<>>) /\ OncePerName(<<>>)
  BY DEF Items, Once, OncePerName

LEMMA ItemsSome == ASSUME NEW S, NEW q \in Seq(S), q # <<>>
                   PROVE  Items(q) # {} /\ Items(q) \subseteq S
  <1>1. 1 \in 1..Len(q) /\ q[1] \in Items(q) BY DEF Items
  <1>2. Items(q) \subseteq S BY DEF Items
  <1> QED BY <1>1, <1>2

\* A request that is appended is one more item.
LEMMA AppendItems ==
    ASSUME NEW S, NEW q \in Seq(S), NEW x \in S
    PROVE  /\ Append(q, x) \in Seq(S)
           /\ Items(Append(q, x)) = Items(q) \cup {x}
           /\ Once(q) /\ x \notin Items(q) => Once(Append(q, x))
           /\ OncePerName(q) /\ (\A m \in Items(q) : m[1] # x[1]) => OncePerName(Append(q, x))
  <1> DEFINE p == Append(q, x)
  <1>1. /\ p \in Seq(S) /\ Len(p) = Len(q) + 1 /\ Len(q) \in Nat
        /\ p[Len(q) + 1] = x
        /\ \A i \in 1..Len(q) : p[i] = q[i]
    OBVIOUS
  <1> HIDE DEF p
  <1>2. Items(p) = Items(q) \cup {x} BY <1>1 DEF Items
  <1>3. Once(q) /\ x \notin Items(q) => Once(p) BY <1>1 DEF Items, Once
  <1>4. OncePerName(q) /\ (\A m \in Items(q) : m[1] # x[1]) => OncePerName(p)
    BY <1>1 DEF Items, OncePerName
  <1> QED BY <1>1, <1>2, <1>3, <1>4 DEF p

\* The request that is taken is gone, if it was there once.
LEMMA TailItems ==
    ASSUME NEW S, NEW q \in Seq(S), q # <<>>
    PROVE  /\ Tail(q) \in Seq(S) /\ Head(q) \in S
           /\ Items(q) = Items(Tail(q)) \cup {Head(q)}
           /\ Once(q) => Head(q) \notin Items(Tail(q)) /\ Once(Tail(q))
           /\ OncePerName(q) => /\ \A m \in Items(Tail(q)) : m[1] # Head(q)[1]
                                /\ OncePerName(Tail(q))
  <1> DEFINE p == Tail(q)
             h == Head(q)
  <1>1. /\ p \in Seq(S) /\ Len(p) = Len(q) - 1 /\ Len(q) \in Nat \ {0} /\ Len(p) \in Nat
        /\ h = q[1] /\ h \in S
        /\ \A i \in 1..Len(p) : p[i] = q[i + 1]
    OBVIOUS
  <1> HIDE DEF p, h
  <1>2. \A i \in 1..Len(q) : i = 1 \/ i - 1 \in 1..Len(p) BY <1>1
  <1>3. \A i \in 1..Len(p) : i + 1 \in 1..Len(q) /\ i + 1 # 1 BY <1>1
  <1>4. 1 \in 1..Len(q) BY <1>1
  <1>5. Items(q) \subseteq Items(p) \cup {h}
    <2> SUFFICES ASSUME NEW i \in 1..Len(q) PROVE q[i] \in Items(p) \cup {h} BY DEF Items
    <2>1. i = 1 \/ (i - 1 \in 1..Len(p) /\ p[i - 1] = q[(i - 1) + 1] /\ (i - 1) + 1 = i)
      BY <1>1, <1>2
    <2> QED BY <2>1, <1>1 DEF Items
  <1>6. Items(p) \cup {h} \subseteq Items(q) BY <1>1, <1>3, <1>4 DEF Items
  <1>7. ASSUME Once(q) PROVE h \notin Items(p) /\ Once(p)
    <2>1. \A i, j \in 1..Len(p) : q[i + 1] = q[j + 1] => i = j BY <1>1, <1>3, <1>7 DEF Once
    <2>2. \A i \in 1..Len(p) : q[i + 1] # q[1] BY <1>1, <1>3, <1>4, <1>7 DEF Once
    <2> QED BY <2>1, <2>2, <1>1 DEF Once, Items
  <1>8. ASSUME OncePerName(q) PROVE (\A m \in Items(p) : m[1] # h[1]) /\ OncePerName(p)
    <2>1. \A i, j \in 1..Len(p) : q[i + 1][1] = q[j + 1][1] => i = j
      BY <1>1, <1>3, <1>8 DEF OncePerName
    <2>2. \A i \in 1..Len(p) : q[i + 1][1] # q[1][1] BY <1>1, <1>3, <1>4, <1>8 DEF OncePerName
    <2> QED BY <2>1, <2>2, <1>1, SMTT(30) DEF OncePerName, Items
  <1> QED BY <1>1, <1>5, <1>6, <1>7, <1>8 DEF p, h

\* Losing the requests of a sender changes nothing when there are none.
LEMMA WithoutEmpty == ASSUME NEW n PROVE Without(<<>>, n) = <<>>
  BY DEF Without

(***************************************************************************)
(* The inductive invariant.  Discovered speaks only of quiet states, so it *)
(* says nothing of how a pair gets linked; the invariant says where the    *)
(* work for a pair is at every moment (PlaceInv): in exactly one of six    *)
(* places while both nodes are ready, and nowhere otherwise, except for    *)
(* the root's entry of a child that has died.                              *)
(***************************************************************************)

\* A goroutine in ConnectToRemote has a link once it has dialled.
ThreadStates ==
    {Idle} \cup [at : {"dial"}, root : Nodes, link : {None}]
           \cup [at : {"mark", "announce"}, root : Nodes, link : Links]

LinkStates == [from : Nodes \cup {None}, to : Nodes \cup {None},
               up : BOOLEAN, cli : BOOLEAN, srv : BOOLEAN]

ClusterTypeOK ==
    /\ online \in SUBSET Nodes
    /\ childs \in [Nodes -> Slots \cup {None}]
    /\ mprop \in SUBSET (Nodes \X Slots)
    /\ mq \in Seq(Nodes \X Slots)
    /\ mtask \in (Nodes \X Slots) \cup {None}
    /\ mconn \in [Nodes -> [Slots -> {"unused", "open", "broken", "closed"}]]
    /\ life \in [Nodes -> BOOLEAN]
    /\ listening \in SUBSET Nodes
    /\ pc \in [Nodes -> {"off", "await", "ready"}]
    /\ todo \in [Nodes -> SUBSET Nodes]
    /\ notes \in [Nodes -> Seq(Nodes)]
    /\ thr \in [Nodes -> [Threads -> ThreadStates]]
    /\ remotes \in [Nodes -> [Nodes -> Links \cup {None}]]
    /\ kids \in [Nodes -> [Nodes -> Links \cup {None}]]
    /\ rq \in [Nodes -> Seq(Nodes \X Links)]
    /\ link \in [Links -> LinkStates]
    /\ rprop \in SUBSET Links
    /\ cprop \in SUBSET Links
    /\ drops \in Nat
    /\ mcrashes \in Nat

\* The master stays, nothing panics, and a node that runs listens and is
\* somewhere in ConnectToMaster.
LifeInv ==
    /\ mup
    /\ panicked = {}
    /\ \A n \in Nodes : /\ life[n] <=> pc[n] # "off"
                        /\ life[n] <=> n \in listening

\* The master's tables and the connection each node has with it.
QueuedInv ==
    /\ OncePerName(mq)
    /\ \A n \in Nodes, s \in Slots : <<n, s>> \in Items(mq) =>
          pc[n] = "await" /\ n \notin online /\ mconn[n][s] = "open"
    /\ mtask # None =>
          /\ pc[mtask[1]] = "await"
          /\ mtask[1] \in online
          /\ childs[mtask[1]] = mtask[2]
          /\ mconn[mtask[1]][mtask[2]] = "open"

TableInv ==
    \A n \in Nodes :
        /\ n \in online <=> childs[n] # None
        /\ n \in online =>
              /\ mconn[n][childs[n]] \in {"open", "broken"}
              /\ <<n, childs[n]>> \in mprop
              /\ pc[n] \in {"off", "ready"} \/ (mtask # None /\ mtask[1] = n)
        /\ pc[n] = "ready" => n \in online

MasterConnInv ==
    \A n \in Nodes, s \in Slots :
        /\ mconn[n][s] = "broken" => n \in online /\ childs[n] = s /\ ~life[n]
        /\ mconn[n][s] = "open" => /\ life[n]
                                   /\ \A x \in Slots : mconn[n][x] = "open" => x = s

\* While a broken connection has yet to be noticed, nothing else goes on.
NoActivity ==
    /\ mq = <<>> /\ mtask = None
    /\ \A n \in Nodes : /\ pc[n] \in {"off", "ready"}
                        /\ todo[n] = {} /\ notes[n] = <<>> /\ rq[n] = <<>>
                        /\ \A t \in Threads : thr[n][t] = Idle

CalmInv == LossPending => NoActivity

\* What the two ends of a link, and the managers' entries, say of it.
LinkInv ==
    \A l \in Links :
        /\ link[l].up => link[l].cli /\ link[l].srv
        /\ link[l].cli => /\ link[l].from \in Nodes /\ link[l].to \in Nodes
                          /\ life[link[l].from]
                          /\ remotes[link[l].from][link[l].to] = l
        /\ link[l].srv => /\ link[l].from \in Nodes /\ link[l].to \in Nodes
                          /\ life[link[l].to]
        /\ ~link[l].up /\ (link[l].cli \/ link[l].srv) =>
              ~life[link[l].from] \/ ~life[link[l].to]
        /\ link[l].cli /\ l \notin rprop =>
              \E t \in Threads : /\ thr[link[l].from][t].at = "mark"
                                 /\ thr[link[l].from][t].link = l

EntryInv ==
    \A n, r \in Nodes :
        /\ remotes[n][r] # None =>
              /\ link[remotes[n][r]].from = n /\ link[remotes[n][r]].to = r
              /\ link[remotes[n][r]].cli
        /\ kids[r][n] # None =>
              /\ link[kids[r][n]].from = n /\ link[kids[r][n]].to = r
              /\ link[kids[r][n]].srv
              /\ kids[r][n] \in cprop

\* Where the work of linking the child n to the root r is.
Places == {"todo", "note", "main", "rpc", "asked", "known"}

At(n, r, k) ==
    \/ k = "todo" /\ r \in todo[n]
    \/ k = "note" /\ r \in Items(notes[n])
    \/ k \in Threads /\ thr[n][k].root = r
    \/ k = "asked" /\ \E l \in Links : <<n, l>> \in Items(rq[r])
    \/ k = "known" /\ kids[r][n] # None

Ready(n, r) == r \in Remotes[n] /\ pc[n] = "ready" /\ pc[r] = "ready"

QueuesInv ==
    \A n \in Nodes : Once(notes[n]) /\ OncePerName(rq[n])

PlaceInv ==
    \A n, r \in Nodes :
        /\ \A j, k \in Places : At(n, r, j) /\ At(n, r, k) => j = k
        /\ Ready(n, r) => \E k \in Places : At(n, r, k)
        /\ ~Ready(n, r) => \A k \in Places : At(n, r, k) => k = "known" /\ ~life[n]

\* How far the work has come, and the child's entry for the root.
ProgressInv ==
    \A n, r \in Nodes :
        /\ At(n, r, "todo") \/ At(n, r, "note") => remotes[n][r] = None
        /\ \A t \in Threads : thr[n][t].root = r => remotes[n][r] = thr[n][t].link
        /\ \A l \in Links : <<n, l>> \in Items(rq[r]) => remotes[n][r] = l
        /\ kids[r][n] # None /\ life[n] => remotes[n][r] = kids[r][n]
        /\ remotes[n][r] # None => Ready(n, r) \/ ~life[r]

ClusterInv ==
    /\ ClusterTypeOK
    /\ LifeInv
    /\ QueuedInv
    /\ TableInv
    /\ MasterConnInv
    /\ CalmInv
    /\ LinkInv
    /\ EntryInv
    /\ QueuesInv
    /\ PlaceInv
    /\ ProgressInv

(***************************************************************************)
(* The steps.                                                              *)
(***************************************************************************)

LEMMA InitInv == ASSUME ClusterAssumption, Init PROVE ClusterInv
  <1> USE DEF Init
  <1>1. ClusterTypeOK
    <2>1. Idle \in ThreadStates BY DEF ThreadStates
    <2>2. /\ <<>> \in Seq(Nodes \X Slots) /\ <<>> \in Seq(Nodes \X Links) /\ <<>> \in Seq(Nodes)
      OBVIOUS
    <2>3. Unused \in LinkStates BY DEF Unused, LinkStates
    <2> HIDE DEF Idle, Unused
    <2> QED BY <2>1, <2>2, <2>3 DEF ClusterTypeOK
  <1>2. LifeInv BY DEF LifeInv
  <1>3. QueuedInv BY ItemsEmpty DEF QueuedInv
  <1>4. TableInv BY DEF TableInv
  <1>5. MasterConnInv BY DEF MasterConnInv
  <1>6. CalmInv BY DEF CalmInv, NoActivity
  <1>7. LinkInv BY DEF LinkInv, Unused
  <1>8. EntryInv BY DEF EntryInv
  <1>9. QueuesInv BY ItemsEmpty DEF QueuesInv
  <1>10. \A n, r \in Nodes, k \in Places : ~At(n, r, k)
    <2> SUFFICES ASSUME NEW n \in Nodes, NEW r \in Nodes, NEW k \in Places PROVE ~At(n, r, k)
      OBVIOUS
    <2>1. notes[n] = <<>> /\ rq[r] = <<>> /\ todo[n] = {} /\ kids[r][n] = None OBVIOUS
    <2>2. \A t \in Threads : thr[n][t].root # r BY DEF ClusterAssumption, Idle
    <2> QED BY <2>1, <2>2, ItemsEmpty DEF At
  <1>11. \A n, r \in Nodes : ~Ready(n, r) BY DEF Ready
  <1>12. PlaceInv BY <1>10, <1>11 DEF PlaceInv
  <1>13. ProgressInv
    <2>1. \A n, r \in Nodes : /\ remotes[n][r] = None /\ kids[r][n] = None
                              /\ \A t \in Threads : thr[n][t].root # r
                              /\ Items(rq[r]) = {}
      BY ItemsEmpty DEF ClusterAssumption, Idle
    <2>2. ProgressInv BY <2>1, <1>10 DEF ProgressInv, Places
    <2> QED BY <2>2
  <1> QED BY <1>1, <1>2, <1>3, <1>4, <1>5, <1>6, <1>7, <1>8, <1>9, <1>12, <1>13 DEF ClusterInv

\* While something goes on, every connection is whole.
LEMMA Whole ==
    ASSUME ClusterInv, ~NoActivity
    PROVE  /\ \A l \in Links : link[l].cli \/ link[l].srv => link[l].up
           /\ \A n \in Nodes, s \in Slots : mconn[n][s] \notin {"broken", "cut"}
           /\ ~LossPending
  BY DEF ClusterInv, CalmInv, LossPending

\* Nobody dials a root that is not there.
LEMMA DialSafe ==
    ASSUME ClusterInv, NEW n \in Nodes, NEW t \in Threads, thr[n][t].at # "idle"
    PROVE  /\ thr[n][t].root \in Nodes
           /\ Ready(n, thr[n][t].root)
           /\ thr[n][t].root \in listening
           /\ At(n, thr[n][t].root, t)
           /\ thr[n][t].at # "dial" => /\ thr[n][t].link \in Links
                                       /\ thr[n][t] = [at |-> thr[n][t].at, root |-> thr[n][t].root,
                                                        link |-> thr[n][t].link]
           /\ thr[n][t].at = "dial" => thr[n][t].link = None
           /\ ~NoActivity
  <1>1. thr[n][t].root \in Nodes
    <2>1. thr[n][t] \in ThreadStates BY DEF ClusterInv, ClusterTypeOK
    <2> QED BY <2>1 DEF ThreadStates, Idle
  <1>6. ASSUME thr[n][t].at # "dial"
        PROVE  /\ thr[n][t].link \in Links
               /\ thr[n][t] = [at |-> thr[n][t].at, root |-> thr[n][t].root, link |-> thr[n][t].link]
    <2>1. thr[n][t] \in ThreadStates BY DEF ClusterInv, ClusterTypeOK
    <2>2. thr[n][t] \in [at : {"mark", "announce"}, root : Nodes, link : Links]
      BY <2>1, <1>6 DEF ThreadStates, Idle
    <2> QED BY <2>2
  <1>2. At(n, thr[n][t].root, t) BY DEF At
  <1>3. Ready(n, thr[n][t].root)
    BY <1>1, <1>2 DEF ClusterInv, PlaceInv, Places, Threads
  <1>4. thr[n][t].root \in listening BY <1>1, <1>3 DEF Ready, ClusterInv, LifeInv
  <1>5. ~NoActivity BY DEF NoActivity, Idle
  <1>7. thr[n][t].at = "dial" => thr[n][t].link = None
    <2>1. thr[n][t] \in ThreadStates BY DEF ClusterInv, ClusterTypeOK
    <2> QED BY <2>1 DEF ThreadStates, Idle
  <1> QED BY <1>1, <1>2, <1>3, <1>4, <1>5, <1>6, <1>7

\* What cannot happen while the failures are Steady.
LEMMA Excluded ==
    ASSUME ClusterAssumption, Steady, ClusterInv
    PROVE  /\ \A n \in Nodes : /\ ~Listen(n) /\ ~ReConnectMaster(n)
                               /\ ~TakeProxyTimeout(n) /\ ~ReConnectPanic(n)
                               /\ \A t \in Threads : ~DialPanic(n, t)
           /\ \A l \in Links : ~Drop(l)
           /\ ~MasterCrash /\ ~MasterStart
  <1>1. \A n \in Nodes : ~Listen(n) BY DEF Listen, ClusterInv, LifeInv
  <1>2. \A n \in Nodes : ~ReConnectMaster(n) /\ ~TakeProxyTimeout(n)
    <2>1. \A n \in Nodes, s \in Slots : mconn[n][s] \in {"unused", "open", "broken", "closed"}
      BY DEF ClusterInv, ClusterTypeOK
    <2>2. \A n \in Nodes, s \in Slots : mconn[n][s] # "cut" BY <2>1
    <2> QED BY <2>2 DEF ReConnectMaster, TakeProxyTimeout
  <1>3. \A n \in Nodes : ~ReConnectPanic(n) BY DEF ReConnectPanic, ClusterInv, ClusterTypeOK
  <1>4. \A n \in Nodes, t \in Threads : ~DialPanic(n, t) BY DialSafe DEF DialPanic
  <1>5. \A l \in Links : ~Drop(l) BY DEF Drop, ClusterInv, ClusterTypeOK, Steady
  <1>6. ~MasterCrash BY DEF MasterCrash, ClusterInv, ClusterTypeOK, Steady
  <1>7. ~MasterStart BY DEF MasterStart, ClusterInv, LifeInv
  <1> QED BY <1>1, <1>2, <1>3, <1>4, <1>5, <1>6, <1>7

\* Steps of the nodes leave the master, its connections and the processes alone.
LEMMA MasterSame ==
    ASSUME ClusterInv,
           UNCHANGED <<mup, online, childs, mprop, mq, mtask, mconn, life, listening, pc, panicked>>
    PROVE  LifeInv' /\ QueuedInv' /\ TableInv' /\ MasterConnInv'
  <1>1. LifeInv' BY DEF ClusterInv, LifeInv
  <1>2. QueuedInv' BY DEF ClusterInv, QueuedInv
  <1>3. TableInv' BY DEF ClusterInv, TableInv
  <1>4. MasterConnInv' BY DEF ClusterInv, MasterConnInv
  <1> QED BY <1>1, <1>2, <1>3, <1>4

LEMMA CalmSame ==
    ASSUME ClusterInv, ~NoActivity, UNCHANGED <<link, mconn>>
    PROVE  CalmInv'
  BY DEF ClusterInv, CalmInv, LossPending

\* The work for a pair moves from one place to another.
LEMMA Moved ==
    ASSUME ClusterInv, NEW n \in Nodes, NEW r \in Nodes, NEW j \in Places, NEW k \in Places,
           At(n, r, j), UNCHANGED <<pc, life>>,
           \A m, q \in Nodes, p \in Places :
               At(m, q, p)' <=> IF m = n /\ q = r THEN p = k ELSE At(m, q, p),
           k = "known" \/ Ready(n, r)
    PROVE  PlaceInv'
  <1>1. \A m, q \in Nodes : Ready(m, q)' <=> Ready(m, q) BY DEF Ready
  <1>2. ASSUME NEW m \in Nodes, NEW q \in Nodes, m # n \/ q # r
        PROVE  /\ \A i, p \in Places : At(m, q, i)' /\ At(m, q, p)' => i = p
               /\ Ready(m, q)' => \E p \in Places : At(m, q, p)'
               /\ ~Ready(m, q)' => \A p \in Places : At(m, q, p)' => p = "known" /\ ~life'[m]
    BY <1>1, <1>2 DEF ClusterInv, PlaceInv
  <1>3. /\ \A i, p \in Places : At(n, r, i)' /\ At(n, r, p)' => i = p
        /\ \E p \in Places : At(n, r, p)'
        /\ ~Ready(n, r)' => \A p \in Places : At(n, r, p)' => p = "known" /\ ~life'[n]
    BY <1>1 DEF ClusterInv, PlaceInv
  <1> QED BY <1>2, <1>3 DEF PlaceInv

LEMMA NextRootStep ==
    ASSUME ClusterAssumption, ClusterInv, NEW n \in Nodes, NextRoot(n)
    PROVE  ClusterInv'
  <1> USE DEF master, links, bounds
  <1>1. PICK r \in todo[n] : CheckRemote(n, "main", r) /\ todo' = [todo EXCEPT ![n] = @ \ {r}]
    BY DEF NextRoot
  <1>2. r \in Nodes /\ ~NoActivity BY DEF ClusterInv, ClusterTypeOK, NoActivity
  <1>3. At(n, r, "todo") BY DEF At
  <1>4. remotes[n][r] = None /\ Ready(n, r)
    BY <1>2, <1>3 DEF ClusterInv, ProgressInv, PlaceInv, Places
  <1>5. thr' = [thr EXCEPT ![n]["main"] = [at |-> "dial", root |-> r, link |-> None]]
    BY <1>1, <1>4 DEF CheckRemote
  <1>6. /\ UNCHANGED <<mup, online, childs, mprop, mq, mtask, mconn, life, listening, pc, notes,
                       remotes, kids, rq, link, rprop, cprop, panicked, drops, mcrashes>>
        /\ thr[n]["main"] = Idle
    BY DEF NextRoot
  <1>7. ClusterTypeOK'
    <2>1. thr' \in [Nodes -> [Threads -> ThreadStates]]
      BY <1>2, <1>5 DEF ClusterInv, ClusterTypeOK, ThreadStates, Threads
    <2>2. todo' \in [Nodes -> SUBSET Nodes] BY <1>1 DEF ClusterInv, ClusterTypeOK
    <2> QED BY <2>1, <2>2, <1>6 DEF ClusterInv, ClusterTypeOK
  <1>8. LifeInv' /\ QueuedInv' /\ TableInv' /\ MasterConnInv' BY <1>6, MasterSame
  <1>9. CalmInv' BY <1>2, <1>6, CalmSame
  <1>10. \A m \in Nodes, t \in Threads :
            thr'[m][t] = IF m = n /\ t = "main" THEN [at |-> "dial", root |-> r, link |-> None]
                         ELSE thr[m][t]
    BY <1>5 DEF ClusterInv, ClusterTypeOK, Threads
  <1>11. LinkInv'
    <2>1. \A m \in Nodes, t \in Threads : thr[m][t].at = "mark" => thr'[m][t] = thr[m][t]
      BY <1>6, <1>10 DEF Idle
    <2> QED BY <2>1, <1>6 DEF ClusterInv, LinkInv
  <1>12. EntryInv' BY <1>6 DEF ClusterInv, EntryInv
  <1>13. QueuesInv' BY <1>6 DEF ClusterInv, QueuesInv
  <1>14. \A m, q \in Nodes, k \in Places :
             At(m, q, k)' <=> IF m = n /\ q = r THEN k = "main" ELSE At(m, q, k)
    <2> SUFFICES ASSUME NEW m \in Nodes, NEW q \in Nodes, NEW k \in Places
                 PROVE  At(m, q, k)' <=> IF m = n /\ q = r THEN k = "main" ELSE At(m, q, k)
      OBVIOUS
    <2>1. CASE k = "todo" BY <2>1, <1>1 DEF At, ClusterInv, ClusterTypeOK, Threads
    <2>2. CASE k = "main"
      <3>1. thr[n]["main"].root # q BY <1>6 DEF Idle, ClusterAssumption
      <3> QED BY <2>2, <3>1, <1>10 DEF At, Threads
    <2>3. CASE k \notin {"todo", "main"}
      <3>1. At(m, q, k)' <=> At(m, q, k) BY <2>3, <1>6, <1>10 DEF At, Places, Threads
      <3>2. m = n /\ q = r => ~At(m, q, k)
        BY <2>3, <1>2, <1>3 DEF ClusterInv, PlaceInv, Places
      <3> QED BY <2>3, <3>1, <3>2
    <2> QED BY <2>1, <2>2, <2>3
  <1>15. PlaceInv' BY <1>2, <1>3, <1>4, <1>6, <1>14, Moved DEF Places
  <1>16. ProgressInv'
    <2> SUFFICES ASSUME NEW m \in Nodes, NEW q \in Nodes
                 PROVE  /\ At(m, q, "todo")' \/ At(m, q, "note")' => remotes[m][q] = None
                        /\ \A t \in Threads : thr'[m][t].root = q => remotes[m][q] = thr'[m][t].link
                        /\ \A l \in Links : <<m, l>> \in Items(rq[q]) => remotes[m][q] = l
                        /\ kids[q][m] # None /\ life[m] => remotes[m][q] = kids[q][m]
                        /\ remotes[m][q] # None => Ready(m, q)' \/ ~life[q]
      BY <1>6 DEF ProgressInv
    <2>1. At(m, q, "todo")' \/ At(m, q, "note")' => remotes[m][q] = None
      BY <1>14 DEF ClusterInv, ProgressInv, Places
    <2>2. \A t \in Threads : thr'[m][t].root = q => remotes[m][q] = thr'[m][t].link
      BY <1>10, <1>4 DEF ClusterInv, ProgressInv
    <2> QED BY <2>1, <2>2, <1>6 DEF ClusterInv, ProgressInv, Ready
  <1> QED BY <1>7, <1>8, <1>9, <1>11, <1>12, <1>13, <1>15, <1>16 DEF ClusterInv

LEMMA RootTakeProxyStep ==
    ASSUME ClusterAssumption, ClusterInv, NEW n \in Nodes, RootTakeProxy(n)
    PROVE  ClusterInv'
  <1> USE DEF master, links, bounds
  <1>1. PICK r : r = Head(notes[n]) OBVIOUS
  <1>2. /\ notes[n] \in Seq(Nodes) /\ notes[n] # <<>> /\ ~NoActivity
        /\ Once(notes[n])
    BY DEF RootTakeProxy, ClusterInv, ClusterTypeOK, NoActivity, QueuesInv
  <1>3. /\ Tail(notes[n]) \in Seq(Nodes) /\ r \in Nodes
        /\ Items(notes[n]) = Items(Tail(notes[n])) \cup {r}
        /\ r \notin Items(Tail(notes[n])) /\ Once(Tail(notes[n]))
    BY <1>1, <1>2, TailItems
  <1>4. At(n, r, "note") BY <1>3 DEF At
  <1>5. remotes[n][r] = None /\ Ready(n, r)
    BY <1>3, <1>4 DEF ClusterInv, ProgressInv, PlaceInv, Places
  <1>6. /\ UNCHANGED <<mup, online, childs, mprop, mq, mtask, mconn, life, listening, pc, todo,
                       remotes, kids, rq, link, rprop, cprop, panicked, drops, mcrashes>>
        /\ thr[n]["rpc"] = Idle
        /\ notes' = [notes EXCEPT ![n] = Tail(@)]
        /\ thr' = [thr EXCEPT ![n]["rpc"] = [at |-> "dial", root |-> r, link |-> None]]
    BY <1>1, <1>5 DEF RootTakeProxy, CheckRemote
  <1>7. ClusterTypeOK'
    <2>1. thr' \in [Nodes -> [Threads -> ThreadStates]]
      BY <1>3, <1>6 DEF ClusterInv, ClusterTypeOK, ThreadStates, Threads
    <2>2. notes' \in [Nodes -> Seq(Nodes)] BY <1>3, <1>6 DEF ClusterInv, ClusterTypeOK
    <2> QED BY <2>1, <2>2, <1>6 DEF ClusterInv, ClusterTypeOK
  <1>8. LifeInv' /\ QueuedInv' /\ TableInv' /\ MasterConnInv' BY <1>6, MasterSame
  <1>9. CalmInv' BY <1>2, <1>6, CalmSame
  <1>10. /\ \A m \in Nodes, t \in Threads :
               thr'[m][t] = IF m = n /\ t = "rpc" THEN [at |-> "dial", root |-> r, link |-> None]
                            ELSE thr[m][t]
         /\ \A m \in Nodes : notes'[m] = IF m = n THEN Tail(notes[n]) ELSE notes[m]
    BY <1>6 DEF ClusterInv, ClusterTypeOK, Threads
  <1>11. LinkInv'
    <2>1. \A m \in Nodes, t \in Threads : thr[m][t].at = "mark" => thr'[m][t] = thr[m][t]
      BY <1>6, <1>10 DEF Idle
    <2> QED BY <2>1, <1>6 DEF ClusterInv, LinkInv
  <1>12. EntryInv' BY <1>6 DEF ClusterInv, EntryInv
  <1>13. QueuesInv' BY <1>3, <1>6, <1>10 DEF ClusterInv, QueuesInv
  <1>14. \A m, q \in Nodes, k \in Places :
             At(m, q, k)' <=> IF m = n /\ q = r THEN k = "rpc" ELSE At(m, q, k)
    <2> SUFFICES ASSUME NEW m \in Nodes, NEW q \in Nodes, NEW k \in Places
                 PROVE  At(m, q, k)' <=> IF m = n /\ q = r THEN k = "rpc" ELSE At(m, q, k)
      OBVIOUS
    <2>1. CASE k = "note" BY <2>1, <1>3, <1>10 DEF At, Threads
    <2>2. CASE k = "rpc"
      <3>1. thr[n]["rpc"].root # q BY <1>6 DEF Idle, ClusterAssumption
      <3> QED BY <2>2, <3>1, <1>10 DEF At, Threads
    <2>3. CASE k \notin {"note", "rpc"}
      <3>1. At(m, q, k)' <=> At(m, q, k) BY <2>3, <1>6, <1>10 DEF At, Places, Threads
      <3>2. m = n /\ q = r => ~At(m, q, k)
        BY <2>3, <1>3, <1>4 DEF ClusterInv, PlaceInv, Places
      <3> QED BY <2>3, <3>1, <3>2
    <2> QED BY <2>1, <2>2, <2>3
  <1>15. PlaceInv' BY <1>3, <1>4, <1>5, <1>6, <1>14, Moved DEF Places
  <1>16. ProgressInv'
    <2> SUFFICES ASSUME NEW m \in Nodes, NEW q \in Nodes
                 PROVE  /\ At(m, q, "todo")' \/ At(m, q, "note")' => remotes[m][q] = None
                        /\ \A t \in Threads : thr'[m][t].root = q => remotes[m][q] = thr'[m][t].link
                        /\ \A l \in Links : <<m, l>> \in Items(rq[q]) => remotes[m][q] = l
                        /\ kids[q][m] # None /\ life[m] => remotes[m][q] = kids[q][m]
                        /\ remotes[m][q] # None => Ready(m, q)' \/ ~life[q]
      BY <1>6 DEF ProgressInv
    <2>1. At(m, q, "todo")' \/ At(m, q, "note")' => remotes[m][q] = None
      BY <1>14 DEF ClusterInv, ProgressInv, Places
    <2>2. \A t \in Threads : thr'[m][t].root = q => remotes[m][q] = thr'[m][t].link
      BY <1>10, <1>5 DEF ClusterInv, ProgressInv
    <2> QED BY <2>1, <2>2, <1>6 DEF ClusterInv, ProgressInv, Ready
  <1> QED BY <1>7, <1>8, <1>9, <1>11, <1>12, <1>13, <1>15, <1>16 DEF ClusterInv

LEMMA MarkRemoteStep ==
    ASSUME ClusterAssumption, ClusterInv, NEW n \in Nodes, NEW t \in Threads, MarkRemote(n, t)
    PROVE  ClusterInv'
  <1> USE DEF master, links, bounds
  <1>1. thr[n][t].at = "mark" /\ rprop' = rprop \cup {thr[n][t].link} BY DEF MarkRemote
  <1>2. ~NoActivity /\ thr[n][t].root \in Nodes BY <1>1, DialSafe
  <1>3. thr[n][t].link \in Links BY <1>1, DialSafe
  <1>4. UNCHANGED <<mup, online, childs, mprop, mq, mtask, mconn, life, listening, pc, todo, notes,
                    remotes, kids, rq, link, cprop, panicked, drops, mcrashes>>
    BY DEF MarkRemote
  <1>5. thr' = [thr EXCEPT ![n][t] = [at |-> "announce", root |-> thr[n][t].root,
                                      link |-> thr[n][t].link]]
    <2>1. thr[n][t] = [at |-> thr[n][t].at, root |-> thr[n][t].root, link |-> thr[n][t].link]
      BY <1>1, DialSafe
    <2>2. [thr[n][t] EXCEPT !.at = "announce"]
             = [at |-> "announce", root |-> thr[n][t].root, link |-> thr[n][t].link]
      BY <2>1
    <2>3. thr' = [thr EXCEPT ![n][t] = [thr[n][t] EXCEPT !.at = "announce"]] BY DEF MarkRemote
    <2> QED BY <2>2, <2>3
  <1>6. /\ thr'[n][t] = [at |-> "announce", root |-> thr[n][t].root, link |-> thr[n][t].link]
        /\ \A m \in Nodes, u \in Threads : m # n \/ u # t => thr'[m][u] = thr[m][u]
    BY <1>5 DEF ClusterInv, ClusterTypeOK
  <1>7. ClusterTypeOK'
    <2>1. thr' \in [Nodes -> [Threads -> ThreadStates]]
      <3>1. thr'[n][t] \in ThreadStates BY <1>2, <1>3, <1>6 DEF ThreadStates
      <3>2. [at |-> "announce", root |-> thr[n][t].root, link |-> thr[n][t].link] \in ThreadStates
        BY <3>1, <1>6
      <3> QED BY <3>2, <1>5 DEF ClusterInv, ClusterTypeOK
    <2>2. rprop' \in SUBSET Links BY <1>1, <1>3 DEF ClusterInv, ClusterTypeOK
    <2> QED BY <2>1, <2>2, <1>4 DEF ClusterInv, ClusterTypeOK
  <1>8. LifeInv' /\ QueuedInv' /\ TableInv' /\ MasterConnInv' BY <1>4, MasterSame
  <1>9. CalmInv' BY <1>2, <1>4, CalmSame
  <1>10. \A m \in Nodes, u \in Threads : /\ thr'[m][u].root = thr[m][u].root
                                         /\ thr'[m][u].link = thr[m][u].link
    BY <1>6
  <1>11. LinkInv'
    <2> SUFFICES ASSUME NEW l \in Links, link[l].cli, l \notin rprop'
                 PROVE  \E u \in Threads : /\ thr'[link[l].from][u].at = "mark"
                                           /\ thr'[link[l].from][u].link = l
      BY <1>4 DEF ClusterInv, LinkInv
    <2>1. link[l].from \in Nodes BY DEF ClusterInv, LinkInv
    <2>2. PICK u \in Threads : thr[link[l].from][u].at = "mark" /\ thr[link[l].from][u].link = l
      BY <1>1 DEF ClusterInv, LinkInv
    <2>3. link[l].from # n \/ u # t BY <2>2, <1>1
    <2> QED BY <2>1, <2>2, <2>3, <1>6
  <1>12. EntryInv' BY <1>4 DEF ClusterInv, EntryInv
  <1>13. QueuesInv' BY <1>4 DEF ClusterInv, QueuesInv
  <1>14. \A m, q \in Nodes, k \in Places : At(m, q, k)' <=> At(m, q, k)
    <2> SUFFICES ASSUME NEW m \in Nodes, NEW q \in Nodes, NEW k \in Places
                 PROVE  At(m, q, k)' <=> At(m, q, k)
      OBVIOUS
    <2>1. k \in Threads => thr'[m][k].root = thr[m][k].root BY <1>10
    <2> QED BY <1>4, <2>1 DEF At
  <1>15. PlaceInv' BY <1>4, <1>14 DEF ClusterInv, PlaceInv, Ready
  <1>16. ProgressInv' BY <1>4, <1>10, <1>14 DEF ClusterInv, ProgressInv, Ready, Places
  <1> QED BY <1>7, <1>8, <1>9, <1>11, <1>12, <1>13, <1>15, <1>16 DEF ClusterInv

LEMMA AnnounceStep ==
    ASSUME ClusterAssumption, ClusterInv, NEW n \in Nodes, NEW t \in Threads, Announce(n, t)
    PROVE  ClusterInv'
  <1> USE DEF master, links, bounds
  <1>1. thr[n][t].at = "announce" BY DEF Announce
  <1>2. PICK r : r = thr[n][t].root OBVIOUS
  <1>3. PICK l : l = thr[n][t].link OBVIOUS
  <1>4. ~NoActivity /\ r \in Nodes /\ Ready(n, r) /\ At(n, r, t) BY <1>1, <1>2, DialSafe
  <1>5. l \in Links BY <1>1, <1>3, DialSafe
  <1>6. remotes[n][r] = l /\ l # None
    BY <1>2, <1>3, <1>4, <1>5 DEF ClusterInv, ProgressInv, ClusterAssumption
  <1>7. link[l].up BY <1>4, <1>5, <1>6, Whole DEF ClusterInv, EntryInv
  <1>8. /\ UNCHANGED <<mup, online, childs, mprop, mq, mtask, mconn, life, listening, pc, todo,
                       notes, remotes, kids, link, rprop, cprop, panicked, drops, mcrashes>>
        /\ rq' = [rq EXCEPT ![r] = Append(@, <<n, l>>)]
        /\ thr' = [thr EXCEPT ![n][t] = Idle]
    BY <1>2, <1>6, <1>7 DEF Announce
  <1>9. \A m \in Items(rq[r]) : m[1] # n
    <2> SUFFICES ASSUME NEW m \in Items(rq[r]), m[1] = n PROVE FALSE OBVIOUS
    <2>1. rq[r] \in Seq(Nodes \X Links) BY <1>4 DEF ClusterInv, ClusterTypeOK
    <2>2. m \in Nodes \X Links BY <2>1 DEF Items
    <2>3. m[2] \in Links /\ <<n, m[2]>> \in Items(rq[r]) BY <2>2
    <2>4. At(n, r, "asked") BY <2>3 DEF At
    <2> QED BY <2>4, <1>4 DEF ClusterInv, PlaceInv, Places, Threads
  <1>10. /\ Append(rq[r], <<n, l>>) \in Seq(Nodes \X Links)
         /\ Items(Append(rq[r], <<n, l>>)) = Items(rq[r]) \cup {<<n, l>>}
         /\ OncePerName(Append(rq[r], <<n, l>>))
    <2>1. rq[r] \in Seq(Nodes \X Links) /\ <<n, l>> \in Nodes \X Links /\ OncePerName(rq[r])
      BY <1>4, <1>5 DEF ClusterInv, ClusterTypeOK, QueuesInv
    <2>2. \A m \in Items(rq[r]) : m[1] # <<n, l>>[1] BY <1>9
    <2> QED BY <2>1, <2>2, AppendItems
  <1>11. /\ \A m \in Nodes : rq'[m] = IF m = r THEN Append(rq[r], <<n, l>>) ELSE rq[m]
         /\ \A m \in Nodes, u \in Threads :
               thr'[m][u] = IF m = n /\ u = t THEN Idle ELSE thr[m][u]
    BY <1>4, <1>8 DEF ClusterInv, ClusterTypeOK
  <1>12. ClusterTypeOK'
    <2>1. Idle \in ThreadStates BY DEF ThreadStates
    <2>2. thr' \in [Nodes -> [Threads -> ThreadStates]]
      BY <2>1, <1>8 DEF ClusterInv, ClusterTypeOK
    <2>3. rq' \in [Nodes -> Seq(Nodes \X Links)] BY <1>8, <1>10 DEF ClusterInv, ClusterTypeOK
    <2> QED BY <2>2, <2>3, <1>8 DEF ClusterInv, ClusterTypeOK
  <1>13. LifeInv' /\ QueuedInv' /\ TableInv' /\ MasterConnInv' BY <1>8, MasterSame
  <1>14. CalmInv' BY <1>4, <1>8, CalmSame
  <1>15. LinkInv'
    <2>1. \A m \in Nodes, u \in Threads : thr[m][u].at = "mark" => thr'[m][u] = thr[m][u]
      BY <1>1, <1>11
    <2> QED BY <2>1, <1>8 DEF ClusterInv, LinkInv
  <1>16. EntryInv' BY <1>8 DEF ClusterInv, EntryInv
  <1>17. QueuesInv' BY <1>8, <1>10, <1>11 DEF ClusterInv, QueuesInv
  <1>18. \A m, q \in Nodes, k \in Links :
            <<m, k>> \in Items(rq'[q]) <=> <<m, k>> \in Items(rq[q]) \/ (m = n /\ q = r /\ k = l)
    BY <1>10, <1>11
  <1>19. \A m, q \in Nodes, k \in Places :
             At(m, q, k)' <=> IF m = n /\ q = r THEN k = "asked" ELSE At(m, q, k)
    <2> SUFFICES ASSUME NEW m \in Nodes, NEW q \in Nodes, NEW k \in Places
                 PROVE  At(m, q, k)' <=> IF m = n /\ q = r THEN k = "asked" ELSE At(m, q, k)
      OBVIOUS
    <2>1. CASE k = "asked"
      <3>1. At(m, q, k) <=> \E x \in Links : <<m, x>> \in Items(rq[q]) BY <2>1 DEF At, Threads
      <3>2. At(m, q, k)' <=> \E x \in Links : <<m, x>> \in Items(rq'[q]) BY <2>1 DEF At, Threads
      <3> QED BY <2>1, <3>1, <3>2, <1>5, <1>18
    <2>2. CASE k = t
      <3>1. Idle.root # q BY DEF Idle, ClusterAssumption
      <3>2. m = n => (thr[m][t].root = q <=> q = r) BY <1>2
      <3>3. At(m, q, k) <=> thr[m][t].root = q BY <2>2 DEF At, Threads
      <3>4. At(m, q, k)' <=> thr'[m][t].root = q BY <2>2 DEF At, Threads
      <3>5. k # "asked" BY <2>2 DEF Threads
      <3> QED BY <2>2, <3>1, <3>2, <3>3, <3>4, <3>5, <1>11
    <2>3. CASE k # "asked" /\ k # t
      <3>1. At(m, q, k)' <=> At(m, q, k) BY <2>3, <1>8, <1>11 DEF At, Places, Threads
      <3>2. m = n /\ q = r => ~At(m, q, k)
        BY <2>3, <1>4 DEF ClusterInv, PlaceInv, Places, Threads
      <3> QED BY <2>3, <3>1, <3>2
    <2> QED BY <2>1, <2>2, <2>3
  <1>20. PlaceInv' BY <1>4, <1>8, <1>19, Moved DEF Places, Threads
  <1>21. ProgressInv'
    <2>0. remotes' = remotes /\ kids' = kids /\ life' = life BY <1>8
    <2> SUFFICES ASSUME NEW m \in Nodes, NEW q \in Nodes
                 PROVE  /\ At(m, q, "todo")' \/ At(m, q, "note")' => remotes[m][q] = None
                        /\ \A u \in Threads : thr'[m][u].root = q => remotes[m][q] = thr'[m][u].link
                        /\ \A k \in Links : <<m, k>> \in Items(rq'[q]) => remotes[m][q] = k
                        /\ kids[q][m] # None /\ life[m] => remotes[m][q] = kids[q][m]
                        /\ remotes[m][q] # None => Ready(m, q)' \/ ~life[q]
      BY <2>0 DEF ProgressInv
    <2>1. At(m, q, "todo")' \/ At(m, q, "note")' => remotes[m][q] = None
      <3>1. \A k \in {"todo", "note"} : At(m, q, k)' => At(m, q, k) BY <1>19 DEF Places
      <3> QED BY <3>1 DEF ClusterInv, ProgressInv
    <2>2. \A u \in Threads : thr'[m][u].root = q => remotes[m][q] = thr'[m][u].link
      BY <1>11 DEF ClusterInv, ProgressInv, Idle, ClusterAssumption
    <2>3. \A k \in Links : <<m, k>> \in Items(rq'[q]) => remotes[m][q] = k
      BY <1>18, <1>6 DEF ClusterInv, ProgressInv
    <2> QED BY <2>1, <2>2, <2>3, <1>8 DEF ClusterInv, ProgressInv, Ready
  <1> QED BY <1>12, <1>13, <1>14, <1>15, <1>16, <1>17, <1>20, <1>21 DEF ClusterInv

LEMMA AddChildStep ==
    ASSUME ClusterAssumption, ClusterInv, NEW r \in Nodes, AddChild(r)
    PROVE  ClusterInv'
  <1> USE DEF master, links, bounds
  <1>1. PICK c, l : c = Head(rq[r])[1] /\ l = Head(rq[r])[2] OBVIOUS
  <1>2. /\ rq[r] \in Seq(Nodes \X Links) /\ rq[r] # <<>> /\ ~NoActivity /\ OncePerName(rq[r])
    BY DEF AddChild, ClusterInv, ClusterTypeOK, NoActivity, QueuesInv
  <1>3. /\ Tail(rq[r]) \in Seq(Nodes \X Links) /\ Head(rq[r]) \in Nodes \X Links
        /\ Items(rq[r]) = Items(Tail(rq[r])) \cup {Head(rq[r])}
        /\ \A m \in Items(Tail(rq[r])) : m[1] # Head(rq[r])[1]
        /\ OncePerName(Tail(rq[r]))
    BY <1>2, TailItems
  <1>4. /\ c \in Nodes /\ l \in Links /\ Head(rq[r]) = <<c, l>>
        /\ <<c, l>> \in Items(rq[r])
        /\ \A k : <<c, k>> \notin Items(Tail(rq[r]))
    BY <1>1, <1>3
  <1>5. At(c, r, "asked") BY <1>4 DEF At
  <1>6. remotes[c][r] = l /\ Ready(c, r) /\ l # None
    BY <1>4, <1>5 DEF ClusterInv, ProgressInv, PlaceInv, Places, ClusterAssumption
  <1>7. link[l].from = c /\ link[l].to = r /\ link[l].srv
    <2>1. link[l].from = c /\ link[l].to = r /\ link[l].cli
      BY <1>4, <1>6 DEF ClusterInv, EntryInv
    <2>2. link[l].up BY <2>1, <1>2, <1>4, Whole
    <2> QED BY <2>1, <2>2, <1>4 DEF ClusterInv, LinkInv
  <1>8. /\ UNCHANGED <<mup, online, childs, mprop, mq, mtask, mconn, life, listening, pc, todo,
                       notes, thr, remotes, link, rprop, panicked, drops, mcrashes>>
        /\ kids' = [kids EXCEPT ![r][c] = l]
        /\ cprop' = cprop \cup {l}
        /\ rq' = [rq EXCEPT ![r] = Tail(@)]
    BY <1>1 DEF AddChild
  <1>9. /\ \A m \in Nodes : rq'[m] = IF m = r THEN Tail(rq[r]) ELSE rq[m]
        /\ \A q, m \in Nodes : kids'[q][m] = IF q = r /\ m = c THEN l ELSE kids[q][m]
    BY <1>4, <1>8 DEF ClusterInv, ClusterTypeOK
  <1>10. ClusterTypeOK'
    <2>1. rq' \in [Nodes -> Seq(Nodes \X Links)] BY <1>3, <1>8 DEF ClusterInv, ClusterTypeOK
    <2>2. kids' \in [Nodes -> [Nodes -> Links \cup {None}]]
      BY <1>4, <1>8 DEF ClusterInv, ClusterTypeOK
    <2>3. cprop' \in SUBSET Links BY <1>4, <1>8 DEF ClusterInv, ClusterTypeOK
    <2> QED BY <2>1, <2>2, <2>3, <1>8 DEF ClusterInv, ClusterTypeOK
  <1>11. LifeInv' /\ QueuedInv' /\ TableInv' /\ MasterConnInv' BY <1>8, MasterSame
  <1>12. CalmInv' BY <1>2, <1>8, CalmSame
  <1>13. LinkInv' BY <1>8 DEF ClusterInv, LinkInv
  <1>14. EntryInv'
    <2> SUFFICES ASSUME NEW m \in Nodes, NEW q \in Nodes, kids'[q][m] # None
                 PROVE  /\ link[kids'[q][m]].from = m /\ link[kids'[q][m]].to = q
                        /\ link[kids'[q][m]].srv
                        /\ kids'[q][m] \in cprop'
      BY <1>8 DEF ClusterInv, EntryInv
    <2>1. CASE q = r /\ m = c BY <2>1, <1>7, <1>8, <1>9
    <2>2. CASE ~(q = r /\ m = c) BY <2>2, <1>8, <1>9 DEF ClusterInv, EntryInv
    <2> QED BY <2>1, <2>2
  <1>15. QueuesInv' BY <1>3, <1>8, <1>9 DEF ClusterInv, QueuesInv
  <1>16. \A m, q \in Nodes, k \in Links :
            <<m, k>> \in Items(rq'[q]) <=> <<m, k>> \in Items(rq[q]) /\ ~(m = c /\ q = r)
    BY <1>3, <1>4, <1>9
  <1>17. \A m, q \in Nodes, k \in Places :
             At(m, q, k)' <=> IF m = c /\ q = r THEN k = "known" ELSE At(m, q, k)
    <2> SUFFICES ASSUME NEW m \in Nodes, NEW q \in Nodes, NEW k \in Places
                 PROVE  At(m, q, k)' <=> IF m = c /\ q = r THEN k = "known" ELSE At(m, q, k)
      OBVIOUS
    <2>1. CASE k = "asked"
      <3>1. At(m, q, k) <=> \E x \in Links : <<m, x>> \in Items(rq[q]) BY <2>1 DEF At, Threads
      <3>2. At(m, q, k)' <=> \E x \in Links : <<m, x>> \in Items(rq'[q]) BY <2>1 DEF At, Threads
      <3> QED BY <2>1, <3>1, <3>2, <1>16
    <2>2. CASE k = "known" BY <2>2, <1>6, <1>9 DEF At, Threads
    <2>3. CASE k \notin {"asked", "known"}
      <3>1. At(m, q, k)' <=> At(m, q, k) BY <2>3, <1>8 DEF At, Places, Threads
      <3>2. m = c /\ q = r => ~At(m, q, k)
        BY <2>3, <1>4, <1>5 DEF ClusterInv, PlaceInv, Places
      <3> QED BY <2>3, <3>1, <3>2
    <2> QED BY <2>1, <2>2, <2>3
  <1>18. PlaceInv' BY <1>4, <1>5, <1>8, <1>17, Moved DEF Places
  <1>19. ProgressInv'
    <2>0. remotes' = remotes /\ thr' = thr /\ life' = life BY <1>8
    <2> SUFFICES ASSUME NEW m \in Nodes, NEW q \in Nodes
                 PROVE  /\ At(m, q, "todo")' \/ At(m, q, "note")' => remotes[m][q] = None
                        /\ \A u \in Threads : thr[m][u].root = q => remotes[m][q] = thr[m][u].link
                        /\ \A k \in Links : <<m, k>> \in Items(rq'[q]) => remotes[m][q] = k
                        /\ kids'[q][m] # None /\ life[m] => remotes[m][q] = kids'[q][m]
                        /\ remotes[m][q] # None => Ready(m, q)' \/ ~life[q]
      BY <2>0 DEF ProgressInv
    <2>1. At(m, q, "todo")' \/ At(m, q, "note")' => remotes[m][q] = None
      <3>1. \A k \in {"todo", "note"} : At(m, q, k)' => At(m, q, k) BY <1>17 DEF Places
      <3> QED BY <3>1 DEF ClusterInv, ProgressInv
    <2>2. \A k \in Links : <<m, k>> \in Items(rq'[q]) => remotes[m][q] = k
      BY <1>16 DEF ClusterInv, ProgressInv
    <2>3. kids'[q][m] # None /\ life[m] => remotes[m][q] = kids'[q][m]
      BY <1>6, <1>9 DEF ClusterInv, ProgressInv
    <2> QED BY <2>1, <2>2, <2>3, <1>8 DEF ClusterInv, ProgressInv, Ready
  <1> QED BY <1>10, <1>11, <1>12, <1>13, <1>14, <1>15, <1>18, <1>19 DEF ClusterInv

LEMMA DialStep ==
    ASSUME ClusterAssumption, ClusterInv, NEW n \in Nodes, NEW t \in Threads, Dial(n, t)
    PROVE  ClusterInv'
  <1> USE DEF master, links, bounds
  <1>1. PICK r : r = thr[n][t].root OBVIOUS
  <1>2. PICK l : l = CHOOSE x \in FreeLinks : TRUE OBVIOUS
  <1>3. /\ l \in FreeLinks /\ thr[n][t].at = "dial"
        /\ UNCHANGED <<mup, online, childs, mprop, mq, mtask, mconn, life, listening, pc, todo,
                       notes, kids, rq, panicked, drops, mcrashes>>
        /\ link' = [link EXCEPT ![l] = [from |-> n, to |-> r, up |-> TRUE,
                                        cli |-> TRUE, srv |-> TRUE]]
        /\ rprop' = rprop \ {l}
        /\ cprop' = cprop \ {l}
        /\ remotes' = [remotes EXCEPT ![n][r] = l]
        /\ thr' = [thr EXCEPT ![n][t] = [at |-> "mark", root |-> r, link |-> l]]
    BY <1>1, <1>2 DEF Dial
  <1>4. /\ r \in Nodes /\ Ready(n, r) /\ At(n, r, t) /\ ~NoActivity
        /\ thr[n][t].link = None
    BY <1>1, <1>3, DialSafe
  <1>5. remotes[n][r] = None BY <1>1, <1>4 DEF ClusterInv, ProgressInv
  <1>6. /\ l \in Links /\ ~link[l].cli /\ ~link[l].srv /\ l # None
        /\ \A m, q \in Nodes : remotes[m][q] # l /\ kids[m][q] # l
        /\ \A m \in Nodes, u \in Threads : thr[m][u].link # l
    BY <1>3 DEF FreeLinks, ClusterAssumption
  <1>7. /\ \A k \in Links : k # l => link'[k] = link[k]
        /\ link'[l] = [from |-> n, to |-> r, up |-> TRUE, cli |-> TRUE, srv |-> TRUE]
        /\ \A m, q \in Nodes : remotes'[m][q] = IF m = n /\ q = r THEN l ELSE remotes[m][q]
        /\ \A m \in Nodes, u \in Threads :
              thr'[m][u] = IF m = n /\ u = t THEN [at |-> "mark", root |-> r, link |-> l]
                           ELSE thr[m][u]
    BY <1>3, <1>4, <1>6 DEF ClusterInv, ClusterTypeOK
  <1>8. life[n] /\ life[r] BY <1>4 DEF Ready, ClusterInv, LifeInv
  <1>9. ClusterTypeOK'
    <2>1. [at |-> "mark", root |-> r, link |-> l] \in ThreadStates BY <1>4, <1>6 DEF ThreadStates
    <2>2. thr' \in [Nodes -> [Threads -> ThreadStates]]
      BY <2>1, <1>3 DEF ClusterInv, ClusterTypeOK
    <2>3. remotes' \in [Nodes -> [Nodes -> Links \cup {None}]]
      BY <1>3, <1>4, <1>6 DEF ClusterInv, ClusterTypeOK
    <2>4. link' \in [Links -> LinkStates]
      BY <1>3, <1>4, <1>6 DEF ClusterInv, ClusterTypeOK, LinkStates
    <2>5. rprop' \in SUBSET Links /\ cprop' \in SUBSET Links
      BY <1>3 DEF ClusterInv, ClusterTypeOK
    <2> QED BY <2>2, <2>3, <2>4, <2>5, <1>3 DEF ClusterInv, ClusterTypeOK
  <1>10. LifeInv' /\ QueuedInv' /\ TableInv' /\ MasterConnInv' BY <1>3, MasterSame
  <1>11. CalmInv'
    <2>1. \A k \in Links : link'[k].cli \/ link'[k].srv => link'[k].up
      BY <1>4, <1>7, Whole
    <2>2. \A m \in Nodes, s \in Slots : mconn'[m][s] \notin {"broken", "cut"}
      BY <1>3, <1>4, Whole
    <2> QED BY <2>1, <2>2 DEF CalmInv, LossPending
  <1>12. LinkInv'
    <2> SUFFICES ASSUME NEW k \in Links
                 PROVE  /\ link'[k].up => link'[k].cli /\ link'[k].srv
                        /\ link'[k].cli =>
                              /\ link'[k].from \in Nodes /\ link'[k].to \in Nodes
                              /\ life[link'[k].from]
                              /\ remotes'[link'[k].from][link'[k].to] = k
                        /\ link'[k].srv => /\ link'[k].from \in Nodes /\ link'[k].to \in Nodes
                                           /\ life[link'[k].to]
                        /\ ~link'[k].up /\ (link'[k].cli \/ link'[k].srv) =>
                              ~life[link'[k].from] \/ ~life[link'[k].to]
                        /\ link'[k].cli /\ k \notin rprop' =>
                              \E u \in Threads : /\ thr'[link'[k].from][u].at = "mark"
                                                 /\ thr'[link'[k].from][u].link = k
      BY <1>3 DEF LinkInv
    <2>1. CASE k = l BY <2>1, <1>4, <1>7, <1>8
    <2>2. CASE k # l
      <3>1. link'[k] = link[k] BY <2>2, <1>7
      <3>2. link[k].cli => remotes'[link[k].from][link[k].to] = k
        BY <2>2, <1>5, <1>7, <1>6 DEF ClusterInv, LinkInv, ClusterAssumption
      <3>3. link[k].cli /\ k \notin rprop' =>
                \E u \in Threads : /\ thr'[link[k].from][u].at = "mark"
                                   /\ thr'[link[k].from][u].link = k
        <4> SUFFICES ASSUME link[k].cli, k \notin rprop'
                     PROVE  \E u \in Threads : /\ thr'[link[k].from][u].at = "mark"
                                               /\ thr'[link[k].from][u].link = k
          OBVIOUS
        <4>1. k \notin rprop BY <2>2, <1>3
        <4>2. PICK u \in Threads : thr[link[k].from][u].at = "mark" /\ thr[link[k].from][u].link = k
          BY <4>1 DEF ClusterInv, LinkInv
        <4>3. link[k].from \in Nodes BY DEF ClusterInv, LinkInv
        <4>4. thr'[link[k].from][u] = thr[link[k].from][u] BY <4>2, <4>3, <1>3, <1>7
        <4> QED BY <4>2, <4>4
      <3> QED BY <3>1, <3>2, <3>3 DEF ClusterInv, LinkInv
    <2> QED BY <2>1, <2>2
  <1>13. EntryInv'
    <2> SUFFICES ASSUME NEW m \in Nodes, NEW q \in Nodes
                 PROVE  /\ remotes'[m][q] # None =>
                              /\ link'[remotes'[m][q]].from = m /\ link'[remotes'[m][q]].to = q
                              /\ link'[remotes'[m][q]].cli
                        /\ kids[q][m] # None =>
                              /\ link'[kids[q][m]].from = m /\ link'[kids[q][m]].to = q
                              /\ link'[kids[q][m]].srv
                              /\ kids[q][m] \in cprop'
      BY <1>3 DEF EntryInv
    <2>1. kids[q][m] # None => /\ link'[kids[q][m]] = link[kids[q][m]]
                               /\ kids[q][m] \in cprop => kids[q][m] \in cprop'
      BY <1>3, <1>6, <1>7 DEF ClusterInv, ClusterTypeOK
    <2>2. CASE m = n /\ q = r BY <2>1, <2>2, <1>7 DEF ClusterInv, EntryInv
    <2>3. CASE ~(m = n /\ q = r)
      <3>1. remotes[m][q] # None => link'[remotes[m][q]] = link[remotes[m][q]]
        BY <1>6, <1>7 DEF ClusterInv, ClusterTypeOK
      <3> QED BY <2>1, <2>3, <3>1, <1>7 DEF ClusterInv, EntryInv
    <2> QED BY <2>2, <2>3
  <1>14. QueuesInv' BY <1>3 DEF ClusterInv, QueuesInv
  <1>15. \A m, q \in Nodes, k \in Places : At(m, q, k)' <=> At(m, q, k)
    <2> SUFFICES ASSUME NEW m \in Nodes, NEW q \in Nodes, NEW k \in Places
                 PROVE  At(m, q, k)' <=> At(m, q, k)
      OBVIOUS
    <2>1. k \in Threads => thr'[m][k].root = thr[m][k].root BY <1>1, <1>7
    <2> QED BY <1>3, <2>1 DEF At
  <1>16. PlaceInv' BY <1>3, <1>15 DEF ClusterInv, PlaceInv, Ready
  <1>17. ProgressInv'
    <2>0. kids' = kids /\ rq' = rq /\ life' = life BY <1>3
    <2> SUFFICES ASSUME NEW m \in Nodes, NEW q \in Nodes
                 PROVE  /\ At(m, q, "todo")' \/ At(m, q, "note")' => remotes'[m][q] = None
                        /\ \A u \in Threads : thr'[m][u].root = q => remotes'[m][q] = thr'[m][u].link
                        /\ \A k \in Links : <<m, k>> \in Items(rq[q]) => remotes'[m][q] = k
                        /\ kids[q][m] # None /\ life[m] => remotes'[m][q] = kids[q][m]
                        /\ remotes'[m][q] # None => Ready(m, q)' \/ ~life[q]
      BY <2>0 DEF ProgressInv
    <2>1. Ready(m, q)' <=> Ready(m, q) BY <1>3 DEF Ready
    <2>2. CASE m = n /\ q = r
      <3>1. \A k \in Places : At(n, r, k) => k = t
        BY <1>4 DEF ClusterInv, PlaceInv, Places, Threads
      <3>2. /\ ~At(n, r, "todo") /\ ~At(n, r, "note") /\ ~At(n, r, "asked") /\ ~At(n, r, "known")
            /\ \A u \in Threads : u # t => ~At(n, r, u)
        BY <3>1 DEF Places, Threads
      <3>3. \A k \in Links : <<n, k>> \notin Items(rq[r]) BY <3>2 DEF At
      <3>4. kids[r][n] = None BY <3>2 DEF At
      <3>5. \A u \in Threads : thr'[n][u].root = r => u = t BY <3>2, <1>7 DEF At
      <3>6. ~At(n, r, "todo")' /\ ~At(n, r, "note")' BY <3>2, <1>4, <1>15 DEF Places
      <3> QED BY <2>2, <2>1, <3>3, <3>4, <3>5, <3>6, <1>4, <1>7
    <2>3. CASE ~(m = n /\ q = r)
      <3>1. remotes'[m][q] = remotes[m][q] BY <2>3, <1>7
      <3>2. At(m, q, "todo")' \/ At(m, q, "note")' => remotes[m][q] = None
        BY <1>15 DEF ClusterInv, ProgressInv, Places
      <3>3. \A u \in Threads : thr'[m][u].root = q => remotes[m][q] = thr'[m][u].link
        BY <2>3, <1>7 DEF ClusterInv, ProgressInv
      <3> QED BY <2>1, <3>1, <3>2, <3>3 DEF ClusterInv, ProgressInv
    <2> QED BY <2>2, <2>3
  <1> QED BY <1>9, <1>10, <1>11, <1>12, <1>13, <1>14, <1>16, <1>17 DEF ClusterInv

\* Steps of the master that no node sees.
LEMMA NodesSame ==
    ASSUME ClusterInv,
           UNCHANGED <<life, pc, todo, notes, thr, remotes, kids, rq, link, rprop, cprop>>
    PROVE  LinkInv' /\ EntryInv' /\ QueuesInv' /\ PlaceInv' /\ ProgressInv'
  <1>1. LinkInv' BY DEF ClusterInv, LinkInv
  <1>2. EntryInv' BY DEF ClusterInv, EntryInv
  <1>3. QueuesInv' BY DEF ClusterInv, QueuesInv
  <1>4. \A m, q \in Nodes, k \in Places : At(m, q, k)' <=> At(m, q, k) BY DEF At
  <1>5. \A m, q \in Nodes : Ready(m, q)' <=> Ready(m, q) BY DEF Ready
  <1>6. PlaceInv' BY <1>4, <1>5 DEF ClusterInv, PlaceInv
  <1>7. ProgressInv' BY <1>4, <1>5 DEF ClusterInv, ProgressInv, Places
  <1> QED BY <1>1, <1>2, <1>3, <1>6, <1>7

LEMMA AddNodeStep ==
    ASSUME ClusterAssumption, ClusterInv, AddNode
    PROVE  ClusterInv'
  <1> USE DEF node, links, bounds
  <1>1. PICK n, s : n = Head(mq)[1] /\ s = Head(mq)[2] OBVIOUS
  <1>2. mq \in Seq(Nodes \X Slots) /\ mq # <<>> /\ ~NoActivity /\ OncePerName(mq)
    BY DEF AddNode, ClusterInv, ClusterTypeOK, NoActivity, QueuedInv
  <1>3. /\ Tail(mq) \in Seq(Nodes \X Slots) /\ Head(mq) \in Nodes \X Slots
        /\ Items(mq) = Items(Tail(mq)) \cup {Head(mq)}
        /\ \A m \in Items(Tail(mq)) : m[1] # Head(mq)[1]
        /\ OncePerName(Tail(mq))
    BY <1>2, TailItems
  <1>4. /\ n \in Nodes /\ s \in Slots /\ s # None
        /\ <<n, s>> \in Items(mq)
        /\ \A m \in Nodes, x \in Slots :
              <<m, x>> \in Items(Tail(mq)) => <<m, x>> \in Items(mq) /\ m # n
    BY <1>1, <1>3 DEF ClusterAssumption
  <1>5. pc[n] = "await" /\ n \notin online /\ mconn[n][s] = "open"
    BY <1>4 DEF ClusterInv, QueuedInv
  <1>6. /\ UNCHANGED <<mup, mconn, life, listening, pc, todo, notes, thr, remotes, kids, rq, link,
                       rprop, cprop, panicked, drops, mcrashes>>
        /\ mtask = None
        /\ childs' = [childs EXCEPT ![n] = s]
        /\ mprop' = mprop \cup {<<n, s>>}
        /\ online' = online \cup {n}
        /\ mtask' = <<n, s>>
        /\ mq' = Tail(mq)
    BY <1>1 DEF AddNode
  <1>7. /\ mtask' # None /\ mtask'[1] = n /\ mtask'[2] = s
        /\ \A m \in Nodes : childs'[m] = IF m = n THEN s ELSE childs[m]
    BY <1>4, <1>6 DEF ClusterAssumption, ClusterInv, ClusterTypeOK
  <1>8. ClusterTypeOK' BY <1>3, <1>4, <1>6 DEF ClusterInv, ClusterTypeOK
  <1>9. LifeInv' BY <1>6 DEF ClusterInv, LifeInv
  <1>10. QueuedInv'
    <2>1. \A m \in Nodes, x \in Slots : <<m, x>> \in Items(mq') =>
              pc[m] = "await" /\ m \notin online' /\ mconn[m][x] = "open"
      BY <1>4, <1>6 DEF ClusterInv, QueuedInv
    <2> QED BY <2>1, <1>3, <1>4, <1>5, <1>6, <1>7 DEF QueuedInv
  <1>11. TableInv'
    <2> SUFFICES ASSUME NEW m \in Nodes
                 PROVE  /\ m \in online' <=> childs'[m] # None
                        /\ m \in online' =>
                              /\ mconn[m][childs'[m]] \in {"open", "broken"}
                              /\ <<m, childs'[m]>> \in mprop'
                              /\ pc[m] \in {"off", "ready"} \/ (mtask' # None /\ mtask'[1] = m)
                        /\ pc[m] = "ready" => m \in online'
      BY <1>6 DEF TableInv
    <2>1. CASE m = n BY <2>1, <1>4, <1>5, <1>6, <1>7
    <2>2. CASE m # n BY <2>2, <1>6, <1>7 DEF ClusterInv, TableInv
    <2> QED BY <2>1, <2>2
  <1>12. MasterConnInv'
    <2>1. \A m \in Nodes, x \in Slots : mconn[m][x] # "broken" BY <1>2, Whole
    <2> QED BY <2>1, <1>6 DEF ClusterInv, MasterConnInv
  <1>13. CalmInv' BY <1>2, <1>6, CalmSame
  <1>14. LinkInv' /\ EntryInv' /\ QueuesInv' /\ PlaceInv' /\ ProgressInv' BY <1>6, NodesSame
  <1> QED BY <1>8, <1>9, <1>10, <1>11, <1>12, <1>13, <1>14 DEF ClusterInv

LEMMA MasterLostStep ==
    ASSUME ClusterAssumption, ClusterInv, NEW n \in Nodes, NEW s \in Slots, MasterLost(n, s)
    PROVE  ClusterInv'
  <1> USE DEF node, links, bounds
  <1>1. mconn[n][s] = "broken" BY DEF MasterLost
  <1>2. n \in online /\ childs[n] = s /\ ~life[n] /\ <<n, s>> \in mprop /\ pc[n] = "off"
    BY <1>1 DEF ClusterInv, MasterConnInv, TableInv, LifeInv
  <1>3. NoActivity BY <1>1 DEF ClusterInv, CalmInv, LossPending
  <1>4. /\ UNCHANGED <<mup, mprop, mq, mtask, life, listening, pc, todo, notes, thr, remotes, kids,
                       rq, link, rprop, cprop, panicked, drops, mcrashes>>
        /\ mconn' = [mconn EXCEPT ![n][s] = "closed"]
        /\ childs' = [childs EXCEPT ![n] = None]
        /\ online' = online \ {n}
    BY <1>2 DEF MasterLost
  <1>5. /\ \A m \in Nodes : childs'[m] = IF m = n THEN None ELSE childs[m]
        /\ \A m \in Nodes, x \in Slots :
              mconn'[m][x] = IF m = n /\ x = s THEN "closed" ELSE mconn[m][x]
    BY <1>4 DEF ClusterInv, ClusterTypeOK
  <1>6. ClusterTypeOK' BY <1>4 DEF ClusterInv, ClusterTypeOK
  <1>7. LifeInv' BY <1>4 DEF ClusterInv, LifeInv
  <1>8. QueuedInv'
    <2>1. mq' = <<>> /\ mtask' = None BY <1>3, <1>4 DEF NoActivity
    <2> QED BY <2>1, ItemsEmpty DEF QueuedInv
  <1>9. TableInv'
    <2> SUFFICES ASSUME NEW m \in Nodes
                 PROVE  /\ m \in online' <=> childs'[m] # None
                        /\ m \in online' =>
                              /\ mconn'[m][childs'[m]] \in {"open", "broken"}
                              /\ <<m, childs'[m]>> \in mprop
                              /\ pc[m] \in {"off", "ready"} \/ (mtask # None /\ mtask[1] = m)
                        /\ pc[m] = "ready" => m \in online'
      BY <1>4 DEF TableInv
    <2>1. CASE m = n BY <2>1, <1>2, <1>4, <1>5
    <2>2. CASE m # n
      <3>1. m \in online => childs[m] \in Slots
        <4>1. childs[m] \in Slots \cup {None} BY DEF ClusterInv, ClusterTypeOK
        <4> QED BY <4>1 DEF ClusterInv, TableInv
      <3>2. m \in online => mconn'[m][childs[m]] = mconn[m][childs[m]] BY <3>1, <2>2, <1>5
      <3> QED BY <2>2, <3>2, <1>4, <1>5 DEF ClusterInv, TableInv
    <2> QED BY <2>1, <2>2
  <1>10. MasterConnInv' BY <1>2, <1>4, <1>5 DEF ClusterInv, MasterConnInv
  <1>11. CalmInv'
    <2>1. NoActivity' BY <1>3, <1>4 DEF NoActivity
    <2> QED BY <2>1 DEF CalmInv
  <1>12. LinkInv' /\ EntryInv' /\ QueuesInv' /\ PlaceInv' /\ ProgressInv' BY <1>4, NodesSame
  <1> QED BY <1>6, <1>7, <1>8, <1>9, <1>10, <1>11, <1>12 DEF ClusterInv

LEMMA RemoteLostStep ==
    ASSUME ClusterAssumption, ClusterInv, NEW l \in Links, RemoteLost(l)
    PROVE  ClusterInv'
  <1> USE DEF master, bounds
  <1>1. PICK n, r : n = link[l].from /\ r = link[l].to OBVIOUS
  <1>2. ~link[l].up /\ link[l].cli BY DEF RemoteLost
  <1>3. /\ n \in Nodes /\ r \in Nodes /\ life[n] /\ ~life[r] /\ remotes[n][r] = l
    BY <1>1, <1>2 DEF ClusterInv, LinkInv
  <1>4. NoActivity BY <1>2 DEF ClusterInv, CalmInv, LossPending
  <1>5. \A m \in Nodes, t \in Threads : thr[m][t] = Idle BY <1>4 DEF NoActivity
  <1>6. l \in rprop /\ l # None
    BY <1>1, <1>2, <1>3, <1>5 DEF ClusterInv, LinkInv, Idle, ClusterAssumption
  <1>7. /\ UNCHANGED <<mup, online, childs, mprop, mq, mtask, mconn, life, listening, pc, todo,
                       notes, thr, kids, rq, rprop, cprop, panicked, drops, mcrashes>>
        /\ link' = [link EXCEPT ![l].cli = FALSE]
        /\ remotes' = [remotes EXCEPT ![n][r] = None]
    BY <1>1, <1>6 DEF RemoteLost
  <1>8. /\ \A k \in Links : k # l => link'[k] = link[k]
        /\ link'[l].from = n /\ link'[l].to = r /\ ~link'[l].up /\ ~link'[l].cli
        /\ link'[l].srv = link[l].srv
        /\ \A m, q \in Nodes : remotes'[m][q] = IF m = n /\ q = r THEN None ELSE remotes[m][q]
    BY <1>1, <1>2, <1>3, <1>7 DEF ClusterInv, ClusterTypeOK
  <1>9. kids[r][n] = None
    <2>1. kids[r][n] \in Links \cup {None} BY <1>3 DEF ClusterInv, ClusterTypeOK
    <2>2. kids[r][n] # None => link[kids[r][n]].srv /\ link[kids[r][n]].to = r
      BY <1>3 DEF ClusterInv, EntryInv
    <2> QED BY <2>1, <2>2, <1>3 DEF ClusterInv, LinkInv
  <1>10. ClusterTypeOK'
    <2>1. remotes' \in [Nodes -> [Nodes -> Links \cup {None}]]
      BY <1>3, <1>7 DEF ClusterInv, ClusterTypeOK
    <2>2. link \in [Links -> LinkStates] BY DEF ClusterInv, ClusterTypeOK
    <2>3. [link[l] EXCEPT !.cli = FALSE] \in LinkStates BY <2>2 DEF LinkStates
    <2>4. link' \in [Links -> LinkStates] BY <2>2, <2>3, <1>7
    <2> QED BY <2>1, <2>4, <1>7 DEF ClusterInv, ClusterTypeOK
  <1>11. LifeInv' /\ QueuedInv' /\ TableInv' /\ MasterConnInv' BY <1>7, MasterSame
  <1>12. CalmInv'
    <2>1. NoActivity' BY <1>4, <1>7 DEF NoActivity
    <2> QED BY <2>1 DEF CalmInv
  <1>13. LinkInv'
    <2> SUFFICES ASSUME NEW k \in Links
                 PROVE  /\ link'[k].up => link'[k].cli /\ link'[k].srv
                        /\ link'[k].cli =>
                              /\ link'[k].from \in Nodes /\ link'[k].to \in Nodes
                              /\ life[link'[k].from]
                              /\ remotes'[link'[k].from][link'[k].to] = k
                        /\ link'[k].srv => /\ link'[k].from \in Nodes /\ link'[k].to \in Nodes
                                           /\ life[link'[k].to]
                        /\ ~link'[k].up /\ (link'[k].cli \/ link'[k].srv) =>
                              ~life[link'[k].from] \/ ~life[link'[k].to]
                        /\ link'[k].cli /\ k \notin rprop =>
                              \E u \in Threads : /\ thr[link'[k].from][u].at = "mark"
                                                 /\ thr[link'[k].from][u].link = k
      BY <1>7 DEF LinkInv
    <2>1. CASE k = l BY <2>1, <1>1, <1>3, <1>8 DEF ClusterInv, LinkInv
    <2>2. CASE k # l
      <3>1. link'[k] = link[k] BY <2>2, <1>8
      <3>2. link[k].cli => remotes'[link[k].from][link[k].to] = k
        BY <2>2, <1>3, <1>8 DEF ClusterInv, LinkInv
      <3> QED BY <3>1, <3>2 DEF ClusterInv, LinkInv
    <2> QED BY <2>1, <2>2
  <1>14. EntryInv'
    <2> SUFFICES ASSUME NEW m \in Nodes, NEW q \in Nodes
                 PROVE  /\ remotes'[m][q] # None =>
                              /\ link'[remotes'[m][q]].from = m /\ link'[remotes'[m][q]].to = q
                              /\ link'[remotes'[m][q]].cli
                        /\ kids[q][m] # None =>
                              /\ link'[kids[q][m]].from = m /\ link'[kids[q][m]].to = q
                              /\ link'[kids[q][m]].srv
                              /\ kids[q][m] \in cprop
      BY <1>7 DEF EntryInv
    <2>1. kids[q][m] # None => /\ link'[kids[q][m]].from = link[kids[q][m]].from
                               /\ link'[kids[q][m]].to = link[kids[q][m]].to
                               /\ link'[kids[q][m]].srv = link[kids[q][m]].srv
      <3>1. kids[q][m] \in Links \cup {None} BY DEF ClusterInv, ClusterTypeOK
      <3> QED BY <3>1, <1>1, <1>8
    <2>2. remotes'[m][q] # None => /\ remotes'[m][q] = remotes[m][q]
                                   /\ link'[remotes[m][q]] = link[remotes[m][q]]
      BY <1>1, <1>8 DEF ClusterInv, ClusterTypeOK, EntryInv
    <2> QED BY <2>1, <2>2 DEF ClusterInv, EntryInv
  <1>15. QueuesInv' BY <1>7 DEF ClusterInv, QueuesInv
  <1>16. \A m, q \in Nodes, k \in Places : At(m, q, k)' <=> At(m, q, k) BY <1>7 DEF At
  <1>17. PlaceInv' BY <1>7, <1>16 DEF ClusterInv, PlaceInv, Ready
  <1>18. ProgressInv'
    <2>0. thr' = thr /\ kids' = kids /\ rq' = rq /\ life' = life BY <1>7
    <2> SUFFICES ASSUME NEW m \in Nodes, NEW q \in Nodes
                 PROVE  /\ At(m, q, "todo")' \/ At(m, q, "note")' => remotes'[m][q] = None
                        /\ \A u \in Threads : thr[m][u].root = q => remotes'[m][q] = thr[m][u].link
                        /\ \A k \in Links : <<m, k>> \in Items(rq[q]) => remotes'[m][q] = k
                        /\ kids[q][m] # None /\ life[m] => remotes'[m][q] = kids[q][m]
                        /\ remotes'[m][q] # None => Ready(m, q)' \/ ~life[q]
      BY <2>0 DEF ProgressInv
    <2>1. /\ ~At(m, q, "todo")' /\ ~At(m, q, "note")'
          /\ \A u \in Threads : thr[m][u].root # q
          /\ Items(rq[q]) = {}
      <3>1. todo[m] = {} /\ notes[m] = <<>> /\ rq[q] = <<>> BY <1>4 DEF NoActivity
      <3>2. ~At(m, q, "todo") /\ ~At(m, q, "note") BY <3>1, ItemsEmpty DEF At, Threads
      <3> QED BY <3>1, <3>2, <1>5, <1>16, ItemsEmpty DEF Idle, ClusterAssumption, Places
    <2>2. Ready(m, q)' <=> Ready(m, q) BY <1>7 DEF Ready
    <2>3. CASE m = n /\ q = r BY <2>1, <2>3, <1>8, <1>9
    <2>4. CASE ~(m = n /\ q = r) BY <2>1, <2>2, <2>4, <1>8 DEF ClusterInv, ProgressInv
    <2> QED BY <2>3, <2>4
  <1> QED BY <1>10, <1>11, <1>12, <1>13, <1>14, <1>15, <1>17, <1>18 DEF ClusterInv

LEMMA ChildLostStep ==
    ASSUME ClusterAssumption, ClusterInv, NEW l \in Links, ChildLost(l)
    PROVE  ClusterInv'
  <1> USE DEF master, bounds
  <1>1. PICK n, r : n = link[l].from /\ r = link[l].to OBVIOUS
  <1>2. ~link[l].up /\ link[l].srv BY DEF ChildLost
  <1>3. n \in Nodes /\ r \in Nodes /\ life[r] /\ ~life[n] /\ ~link[l].cli
    BY <1>1, <1>2 DEF ClusterInv, LinkInv
  <1>4. NoActivity BY <1>2 DEF ClusterInv, CalmInv, LossPending
  <1>5. /\ UNCHANGED <<mup, online, childs, mprop, mq, mtask, mconn, life, listening, pc, todo,
                       notes, thr, remotes, rq, rprop, cprop, panicked, drops, mcrashes>>
        /\ link' = [link EXCEPT ![l].srv = FALSE]
        /\ kids' = IF l \in cprop THEN [kids EXCEPT ![r][n] = None] ELSE kids
    BY <1>1 DEF ChildLost
  <1>6. /\ \A k \in Links : k # l => link'[k] = link[k]
        /\ link'[l].from = n /\ link'[l].to = r
        /\ ~link'[l].up /\ ~link'[l].srv /\ ~link'[l].cli
    BY <1>1, <1>2, <1>3, <1>5 DEF ClusterInv, ClusterTypeOK
  <1>7. \A m, q \in Nodes :
            kids'[q][m] # None => kids'[q][m] = kids[q][m] /\ (m = n /\ q = r => l \notin cprop)
    BY <1>3, <1>5 DEF ClusterInv, ClusterTypeOK
  <1>8. \A m, q \in Nodes : m # n \/ q # r => kids'[q][m] = kids[q][m]
    BY <1>3, <1>5 DEF ClusterInv, ClusterTypeOK
  <1>9. ClusterTypeOK'
    <2>1. kids' \in [Nodes -> [Nodes -> Links \cup {None}]]
      BY <1>3, <1>5 DEF ClusterInv, ClusterTypeOK
    <2>2. link \in [Links -> LinkStates] BY DEF ClusterInv, ClusterTypeOK
    <2>3. [link[l] EXCEPT !.srv = FALSE] \in LinkStates BY <2>2 DEF LinkStates
    <2>4. link' \in [Links -> LinkStates] BY <2>2, <2>3, <1>5
    <2> QED BY <2>1, <2>4, <1>5 DEF ClusterInv, ClusterTypeOK
  <1>10. LifeInv' /\ QueuedInv' /\ TableInv' /\ MasterConnInv' BY <1>5, MasterSame
  <1>11. CalmInv'
    <2>1. NoActivity' BY <1>4, <1>5 DEF NoActivity
    <2> QED BY <2>1 DEF CalmInv
  <1>12. LinkInv'
    <2>1. \A k \in Links : k # l => link'[k] = link[k] BY <1>6
    <2> QED BY <2>1, <1>5, <1>6 DEF ClusterInv, LinkInv
  <1>13. EntryInv'
    <2> SUFFICES ASSUME NEW m \in Nodes, NEW q \in Nodes
                 PROVE  /\ remotes[m][q] # None =>
                              /\ link'[remotes[m][q]].from = m /\ link'[remotes[m][q]].to = q
                              /\ link'[remotes[m][q]].cli
                        /\ kids'[q][m] # None =>
                              /\ link'[kids'[q][m]].from = m /\ link'[kids'[q][m]].to = q
                              /\ link'[kids'[q][m]].srv
                              /\ kids'[q][m] \in cprop
      BY <1>5 DEF EntryInv
    <2>1. remotes[m][q] # None => link'[remotes[m][q]] = link[remotes[m][q]]
      BY <1>3, <1>6 DEF ClusterInv, ClusterTypeOK, EntryInv
    <2>2. kids'[q][m] # None => /\ kids'[q][m] = kids[q][m]
                                /\ link'[kids[q][m]] = link[kids[q][m]]
      BY <1>1, <1>6, <1>7 DEF ClusterInv, ClusterTypeOK, EntryInv
    <2> QED BY <2>1, <2>2 DEF ClusterInv, EntryInv
  <1>14. QueuesInv' BY <1>5 DEF ClusterInv, QueuesInv
  <1>15. \A m, q \in Nodes, k \in Places : /\ At(m, q, k)' => At(m, q, k)
                                           /\ m # n \/ q # r => (At(m, q, k) => At(m, q, k)')
    <2> SUFFICES ASSUME NEW m \in Nodes, NEW q \in Nodes, NEW k \in Places
                 PROVE  /\ At(m, q, k)' => At(m, q, k)
                        /\ m # n \/ q # r => (At(m, q, k) => At(m, q, k)')
      OBVIOUS
    <2>1. CASE k = "known" BY <2>1, <1>7, <1>8 DEF At, Threads
    <2>2. CASE k # "known" BY <2>2, <1>5 DEF At
    <2> QED BY <2>1, <2>2
  <1>16. PlaceInv'
    <2>1. ~Ready(n, r) BY <1>3 DEF Ready, ClusterInv, LifeInv
    <2>2. \A m, q \in Nodes : Ready(m, q)' <=> Ready(m, q) BY <1>5 DEF Ready
    <2> QED BY <2>1, <2>2, <1>5, <1>15 DEF ClusterInv, PlaceInv
  <1>17. ProgressInv'
    <2>0. thr' = thr /\ remotes' = remotes /\ rq' = rq /\ life' = life BY <1>5
    <2>1. \A m, q \in Nodes : /\ Ready(m, q)' <=> Ready(m, q)
                              /\ At(m, q, "todo")' => At(m, q, "todo")
                              /\ At(m, q, "note")' => At(m, q, "note")
      BY <1>5, <1>15 DEF Ready, Places
    <2> QED BY <2>0, <2>1, <1>7 DEF ClusterInv, ProgressInv
  <1> QED BY <1>9, <1>10, <1>11, <1>12, <1>13, <1>14, <1>16, <1>17 DEF ClusterInv

LEMMA TakeProxyStep ==
    ASSUME ClusterAssumption, ClusterInv, TakeProxy
    PROVE  ClusterInv'
  <1> USE DEF links, bounds
  <1>1. PICK n, s : n = mtask[1] /\ s = mtask[2] OBVIOUS
  <1>2. /\ n \in Nodes /\ s \in Slots /\ ~NoActivity
        /\ pc[n] = "await" /\ n \in online /\ childs[n] = s /\ mconn[n][s] = "open"
        /\ n \notin Remotes[n] /\ life[n]
    BY <1>1 DEF TakeProxy, ClusterInv, ClusterTypeOK, QueuedInv, LifeInv, NoActivity, ClusterAssumption
  <1> DEFINE roots == Remotes[n] \cap online
             told == {c \in Nodes : /\ childs[c] # None
                                    /\ n \in Remotes[c]
                                    /\ mconn[c][childs[c]] = "open"}
  <1>3. /\ UNCHANGED <<mup, online, childs, mprop, mq, mconn, life, listening, thr, remotes, kids,
                       rq, link, rprop, cprop, panicked, drops, mcrashes>>
        /\ mtask # None /\ mtask' = None
        /\ todo' = [todo EXCEPT ![n] = roots]
        /\ pc' = [pc EXCEPT ![n] = "ready"]
        /\ notes' = [c \in Nodes |-> IF c \in told THEN Append(notes[c], n) ELSE notes[c]]
    BY <1>1, <1>2 DEF TakeProxy
  <1>4. \A m \in Nodes : m # n => (m \in online <=> pc[m] = "ready")
    <2> SUFFICES ASSUME NEW m \in Nodes, m # n, m \in online PROVE pc[m] = "ready"
      BY DEF ClusterInv, TableInv
    <2>1. childs[m] \in Slots /\ mconn[m][childs[m]] \in {"open", "broken"} /\ pc[m] \in {"off", "ready"}
      <3>1. childs[m] \in Slots \cup {None} BY DEF ClusterInv, ClusterTypeOK
      <3> QED BY <3>1, <1>1 DEF ClusterInv, TableInv
    <2>2. mconn[m][childs[m]] = "open" BY <2>1, <1>2, Whole
    <2>3. life[m] BY <2>1, <2>2 DEF ClusterInv, MasterConnInv
    <2> QED BY <2>1, <2>3 DEF ClusterInv, LifeInv
  <1>5. roots = {q \in Nodes : q \in Remotes[n] /\ pc[q] = "ready"}
    <2>1. Remotes[n] \subseteq Nodes BY <1>2 DEF ClusterAssumption
    <2> QED BY <2>1, <1>2, <1>4
  <1>6. told = {c \in Nodes : n \in Remotes[c] /\ pc[c] = "ready"}
    <2> SUFFICES ASSUME NEW c \in Nodes, n \in Remotes[c]
                 PROVE  (childs[c] # None /\ mconn[c][childs[c]] = "open") <=> pc[c] = "ready"
      OBVIOUS
    <2>1. c # n BY <1>2
    <2>2. childs[c] # None <=> pc[c] = "ready" BY <2>1, <1>4 DEF ClusterInv, TableInv
    <2>3. childs[c] \in Slots \cup {None} BY DEF ClusterInv, ClusterTypeOK
    <2>4. childs[c] # None => mconn[c][childs[c]] = "open"
      <3>1. childs[c] # None => childs[c] \in Slots /\ mconn[c][childs[c]] \in {"open", "broken"}
        BY <2>3 DEF ClusterInv, TableInv
      <3>2. \A x \in Slots : mconn[c][x] # "broken" BY <1>2, Whole
      <3> QED BY <3>1, <3>2
    <2> QED BY <2>2, <2>4
  <1> HIDE DEF roots, told
  <1>7. \A m, q \in Nodes : m = n \/ q = n =>
            ~Ready(m, q) /\ (life[m] => \A k \in Places : ~At(m, q, k))
    BY <1>2 DEF Ready, ClusterInv, PlaceInv
  <1>8. \A m \in Nodes : m # n => pc'[m] = pc[m] /\ todo'[m] = todo[m]
    BY <1>2, <1>3 DEF ClusterInv, ClusterTypeOK
  <1>9. pc'[n] = "ready" /\ todo'[n] = roots BY <1>2, <1>3 DEF ClusterInv, ClusterTypeOK
  <1>10. \A c \in told : c \in Nodes /\ life[c] /\ n \notin Items(notes[c])
    <2> SUFFICES ASSUME NEW c \in told PROVE c \in Nodes /\ life[c] /\ n \notin Items(notes[c])
      OBVIOUS
    <2>1. c \in Nodes /\ life[c] BY <1>6 DEF ClusterInv, LifeInv
    <2>2. ~At(c, n, "note") BY <2>1, <1>2, <1>7 DEF Places
    <2> QED BY <2>1, <2>2 DEF At
  <1>11. \A c \in Nodes :
             /\ notes'[c] \in Seq(Nodes) /\ Once(notes'[c])
             /\ Items(notes'[c]) = Items(notes[c]) \cup (IF c \in told THEN {n} ELSE {})
    <2> SUFFICES ASSUME NEW c \in Nodes
                 PROVE  /\ notes'[c] \in Seq(Nodes) /\ Once(notes'[c])
                        /\ Items(notes'[c]) = Items(notes[c]) \cup (IF c \in told THEN {n} ELSE {})
      OBVIOUS
    <2>1. notes[c] \in Seq(Nodes) /\ Once(notes[c]) BY DEF ClusterInv, ClusterTypeOK, QueuesInv
    <2>2. CASE c \in told
      <3>1. /\ Append(notes[c], n) \in Seq(Nodes)
            /\ Items(Append(notes[c], n)) = Items(notes[c]) \cup {n}
            /\ Once(Append(notes[c], n))
        BY <2>1, <2>2, <1>2, <1>10, AppendItems
      <3> QED BY <3>1, <2>2, <1>3
    <2>3. CASE c \notin told BY <2>1, <2>3, <1>3
    <2> QED BY <2>2, <2>3
  <1>12. ClusterTypeOK'
    <2>1. todo' \in [Nodes -> SUBSET Nodes] BY <1>3, <1>5 DEF ClusterInv, ClusterTypeOK
    <2>2. pc' \in [Nodes -> {"off", "await", "ready"}] BY <1>3 DEF ClusterInv, ClusterTypeOK
    <2>3. notes' \in [Nodes -> Seq(Nodes)] BY <1>3, <1>11
    <2> QED BY <2>1, <2>2, <2>3, <1>3 DEF ClusterInv, ClusterTypeOK
  <1>13. LifeInv' BY <1>2, <1>3, <1>8, <1>9 DEF ClusterInv, LifeInv
  <1>14. QueuedInv' BY <1>2, <1>3, <1>8 DEF ClusterInv, QueuedInv
  <1>15. TableInv'
    <2>1. \A m \in Nodes : m \in online => pc'[m] = "ready" BY <1>4, <1>8, <1>9
    <2>2. \A m \in Nodes : pc'[m] = "ready" => m \in online BY <1>2, <1>4, <1>8
    <2> QED BY <2>1, <2>2, <1>3 DEF ClusterInv, TableInv
  <1>16. MasterConnInv' BY <1>3 DEF ClusterInv, MasterConnInv
  <1>17. CalmInv' BY <1>2, <1>3, CalmSame
  <1>18. LinkInv' BY <1>3 DEF ClusterInv, LinkInv
  <1>19. EntryInv' BY <1>3 DEF ClusterInv, EntryInv
  <1>20. QueuesInv' BY <1>3, <1>11 DEF ClusterInv, QueuesInv
  <1>21. \A m, q \in Nodes, k \in Places :
             At(m, q, k)' <=> \/ At(m, q, k)
                              \/ k = "todo" /\ m = n /\ q \in roots
                              \/ k = "note" /\ q = n /\ m \in told
    <2> SUFFICES ASSUME NEW m \in Nodes, NEW q \in Nodes, NEW k \in Places
                 PROVE  At(m, q, k)' <=> \/ At(m, q, k)
                                         \/ k = "todo" /\ m = n /\ q \in roots
                                         \/ k = "note" /\ q = n /\ m \in told
      OBVIOUS
    <2>1. CASE k = "todo"
      <3>1. At(n, q, "todo") => FALSE BY <1>2, <1>7 DEF Places
      <3> QED BY <2>1, <3>1, <1>8, <1>9 DEF At, Threads
    <2>2. CASE k = "note" BY <2>2, <1>11 DEF At, Threads
    <2>3. CASE k \notin {"todo", "note"} BY <2>3, <1>3 DEF At
    <2> QED BY <2>1, <2>2, <2>3
  <1>22. \A m, q \in Nodes :
             Ready(m, q)' <=> Ready(m, q) \/ (m = n /\ q \in roots) \/ (q = n /\ m \in told)
    BY <1>2, <1>5, <1>6, <1>8, <1>9 DEF Ready
  <1>23. \A q \in roots : q # n /\ q \in Nodes /\ life[q]
    BY <1>2, <1>5 DEF ClusterInv, LifeInv
  <1>24. n \notin told BY <1>2, <1>6
  <1>25. PlaceInv'
    <2> SUFFICES ASSUME NEW m \in Nodes, NEW q \in Nodes
                 PROVE  /\ \A i, p \in Places : At(m, q, i)' /\ At(m, q, p)' => i = p
                        /\ Ready(m, q)' => \E p \in Places : At(m, q, p)'
                        /\ ~Ready(m, q)' => \A p \in Places : At(m, q, p)' => p = "known" /\ ~life[m]
      BY <1>3 DEF PlaceInv
    <2>1. CASE m = n /\ q \in roots
      <3>1. \A k \in Places : At(m, q, k)' <=> k = "todo"
        BY <2>1, <1>2, <1>7, <1>21, <1>23
      <3> QED BY <2>1, <3>1, <1>22 DEF Places
    <2>2. CASE q = n /\ m \in told
      <3>1. \A k \in Places : At(m, q, k)' <=> k = "note"
        BY <2>2, <1>7, <1>10, <1>21, <1>24
      <3> QED BY <2>2, <3>1, <1>22 DEF Places
    <2>3. CASE ~(m = n /\ q \in roots) /\ ~(q = n /\ m \in told)
      BY <2>3, <1>21, <1>22 DEF ClusterInv, PlaceInv
    <2> QED BY <2>1, <2>2, <2>3
  <1>26. ProgressInv'
    <2>0. thr' = thr /\ remotes' = remotes /\ kids' = kids /\ rq' = rq /\ life' = life BY <1>3
    <2> SUFFICES ASSUME NEW m \in Nodes, NEW q \in Nodes
                 PROVE  /\ At(m, q, "todo")' \/ At(m, q, "note")' => remotes[m][q] = None
                        /\ Ready(m, q) => Ready(m, q)'
      BY <2>0 DEF ClusterInv, ProgressInv
    <2>1. Ready(m, q) => Ready(m, q)' BY <1>22
    <2>2. CASE At(m, q, "todo") \/ At(m, q, "note")
      BY <2>1, <2>2 DEF ClusterInv, ProgressInv
    <2>3. CASE ~At(m, q, "todo") /\ ~At(m, q, "note")
      <3> SUFFICES ASSUME At(m, q, "todo")' \/ At(m, q, "note")' PROVE remotes[m][q] = None
        BY <2>1
      <3>1. (m = n /\ q \in roots) \/ (q = n /\ m \in told) BY <2>3, <1>21 DEF Places
      <3>2. ~Ready(m, q) /\ life[q] BY <3>1, <1>2, <1>7, <1>23
      <3> QED BY <3>2 DEF ClusterInv, ProgressInv
    <2> QED BY <2>2, <2>3
  <1> QED BY <1>12, <1>13, <1>14, <1>15, <1>16, <1>17, <1>18, <1>19, <1>20, <1>25, <1>26 DEF ClusterInv

LEMMA StartStep ==
    ASSUME ClusterAssumption, Steady, ClusterInv, NEW n \in Nodes, Start(n)
    PROVE  ClusterInv'
  <1> USE DEF links, bounds
  <1>1. PICK s : s = CHOOSE x \in FreeSlots(n) : TRUE OBVIOUS
  <1>2. ~life[n] /\ ~LossPending /\ s \in FreeSlots(n) /\ s \in Slots
    BY <1>1 DEF Start, Register, Steady, FreeSlots
  <1>3. /\ \A l \in Links : link[l].cli \/ link[l].srv => link[l].up
        /\ \A m \in Nodes, x \in Slots : mconn[m][x] \notin {"broken", "cut"}
    BY <1>2 DEF LossPending
  <1>4. /\ UNCHANGED <<mup, online, childs, mtask, todo, notes, thr, remotes, kids, rq, link, rprop,
                       cprop, panicked, drops, mcrashes>>
        /\ mq' = Append(mq, <<n, s>>)
        /\ mprop' = mprop \ {<<n, s>>}
        /\ mconn' = [mconn EXCEPT ![n] = [x \in Slots |-> IF x = s THEN "open"
                                                          ELSE IF mconn[n][x] = "cut" THEN "closed"
                                                          ELSE mconn[n][x]]]
        /\ life' = [life EXCEPT ![n] = TRUE]
        /\ listening' = listening \cup {n}
        /\ pc' = [pc EXCEPT ![n] = "await"]
    BY <1>1 DEF Start, Register, Steady
  <1>5. /\ \A m \in Nodes, x \in Slots :
              mconn'[m][x] = IF m = n /\ x = s THEN "open" ELSE mconn[m][x]
        /\ \A m \in Nodes : /\ life'[m] <=> m = n \/ life[m]
                            /\ pc'[m] = IF m = n THEN "await" ELSE pc[m]
    BY <1>2, <1>3, <1>4 DEF ClusterInv, ClusterTypeOK
  <1>6. pc[n] = "off" BY <1>2 DEF ClusterInv, LifeInv
  <1>7. n \notin online
    <2>1. childs[n] \in Slots \cup {None} BY DEF ClusterInv, ClusterTypeOK
    <2>2. \A x \in Slots : mconn[n][x] \notin {"open", "broken"}
      BY <1>2, <1>3 DEF ClusterInv, MasterConnInv
    <2> QED BY <2>1, <2>2 DEF ClusterInv, TableInv
  <1>8. /\ Append(mq, <<n, s>>) \in Seq(Nodes \X Slots)
        /\ Items(mq') = Items(mq) \cup {<<n, s>>}
        /\ OncePerName(mq')
        /\ \A m \in Nodes, x \in Slots : <<m, x>> \in Items(mq) => m # n
    <2>1. mq \in Seq(Nodes \X Slots) /\ <<n, s>> \in Nodes \X Slots /\ OncePerName(mq)
      BY <1>2 DEF ClusterInv, ClusterTypeOK, QueuedInv
    <2>2. \A m \in Nodes, x \in Slots : <<m, x>> \in Items(mq) => m # n
      BY <1>6 DEF ClusterInv, QueuedInv
    <2>3. Items(mq) \subseteq Nodes \X Slots BY <2>1 DEF Items
    <2>4. \A p \in Items(mq) : p[1] # <<n, s>>[1] BY <2>2, <2>3
    <2> QED BY <2>1, <2>2, <2>4, <1>4, AppendItems, ZenonT(40)
  <1>9. ClusterTypeOK'
    <2>1. mconn' \in [Nodes -> [Slots -> {"unused", "open", "broken", "closed"}]]
      BY <1>4 DEF ClusterInv, ClusterTypeOK
    <2>2. life' \in [Nodes -> BOOLEAN] /\ pc' \in [Nodes -> {"off", "await", "ready"}]
      BY <1>4 DEF ClusterInv, ClusterTypeOK
    <2>3. mprop' \in SUBSET (Nodes \X Slots) /\ listening' \in SUBSET Nodes
      BY <1>4 DEF ClusterInv, ClusterTypeOK
    <2> QED BY <2>1, <2>2, <2>3, <1>4, <1>8 DEF ClusterInv, ClusterTypeOK
  <1>10. LifeInv' BY <1>4, <1>5 DEF ClusterInv, LifeInv
  <1>11. QueuedInv'
    <2>1. mtask # None => mtask[1] # n BY <1>7 DEF ClusterInv, QueuedInv
    <2>2. mtask # None => mtask[1] \in Nodes /\ mtask[2] \in Slots BY DEF ClusterInv, ClusterTypeOK
    <2>3. mtask # None => /\ pc'[mtask[1]] = "await"
                          /\ mconn'[mtask[1]][mtask[2]] = "open"
      BY <2>1, <2>2, <1>5 DEF ClusterInv, QueuedInv
    <2>4. \A m \in Nodes, x \in Slots : <<m, x>> \in Items(mq') =>
              pc'[m] = "await" /\ m \notin online /\ mconn'[m][x] = "open"
      <3> SUFFICES ASSUME NEW m \in Nodes, NEW x \in Slots, <<m, x>> \in Items(mq')
                   PROVE  pc'[m] = "await" /\ m \notin online /\ mconn'[m][x] = "open"
        OBVIOUS
      <3>1. CASE m = n
        <4>1. x = s BY <3>1, <1>8
        <4> QED BY <3>1, <4>1, <1>5, <1>7
      <3>2. CASE m # n BY <3>2, <1>5, <1>8 DEF ClusterInv, QueuedInv
      <3> QED BY <3>1, <3>2
    <2>5. mtask # None => mtask[1] \in online /\ childs[mtask[1]] = mtask[2]
      BY DEF ClusterInv, QueuedInv
    <2>6. mtask' = mtask /\ online' = online /\ childs' = childs BY <1>4
    <2> QED BY <2>3, <2>4, <2>5, <2>6, <1>8 DEF QueuedInv
  <1>12. TableInv'
    <2> SUFFICES ASSUME NEW m \in Nodes
                 PROVE  /\ m \in online => /\ mconn'[m][childs[m]] \in {"open", "broken"}
                                           /\ <<m, childs[m]>> \in mprop'
                                           /\ pc'[m] \in {"off", "ready"} \/ (mtask # None /\ mtask[1] = m)
                        /\ pc'[m] = "ready" => m \in online
      BY <1>4 DEF ClusterInv, TableInv
    <2>1. CASE m = n BY <2>1, <1>5, <1>7
    <2>2. CASE m # n
      <3>1. childs[m] \in Slots \cup {None} BY DEF ClusterInv, ClusterTypeOK
      <3>2. m \in online => mconn'[m][childs[m]] = mconn[m][childs[m]]
        <4>1. m \in online => childs[m] \in Slots BY <3>1 DEF ClusterInv, TableInv
        <4> QED BY <4>1, <2>2, <1>5
      <3>3. m \in online => <<m, childs[m]>> \in mprop'
        BY <2>2, <1>4 DEF ClusterInv, TableInv
      <3> QED BY <2>2, <3>2, <3>3, <1>5 DEF ClusterInv, TableInv
    <2> QED BY <2>1, <2>2
  <1>13. MasterConnInv'
    <2> SUFFICES ASSUME NEW m \in Nodes, NEW x \in Slots
                 PROVE  /\ mconn'[m][x] # "broken"
                        /\ mconn'[m][x] = "open" =>
                              /\ life'[m]
                              /\ \A y \in Slots : mconn'[m][y] = "open" => y = x
      BY DEF MasterConnInv
    <2>1. CASE m = n
      <3>1. \A y \in Slots : mconn[n][y] # "open" BY <1>2 DEF ClusterInv, MasterConnInv
      <3> QED BY <2>1, <3>1, <1>3, <1>5
    <2>2. CASE m # n BY <2>2, <1>3, <1>5 DEF ClusterInv, MasterConnInv
    <2> QED BY <2>1, <2>2
  <1>14. CalmInv'
    <2>1. \A m \in Nodes, x \in Slots : mconn'[m][x] \notin {"broken", "cut"} BY <1>3, <1>5
    <2> QED BY <2>1, <1>3, <1>4 DEF CalmInv, LossPending
  <1>15. LinkInv' BY <1>3, <1>4, <1>5 DEF ClusterInv, LinkInv
  <1>16. EntryInv' BY <1>4 DEF ClusterInv, EntryInv
  <1>17. QueuesInv' BY <1>4 DEF ClusterInv, QueuesInv
  <1>18. \A m, q \in Nodes, k \in Places : At(m, q, k)' <=> At(m, q, k) BY <1>4 DEF At
  <1>19. \A m, q \in Nodes : Ready(m, q)' <=> Ready(m, q) BY <1>5, <1>6 DEF Ready
  <1>20. \A q \in Nodes : kids[q][n] = None /\ remotes[q][n] = None
    <2> SUFFICES ASSUME NEW q \in Nodes PROVE kids[q][n] = None /\ remotes[q][n] = None
      OBVIOUS
    <2>1. kids[q][n] \in Links \cup {None} /\ remotes[q][n] \in Links \cup {None}
      BY DEF ClusterInv, ClusterTypeOK
    <2>2. kids[q][n] # None => link[kids[q][n]].srv /\ link[kids[q][n]].from = n
      BY DEF ClusterInv, EntryInv
    <2>3. remotes[q][n] # None => link[remotes[q][n]].cli /\ link[remotes[q][n]].to = n
      BY DEF ClusterInv, EntryInv
    <2> QED BY <2>1, <2>2, <2>3, <1>2, <1>3 DEF ClusterInv, LinkInv
  <1>21. PlaceInv'
    <2>1. \A q \in Nodes, k \in Places : ~At(n, q, k)
      <3> SUFFICES ASSUME NEW q \in Nodes, NEW k \in Places, At(n, q, k) PROVE FALSE OBVIOUS
      <3>1. ~Ready(n, q) BY <1>6 DEF Ready
      <3>2. k = "known" BY <3>1 DEF ClusterInv, PlaceInv
      <3> QED BY <3>2, <1>20 DEF At, Threads
    <2> QED BY <2>1, <1>5, <1>18, <1>19 DEF ClusterInv, PlaceInv
  <1>22. ProgressInv'
    <2>0. thr' = thr /\ remotes' = remotes /\ kids' = kids /\ rq' = rq BY <1>4
    <2>1. \A m, q \in Nodes : /\ Ready(m, q)' <=> Ready(m, q)
                              /\ At(m, q, "todo")' => At(m, q, "todo")
                              /\ At(m, q, "note")' => At(m, q, "note")
      BY <1>18, <1>19 DEF Places
    <2> QED BY <2>0, <2>1, <1>5, <1>20 DEF ClusterInv, ProgressInv
  <1> QED BY <1>9, <1>10, <1>11, <1>12, <1>13, <1>14, <1>15, <1>16, <1>17, <1>21, <1>22 DEF ClusterInv

LEMMA CrashStep ==
    ASSUME ClusterAssumption, Steady, ClusterInv, NEW n \in Nodes, Crash(n)
    PROVE  ClusterInv'
  <1>1. Quiet /\ life[n] /\ Die(n) /\ UNCHANGED <<panicked, starts, drops, mcrashes>>
    BY DEF Crash, Steady
  <1>2. /\ mq = <<>> /\ mtask = None /\ ~LossPending
        /\ \A m \in Nodes : /\ pc[m] \in {"off", "ready"} /\ todo[m] = {} /\ notes[m] = <<>>
                            /\ rq[m] = <<>>
                            /\ \A t \in Threads : thr[m][t] = Idle
    BY <1>1 DEF Quiet
  <1>3. /\ \A l \in Links : link[l].cli \/ link[l].srv => link[l].up
        /\ \A m \in Nodes, x \in Slots : mconn[m][x] \notin {"broken", "cut"}
    BY <1>2 DEF LossPending
  <1>4. /\ mq' = <<>>
        /\ \A m \in Nodes : rq'[m] = <<>>
        /\ rq' \in [Nodes -> Seq(Nodes \X Links)]
    <2>1. PICK lost \in BOOLEAN :
            /\ mq' = IF lost THEN Without(mq, n) ELSE mq
            /\ rq' = [r \in Nodes |-> IF r = n THEN <<>>
                                      ELSE IF lost THEN Without(rq[r], n) ELSE rq[r]]
      BY <1>1 DEF Die
    <2>2. mq' = <<>> BY <2>1, <1>2, WithoutEmpty
    <2>3. \A m \in Nodes : rq'[m] = <<>> BY <2>1, <1>2, WithoutEmpty
    <2>4. <<>> \in Seq(Nodes \X Links) OBVIOUS
    <2>5. rq' \in [Nodes -> Seq(Nodes \X Links)] BY <2>1, <2>3, <2>4
    <2> QED BY <2>2, <2>3, <2>5
  <1>5. /\ UNCHANGED <<mup, online, childs, mprop, mtask, rprop, cprop, panicked, drops, mcrashes>>
        /\ life' = [life EXCEPT ![n] = FALSE]
        /\ listening' = listening \ {n}
        /\ pc' = [pc EXCEPT ![n] = "off"]
        /\ todo' = [todo EXCEPT ![n] = {}]
        /\ notes' = [notes EXCEPT ![n] = <<>>]
        /\ thr' = [thr EXCEPT ![n] = [t \in Threads |-> Idle]]
        /\ remotes' = [remotes EXCEPT ![n] = [r \in Nodes |-> None]]
        /\ kids' = [kids EXCEPT ![n] = [c \in Nodes |-> None]]
    BY <1>1 DEF Die
  <1>6. link' = [l \in Links |->
                  IF n \notin {link[l].from, link[l].to} THEN link[l]
                  ELSE [link[l] EXCEPT !.up = FALSE,
                                       !.cli = @ /\ link[l].from # n,
                                       !.srv = @ /\ link[l].to # n]]
    BY <1>1 DEF Die
  <1>7. mconn' = [mconn EXCEPT ![n] =
                    [s \in Slots |-> CASE mconn[n][s] = "open" -> "broken"
                                       [] mconn[n][s] = "cut" -> "closed"
                                       [] OTHER -> mconn[n][s]]]
    BY <1>1 DEF Die
  <1>8. \A l \in Links : /\ link'[l].from = link[l].from /\ link'[l].to = link[l].to
                         /\ link'[l].up <=> link[l].up /\ n \notin {link[l].from, link[l].to}
                         /\ link'[l].cli <=> link[l].cli /\ link[l].from # n
                         /\ link'[l].srv <=> link[l].srv /\ link[l].to # n
                         /\ link'[l] \in LinkStates
    <2> SUFFICES ASSUME NEW l \in Links
                 PROVE  /\ link'[l].from = link[l].from /\ link'[l].to = link[l].to
                        /\ link'[l].up <=> link[l].up /\ n \notin {link[l].from, link[l].to}
                        /\ link'[l].cli <=> link[l].cli /\ link[l].from # n
                        /\ link'[l].srv <=> link[l].srv /\ link[l].to # n
                        /\ link'[l] \in LinkStates
      OBVIOUS
    <2>1. link[l] \in LinkStates BY DEF ClusterInv, ClusterTypeOK
    <2>2. CASE n \notin {link[l].from, link[l].to}
      <3>1. link'[l] = link[l] BY <2>2, <1>6
      <3> QED BY <2>1, <2>2, <3>1
    <2>3. CASE n \in {link[l].from, link[l].to}
      <3>1. link'[l] = [from |-> link[l].from, to |-> link[l].to, up |-> FALSE,
                        cli |-> link[l].cli /\ link[l].from # n,
                        srv |-> link[l].srv /\ link[l].to # n]
        BY <2>1, <2>3, <1>6 DEF LinkStates
      <3>2. /\ link'[l].from = link[l].from /\ link'[l].to = link[l].to /\ ~link'[l].up
            /\ link'[l].cli <=> link[l].cli /\ link[l].from # n
            /\ link'[l].srv <=> link[l].srv /\ link[l].to # n
        <4>1. link'[l].from = link[l].from /\ link'[l].to = link[l].to /\ link'[l].up = FALSE
          BY <3>1
        <4>2. link'[l].cli = (link[l].cli /\ link[l].from # n) BY <3>1
        <4>3. link'[l].srv = (link[l].srv /\ link[l].to # n) BY <3>1
        <4> QED BY <4>1, <4>2, <4>3
      <3>3. /\ link[l].from \in Nodes \cup {None} /\ link[l].to \in Nodes \cup {None}
            /\ (link[l].cli /\ link[l].from # n) \in BOOLEAN
            /\ (link[l].srv /\ link[l].to # n) \in BOOLEAN
        BY <2>1 DEF LinkStates
      <3>4. link'[l] \in LinkStates BY <3>1, <3>3 DEF LinkStates
      <3> QED BY <2>3, <3>2, <3>4
    <2> QED BY <2>2, <2>3
  <1>9. \A m \in Nodes, x \in Slots :
            mconn'[m][x] = IF m = n /\ mconn[m][x] = "open" THEN "broken" ELSE mconn[m][x]
    BY <1>3, <1>7 DEF ClusterInv, ClusterTypeOK
  <1>10. /\ \A m \in Nodes : /\ life'[m] <=> life[m] /\ m # n
                             /\ pc'[m] = IF m = n THEN "off" ELSE pc[m]
                             /\ todo'[m] = {} /\ notes'[m] = <<>>
                             /\ \A t \in Threads : thr'[m][t] = Idle
         /\ \A m, q \in Nodes : /\ remotes'[m][q] = IF m = n THEN None ELSE remotes[m][q]
                                /\ kids'[q][m] = IF q = n THEN None ELSE kids[q][m]
    BY <1>2, <1>5 DEF ClusterInv, ClusterTypeOK
  <1>11. ClusterTypeOK'
    <2>1. link' \in [Links -> LinkStates] BY <1>6, <1>8
    <2>2. mconn' \in [Nodes -> [Slots -> {"unused", "open", "broken", "closed"}]]
      <3>1. [s \in Slots |-> CASE mconn[n][s] = "open" -> "broken"
                               [] mconn[n][s] = "cut" -> "closed"
                               [] OTHER -> mconn[n][s]]
               \in [Slots -> {"unused", "open", "broken", "closed"}]
        BY DEF ClusterInv, ClusterTypeOK
      <3> QED BY <3>1, <1>7 DEF ClusterInv, ClusterTypeOK
    <2>3. Idle \in ThreadStates BY DEF ThreadStates
    <2>4. thr' \in [Nodes -> [Threads -> ThreadStates]]
      BY <2>3, <1>5 DEF ClusterInv, ClusterTypeOK
    <2>5. <<>> \in Seq(Nodes) /\ <<>> \in Seq(Nodes \X Slots) OBVIOUS
    <2>6. /\ notes' \in [Nodes -> Seq(Nodes)] /\ todo' \in [Nodes -> SUBSET Nodes]
          /\ mq' \in Seq(Nodes \X Slots)
      BY <2>5, <1>4, <1>5 DEF ClusterInv, ClusterTypeOK
    <2>7. /\ remotes' \in [Nodes -> [Nodes -> Links \cup {None}]]
          /\ kids' \in [Nodes -> [Nodes -> Links \cup {None}]]
      BY <1>5 DEF ClusterInv, ClusterTypeOK
    <2>8. /\ life' \in [Nodes -> BOOLEAN] /\ pc' \in [Nodes -> {"off", "await", "ready"}]
          /\ listening' \in SUBSET Nodes
      BY <1>5 DEF ClusterInv, ClusterTypeOK
    <2> QED BY <2>1, <2>2, <2>4, <2>6, <2>7, <2>8, <1>4, <1>5 DEF ClusterInv, ClusterTypeOK
  <1>12. LifeInv' BY <1>5, <1>10 DEF ClusterInv, LifeInv
  <1>13. QueuedInv'
    <2>1. mtask' = None BY <1>2, <1>5
    <2> QED BY <2>1, <1>4, ItemsEmpty DEF QueuedInv
  <1>14. TableInv'
    <2> SUFFICES ASSUME NEW m \in Nodes
                 PROVE  /\ m \in online => /\ mconn'[m][childs[m]] \in {"open", "broken"}
                                           /\ pc'[m] \in {"off", "ready"}
                        /\ pc'[m] = "ready" => m \in online
      BY <1>5 DEF ClusterInv, TableInv
    <2>1. childs[m] \in Slots \cup {None} BY DEF ClusterInv, ClusterTypeOK
    <2>2. m \in online => childs[m] \in Slots /\ mconn[m][childs[m]] \in {"open", "broken"}
      BY <2>1 DEF ClusterInv, TableInv
    <2>3. m \in online => mconn'[m][childs[m]] \in {"open", "broken"} BY <2>2, <1>9
    <2>4. pc'[m] \in {"off", "ready"} BY <1>2, <1>10
    <2>5. pc'[m] = "ready" => m \in online BY <1>10 DEF ClusterInv, TableInv
    <2> QED BY <2>3, <2>4, <2>5
  <1>15. MasterConnInv'
    <2>1. \A x \in Slots : mconn[n][x] = "open" => n \in online /\ childs[n] = x
      <3>1. pc[n] = "ready" /\ n \in online
        BY <1>1, <1>2 DEF ClusterInv, LifeInv, TableInv
      <3>2. childs[n] \in Slots \cup {None} BY DEF ClusterInv, ClusterTypeOK
      <3>3. childs[n] \in Slots /\ mconn[n][childs[n]] \in {"open", "broken"}
        BY <3>1, <3>2 DEF ClusterInv, TableInv
      <3>4. mconn[n][childs[n]] = "open" BY <3>3, <1>3
      <3> QED BY <3>1, <3>3, <3>4 DEF ClusterInv, MasterConnInv
    <2> SUFFICES ASSUME NEW m \in Nodes, NEW x \in Slots
                 PROVE  /\ mconn'[m][x] = "broken" => m \in online /\ childs[m] = x /\ ~life'[m]
                        /\ mconn'[m][x] = "open" =>
                              /\ life'[m]
                              /\ \A y \in Slots : mconn'[m][y] = "open" => y = x
      BY <1>5 DEF MasterConnInv
    <2>2. CASE m = n BY <2>1, <2>2, <1>3, <1>9, <1>10
    <2>3. CASE m # n BY <2>3, <1>3, <1>9, <1>10 DEF ClusterInv, MasterConnInv
    <2> QED BY <2>2, <2>3
  <1>16. CalmInv'
    <2>1. \A m \in Nodes : pc'[m] \in {"off", "ready"} BY <1>2, <1>10
    <2>2. NoActivity' BY <2>1, <1>2, <1>4, <1>5, <1>10 DEF NoActivity
    <2> QED BY <2>2 DEF CalmInv
  <1>17. LinkInv'
    <2> SUFFICES ASSUME NEW k \in Links
                 PROVE  /\ link'[k].up => link'[k].cli /\ link'[k].srv
                        /\ link'[k].cli =>
                              /\ link'[k].from \in Nodes /\ link'[k].to \in Nodes
                              /\ life'[link'[k].from]
                              /\ remotes'[link'[k].from][link'[k].to] = k
                        /\ link'[k].srv => /\ link'[k].from \in Nodes /\ link'[k].to \in Nodes
                                           /\ life'[link'[k].to]
                        /\ ~link'[k].up /\ (link'[k].cli \/ link'[k].srv) =>
                              ~life'[link'[k].from] \/ ~life'[link'[k].to]
                        /\ link'[k].cli => k \in rprop'
      BY DEF LinkInv
    <2>1. /\ link'[k].up => link'[k].cli /\ link'[k].srv
          /\ link'[k].cli => /\ link'[k].from \in Nodes /\ link'[k].to \in Nodes
                             /\ life'[link'[k].from]
                             /\ remotes'[link'[k].from][link'[k].to] = k
          /\ link'[k].srv => /\ link'[k].from \in Nodes /\ link'[k].to \in Nodes
                             /\ life'[link'[k].to]
      BY <1>8, <1>10 DEF ClusterInv, LinkInv
    <2>2. ~link'[k].up /\ (link'[k].cli \/ link'[k].srv) =>
              ~life'[link'[k].from] \/ ~life'[link'[k].to]
      BY <1>1, <1>3, <1>8, <1>10
    <2>3. link[k].cli => k \in rprop
      BY <1>2 DEF ClusterInv, LinkInv, Idle
    <2> QED BY <2>1, <2>2, <2>3, <1>5, <1>8
  <1>18. EntryInv'
    <2> SUFFICES ASSUME NEW m \in Nodes, NEW q \in Nodes
                 PROVE  /\ remotes'[m][q] # None =>
                              /\ link'[remotes'[m][q]].from = m /\ link'[remotes'[m][q]].to = q
                              /\ link'[remotes'[m][q]].cli
                        /\ kids'[q][m] # None =>
                              /\ link'[kids'[q][m]].from = m /\ link'[kids'[q][m]].to = q
                              /\ link'[kids'[q][m]].srv
                              /\ kids'[q][m] \in cprop'
      BY DEF EntryInv
    <2>1. remotes[m][q] \in Links \cup {None} /\ kids[q][m] \in Links \cup {None}
      BY DEF ClusterInv, ClusterTypeOK
    <2>2. remotes'[m][q] # None => /\ remotes'[m][q] = remotes[m][q] /\ m # n
                                   /\ remotes[m][q] \in Links
      BY <2>1, <1>10
    <2>3. kids'[q][m] # None => kids'[q][m] = kids[q][m] /\ q # n /\ kids[q][m] \in Links
      BY <2>1, <1>10
    <2> QED BY <2>2, <2>3, <1>5, <1>8 DEF ClusterInv, EntryInv
  <1>19. QueuesInv' BY <1>4, <1>10, ItemsEmpty DEF QueuesInv
  <1>20. \A m, q \in Nodes, k \in Places :
             /\ At(m, q, k) <=> k = "known" /\ kids[q][m] # None
             /\ At(m, q, k)' <=> k = "known" /\ kids'[q][m] # None
    <2> SUFFICES ASSUME NEW m \in Nodes, NEW q \in Nodes, NEW k \in Places
                 PROVE  /\ At(m, q, k) <=> k = "known" /\ kids[q][m] # None
                        /\ At(m, q, k)' <=> k = "known" /\ kids'[q][m] # None
      OBVIOUS
    <2>1. Idle.root # q BY DEF Idle, ClusterAssumption
    <2>2. /\ todo[m] = {} /\ Items(notes[m]) = {} /\ Items(rq[q]) = {}
          /\ \A t \in Threads : thr[m][t].root # q
      BY <1>2, <2>1, ItemsEmpty
    <2>3. /\ todo'[m] = {} /\ Items(notes'[m]) = {} /\ Items(rq'[q]) = {}
          /\ \A t \in Threads : thr'[m][t].root # q
      BY <1>4, <1>10, <2>1, ItemsEmpty
    <2>4. At(m, q, k) <=> k = "known" /\ kids[q][m] # None BY <2>2 DEF At
    <2>5. At(m, q, k)' <=> k = "known" /\ kids'[q][m] # None BY <2>3 DEF At
    <2> QED BY <2>4, <2>5
  <1>21. \A m, q \in Nodes : Ready(m, q)' <=> Ready(m, q) /\ m # n /\ q # n
    BY <1>10 DEF Ready
  <1>22. PlaceInv'
    <2> SUFFICES ASSUME NEW m \in Nodes, NEW q \in Nodes
                 PROVE  /\ \A i, p \in Places : At(m, q, i)' /\ At(m, q, p)' => i = p
                        /\ Ready(m, q)' => \E p \in Places : At(m, q, p)'
                        /\ ~Ready(m, q)' => \A p \in Places : At(m, q, p)' => p = "known" /\ ~life'[m]
      BY DEF PlaceInv
    <2>1. "known" \in Places BY DEF Places
    <2>2. \A i, p \in Places : At(m, q, i)' /\ At(m, q, p)' => i = p BY <1>20
    <2>3. ASSUME Ready(m, q)' PROVE \E p \in Places : At(m, q, p)'
      <3>1. \E p \in Places : At(m, q, p) BY <2>3, <1>21 DEF ClusterInv, PlaceInv
      <3> QED BY <2>1, <2>3, <3>1, <1>10, <1>20, <1>21
    <2>4. ASSUME ~Ready(m, q)', NEW p \in Places, At(m, q, p)'
          PROVE  p = "known" /\ ~life'[m]
      <3>1. p = "known" /\ kids'[q][m] # None BY <2>4, <1>20
      <3>2. q # n /\ At(m, q, p) BY <3>1, <1>10, <1>20
      <3> QED BY <2>4, <3>1, <3>2, <1>10, <1>21 DEF ClusterInv, PlaceInv
    <2> QED BY <2>2, <2>3, <2>4
  <1>23. ProgressInv'
    <2> SUFFICES ASSUME NEW m \in Nodes, NEW q \in Nodes
                 PROVE  /\ At(m, q, "todo")' \/ At(m, q, "note")' => remotes'[m][q] = None
                        /\ \A u \in Threads : thr'[m][u].root = q => remotes'[m][q] = thr'[m][u].link
                        /\ \A k \in Links : <<m, k>> \in Items(rq'[q]) => remotes'[m][q] = k
                        /\ kids'[q][m] # None /\ life'[m] => remotes'[m][q] = kids'[q][m]
                        /\ remotes'[m][q] # None => Ready(m, q)' \/ ~life'[q]
      BY DEF ProgressInv
    <2>1. ~At(m, q, "todo")' /\ ~At(m, q, "note")' BY <1>20 DEF Places
    <2>2. \A u \in Threads : thr'[m][u].root # q BY <1>10 DEF Idle, ClusterAssumption
    <2>3. Items(rq'[q]) = {} BY <1>4, ItemsEmpty
    <2>4. kids'[q][m] # None /\ life'[m] => remotes'[m][q] = kids'[q][m]
      BY <1>10 DEF ClusterInv, ProgressInv
    <2>5. remotes'[m][q] # None => Ready(m, q)' \/ ~life'[q]
      BY <1>10, <1>21 DEF ClusterInv, ProgressInv
    <2> QED BY <2>1, <2>2, <2>3, <2>4, <2>5
  <1> QED BY <1>11, <1>12, <1>13, <1>14, <1>15, <1>16, <1>17, <1>18, <1>19, <1>22, <1>23 DEF ClusterInv

LEMMA NextInv ==
    ASSUME ClusterAssumption, Steady, ClusterInv, [Next]_vars
    PROVE  ClusterInv'
  <1>1. ASSUME NEW n \in Nodes, Start(n) PROVE ClusterInv' BY <1>1, StartStep
  <1>2. ASSUME NEW n \in Nodes, Crash(n) PROVE ClusterInv' BY <1>2, CrashStep
  <1>3. ASSUME NEW n \in Nodes, NodeStep(n) PROVE ClusterInv'
    <2>1. CASE NextRoot(n) BY <2>1, NextRootStep
    <2>2. CASE RootTakeProxy(n) BY <2>2, RootTakeProxyStep
    <2>3. CASE AddChild(n) BY <2>3, AddChildStep
    <2>4. ASSUME NEW t \in Threads, Dial(n, t) \/ MarkRemote(n, t) \/ Announce(n, t)
          PROVE  ClusterInv'
      BY <2>4, DialStep, MarkRemoteStep, AnnounceStep
    <2> QED BY <1>3, <2>1, <2>2, <2>3, <2>4, Excluded DEF NodeStep
  <1>4. CASE AddNode BY <1>4, AddNodeStep
  <1>5. CASE TakeProxy BY <1>5, TakeProxyStep
  <1>6. ASSUME NEW n \in Nodes, NEW s \in Slots, MasterLost(n, s) PROVE ClusterInv'
    BY <1>6, MasterLostStep
  <1>7. ASSUME NEW l \in Links, RemoteLost(l) \/ ChildLost(l) PROVE ClusterInv'
    BY <1>7, RemoteLostStep, ChildLostStep
  <1>8. CASE UNCHANGED vars
    <2>1. /\ UNCHANGED <<mup, online, childs, mprop, mq, mtask, mconn, life, listening, pc, todo,
                         notes, thr, remotes, kids, rq, link, rprop, cprop, panicked, drops, mcrashes>>
      BY <1>8 DEF vars, master, node, links, bounds
    <2>2. ClusterTypeOK' BY <2>1 DEF ClusterInv, ClusterTypeOK
    <2>3. LifeInv' /\ QueuedInv' /\ TableInv' /\ MasterConnInv' BY <2>1, MasterSame
    <2>4. CalmInv' BY <2>1 DEF ClusterInv, CalmInv, LossPending, NoActivity
    <2>5. LinkInv' /\ EntryInv' /\ QueuesInv' /\ PlaceInv' /\ ProgressInv' BY <2>1, NodesSame
    <2> QED BY <2>2, <2>3, <2>4, <2>5 DEF ClusterInv
  <1> QED BY <1>1, <1>2, <1>3, <1>4, <1>5, <1>6, <1>7, <1>8, Excluded DEF Next, Rest

(***************************************************************************)
(* The theorems.                                                           *)
(***************************************************************************)

\* When nothing is under way, the child's entry, the root's entry and the link
\* of two running nodes agree: all the work for the pair has reached its end.
LEMMA QuietLinked ==
    ASSUME ClusterAssumption, ClusterInv, Quiet, NEW n \in Nodes, NEW r \in Remotes[n],
           life[n], life[r]
    PROVE  Linked(n, r)
  <1>1. r \in Nodes BY DEF ClusterAssumption
  <1>2. Ready(n, r) BY <1>1 DEF Ready, Quiet, ClusterInv, LifeInv
  <1>3. PICK k \in Places : At(n, r, k) BY <1>1, <1>2 DEF ClusterInv, PlaceInv
  <1>4. /\ todo[n] = {} /\ Items(notes[n]) = {} /\ Items(rq[r]) = {}
        /\ \A t \in Threads : thr[n][t].root # r
    BY <1>1, ItemsEmpty DEF Quiet, Idle, ClusterAssumption
  <1>5. kids[r][n] # None BY <1>3, <1>4 DEF At
  <1>6. remotes[n][r] = kids[r][n] BY <1>1, <1>5 DEF ClusterInv, ProgressInv
  <1>7. kids[r][n] \in Links
    <2>1. kids[r][n] \in Links \cup {None} BY <1>1 DEF ClusterInv, ClusterTypeOK
    <2> QED BY <2>1, <1>5
  <1>8. link[kids[r][n]].srv BY <1>1, <1>5 DEF ClusterInv, EntryInv
  <1>9. link[kids[r][n]].up BY <1>7, <1>8 DEF Quiet, LossPending
  <1> QED BY <1>6, <1>7, <1>9 DEF Linked

\* While failures are Steady no node dies of a panic, and whenever nothing is
\* under way the master lists the nodes that run and every running node is
\* linked with each of its running parents: for any configuration of parents
\* and children and any number of starts and crashes.
THEOREM DiscoveredCorrect == ASSUME Steady PROVE Spec => []Discovered
  <1>1. Init => ClusterInv BY ClusterAssumption, InitInv
  <1>2. ClusterInv /\ [Next]_vars => ClusterInv' BY ClusterAssumption, NextInv
  <1>3. ClusterInv => Discovered
    <2> SUFFICES ASSUME ClusterInv PROVE Discovered OBVIOUS
    <2>1. panicked = {} BY DEF ClusterInv, LifeInv
    <2>2. ASSUME Quiet PROVE online = {n \in Nodes : life[n]}
      <3>1. \A n \in Nodes : life[n] => n \in online
        BY <2>2 DEF Quiet, ClusterInv, LifeInv, TableInv
      <3>2. \A n \in online : n \in Nodes /\ life[n]
        <4> SUFFICES ASSUME NEW n \in online PROVE n \in Nodes /\ life[n] OBVIOUS
        <4>1. n \in Nodes /\ childs[n] \in Slots \cup {None} BY DEF ClusterInv, ClusterTypeOK
        <4>2. childs[n] \in Slots /\ mconn[n][childs[n]] \in {"open", "broken"}
          BY <4>1 DEF ClusterInv, TableInv
        <4>3. mconn[n][childs[n]] # "broken" BY <2>2, <4>1, <4>2 DEF Quiet, LossPending
        <4> QED BY <4>1, <4>2, <4>3 DEF ClusterInv, MasterConnInv
      <3> QED BY <3>1, <3>2
    <2>3. ASSUME Quiet, NEW n \in Nodes, NEW r \in Remotes[n], life[n], life[r]
          PROVE  Linked(n, r)
      BY <2>3, ClusterAssumption, QuietLinked
    <2> QED BY <2>1, <2>2, <2>3 DEF Discovered
  <1> QED BY <1>1, <1>2, <1>3, PTL DEF Spec

\* While failures are Steady a child and a root never have two connections,
\* and no manager keeps an entry for a connection that is gone: for any
\* configuration and any number of starts and crashes.
THEOREM OneLiveLinkCorrect == ASSUME Steady PROVE Spec => []OneLiveLink
  <1>1. Init => ClusterInv BY ClusterAssumption, InitInv
  <1>2. ClusterInv /\ [Next]_vars => ClusterInv' BY ClusterAssumption, NextInv
  <1>3. ClusterInv => OneLiveLink
    <2> SUFFICES ASSUME ClusterInv PROVE OneLiveLink OBVIOUS
    <2>1. ASSUME NEW l \in Links, link[l].up
          PROVE  remotes[link[l].from][link[l].to] = l
      BY <2>1 DEF ClusterInv, LinkInv
    <2>2. NoGhost
      <3> SUFFICES ASSUME Quiet, NEW n \in Nodes, NEW r \in Nodes
                   PROVE  /\ remotes[n][r] # None => link[remotes[n][r]].up
                          /\ kids[n][r] # None => link[kids[n][r]].up
        BY DEF NoGhost
      <3>1. remotes[n][r] \in Links \cup {None} /\ kids[n][r] \in Links \cup {None}
        BY DEF ClusterInv, ClusterTypeOK
      <3>2. \A l \in Links : link[l].cli \/ link[l].srv => link[l].up BY DEF Quiet, LossPending
      <3> QED BY <3>1, <3>2 DEF ClusterInv, EntryInv
    <2>3. ASSUME NEW l \in Links, NEW m \in Links, link[l].up, link[m].up,
                 link[l].from = link[m].from, link[l].to = link[m].to
          PROVE  l = m
      <3>1. remotes[link[l].from][link[l].to] = l BY <2>3, <2>1
      <3>2. remotes[link[m].from][link[m].to] = m BY <2>3, <2>1
      <3> QED BY <2>3, <3>1, <3>2
    <2> QED BY <2>2, <2>3 DEF OneLiveLink
  <1> QED BY <1>1, <1>2, <1>3, PTL DEF Spec
=============================================================================
