----------------------------- MODULE RedisPool -----------------------------
(***************************************************************************)
(* The connection pool of redigo (garyburd/redigo/redis/pool.go) with      *)
(* goroutines that get a connection, use it and close it, i.e. give it     *)
(* back.  What happens while Pool.mu is held is one step; dialling, the    *)
(* test of an idle connection, its use and its clean-up happen outside.    *)
(*                                                                         *)
(* at[g] is where goroutine g is: out, want (about to lock), test, dial,   *)
(* wait (in cond.Wait), woken, use, put.                                   *)
(***************************************************************************)
EXTENDS RedisConn, FiniteSets

CONSTANTS Users,      \* goroutines that use the pool
          MaxActive, MaxIdle,
          Wait,       \* Pool.Wait
          Testing,    \* TestOnBorrow is set
          MaxGets,    \* bound: how often one goroutine calls Get
          Busy,       \* bound: the goroutines with more than one command
          MaxCmds,    \* bound: their commands per borrowed connection
          MaxPush     \* bound: unread messages up to which more are published

ASSUME PoolAssumption ==
    /\ MaxActive \in Nat \ {0} /\ MaxIdle \in Nat
    /\ Wait \in BOOLEAN /\ Testing \in BOOLEAN
    /\ IsFiniteSet(Users) /\ Busy \subseteq Users
    /\ MaxGets \in Nat /\ MaxCmds \in Nat /\ MaxPush \in Nat

VARIABLES idle,     \* Pool.idle, front first: [c, stale]
          active,   \* Pool.active
          closed,   \* Pool.closed
          at,
          left,     \* iterations left in the loop of get that g is in
          has,      \* the connection g holds
          state,    \* pooledConnection.state
          gets, cmds

pool     == <<idle, active, closed>>
poolVars == <<idle, active, closed, at, left, has, state, gets, cmds>>

PoolInit ==
    /\ idle = <<>> /\ active = 0 /\ closed = FALSE
    /\ at = [g \in Users |-> "out"]
    /\ left = [g \in Users |-> 0]
    /\ has = [g \in Users |-> Dialled]
    /\ state = [g \in Users |-> {}]
    /\ gets = [g \in Users |-> 0]
    /\ cmds = [g \in Users |-> 0]

(***************************************************************************)
(* cond.Signal wakes one goroutine of those in cond.Wait, if there is one. *)
(* places is `at' with the step's own move made.                           *)
(***************************************************************************)
Signalled(places) ==
    LET waiting == {w \in Users : places[w] = "wait"} IN
    IF waiting = {} THEN {places}
    ELSE {[places EXCEPT ![w] = "woken"] : w \in waiting}

\* The goroutine with the lock goes through the rest of get: an idle
\* connection, an error, a new connection, or cond.Wait.
Look(g, act, list, n, places) ==
    /\ closed' = closed
    /\ IF n > 0 /\ list # <<>>
       THEN /\ has' = [has EXCEPT ![g] = Head(list).c]
            /\ idle' = Tail(list)
            /\ active' = act
            /\ left' = [left EXCEPT ![g] = n - 1]
            /\ at' = [places EXCEPT ![g] = "test"]
       ELSE /\ idle' = list
            /\ left' = [left EXCEPT ![g] = 0]
            /\ has' = [has EXCEPT ![g] = Dialled]
            /\ IF closed \/ act >= MaxActive
               THEN /\ active' = act
                    /\ at' = [places EXCEPT ![g] = IF ~closed /\ Wait THEN "wait" ELSE "out"]
               ELSE /\ active' = act + 1
                    /\ at' = [places EXCEPT ![g] = "dial"]

Get(g) ==
    /\ at[g] = "out" /\ gets[g] < MaxGets
    /\ gets' = [gets EXCEPT ![g] = @ + 1]
    /\ at' = [at EXCEPT ![g] = "want"]
    /\ left' = [left EXCEPT ![g] = Len(idle)]
    /\ UNCHANGED <<pool, has, state, cmds>>

\* get, the first loop: the stale connection at the back goes.  It is closed
\* after the lock was released, and the lock taken again.
Prune(g) ==
    /\ at[g] = "want" /\ left[g] > 0
    /\ idle # <<>> /\ idle[Len(idle)].stale
    /\ idle' = SubSeq(idle, 1, Len(idle) - 1)
    /\ active' = active - 1
    /\ left' = [left EXCEPT ![g] = @ - 1]
    /\ at' \in Signalled(at)
    /\ UNCHANGED <<closed, has, state, gets, cmds>>

\* get, behind the first loop.
LookFirst(g) ==
    /\ at[g] = "want"
    /\ ~(left[g] > 0 /\ idle # <<>> /\ idle[Len(idle)].stale)
    /\ Look(g, active, idle, Len(idle), at)
    /\ UNCHANGED <<state, gets, cmds>>

\* get, back from cond.Wait.
LookAgain(g) ==
    /\ at[g] = "woken"
    /\ Look(g, active, idle, Len(idle), at)
    /\ UNCHANGED <<state, gets, cmds>>

\* Get returns the connection to its caller.
Borrow(g, c) ==
    /\ has' = [has EXCEPT ![g] = c]
    /\ at' = [at EXCEPT ![g] = "use"]
    /\ state' = [state EXCEPT ![g] = {}]
    /\ cmds' = [cmds EXCEPT ![g] = 0]

TestPasses(g) ==
    /\ at[g] = "test"
    /\ Borrow(g, has[g])
    /\ UNCHANGED <<pool, left, gets>>

\* The active count is not lowered for a connection that fails the test.
FaultyTestFailsKeeps(g) ==
    /\ at[g] = "test" /\ Testing
    /\ \E places \in Signalled(at) : Look(g, active, idle, left[g], places)
    /\ UNCHANGED <<state, gets, cmds>>

\* The connection fails the test and is closed; get goes on in its loop.
TestFails(g) ==
    /\ at[g] = "test" /\ Testing
    /\ \E places \in Signalled(at) : Look(g, active - 1, idle, left[g], places)
    /\ UNCHANGED <<state, gets, cmds>>

DialSucceeds(g) ==
    /\ at[g] = "dial"
    /\ Borrow(g, Dialled)
    /\ UNCHANGED <<pool, left, gets>>

\* Get returns an errorConnection.
DialFails(g) ==
    /\ at[g] = "dial"
    /\ active' = active - 1
    /\ at' \in Signalled([at EXCEPT ![g] = "out"])
    /\ UNCHANGED <<idle, closed, left, has, state, gets, cmds>>

(***************************************************************************)
(* Use of a connection, by the rules of redis: EXEC ends a transaction     *)
(* that MULTI began, WATCH comes before MULTI, a subscriber or monitor has *)
(* nothing else open and only subscribes.  (WATCH and then SUBSCRIBE would *)
(* defeat Close: a subscribed client's UNWATCH is refused by the server.)  *)
(***************************************************************************)
Commands == {"GET", "MULTI", "EXEC", "WATCH", "SUBSCRIBE", "MONITOR"}

\* commandInfos: the state a command sets and clears.
Track(s, cmd) ==
    CASE cmd \in {"WATCH", "MULTI", "SUBSCRIBE", "MONITOR"} -> s \cup {cmd}
      [] cmd = "EXEC" -> s \ {"WATCH", "MULTI"}
      [] OTHER -> s

Proper(g, cmd) ==
    /\ cmd = "EXEC" => "MULTI" \in state[g]
    /\ state[g] \cap {"SUBSCRIBE", "MONITOR"} # {} => cmd = "SUBSCRIBE"
    /\ cmd = "WATCH" => "MULTI" \notin state[g]
    /\ cmd \in {"SUBSCRIBE", "MONITOR"} => state[g] \cap {"WATCH", "MULTI"} = {}

CmdBound(g) == IF g \in Busy THEN MaxCmds ELSE 1

\* pooledConnection.Do, Send; PubSubConn's Subscribe is Send and Flush.
UseDo(g, cmd) ==
    /\ at[g] = "use" /\ cmds[g] < CmdBound(g) /\ Proper(g, cmd)
    /\ cmd # "SUBSCRIBE"
    /\ cmds' = [cmds EXCEPT ![g] = @ + 1]
    /\ state' = [state EXCEPT ![g] = Track(@, cmd)]
    /\ has' = [has EXCEPT ![g] = Do(@, cmd)]
    /\ UNCHANGED <<pool, at, left, gets>>

UseSend(g, cmd) ==
    /\ at[g] = "use" /\ cmds[g] < CmdBound(g) /\ Proper(g, cmd)
    /\ cmds' = [cmds EXCEPT ![g] = @ + 1]
    /\ state' = [state EXCEPT ![g] = Track(@, cmd)]
    /\ has' = [has EXCEPT ![g] = Send(@, cmd)]
    /\ UNCHANGED <<pool, at, left, gets>>

UseFlush(g) ==
    /\ at[g] = "use" /\ has[g].bw # <<>>
    /\ has' = [has EXCEPT ![g] = Flush(@)]
    /\ UNCHANGED <<pool, at, left, state, gets, cmds>>

\* Receive; with nothing to read it would wait for its deadline.
UseReceive(g) ==
    /\ at[g] = "use" /\ has[g].unread > 0 /\ ~has[g].err
    /\ has' = [has EXCEPT ![g] = Receive(@)]
    /\ UNCHANGED <<pool, at, left, state, gets, cmds>>

\* A message arrives on a subscribed channel.
Published(g) ==
    /\ at[g] = "use" /\ has[g].subs > 0 /\ has[g].unread < MaxPush
    /\ has' = [has EXCEPT ![g] = Push(@)]
    /\ UNCHANGED <<pool, at, left, state, gets, cmds>>

\* The connection breaks or the server is gone; the next method meets it.
Breaks(g) ==
    /\ at[g] = "use" /\ ~has[g].err
    /\ has' = [has EXCEPT ![g] = Fatal(@)]
    /\ UNCHANGED <<pool, at, left, state, gets, cmds>>

(***************************************************************************)
(* pooledConnection.Close and Pool.put.                                    *)
(***************************************************************************)

\* The server forgets an open transaction or watched keys.
LeaveTransaction(c, s) ==
    IF "MULTI" \in s THEN Send(c, "DISCARD")
    ELSE IF "WATCH" \in s THEN Send(c, "UNWATCH") ELSE c

\* Receive, n times.
Received(c, n) ==
    LET received[i \in 0..n] == IF i = 0 THEN c ELSE Receive(received[i-1])
    IN  received[n]

\* The client unsubscribes and reads up to the echo of the sentinel, which is
\* the last reply.
LeaveSubscription(c) ==
    LET f == Flush(Send(Send(Send(c, "UNSUBSCRIBE"), "PUNSUBSCRIBE"), "ECHO"))
    IN  IF f.err THEN f ELSE Received(f, f.unread)

\* The user calls Close.
Close(g) ==
    /\ at[g] = "use"
    /\ at' = [at EXCEPT ![g] = "put"]

\* Close, up to put: afterwards only MONITOR, or a subscription that could not
\* be left, remains of the state.
CleanUp(g) ==
    /\ Close(g)
    /\ LET t == LeaveTransaction(has[g], state[g])
           s == IF "SUBSCRIBE" \in state[g] THEN LeaveSubscription(t) ELSE t
       IN  /\ has' = [has EXCEPT ![g] = Do(s, "")]
           /\ state' = [state EXCEPT ![g] =
                 @ \ ({"MULTI", "WATCH"} \cup IF s.err THEN {} ELSE {"SUBSCRIBE"})]
    /\ UNCHANGED <<pool, left, gets, cmds>>

\* The pooledConnection is of no use any more.
Forget(g) ==
    /\ has' = [has EXCEPT ![g] = Dialled]
    /\ state' = [state EXCEPT ![g] = {}]
    /\ cmds' = [cmds EXCEPT ![g] = 0]

\* put: the connection becomes idle, or it or the oldest idle one is closed.
Keep(g) ==
    /\ at[g] = "put"
    /\ ~closed /\ ~has[g].err /\ state[g] = {}
    /\ LET list == <<[c |-> has[g], stale |-> FALSE]>> \o idle IN
       IF Len(list) > MaxIdle
       THEN idle' = SubSeq(list, 1, Len(list) - 1) /\ active' = active - 1
       ELSE idle' = list /\ active' = active
    /\ at' \in Signalled([at EXCEPT ![g] = "out"])
    /\ Forget(g)
    /\ UNCHANGED <<closed, left, gets>>

\* Nobody is woken when a broken connection is given back.
FaultyDropSilent(g) ==
    /\ at[g] = "put"
    /\ closed \/ has[g].err \/ state[g] # {}
    /\ active' = active - 1
    /\ at' = [at EXCEPT ![g] = "out"]
    /\ Forget(g)
    /\ UNCHANGED <<idle, closed, left, gets>>

Drop(g) ==
    /\ at[g] = "put"
    /\ closed \/ has[g].err \/ state[g] # {}
    /\ active' = active - 1
    /\ at' \in Signalled([at EXCEPT ![g] = "out"])
    /\ Forget(g)
    /\ UNCHANGED <<idle, closed, left, gets>>

\* IdleTimeout passes for the connections from position i on.
GrowStale ==
    /\ \E i \in DOMAIN idle :
          /\ ~idle[i].stale
          /\ idle' = [j \in DOMAIN idle |-> IF j >= i THEN [idle[j] EXCEPT !.stale = TRUE]
                                                      ELSE idle[j]]
    /\ UNCHANGED <<active, closed, at, left, has, state, gets, cmds>>

\* Pool.Close: the idle connections are closed, everyone who waits is woken.
ClosePool ==
    /\ ~closed
    /\ closed' = TRUE
    /\ idle' = <<>>
    /\ active' = active - Len(idle)
    /\ at' = [g \in Users |-> IF at[g] = "wait" THEN "woken" ELSE at[g]]
    /\ UNCHANGED <<left, has, state, gets, cmds>>

\* A goroutine that stays in get is not among these.
PoolRest ==
    /\ \A g \in Users : at[g] = "out" /\ gets[g] = MaxGets
    /\ UNCHANGED poolVars

Uses(g) == \/ \E cmd \in Commands : UseDo(g, cmd) \/ UseSend(g, cmd)
           \/ UseFlush(g) \/ UseReceive(g) \/ Published(g) \/ Breaks(g)

PoolNext ==
    \/ \E g \in Users :
          \/ Get(g) \/ Prune(g) \/ LookFirst(g) \/ LookAgain(g)
          \/ TestPasses(g) \/ TestFails(g) \/ DialSucceeds(g) \/ DialFails(g)
          \/ Uses(g) \/ CleanUp(g) \/ Keep(g) \/ Drop(g)
    \/ GrowStale \/ ClosePool \/ PoolRest

PoolSpec == PoolInit /\ [][PoolNext]_poolVars

(***************************************************************************)
(* A goroutine that has called Get and is not in cond.Wait moves on: it is *)
(* scheduled, dialling and testing end, and it closes the connection it    *)
(* was given, as the documentation of Get asks.                            *)
(***************************************************************************)
PoolFairness ==
    \A g \in Users :
        /\ WF_poolVars(\/ Prune(g) \/ LookFirst(g) \/ LookAgain(g)
                       \/ TestPasses(g) \/ DialSucceeds(g) \/ DialFails(g)
                       \/ Keep(g) \/ Drop(g))
        /\ WF_at(Close(g))

\* active is exact: it counts the idle connections and those that are being
\* tested, dialled, used or given back, over all error paths of get and put,
\* prunings and Close; and there are never more than MaxActive.
ActiveExact ==
    /\ active = Len(idle) + Cardinality({g \in Users : at[g] \in {"test", "dial", "use", "put"}})
    /\ active <= MaxActive

\* An idle connection has no open transaction, watched keys, subscription,
\* unread replies or unsent commands: the next user's first reply is its own
\* (Close, put, and pending through Send, Receive and Do).
CleanIdle == \A i \in DOMAIN idle : ~idle[i].c.err /\ Clean(idle[i].c)

\* Get always returns: no path that gives up a connection forgets to wake a
\* goroutine that waits for one (release, put, Close).
GetReturns == \A g \in Users : at[g] \in {"want", "wait"} ~> at[g] \in {"out", "use"}
=============================================================================
