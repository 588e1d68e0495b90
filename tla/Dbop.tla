-------------------------------- MODULE Dbop --------------------------------
(***************************************************************************)
(* Database access (db/db.go): a worker executes operations on a redis     *)
(* connection, reconnects and tries once more, and puts what failed twice  *)
(* aside for ReConn.  Timers call ReConn and PING on the same worker.      *)
(*                                                                         *)
(* links are the clients Start has made, the last one is Dbop.client, the  *)
(* first one that of the PING loop.  A reply is named after its operation. *)
(* pc is where the worker is: idle, start, again (DoDbTask's second Do),   *)
(* pool (at the send to OpPool), restart and drain (in ReConn).            *)
(***************************************************************************)
EXTENDS Integers, Sequences

CONSTANTS Ops,
          OpCap,        \* capacity of OpPool (1024)
          ReconnLimit,  \* reconnections after which ReConn gives up (10)
          MaxLinks      \* bound: connections that are made

ASSUME DbAssumption == OpCap \in Nat \ {0} /\ ReconnLimit \in Nat \ {0} /\ MaxLinks \in Nat \ {0}

VARIABLES up,        \* redis can be reached
          links,     \* [err |-> conn.err is set, late |-> replies not read yet]
          pc,
          cur,       \* the operation DoDbTask is at
          inReConn,  \* ReConn called this DoDbTask, with Args as one argument
          opPool,
          later,     \* CallLater(ReConn) timers
          loops,     \* CallLoop(ReConn) timers
          reconnCt,
          result,    \* what the caller got: a reply, "failed" or "panic"
          runs       \* how often redis has executed an operation as issued

dbVars == <<up, links, pc, cur, inReConn, opPool, later, loops, reconnCt, result, runs>>

NoOp == "none"

\* What a caller gets tells a reply from a failure and from no result yet.
ASSUME OpsAssumption == Ops \cap {NoOp, "failed", "panic"} = {}

DbInit ==
    /\ up = TRUE
    /\ links = <<[err |-> FALSE, late |-> <<>>]>>
    /\ pc = "idle" /\ cur = NoOp /\ inReConn = FALSE
    /\ opPool = <<>> /\ later = 0 /\ loops = 0 /\ reconnCt = 0
    /\ result = [op \in Ops |-> NoOp]
    /\ runs = [op \in Ops |-> 0]

(***************************************************************************)
(* conn.Do of a connection that is used by one goroutine: it fails at      *)
(* once, is answered, is refused by redis (an error reply leaves the       *)
(* connection usable), gets lost on the way, or is executed and its answer *)
(* comes after the read deadline.  got is the reply that was read.         *)
(***************************************************************************)
Outcome(l, got, ran) == [link |-> l, got |-> got, ran |-> ran]

\* A connection whose deadline has passed can be used again.
FaultyBroken(l, late) == [l EXCEPT !.late = late]

\* conn.fatal
Broken(l, late) == [err |-> TRUE, late |-> late]

Does(l, what) ==
    LET replies == Append(l.late, what) IN
    IF l.err THEN {Outcome(l, NoOp, FALSE)}
    ELSE {Outcome(Broken(l, l.late), NoOp, FALSE)}
         \cup IF up THEN {Outcome([l EXCEPT !.late = Tail(replies)], Head(replies), TRUE),
                          Outcome(l, NoOp, FALSE),
                          Outcome(Broken(l, replies), NoOp, TRUE)}
              ELSE {}

Current == Len(links)

\* Do on the current client.  Args as one []string is one argument, "[a b]":
\* whatever redis does with it, it is not the operation that failed.
Execute(o) ==
    /\ links' = [links EXCEPT ![Current] = o.link]
    /\ runs' = IF o.ran /\ ~inReConn THEN [runs EXCEPT ![cur'] = @ + 1] ELSE runs

Leave(r) ==
    /\ pc' = IF inReConn /\ r # "panic" THEN "drain" ELSE "idle"
    /\ cur' = NoOp
    /\ result' = IF inReConn THEN result ELSE [result EXCEPT ![cur] = r]

\* Start: dial, AUTH and SELECT; it panics if one of them fails.
Start(ok) ==
    IF ok THEN /\ up /\ Len(links) < MaxLinks
               /\ links' = Append(links, [err |-> FALSE, late |-> <<>>])
    ELSE UNCHANGED links

\* DoDbTask, the first Do.
FirstDo(op, o) ==
    /\ cur' = op
    /\ Execute(o)
    /\ IF o.got = NoOp
       THEN pc' = "start" /\ UNCHANGED <<reconnCt, result>>
       ELSE /\ reconnCt' = 0
            /\ pc' = IF inReConn THEN "drain" ELSE "idle"
            /\ result' = IF inReConn THEN result ELSE [result EXCEPT ![op] = o.got]

\* A message handler calls DoDbTask.
DoDbTask(op) ==
    /\ pc = "idle" /\ ~inReConn /\ result[op] = NoOp
    /\ \E o \in Does(links[Current], op) : FirstDo(op, o)
    /\ UNCHANGED <<up, inReConn, opPool, later, loops>>

\* The panic of Start ends DoDbTask, and ReConn with it.
DoDbTaskStart(ok) ==
    /\ pc = "start"
    /\ Start(ok)
    /\ IF ok THEN pc' = "again" /\ UNCHANGED <<cur, inReConn, result>>
       ELSE Leave("panic") /\ inReConn' = FALSE
    /\ UNCHANGED <<up, opPool, later, loops, reconnCt, runs>>

\* The second Do.  ReConn's []string is no string: DoDbTask panics on it.
DoDbTaskAgain ==
    /\ pc = "again"
    /\ \E o \in Does(links[Current], cur) :
          /\ links' = [links EXCEPT ![Current] = o.link]
          /\ runs' = IF o.ran /\ ~inReConn THEN [runs EXCEPT ![cur] = @ + 1] ELSE runs
          /\ CASE o.got # NoOp -> Leave(o.got) /\ UNCHANGED inReConn
               [] o.got = NoOp /\ inReConn -> Leave("panic") /\ inReConn' = FALSE
               [] OTHER -> pc' = "pool" /\ UNCHANGED <<cur, result, inReConn>>
    /\ UNCHANGED <<up, opPool, later, loops, reconnCt>>

\* OpPool <- tmpOpSt blocks when the pool is full; only this worker empties it.
Pool ==
    /\ pc = "pool" /\ Len(opPool) < OpCap
    /\ opPool' = Append(opPool, cur)
    /\ later' = later + 1
    /\ Leave("failed")
    /\ UNCHANGED <<up, links, inReConn, loops, reconnCt, runs>>

\* ReConn up to Start; ct is reconn_ct.
ReConn(ct) ==
    IF ct >= ReconnLimit
    THEN loops' = loops + 1 /\ UNCHANGED <<pc, inReConn>>
    ELSE pc' = "restart" /\ inReConn' = TRUE /\ UNCHANGED loops

LaterFires ==
    /\ pc = "idle" /\ later > 0
    /\ later' = later - 1
    /\ ReConn(reconnCt)
    /\ UNCHANGED <<up, links, cur, opPool, reconnCt, result, runs>>

LoopFires ==
    /\ pc = "idle" /\ loops > 0
    /\ reconnCt' = 0
    /\ ReConn(0)
    /\ UNCHANGED <<up, links, cur, opPool, later, result, runs>>

ReConnStart(ok) ==
    /\ pc = "restart"
    /\ Start(ok)
    /\ pc' = IF ok THEN "drain" ELSE "idle"
    /\ inReConn' = ok
    /\ UNCHANGED <<up, cur, opPool, later, loops, reconnCt, result, runs>>

\* ReConn's loop over OpPool.
Drain ==
    /\ pc = "drain"
    /\ IF opPool = <<>>
       THEN /\ reconnCt' = reconnCt + 1
            /\ pc' = "idle" /\ inReConn' = FALSE
            /\ UNCHANGED <<links, cur, opPool, result, runs>>
       ELSE /\ opPool' = Tail(opPool)
            /\ \E o \in Does(links[Current], Head(opPool)) : FirstDo(Head(opPool), o)
            /\ UNCHANGED inReConn
    /\ UNCHANGED <<up, later, loops>>

\* The PING loop keeps the client of the first Start.
Ping ==
    /\ pc = "idle" /\ ~links[1].err
    /\ \E o \in Does(links[1], "PING") : links' = [links EXCEPT ![1] = o.link]
    /\ UNCHANGED <<up, pc, cur, inReConn, opPool, later, loops, reconnCt, result, runs>>

\* redis goes down, with all connections, or comes back.
RedisDown ==
    /\ up /\ up' = FALSE
    /\ UNCHANGED <<links, pc, cur, inReConn, opPool, later, loops, reconnCt, result, runs>>

RedisUp ==
    /\ ~up /\ up' = TRUE
    /\ UNCHANGED <<links, pc, cur, inReConn, opPool, later, loops, reconnCt, result, runs>>

DbNext ==
    \/ \E op \in Ops : DoDbTask(op)
    \/ \E ok \in BOOLEAN : DoDbTaskStart(ok) \/ ReConnStart(ok)
    \/ DoDbTaskAgain \/ Pool \/ LaterFires \/ LoopFires \/ Drain \/ Ping
    \/ RedisDown \/ RedisUp

DbSpec == DbInit /\ [][DbNext]_dbVars

\* The reply DoDbTask returns is the one to its own command, never one that
\* was late for an earlier command or for a PING on the same connection; and
\* however often redis is lost and ReConn runs, an operation is executed as
\* issued at most twice, and at least once if the caller got a reply (DoDbTask,
\* Start, and conn.fatal).
DbOwnReply ==
    \A op \in Ops : /\ result[op] \in {NoOp, op, "failed", "panic"}
                    /\ runs[op] <= 2 /\ (result[op] = op => runs[op] >= 1)
=============================================================================
