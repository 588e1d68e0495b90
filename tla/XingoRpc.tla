------------------------------ MODULE XingoRpc ------------------------------
(***************************************************************************)
(* Remote calls between two xingo nodes over one TCP link                  *)
(* (viphxin/xingo/cluster: asyncresult.go, rpc.go, rpchandle.go,           *)
(* rpcprotocol.go; utils/uuidfactory.go).                                  *)
(*                                                                         *)
(* Caller: every call runs in a goroutine of its own.  CallRpcForResult    *)
(* registers an AsyncResult (a one-slot channel) in the process-wide map   *)
(* AResultGlobalObj, sends the request, ignores a send error, and waits    *)
(* five seconds for the slot.  CallRpcNotForResult ("cast") only sends.    *)
(* Each response is handled by a goroutine of its own that looks the key   *)
(* up, removes it and fills the slot in three separately locked steps.     *)
(*                                                                         *)
(* Callee: one reader goroutine per connection delivers requests to the    *)
(* bounded task queue of the RPC pool; a worker takes them from there,     *)
(* runs the registered function and writes the response back.              *)
(*                                                                         *)
(* Payloads are abstracted: a request is the call that issued it, and the  *)
(* response to call c is c itself, carrying key[c].                        *)
(***************************************************************************)
EXTENDS Integers, Sequences, FiniteSets

CONSTANTS Calls,         \* invocations of CallRpcForResult
          Casts,         \* invocations of CallRpcNotForResult
          Registered,    \* the requests whose Target is in the callee's Apis
          MaxId,         \* largest id of the key generator (MAXUINT32)
          PoolSize,      \* length of TaskQueue
          MaxWorkerLen,  \* capacity of one task queue
          MaxGen,        \* bound: how often the link is re-established
          None

Reqs == Calls \cup Casts
Keys == 0..MaxId
Gens == 0..MaxGen

ASSUME RpcAssumption ==
    /\ Calls \cap Casts = {}
    /\ Registered \subseteq Reqs
    /\ None \notin Reqs
    /\ MaxId \in Nat \ {0}
    /\ PoolSize \in Nat \ {0}
    /\ MaxWorkerLen \in Nat \ {0}
    /\ MaxGen \in Nat

VARIABLES
    idGen,    \* UUIDGenerator.idGen as of the last key handed out
    issued,   \* history: how many keys were handed out
    results,  \* AsyncResultMgr.results: which call a key is registered for
    pc,       \* control state of each caller goroutine
    key,      \* AsyncResult.key
    buf,      \* AsyncResult.result: the one-slot channel
    closed,   \* AsyncResult.result has been closed
    reply,    \* what CallRpcForResult returned
    hpc,      \* control state of the goroutine handling the response to c
    hres,     \* the AsyncResult that goroutine found
    crashed,  \* a goroutine of the caller panicked: the process is gone
    wire,     \* requests in flight on each connection of the link
    back,     \* responses in flight on the current connection
    gen, up,  \* the current connection, and whether it still works
    via,      \* the connection a request was written to
    order,    \* history: how many requests were written up to this one
    nsent,    \* history: how many requests were written
    hand,     \* request a connection's reader has decoded but not queued
    queue,    \* RpcMsgHandle.TaskQueue
    worker,   \* request a pool worker is handling
    ran       \* history: requests whose function was called, in that order

mgr    == <<idGen, issued, results>>
slot   == <<buf, closed, reply>>
fill   == <<hpc, hres>>
link   == <<wire, back, gen, up>>
sent   == <<via, order, nsent>>
callee == <<hand, queue, worker, ran>>
vars   == <<mgr, pc, key, slot, fill, crashed, link, sent, callee>>

\* The result manager, its slots and the response goroutines.
callerVars == <<mgr, pc, key, slot, fill, crashed>>

(***************************************************************************)
(* What the code fixes.                                                    *)
(***************************************************************************)

(***************************************************************************)
(* Definitions named Faulty... are plausible mistakes in the definition    *)
(* that follows them; no specification uses them.  PROJECT.json says which *)
(* property detects which mistake.                                         *)
(***************************************************************************)

\* The counter is wider than the 32 bits of a key.
FaultyNextIdWide(i) == i + 1

\* Two readers of the counter see the same value.
FaultyNextIdStuck(i) == i

\* startGen: the test idGen+1 > MAXUINT32 never holds in uint32 arithmetic,
\* so the generator wraps to 0.
NextId(i) == IF i = MaxId THEN 0 ELSE i + 1

\* The pool is used in full, as its size suggests.
FaultyRpcWorkersAll == 0..PoolSize-1

\* DeliverToMsgQueue overwrites the random index by 0 and StartWorkerLoop
\* overwrites poolSize by 1: one queue and one worker are in use.
RpcWorkers == {0}

Init ==
    /\ idGen = 0
    /\ issued = 0
    /\ results = [k \in Keys |-> None]
    /\ pc = [r \in Reqs |-> "start"]
    /\ key = [c \in Calls |-> 0]
    /\ buf = [c \in Calls |-> None]
    /\ closed = [c \in Calls |-> FALSE]
    /\ reply = [c \in Calls |-> None]
    /\ hpc = [c \in Calls |-> "none"]
    /\ hres = [c \in Calls |-> None]
    /\ crashed = FALSE
    /\ wire = [g \in Gens |-> <<>>]
    /\ back = <<>>
    /\ gen = 0
    /\ up = TRUE
    /\ via = [r \in Reqs |-> 0]
    /\ order = [r \in Reqs |-> 0]
    /\ nsent = 0
    /\ hand = [g \in Gens |-> None]
    /\ queue = [i \in 0..PoolSize-1 |-> <<>>]
    /\ worker = [i \in 0..PoolSize-1 |-> None]
    /\ ran = <<>>

(***************************************************************************)
(* The caller.                                                             *)
(***************************************************************************)

\* AsyncResultMgr.Add, under the manager's lock.
Add(c) ==
    /\ ~crashed
    /\ pc[c] = "start"
    /\ idGen' = NextId(idGen)
    /\ issued' = issued + 1
    /\ key' = [key EXCEPT ![c] = idGen']
    /\ results' = [results EXCEPT ![idGen'] = c]
    /\ pc' = [pc EXCEPT ![c] = "send"]
    /\ UNCHANGED <<slot, fill, crashed, link, sent, callee>>

\* conn.Send: written to the current connection, or lost when it is down.
Send(r) ==
    /\ via' = [via EXCEPT ![r] = gen]
    /\ order' = [order EXCEPT ![r] = nsent + 1]
    /\ nsent' = nsent + 1
    /\ wire' = IF up THEN [wire EXCEPT ![gen] = Append(@, r)] ELSE wire
    /\ UNCHANGED <<back, gen, up>>

\* CallRpcForResult sends; the error of Send is ignored.
SendRequest(c) ==
    /\ ~crashed
    /\ pc[c] = "send"
    /\ Send(c)
    /\ pc' = [pc EXCEPT ![c] = "wait"]
    /\ UNCHANGED <<mgr, key, slot, fill, crashed, callee>>

\* CallRpcNotForResult.
Cast(r) ==
    /\ ~crashed
    /\ pc[r] = "start"
    /\ Send(r)
    /\ pc' = [pc EXCEPT ![r] = "done"]
    /\ UNCHANGED <<mgr, key, slot, fill, crashed, callee>>

\* GetResult, the branch that receives from the slot.
GetResult(c) ==
    /\ ~crashed
    /\ pc[c] = "wait"
    /\ buf[c] # None
    /\ reply' = [reply EXCEPT ![c] = buf[c]]
    /\ buf' = [buf EXCEPT ![c] = None]
    /\ pc' = [pc EXCEPT ![c] = "done"]
    /\ UNCHANGED <<mgr, key, closed, fill, crashed, link, sent, callee>>

\* The timer is not armed when the link is down.
FaultyTimeoutNoLink(c) ==
    /\ ~crashed
    /\ up
    /\ pc[c] = "wait"
    /\ closed' = [closed EXCEPT ![c] = TRUE]
    /\ pc' = [pc EXCEPT ![c] = "expired"]
    /\ UNCHANGED <<mgr, key, buf, reply, fill, crashed, link, sent, callee>>

\* GetResult, the branch of the timer: close the slot.  select may take it
\* although the slot has been filled.
Timeout(c) ==
    /\ ~crashed
    /\ pc[c] = "wait"
    /\ closed' = [closed EXCEPT ![c] = TRUE]
    /\ pc' = [pc EXCEPT ![c] = "expired"]
    /\ UNCHANGED <<mgr, key, buf, reply, fill, crashed, link, sent, callee>>

\* The error is returned without the Remove.
FaultyRemoveExpiredLeaks(c) ==
    /\ ~crashed
    /\ pc[c] = "expired"
    /\ pc' = [pc EXCEPT ![c] = "failed"]
    /\ UNCHANGED <<mgr, key, slot, fill, crashed, link, sent, callee>>

\* CallRpcForResult after a timeout: Remove the key, return the error.
RemoveExpired(c) ==
    /\ ~crashed
    /\ pc[c] = "expired"
    /\ results' = [results EXCEPT ![key[c]] = None]
    /\ pc' = [pc EXCEPT ![c] = "failed"]
    /\ UNCHANGED <<idGen, issued, key, slot, fill, crashed, link, sent, callee>>

(***************************************************************************)
(* The caller's read thread and FillAsyncResult.                           *)
(***************************************************************************)

\* StartReadThread: a RESPONSE is handled by a goroutine of its own.
ReadResponse ==
    /\ ~crashed
    /\ back # <<>>
    /\ back' = Tail(back)
    /\ hpc' = [hpc EXCEPT ![Head(back)] = "get"]
    /\ UNCHANGED <<mgr, pc, key, slot, hres, crashed, wire, gen, up, sent, callee>>

\* FillAsyncResult: GetAsyncResult, under the read lock.
FillGet(h) ==
    /\ ~crashed
    /\ hpc[h] = "get"
    /\ hres' = [hres EXCEPT ![h] = results[key[h]]]
    /\ hpc' = [hpc EXCEPT ![h] = IF results[key[h]] = None THEN "done" ELSE "remove"]
    /\ UNCHANGED <<mgr, pc, key, slot, crashed, link, sent, callee>>

\* The last key handed out is removed instead of the response's own.
FaultyFillRemoveLast(h) ==
    /\ ~crashed
    /\ hpc[h] = "remove"
    /\ results' = [results EXCEPT ![idGen] = None]
    /\ hpc' = [hpc EXCEPT ![h] = "set"]
    /\ UNCHANGED <<idGen, issued, pc, key, slot, hres, crashed, link, sent, callee>>

\* FillAsyncResult: Remove, under the lock.
FillRemove(h) ==
    /\ ~crashed
    /\ hpc[h] = "remove"
    /\ results' = [results EXCEPT ![key[h]] = None]
    /\ hpc' = [hpc EXCEPT ![h] = "set"]
    /\ UNCHANGED <<idGen, issued, pc, key, slot, hres, crashed, link, sent, callee>>

\* FillAsyncResult: SetResult into an open slot that is empty; it blocks
\* while the slot is full.
FillSet(h) ==
    /\ ~crashed
    /\ hpc[h] = "set"
    /\ ~closed[hres[h]]
    /\ buf[hres[h]] = None
    /\ buf' = [buf EXCEPT ![hres[h]] = h]
    /\ hpc' = [hpc EXCEPT ![h] = "done"]
    /\ UNCHANGED <<mgr, pc, key, closed, reply, hres, crashed, link, sent, callee>>

\* SetResult on a slot that GetResult has closed: the send panics, nothing
\* recovers, the process and its connection are gone.
FillPanic(h) ==
    /\ ~crashed
    /\ hpc[h] = "set"
    /\ closed[hres[h]]
    /\ crashed' = TRUE
    /\ up' = FALSE
    /\ back' = <<>>
    /\ UNCHANGED <<mgr, pc, key, slot, fill, wire, gen, sent, callee>>

(***************************************************************************)
(* The callee.                                                             *)
(***************************************************************************)

\* StartReadThread of connection g decodes the next request.
ReadRequest(g) ==
    /\ wire[g] # <<>>
    /\ hand[g] = None
    /\ hand' = [hand EXCEPT ![g] = Head(wire[g])]
    /\ wire' = [wire EXCEPT ![g] = Tail(@)]
    /\ UNCHANGED <<callerVars, back, gen, up, sent, queue, worker, ran>>

\* A full queue drops the request instead of blocking its reader.
FaultyDeliverDrops(g) ==
    /\ hand[g] # None
    /\ \E i \in RpcWorkers :
          queue' = IF Len(queue[i]) < MaxWorkerLen
                   THEN [queue EXCEPT ![i] = Append(@, hand[g])] ELSE queue
    /\ hand' = [hand EXCEPT ![g] = None]
    /\ UNCHANGED <<callerVars, link, sent, worker, ran>>

\* DeliverToMsgQueue: blocks while the queue is full.
DeliverToMsgQueue(g) ==
    /\ hand[g] # None
    /\ \E i \in RpcWorkers :
          /\ Len(queue[i]) < MaxWorkerLen
          /\ queue' = [queue EXCEPT ![i] = Append(@, hand[g])]
    /\ hand' = [hand EXCEPT ![g] = None]
    /\ UNCHANGED <<callerVars, link, sent, worker, ran>>

\* The request stays queued while it is handled.
FaultyTakeTaskPeeks(i) ==
    /\ worker[i] = None
    /\ queue[i] # <<>>
    /\ worker' = [worker EXCEPT ![i] = Head(queue[i])]
    /\ UNCHANGED <<callerVars, link, sent, hand, queue, ran>>

\* The loop of StartWorkerLoop takes a request.
TakeTask(i) ==
    /\ worker[i] = None
    /\ queue[i] # <<>>
    /\ worker' = [worker EXCEPT ![i] = Head(queue[i])]
    /\ queue' = [queue EXCEPT ![i] = Tail(@)]
    /\ UNCHANGED <<callerVars, link, sent, hand, ran>>

\* DoMsg runs the function and, for REQUEST_FORRESULT, writes the response to
\* the connection the request came from; that connection may be gone.
DoMsg(i) ==
    /\ worker[i] \in Registered
    /\ ran' = Append(ran, worker[i])
    /\ back' = IF worker[i] \in Calls /\ up /\ via[worker[i]] = gen
               THEN Append(back, worker[i])
               ELSE back
    /\ worker' = [worker EXCEPT ![i] = None]
    /\ UNCHANGED <<callerVars, wire, gen, up, sent, hand, queue>>

\* DoMsg of an unknown Target logs an error and answers nothing.
DoMsgNotFound(i) ==
    /\ worker[i] \in Reqs \ Registered
    /\ worker' = [worker EXCEPT ![i] = None]
    /\ UNCHANGED <<callerVars, link, sent, hand, queue, ran>>

(***************************************************************************)
(* The link and the callee's process.                                      *)
(***************************************************************************)

\* What may be left to read of a stream after its connection broke.
Cuts(s) == {SubSeq(s, 1, n) : n \in 0..Len(s)}

\* The connection breaks; of what was under way either side still reads a
\* prefix.
Disconnect ==
    /\ up
    /\ up' = FALSE
    /\ \E w \in Cuts(wire[gen]), b \in Cuts(back) :
          /\ wire' = [wire EXCEPT ![gen] = w]
          /\ back' = b
    /\ UNCHANGED <<callerVars, gen, sent, callee>>

\* The callee's process stops: its reader, queue and worker are lost.
CalleeCrash ==
    /\ up' = FALSE
    /\ wire' = [g \in Gens |-> <<>>]
    /\ \E b \in Cuts(back) : back' = b
    /\ hand' = [g \in Gens |-> None]
    /\ queue' = [i \in DOMAIN queue |-> <<>>]
    /\ worker' = [i \in DOMAIN worker |-> None]
    /\ UNCHANGED <<callerVars, gen, sent, ran>>

\* TcpClient.Stop and ReConnection: the read thread has met the error behind
\* the last byte and dials again.
ReConnection ==
    /\ ~crashed
    /\ ~up
    /\ back = <<>>
    /\ gen < MaxGen
    /\ gen' = gen + 1
    /\ up' = TRUE
    /\ UNCHANGED <<callerVars, wire, back, sent, callee>>

\* Every goroutine has finished or waits for input: the model may stop here
\* and nowhere else.
Terminated ==
    /\ \A g \in Gens : wire[g] = <<>> /\ hand[g] = None
    /\ \A i \in DOMAIN queue : queue[i] = <<>> /\ worker[i] = None
    /\ \/ crashed
       \/ /\ \A r \in Reqs : pc[r] \in {"done", "failed"}
          /\ \A h \in Calls : hpc[h] \in {"none", "done"}
          /\ back = <<>>
    /\ UNCHANGED vars

Next ==
    \/ \E c \in Calls : \/ Add(c) \/ SendRequest(c) \/ GetResult(c)
                        \/ Timeout(c) \/ RemoveExpired(c)
    \/ \E r \in Casts : Cast(r)
    \/ ReadResponse
    \/ \E h \in Calls : FillGet(h) \/ FillRemove(h) \/ FillSet(h) \/ FillPanic(h)
    \/ \E g \in Gens : ReadRequest(g) \/ DeliverToMsgQueue(g)
    \/ \E i \in RpcWorkers : TakeTask(i) \/ DoMsg(i) \/ DoMsgNotFound(i)
    \/ Disconnect
    \/ CalleeCrash
    \/ ReConnection
    \/ Terminated

Spec == Init /\ [][Next]_vars

(***************************************************************************)
(* Go schedules every runnable goroutine and the five-second timer fires;  *)
(* nothing is assumed of the link, of ReConnection or of new calls.        *)
(***************************************************************************)
Fairness ==
    /\ \A c \in Calls : /\ WF_vars(SendRequest(c))
                        /\ WF_vars(GetResult(c) \/ Timeout(c))
                        /\ WF_vars(RemoveExpired(c))
                        /\ WF_vars(FillGet(c) \/ FillRemove(c) \/ FillSet(c) \/ FillPanic(c))
    /\ \A g \in Gens : WF_vars(ReadRequest(g) \/ DeliverToMsgQueue(g))
    /\ \A i \in RpcWorkers : WF_vars(TakeTask(i) \/ DoMsg(i) \/ DoMsgNotFound(i))

FairSpec == Spec /\ Fairness

(***************************************************************************)
(* Properties.                                                             *)
(***************************************************************************)

CallStates == {"start", "send", "wait", "expired", "done", "failed"}
FillStates == {"none", "get", "remove", "set", "done"}

CallerType ==
    /\ idGen \in Keys
    /\ issued \in Nat
    /\ results \in [Keys -> Calls \cup {None}]
    /\ pc \in [Reqs -> CallStates]
    /\ key \in [Calls -> Keys]
    /\ buf \in [Calls -> Calls \cup {None}]
    /\ closed \in [Calls -> BOOLEAN]
    /\ reply \in [Calls -> Calls \cup {None}]
    /\ hpc \in [Calls -> FillStates]
    /\ hres \in [Calls -> Calls \cup {None}]
    /\ \A h \in Calls : hpc[h] \in {"remove", "set"} => hres[h] # None
    /\ crashed \in BOOLEAN

LinkType ==
    /\ wire \in [Gens -> Seq(Reqs)]
    /\ back \in Seq(Calls)
    /\ gen \in Gens
    /\ up \in BOOLEAN
    /\ via \in [Reqs -> Gens]
    /\ order \in [Reqs -> Nat]
    /\ nsent \in Nat

CalleeType ==
    /\ hand \in [Gens -> Reqs \cup {None}]
    /\ queue \in [0..PoolSize-1 -> Seq(Reqs)]
    /\ worker \in [0..PoolSize-1 -> Reqs \cup {None}]
    /\ ran \in Seq(Reqs)

\* Type invariant of the caller, the link and the callee; a response
\* goroutine never reaches Remove or SetResult without an AsyncResult.
TypeOK == CallerType /\ LinkType /\ CalleeType

\* As long as no key has been handed out twice.
KeysUnused == issued <= MaxId + 1

\* A call never returns another call's answer, whatever timeouts, lost
\* connections and late responses went before (CallRpcForResult,
\* FillAsyncResult), while the 32-bit key generator has not wrapped.
OwnAnswer == KeysUnused => \A c \in Calls : reply[c] \in {None, c}

\* A call that has returned leaves nothing behind in AsyncResultMgr.results:
\* FillAsyncResult or the timeout path of CallRpcForResult removed its key.
NoStrandedResult ==
    \A c \in Calls : pc[c] \in {"done", "failed"} => \A k \in Keys : results[k] # c

\* A call that still waits can be answered: its key is registered, or a
\* response goroutine has taken it out and is about to fill the slot, or the
\* slot is full.  No path of FillAsyncResult or Remove forgets a waiting call.
AnswerDeliverable ==
    KeysUnused =>
        \A c \in Calls : pc[c] \in {"send", "wait"} =>
            \/ results[key[c]] = c
            \/ buf[c] # None
            \/ \E h \in Calls : hpc[h] = "set" /\ hres[h] = c

\* The functions of the callee run in the order the requests were written to
\* their connection, and none runs twice, although readers, queue and worker
\* are separate goroutines (DeliverToMsgQueue, StartWorkerLoop).  Across a
\* reconnection the order is not promised: the old reader may still hold one.
ExecutionOrder ==
    \A i, j \in DOMAIN ran :
        i < j /\ via[ran[i]] = via[ran[j]] => order[ran[i]] < order[ran[j]]

\* Every call returns, with an answer or with the timeout's error, whatever
\* happens to the link or the callee - unless a late answer took the caller's
\* process down (see LateAnswerIsHarmless).
CallReturns ==
    \A c \in Calls : pc[c] = "send" ~> (pc[c] \in {"done", "failed"} \/ crashed)

\* A request that reached the callee is handled although its reader blocks
\* while the task queue is full, unless the callee or its link fails.
RequestServed ==
    \A g \in Gens, r \in Registered :
        hand[g] = r ~> (\/ \E i \in DOMAIN ran : ran[i] = r
                        \/ ~up)

\* What the users of the two calls see of this module's state.
CallOutcome(c, state, answer) ==
    CASE state \in {"start", "send"} -> "idle"
      [] state \in {"wait", "expired"} -> "issued"
      [] state = "failed" -> "failed"
      [] state = "done" -> IF answer = c THEN "answered" ELSE "wrong"

Outcome ==
    [r \in Reqs |->
        IF r \in Calls THEN CallOutcome(r, pc[r], reply[r])
        ELSE IF pc[r] = "start" THEN "idle" ELSE "issued"]

Executions == [r \in Reqs |-> Cardinality({i \in DOMAIN ran : ran[i] = r})]

Promise == INSTANCE RpcPromise WITH outcome <- Outcome, executions <- Executions

\* The calls keep the promise of RpcPromise: at most one execution, never an
\* answer without one or to another call, never an execution that was not
\* asked for - with reconnections, crashes of the callee and timeouts.
KeepsPromise == Promise!PSpec

\* The comment on the timeout path of CallRpcForResult, "timed out, or the
\* result did not arrive for another reason", treats a timeout as an ordinary
\* error of that call: an answer that comes late does no harm.
LateAnswerIsHarmless == ~crashed
=============================================================================
