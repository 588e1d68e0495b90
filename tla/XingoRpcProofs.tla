--------------------------- MODULE XingoRpcProofs ---------------------------
(***************************************************************************)
(* Proofs about XingoRpc, for every set of calls and casts, every size of  *)
(* the key space, the pool and the queue, and every number of connections: *)
(* the calls and their slots first, then the way of a request (it is       *)
(* executed at most once and in order, its answer reaches the call that    *)
(* waits for it), and the promise of RpcPromise.                           *)
(***************************************************************************)
EXTENDS XingoRpc, Functions, FiniteSetTheorems, TLAPS

\* Three groups of variables, three lemmas: an action keeps the types of the
\* group it changes; the groups it leaves alone need no argument.
LEMMA CallerTypeStep == TypeOK /\ [Next]_vars => CallerType'
<1> SUFFICES ASSUME TypeOK, [Next]_vars PROVE CallerType'
  OBVIOUS
<1> USE RpcAssumption DEF TypeOK, CallerType, LinkType
<1>1. ASSUME NEW c \in Calls, Add(c) PROVE CallerType'
  <2>1. idGen' \in Keys
    BY <1>1 DEF Add, NextId, Keys
  <2> QED
    BY <1>1, <2>1 DEF Add, Reqs, CallStates, slot, fill
<1>2. ASSUME NEW c \in Calls, SendRequest(c) PROVE CallerType'
  BY <1>2 DEF SendRequest, Reqs, CallStates, mgr, slot, fill
<1>3. ASSUME NEW r \in Casts, Cast(r) PROVE CallerType'
  BY <1>3 DEF Cast, Reqs, CallStates, mgr, slot, fill
<1>4. ASSUME NEW c \in Calls, GetResult(c) PROVE CallerType'
  BY <1>4 DEF GetResult, Reqs, CallStates, mgr, fill
<1>5. ASSUME NEW c \in Calls, Timeout(c) PROVE CallerType'
  BY <1>5 DEF Timeout, Reqs, CallStates, mgr, fill
<1>6. ASSUME NEW c \in Calls, RemoveExpired(c) PROVE CallerType'
  BY <1>6 DEF RemoveExpired, Reqs, CallStates, slot, fill
<1>7. CASE ReadResponse
  BY <1>7 DEF ReadResponse, FillStates, mgr, slot
<1>8. ASSUME NEW h \in Calls, FillGet(h) PROVE CallerType'
  BY <1>8 DEF FillGet, FillStates, mgr, slot
<1>9. ASSUME NEW h \in Calls, FillRemove(h) PROVE CallerType'
  BY <1>9 DEF FillRemove, FillStates, slot
<1>10. ASSUME NEW h \in Calls, FillSet(h) PROVE CallerType'
  BY <1>10 DEF FillSet, FillStates, mgr
<1>11. ASSUME NEW h \in Calls, FillPanic(h) PROVE CallerType'
  BY <1>11 DEF FillPanic, mgr, slot, fill
<1>12. CASE UNCHANGED callerVars
  BY <1>12 DEF callerVars, mgr, slot, fill
<1>13. CASE UNCHANGED vars
  BY <1>12, <1>13 DEF vars, callerVars
<1> QED
  BY <1>1, <1>2, <1>3, <1>4, <1>5, <1>6, <1>7, <1>8, <1>9, <1>10, <1>11, <1>12, <1>13
  DEF Next, ReadRequest, DeliverToMsgQueue, TakeTask, DoMsg, DoMsgNotFound,
      Disconnect, CalleeCrash, ReConnection, Terminated

\* What is left of a broken stream holds nothing new.
LEMMA CutType ==
    ASSUME NEW S, NEW s \in Seq(S), NEW t \in Cuts(s) PROVE t \in Seq(S)
  BY DEF Cuts

LEMMA LinkTypeStep == TypeOK /\ [Next]_vars => LinkType'
<1> SUFFICES ASSUME TypeOK, [Next]_vars PROVE LinkType'
  OBVIOUS
<1> USE RpcAssumption DEF TypeOK, LinkType, CalleeType
<1>1. ASSUME NEW r \in Reqs, Send(r) PROVE LinkType'
  BY <1>1 DEF Send
<1>2. CASE ReadResponse
  BY <1>2 DEF ReadResponse, sent
<1>3. ASSUME NEW h \in Calls, FillPanic(h) PROVE LinkType'
  <2>1. back' \in Seq(Calls)
    BY <1>3 DEF FillPanic
  <2> QED
    BY <1>3, <2>1 DEF FillPanic, sent
<1>4. ASSUME NEW g \in Gens, ReadRequest(g) PROVE LinkType'
  <2>1. wire[g] \in Seq(Reqs) /\ wire[g] # <<>>
    BY <1>4 DEF ReadRequest
  <2>2. Tail(wire[g]) \in Seq(Reqs)
    BY <2>1
  <2>3. wire' = [wire EXCEPT ![g] = Tail(wire[g])]
    BY <1>4 DEF ReadRequest
  <2>4. wire' \in [Gens -> Seq(Reqs)]
    BY <2>2, <2>3
  <2> QED
    BY <1>4, <2>4 DEF ReadRequest, sent
<1>5. ASSUME NEW i \in RpcWorkers, DoMsg(i) PROVE LinkType'
  BY <1>5 DEF DoMsg, sent
<1>6. CASE Disconnect
  <2>1. PICK w \in Cuts(wire[gen]), b \in Cuts(back) :
            wire' = [wire EXCEPT ![gen] = w] /\ back' = b
    BY <1>6 DEF Disconnect
  <2>2. w \in Seq(Reqs) /\ b \in Seq(Calls)
    BY CutType
  <2> QED
    BY <1>6, <2>1, <2>2 DEF Disconnect, sent
<1>7. CASE CalleeCrash
  <2>1. back' \in Seq(Calls)
    BY <1>7, CutType DEF CalleeCrash
  <2>2. wire' \in [Gens -> Seq(Reqs)]
    BY <1>7 DEF CalleeCrash
  <2> QED
    BY <1>7, <2>1, <2>2 DEF CalleeCrash, sent
<1>8. CASE ReConnection
  BY <1>8 DEF ReConnection, Gens, sent
<1>9. CASE UNCHANGED <<link, sent>>
  BY <1>9 DEF link, sent
<1>10. CASE UNCHANGED vars
  BY <1>9, <1>10 DEF vars
<1> QED
  BY <1>1, <1>2, <1>3, <1>4, <1>5, <1>6, <1>7, <1>8, <1>9, <1>10
  DEF Next, Add, SendRequest, Cast, GetResult, Timeout, RemoveExpired, FillGet,
      FillRemove, FillSet, DeliverToMsgQueue, TakeTask, DoMsgNotFound, Terminated, Reqs

LEMMA CalleeTypeStep == TypeOK /\ [Next]_vars => CalleeType'
<1> SUFFICES ASSUME TypeOK, [Next]_vars PROVE CalleeType'
  OBVIOUS
<1> USE RpcAssumption DEF TypeOK, CalleeType, LinkType
<1>1. ASSUME NEW g \in Gens, ReadRequest(g) PROVE CalleeType'
  BY <1>1 DEF ReadRequest
<1>2. ASSUME NEW g \in Gens, DeliverToMsgQueue(g) PROVE CalleeType'
  BY <1>2 DEF DeliverToMsgQueue, RpcWorkers
<1>3. ASSUME NEW i \in RpcWorkers, TakeTask(i) PROVE CalleeType'
  BY <1>3 DEF TakeTask, RpcWorkers
<1>4. ASSUME NEW i \in RpcWorkers, DoMsg(i) PROVE CalleeType'
  BY <1>4 DEF DoMsg, RpcWorkers
<1>5. ASSUME NEW i \in RpcWorkers, DoMsgNotFound(i) PROVE CalleeType'
  BY <1>5 DEF DoMsgNotFound, RpcWorkers
<1>6. CASE CalleeCrash
  BY <1>6 DEF CalleeCrash
<1>7. CASE UNCHANGED callee
  BY <1>7 DEF callee
<1>8. CASE UNCHANGED vars
  BY <1>7, <1>8 DEF vars
<1> QED
  BY <1>1, <1>2, <1>3, <1>4, <1>5, <1>6, <1>7, <1>8
  DEF Next, Add, SendRequest, Cast, GetResult, Timeout, RemoveExpired, ReadResponse,
      FillGet, FillRemove, FillSet, FillPanic, Disconnect, ReConnection, Terminated

LEMMA TypeStep == TypeOK /\ [Next]_vars => TypeOK'
  BY CallerTypeStep, LinkTypeStep, CalleeTypeStep DEF TypeOK

LEMMA TypeInit == Init => TypeOK
<1> SUFFICES ASSUME Init PROVE TypeOK
  OBVIOUS
<1> USE RpcAssumption
<1>1. closed \in [Calls -> BOOLEAN] /\ up \in BOOLEAN /\ crashed \in BOOLEAN
  BY DEF Init
<1>2. /\ wire \in [Gens -> Seq(Reqs)] /\ back \in Seq(Calls) /\ ran \in Seq(Reqs)
      /\ queue \in [0..PoolSize-1 -> Seq(Reqs)]
  BY DEF Init
<1>3. /\ hand \in [Gens -> Reqs \cup {None}]
      /\ worker \in [0..PoolSize-1 -> Reqs \cup {None}]
  BY DEF Init
<1>4. /\ idGen \in Keys /\ issued \in Nat /\ gen \in Gens /\ nsent \in Nat
      /\ via \in [Reqs -> Gens] /\ order \in [Reqs -> Nat] /\ key \in [Calls -> Keys]
  BY DEF Init, Keys, Gens
<1>5. /\ results \in [Keys -> Calls \cup {None}] /\ buf \in [Calls -> Calls \cup {None}]
      /\ reply \in [Calls -> Calls \cup {None}] /\ hres \in [Calls -> Calls \cup {None}]
  BY DEF Init
<1>6. /\ pc \in [Reqs -> CallStates] /\ hpc \in [Calls -> FillStates]
      /\ \A h \in Calls : hpc[h] \in {"remove", "set"} => hres[h] # None
  BY DEF Init, CallStates, FillStates
<1> QED
  BY <1>1, <1>2, <1>3, <1>4, <1>5, <1>6 DEF TypeOK, CallerType, LinkType, CalleeType

\* The type invariant holds in every behaviour of the RPC layer.
THEOREM TypeCorrect == Spec => []TypeOK
<1> QED BY TypeInit, TypeStep, PTL DEF Spec

(***************************************************************************)
(* The caller's inductive invariant.  OwnAnswer and NoStrandedResult speak *)
(* of calls that have returned; what makes them inductive is what holds of *)
(* the registrations, responses and slots still under way.                 *)
(***************************************************************************)

\* The request has been written to a connection (or the write was lost).
Written(r) == pc[r] \notin {"start", "send"}

\* Until the generator wraps, the keys of the started calls are distinct and
\* lie behind the generator.
KeyInv ==
    KeysUnused =>
        /\ idGen = (IF issued = MaxId + 1 THEN 0 ELSE issued)
        /\ \A c \in Calls : pc[c] # "start" /\ issued <= MaxId => key[c] \in 1..issued
        /\ \A c, d \in Calls :
              pc[c] # "start" /\ pc[d] # "start" /\ key[c] = key[d] => c = d

\* A registered call has the key it is registered under and has not returned.
ResultInv ==
    \A k \in Keys : results[k] # None =>
        /\ key[results[k]] = k
        /\ pc[results[k]] \in {"send", "wait", "expired"}

\* A response goroutine holds a started call with the response's own key, and
\* once it has removed the key that call is registered no more.
HandlerInv ==
    \A h \in Calls :
        /\ hpc[h] # "none" => Written(h)
        /\ hpc[h] \in {"remove", "set"} => key[hres[h]] = key[h] /\ pc[hres[h]] # "start"
        /\ hpc[h] = "set" => \A k \in Keys : results[k] # hres[h]

\* A slot, and a returned reply, hold the answer to a call with the same key;
\* a call whose slot is full is registered no more.
SlotInv ==
    \A c \in Calls :
        /\ buf[c] # None => /\ pc[c] # "start" /\ pc[buf[c]] # "start"
                            /\ key[buf[c]] = key[c]
                            /\ \A k \in Keys : results[k] # c
        /\ reply[c] # None => /\ pc[c] # "start" /\ pc[reply[c]] # "start"
                              /\ key[reply[c]] = key[c]

\* Only what was written is under way: the places a request can be.
WrittenReqs == {r \in Reqs : Written(r)}

FlightInv ==
    /\ wire \in [Gens -> Seq(WrittenReqs)]
    /\ back \in Seq(WrittenReqs)
    /\ hand \in [Gens -> WrittenReqs \cup {None}]
    /\ queue \in [0..PoolSize-1 -> Seq(WrittenReqs)]
    /\ worker \in [0..PoolSize-1 -> WrittenReqs \cup {None}]

CallerInv == TypeOK /\ KeyInv /\ ResultInv /\ HandlerInv /\ SlotInv /\ FlightInv

\* A call that started stays started, with its key; what is written stays so.
LEMMA Monotone ==
    ASSUME TypeOK, [Next]_vars
    PROVE  /\ \A r \in Reqs : Written(r) => Written(r)'
           /\ \A r \in Reqs : pc[r] # "start" => pc'[r] # "start"
           /\ \A c \in Calls : pc[c] # "start" => key'[c] = key[c]
<1> USE RpcAssumption DEF TypeOK, CallerType, Written, Reqs
<1>1. ASSUME NEW c \in Calls, Add(c)
      PROVE  pc' = [pc EXCEPT ![c] = "send"] /\ pc[c] = "start"
             /\ key' = [key EXCEPT ![c] = idGen']
  BY <1>1 DEF Add
<1>2. ASSUME NEW c \in Calls, SendRequest(c) \/ GetResult(c) \/ Timeout(c) \/ RemoveExpired(c)
      PROVE  /\ key' = key
             /\ \E s \in {"wait", "done", "expired", "failed"} :
                    pc' = [pc EXCEPT ![c] = s]
  BY <1>2 DEF SendRequest, GetResult, Timeout, RemoveExpired
<1>3. ASSUME NEW r \in Casts, Cast(r) PROVE pc' = [pc EXCEPT ![r] = "done"] /\ key' = key
  BY <1>3 DEF Cast
<1>4. CASE UNCHANGED <<pc, key>>
  BY <1>4
<1>5. CASE \E c \in Calls : Add(c)
  BY <1>1, <1>5
<1>6. CASE \E c \in Calls : SendRequest(c) \/ GetResult(c) \/ Timeout(c) \/ RemoveExpired(c)
  BY <1>2, <1>6
<1>7. CASE \E r \in Casts : Cast(r)
  BY <1>3, <1>7
<1>8. CASE UNCHANGED vars
  BY <1>4, <1>8 DEF vars
<1> QED
  BY <1>4, <1>5, <1>6, <1>7, <1>8
  DEF Next, ReadResponse, FillGet, FillRemove, FillSet, FillPanic, ReadRequest,
      DeliverToMsgQueue, TakeTask, DoMsg, DoMsgNotFound, Disconnect, CalleeCrash,
      ReConnection, Terminated, callerVars

LEMMA SeqMonotone ==
    ASSUME NEW S, NEW T, S \subseteq T, NEW s \in Seq(S) PROVE s \in Seq(T)
  OBVIOUS

LEMMA FlightStep == TypeOK /\ FlightInv /\ [Next]_vars => FlightInv'
<1> SUFFICES ASSUME TypeOK, FlightInv, [Next]_vars PROVE FlightInv'
  OBVIOUS
<1> USE RpcAssumption
<1> DEFINE W == WrittenReqs
<1> DEFINE V == WrittenReqs'
<1>1. W \subseteq V
  BY Monotone DEF WrittenReqs
<1>2. /\ wire \in [Gens -> Seq(V)] /\ back \in Seq(V)
      /\ hand \in [Gens -> V \cup {None}] /\ queue \in [0..PoolSize-1 -> Seq(V)]
      /\ worker \in [0..PoolSize-1 -> V \cup {None}]
      /\ gen \in Gens
  BY <1>1, SeqMonotone DEF FlightInv, TypeOK, LinkType
<1> SUFFICES /\ wire' \in [Gens -> Seq(V)] /\ back' \in Seq(V)
             /\ hand' \in [Gens -> V \cup {None}] /\ queue' \in [0..PoolSize-1 -> Seq(V)]
             /\ worker' \in [0..PoolSize-1 -> V \cup {None}]
  BY DEF FlightInv
<1> HIDE DEF V, W
<1>3. ASSUME NEW r \in V, Send(r) PROVE wire' \in [Gens -> Seq(V)] /\ back' = back
  BY <1>2, <1>3 DEF Send
<1>4. CASE ReadResponse
  BY <1>2, <1>4 DEF ReadResponse, callee
<1>5. ASSUME NEW h \in Calls, FillPanic(h) PROVE back' \in Seq(V)
  BY <1>5 DEF FillPanic
<1>6. ASSUME NEW g \in Gens, ReadRequest(g)
      PROVE  wire' \in [Gens -> Seq(V)] /\ hand' \in [Gens -> V \cup {None}]
  <2>1. wire[g] \in Seq(V) /\ wire[g] # <<>>
    BY <1>2, <1>6 DEF ReadRequest
  <2>2. Tail(wire[g]) \in Seq(V) /\ Head(wire[g]) \in V
    BY <2>1
  <2>3. wire' = [wire EXCEPT ![g] = Tail(wire[g])]
    BY <1>6 DEF ReadRequest
  <2> QED
    BY <1>2, <1>6, <2>2, <2>3 DEF ReadRequest
<1>7. ASSUME NEW g \in Gens, DeliverToMsgQueue(g)
      PROVE  queue' \in [0..PoolSize-1 -> Seq(V)] /\ hand' \in [Gens -> V \cup {None}]
  BY <1>2, <1>7 DEF DeliverToMsgQueue, RpcWorkers
<1>8. ASSUME NEW n \in RpcWorkers, TakeTask(n)
      PROVE  /\ queue' \in [0..PoolSize-1 -> Seq(V)]
             /\ worker' \in [0..PoolSize-1 -> V \cup {None}]
  BY <1>2, <1>8 DEF TakeTask, RpcWorkers
<1>9. ASSUME NEW n \in RpcWorkers, DoMsg(n)
      PROVE  back' \in Seq(V) /\ worker' \in [0..PoolSize-1 -> V \cup {None}]
  BY <1>2, <1>9 DEF DoMsg, RpcWorkers
<1>10. ASSUME NEW n \in RpcWorkers, DoMsgNotFound(n)
       PROVE  worker' \in [0..PoolSize-1 -> V \cup {None}]
  BY <1>2, <1>10 DEF DoMsgNotFound, RpcWorkers
<1>11. CASE Disconnect
  <2>1. PICK w \in Cuts(wire[gen]), b \in Cuts(back) :
            wire' = [wire EXCEPT ![gen] = w] /\ back' = b
    BY <1>11 DEF Disconnect
  <2>2. w \in Seq(V) /\ b \in Seq(V)
    BY <1>2, CutType
  <2> QED
    BY <1>2, <1>11, <2>1, <2>2 DEF Disconnect, callee
<1>12. CASE CalleeCrash
  <2>1. back' \in Seq(V)
    BY <1>2, <1>12, CutType DEF CalleeCrash
  <2>2. wire' \in [Gens -> Seq(V)] /\ queue' \in [0..PoolSize-1 -> Seq(V)]
    BY <1>2, <1>12 DEF CalleeCrash
  <2> QED
    BY <1>2, <1>12, <2>1, <2>2 DEF CalleeCrash
<1>13. ASSUME NEW c \in Calls, SendRequest(c) PROVE c \in V
  BY <1>13 DEF SendRequest, TypeOK, CallerType, V, WrittenReqs, Written, Reqs
<1>14. ASSUME NEW r \in Casts, Cast(r) PROVE r \in V
  BY <1>14 DEF Cast, TypeOK, CallerType, V, WrittenReqs, Written, Reqs
<1>15. CASE UNCHANGED <<wire, back, callee>>
  BY <1>2, <1>15 DEF callee
<1>16. CASE UNCHANGED vars
  BY <1>15, <1>16 DEF vars, link
<1>17. CASE \E c \in Calls : SendRequest(c)
  BY <1>2, <1>3, <1>13, <1>17 DEF SendRequest, callee
<1>18. CASE \E r \in Casts : Cast(r)
  BY <1>2, <1>3, <1>14, <1>18 DEF Cast, callee
<1>19. CASE \E h \in Calls : FillPanic(h)
  BY <1>2, <1>5, <1>19 DEF FillPanic, callee
<1>20. CASE \E g \in Gens : ReadRequest(g)
  BY <1>2, <1>6, <1>20 DEF ReadRequest
<1>21. CASE \E g \in Gens : DeliverToMsgQueue(g)
  BY <1>2, <1>7, <1>21 DEF DeliverToMsgQueue, link
<1>22. CASE \E n \in RpcWorkers : TakeTask(n) \/ DoMsgNotFound(n)
  BY <1>2, <1>8, <1>10, <1>22 DEF TakeTask, DoMsgNotFound, link
<1>23. CASE \E n \in RpcWorkers : DoMsg(n)
  BY <1>2, <1>9, <1>23 DEF DoMsg
<1> QED
  BY <1>4, <1>11, <1>12, <1>15, <1>16, <1>17, <1>18, <1>19, <1>20, <1>21, <1>22, <1>23
  DEF Next, Add, GetResult, Timeout, RemoveExpired, FillGet, FillRemove, FillSet,
      ReConnection, Terminated, link

\* Only Add hands out keys and starts calls.
LEMMA OnlyAddStarts ==
    ASSUME TypeOK, [Next]_vars, \A c \in Calls : ~Add(c)
    PROVE  /\ key' = key /\ idGen' = idGen /\ issued' = issued
           /\ \A c \in Calls : (pc'[c] = "start") <=> (pc[c] = "start")
<1> USE RpcAssumption DEF TypeOK, CallerType, Reqs, mgr, callerVars
<1>1. ASSUME NEW c \in Calls, SendRequest(c) \/ GetResult(c) \/ Timeout(c) \/ RemoveExpired(c)
      PROVE  /\ key' = key /\ idGen' = idGen /\ issued' = issued
             /\ pc[c] # "start"
             /\ \E s \in {"wait", "done", "expired", "failed"} :
                    pc' = [pc EXCEPT ![c] = s]
  BY <1>1 DEF SendRequest, GetResult, Timeout, RemoveExpired
<1>2. ASSUME NEW r \in Casts, Cast(r)
      PROVE  /\ key' = key /\ idGen' = idGen /\ issued' = issued
             /\ pc' = [pc EXCEPT ![r] = "done"]
  BY <1>2 DEF Cast
<1>3. CASE UNCHANGED <<pc, key, idGen, issued>>
  BY <1>3
<1>4. CASE \E c \in Calls : SendRequest(c) \/ GetResult(c) \/ Timeout(c) \/ RemoveExpired(c)
  BY <1>1, <1>4
<1>5. CASE \E r \in Casts : Cast(r)
  BY <1>2, <1>5
<1>6. CASE UNCHANGED vars
  BY <1>3, <1>6 DEF vars
<1> QED
  BY <1>3, <1>4, <1>5, <1>6
  DEF Next, ReadResponse, FillGet, FillRemove, FillSet, FillPanic, ReadRequest,
      DeliverToMsgQueue, TakeTask, DoMsg, DoMsgNotFound, Disconnect, CalleeCrash,
      ReConnection, Terminated

LEMMA KeyStep == TypeOK /\ KeyInv /\ [Next]_vars => KeyInv'
<1> SUFFICES ASSUME TypeOK, KeyInv, [Next]_vars PROVE KeyInv'
  OBVIOUS
<1> USE RpcAssumption DEF TypeOK, CallerType, KeyInv, KeysUnused
<1>1. CASE \A c \in Calls : ~Add(c)
  BY <1>1, OnlyAddStarts
<1>2. ASSUME NEW a \in Calls, Add(a), KeysUnused' PROVE KeyInv'
  <2>1. /\ issued <= MaxId /\ issued' = issued + 1 /\ issued \in Nat /\ idGen = issued
        /\ idGen' = IF issued = MaxId THEN 0 ELSE issued + 1
        /\ pc' = [pc EXCEPT ![a] = "send"] /\ key' = [key EXCEPT ![a] = idGen']
    BY <1>2 DEF Add, NextId
  <2>2. \A c \in Calls : c # a /\ pc[c] # "start" => key[c] \in 1..issued
    BY <2>1
  <2>3. \A c \in Calls : c # a => pc'[c] = pc[c] /\ key'[c] = key[c]
    BY <2>1 DEF Reqs
  <2>4. \A c \in Calls : c # a /\ pc[c] # "start" => key[c] # key'[a]
    BY <2>1, <2>2
  <2>5. idGen' = (IF issued' = MaxId + 1 THEN 0 ELSE issued')
    BY <2>1
  <2>6. \A c \in Calls : pc'[c] # "start" /\ issued' <= MaxId => key'[c] \in 1..issued'
    BY <2>1, <2>2, <2>3
  <2>7. \A c, d \in Calls :
           pc'[c] # "start" /\ pc'[d] # "start" /\ key'[c] = key'[d] => c = d
    BY <2>1, <2>3, <2>4
  <2> QED
    BY <2>5, <2>6, <2>7
<1> QED
  BY <1>1, <1>2

\* Add puts the registration in place; everything else only removes one.
LEMMA ResultStep == CallerInv /\ [Next]_vars => ResultInv'
<1> SUFFICES ASSUME CallerInv, [Next]_vars PROVE ResultInv'
  OBVIOUS
<1> USE RpcAssumption DEF CallerInv, TypeOK, CallerType, ResultInv
<1>1. ASSUME NEW a \in Calls, Add(a) PROVE ResultInv'
  <2>1. /\ pc[a] = "start" /\ idGen' \in Keys
        /\ pc' = [pc EXCEPT ![a] = "send"] /\ key' = [key EXCEPT ![a] = idGen']
        /\ results' = [results EXCEPT ![idGen'] = a]
    BY <1>1, CallerTypeStep DEF Add
  <2>2. \A k \in Keys : results[k] # a
    BY <2>1 DEF Reqs
  <2> SUFFICES ASSUME NEW k \in Keys, results'[k] # None
               PROVE  /\ key'[results'[k]] = k
                      /\ pc'[results'[k]] \in {"send", "wait", "expired"}
    OBVIOUS
  <2>3. CASE k = idGen'
    BY <2>1, <2>3 DEF Reqs
  <2>4. CASE k # idGen'
    BY <2>1, <2>2, <2>4 DEF Reqs
  <2> QED
    BY <2>3, <2>4
<1>2. ASSUME NEW c \in Calls, SendRequest(c) \/ Timeout(c) PROVE ResultInv'
  BY <1>2 DEF SendRequest, Timeout, mgr, Reqs
<1>3. ASSUME NEW c \in Calls, GetResult(c) PROVE ResultInv'
  <2>1. \A k \in Keys : results[k] # c
    BY <1>3 DEF GetResult, SlotInv
  <2> QED
    BY <1>3, <2>1 DEF GetResult, mgr, Reqs
<1>4. ASSUME NEW c \in Calls, RemoveExpired(c) PROVE ResultInv'
  BY <1>4 DEF RemoveExpired, Reqs
<1>5. ASSUME NEW r \in Casts, Cast(r) PROVE ResultInv'
  BY <1>5 DEF Cast, mgr, Reqs
<1>6. ASSUME NEW h \in Calls, FillRemove(h) PROVE ResultInv'
  BY <1>6 DEF FillRemove
<1>7. CASE UNCHANGED <<results, key, pc>>
  BY <1>7
<1>8. CASE UNCHANGED vars
  BY <1>7, <1>8 DEF vars, mgr
<1> QED
  BY <1>1, <1>2, <1>3, <1>4, <1>5, <1>6, <1>7, <1>8
  DEF Next, ReadResponse, FillGet, FillSet, FillPanic, ReadRequest, DeliverToMsgQueue,
      TakeTask, DoMsg, DoMsgNotFound, Disconnect, CalleeCrash, ReConnection, Terminated,
      mgr, callerVars

\* A registration that was not there before is Add's, of a call just started.
LEMMA OnlyAddRegisters ==
    ASSUME TypeOK, [Next]_vars
    PROVE  \A c \in Calls : pc[c] # "start" =>
             \A k \in Keys : results'[k] = c => results[k] = c
<1> USE RpcAssumption DEF TypeOK, CallerType, mgr, callerVars
<1>1. ASSUME NEW a \in Calls, Add(a)
      PROVE  /\ pc[a] = "start" /\ idGen' \in Keys
             /\ results' = [results EXCEPT ![idGen'] = a]
  BY <1>1, CallerTypeStep DEF Add
<1>2. ASSUME NEW c \in Calls, RemoveExpired(c) \/ FillRemove(c)
      PROVE  results' = [results EXCEPT ![key[c]] = None]
  BY <1>2 DEF RemoveExpired, FillRemove
<1>3. CASE UNCHANGED results
  BY <1>3
<1>4. CASE \E a \in Calls : Add(a)
  BY <1>1, <1>4
<1>5. CASE \E c \in Calls : RemoveExpired(c) \/ FillRemove(c)
  BY <1>2, <1>5 DEF Reqs
<1>6. CASE UNCHANGED vars
  BY <1>3, <1>6 DEF vars
<1> QED
  BY <1>3, <1>4, <1>5, <1>6
  DEF Next, SendRequest, GetResult, Timeout, Cast, ReadResponse, FillGet, FillSet,
      FillPanic, ReadRequest, DeliverToMsgQueue, TakeTask, DoMsg, DoMsgNotFound,
      Disconnect, CalleeCrash, ReConnection, Terminated

LEMMA HandlerStep == CallerInv /\ [Next]_vars => HandlerInv'
<1> SUFFICES ASSUME CallerInv, [Next]_vars, NEW h \in Calls
             PROVE  /\ hpc'[h] # "none" => Written(h)'
                    /\ hpc'[h] \in {"remove", "set"} =>
                          key'[hres'[h]] = key'[h] /\ pc'[hres'[h]] # "start"
                    /\ hpc'[h] = "set" => \A k \in Keys : results'[k] # hres'[h]
  BY DEF HandlerInv
<1> USE RpcAssumption DEF CallerInv, TypeOK, CallerType
<1>m. /\ \A r \in Reqs : Written(r) => Written(r)'
      /\ \A r \in Reqs : pc[r] # "start" => pc'[r] # "start"
      /\ \A c \in Calls : pc[c] # "start" => key'[c] = key[c]
  BY Monotone
<1>r. \A c \in Calls : pc[c] # "start" => \A k \in Keys : results'[k] = c => results[k] = c
  BY OnlyAddRegisters
<1>h. /\ hpc[h] # "none" => Written(h)
      /\ hpc[h] \in {"remove", "set"} =>
            key[hres[h]] = key[h] /\ pc[hres[h]] # "start" /\ hres[h] \in Calls
      /\ hpc[h] = "set" => \A k \in Keys : results[k] # hres[h]
  BY DEF HandlerInv
<1>w. /\ Written(h) => pc[h] # "start"
      /\ h \in Reqs /\ \A c \in Calls : c \in Reqs
  BY DEF Written, Reqs
<1>1. CASE hpc'[h] = hpc[h] /\ hres'[h] = hres[h]
  BY <1>m, <1>r, <1>h, <1>w, <1>1
<1>2. CASE ReadResponse
  <2>1. CASE h = Head(back)
    <3>1. Head(back) \in WrittenReqs
      BY <1>2 DEF FlightInv, ReadResponse
    <3>2. hpc'[h] = "get"
      BY <1>2, <2>1 DEF ReadResponse
    <3> QED
      BY <1>m, <1>w, <2>1, <3>1, <3>2 DEF WrittenReqs
  <2>2. CASE h # Head(back)
    BY <1>1, <1>2, <2>2 DEF ReadResponse
  <2> QED
    BY <2>1, <2>2
<1>3. ASSUME NEW f \in Calls, FillGet(f) PROVE h # f \/ hpc'[h] \in {"remove", "done"}
  BY <1>3 DEF FillGet
<1>4. CASE FillGet(h)
  <2>1. hpc[h] = "get" /\ hpc'[h] \in {"remove", "done"} /\ hres'[h] = results[key[h]]
        /\ (hpc'[h] = "remove" => results[key[h]] # None) /\ UNCHANGED <<key, pc>>
    BY <1>4 DEF FillGet
  <2>2. hpc'[h] = "remove" => key[results[key[h]]] = key[h]
                              /\ pc[results[key[h]]] \in {"send", "wait", "expired"}
    BY <2>1 DEF ResultInv
  <2> QED
    BY <1>h, <1>m, <1>w, <2>1, <2>2
<1>5. CASE FillRemove(h)
  <2>1. hpc[h] = "remove" /\ hpc'[h] = "set" /\ hres'[h] = hres[h]
        /\ results' = [results EXCEPT ![key[h]] = None] /\ UNCHANGED <<key, pc>>
    BY <1>5 DEF FillRemove
  <2>2. \A k \in Keys : results'[k] # hres[h]
    BY <1>h, <2>1 DEF ResultInv, Reqs
  <2> QED
    BY <1>h, <1>m, <1>w, <2>1, <2>2
<1>6. CASE FillSet(h)
  <2>1. hpc[h] = "set" /\ hpc'[h] = "done"
    BY <1>6 DEF FillSet
  <2> QED
    BY <1>h, <1>m, <1>w, <2>1
<1>7. ASSUME NEW f \in Calls, FillGet(f) \/ FillRemove(f) \/ FillSet(f), f # h
      PROVE  hpc'[h] = hpc[h] /\ hres'[h] = hres[h]
  BY <1>7 DEF FillGet, FillRemove, FillSet
<1>8. CASE \E f \in Calls : FillGet(f) \/ FillRemove(f) \/ FillSet(f)
  BY <1>1, <1>4, <1>5, <1>6, <1>7, <1>8
<1>9. CASE UNCHANGED fill
  BY <1>1, <1>9 DEF fill
<1>10. CASE UNCHANGED vars
  BY <1>9, <1>10 DEF vars
<1> QED
  BY <1>2, <1>8, <1>9, <1>10
  DEF Next, Add, SendRequest, GetResult, Timeout, RemoveExpired, Cast, FillPanic,
      ReadRequest, DeliverToMsgQueue, TakeTask, DoMsg, DoMsgNotFound, Disconnect,
      CalleeCrash, ReConnection, Terminated, callerVars

LEMMA SlotStep == CallerInv /\ [Next]_vars => SlotInv'
<1> SUFFICES ASSUME CallerInv, [Next]_vars, NEW c \in Calls
             PROVE  /\ buf'[c] # None => /\ pc'[c] # "start" /\ pc'[buf'[c]] # "start"
                                         /\ key'[buf'[c]] = key'[c]
                                         /\ \A k \in Keys : results'[k] # c
                    /\ reply'[c] # None => /\ pc'[c] # "start" /\ pc'[reply'[c]] # "start"
                                           /\ key'[reply'[c]] = key'[c]
  BY DEF SlotInv
<1> USE RpcAssumption DEF CallerInv, TypeOK, CallerType
<1>m. /\ \A r \in Calls : pc[r] # "start" => pc'[r] # "start"
      /\ \A r \in Calls : pc[r] # "start" => key'[r] = key[r]
  BY Monotone DEF Reqs
<1>r. \A d \in Calls : pc[d] # "start" => \A k \in Keys : results'[k] = d => results[k] = d
  BY OnlyAddRegisters
<1>s. /\ buf[c] # None => /\ pc[c] # "start" /\ pc[buf[c]] # "start" /\ buf[c] \in Calls
                          /\ key[buf[c]] = key[c]
                          /\ \A k \in Keys : results[k] # c
      /\ reply[c] # None => /\ pc[c] # "start" /\ pc[reply[c]] # "start"
                            /\ key[reply[c]] = key[c] /\ reply[c] \in Calls
  BY DEF SlotInv
<1>1. CASE buf'[c] = buf[c] /\ reply'[c] = reply[c]
  BY <1>m, <1>r, <1>s, <1>1
<1>2. CASE GetResult(c)
  <2>1. buf[c] # None /\ reply'[c] = buf[c] /\ buf'[c] = None
    BY <1>2 DEF GetResult
  <2> QED
    BY <1>m, <1>s, <2>1
<1>3. ASSUME NEW h \in Calls, FillSet(h), hres[h] = c PROVE
             /\ buf'[c] = h /\ reply'[c] = reply[c]
             /\ pc[h] # "start" /\ pc[c] # "start" /\ key[h] = key[c]
             /\ \A k \in Keys : results[k] # c
  BY <1>3 DEF FillSet, HandlerInv, Written
<1>4. CASE \E h \in Calls : FillSet(h) /\ hres[h] = c
  BY <1>m, <1>r, <1>s, <1>3, <1>4
<1>5. CASE \E h \in Calls : FillSet(h) /\ hres[h] # c
  BY <1>1, <1>5 DEF FillSet
<1>6. CASE \E d \in Calls : GetResult(d) /\ d # c
  BY <1>1, <1>6 DEF GetResult
<1>7. CASE UNCHANGED <<buf, reply>>
  BY <1>1, <1>7
<1>8. CASE UNCHANGED vars
  BY <1>7, <1>8 DEF vars, slot
<1> QED
  BY <1>2, <1>4, <1>5, <1>6, <1>7, <1>8
  DEF Next, Add, SendRequest, Timeout, RemoveExpired, Cast, ReadResponse, FillGet,
      FillRemove, FillPanic, ReadRequest, DeliverToMsgQueue, TakeTask, DoMsg,
      DoMsgNotFound, Disconnect, CalleeCrash, ReConnection, Terminated, callerVars, slot

LEMMA CallerInvInit == Init => CallerInv
<1> SUFFICES ASSUME Init PROVE CallerInv
  OBVIOUS
<1> USE RpcAssumption
<1>1. TypeOK
  BY TypeInit
<1>2. KeyInv /\ ResultInv /\ HandlerInv /\ SlotInv
  BY DEF Init, KeyInv, KeysUnused, ResultInv, HandlerInv, SlotInv, Reqs, Written
<1>3. wire \in [Gens -> Seq(WrittenReqs)] /\ back \in Seq(WrittenReqs)
      /\ queue \in [0..PoolSize-1 -> Seq(WrittenReqs)]
  BY DEF Init
<1>4. hand \in [Gens -> WrittenReqs \cup {None}]
      /\ worker \in [0..PoolSize-1 -> WrittenReqs \cup {None}]
  BY DEF Init
<1> QED
  BY <1>1, <1>2, <1>3, <1>4 DEF CallerInv, FlightInv

LEMMA CallerInvStep == CallerInv /\ [Next]_vars => CallerInv'
  BY TypeStep, KeyStep, ResultStep, HandlerStep, SlotStep, FlightStep DEF CallerInv

LEMMA CallerInvariant == Spec => []CallerInv
<1> QED BY CallerInvInit, CallerInvStep, PTL DEF Spec

\* A call never returns another call's answer (CallRpcForResult with
\* FillAsyncResult): both have the same key, and keys are distinct.
THEOREM OwnAnswerCorrect == Spec => []OwnAnswer
<1>1. CallerInv => OwnAnswer
  BY RpcAssumption
  DEF CallerInv, TypeOK, CallerType, KeyInv, SlotInv, OwnAnswer
<1> QED BY <1>1, CallerInvariant, PTL

\* A call that has returned leaves no entry in AsyncResultMgr.results, even
\* after the key generator has wrapped.
THEOREM NoStrandedResultCorrect == Spec => []NoStrandedResult
<1>1. CallerInv => NoStrandedResult
  BY RpcAssumption
  DEF Reqs, CallerInv, TypeOK, CallerType, ResultInv, NoStrandedResult
<1> QED BY <1>1, CallerInvariant, PTL

(***************************************************************************)
(* The places of a request on its way to the function: still to be read    *)
(* from a connection, decoded by a reader, queued, at the worker, run.     *)
(* v and o stand for via and order in what follows.                        *)
(***************************************************************************)
OnWire   == {r \in Reqs : \E g \in Gens : r \in Range(wire[g])}
InHand   == {r \in Reqs : \E g \in Gens : hand[g] = r}
Queued   == Range(queue[0])
AtWorker == {worker[0]} \cap Reqs
Ran      == Range(ran)

\* Requests of one connection stand in s in the order they were written.
Sorted(s, v, o) ==
    \A i, j \in DOMAIN s : i < j /\ v[s[i]] = v[s[j]] => o[s[i]] < o[s[j]]

\* Each request in A was written before those in B of the same connection.
Precede(A, B, v, o) == \A a \in A, b \in B : v[a] = v[b] => o[a] < o[b]

\* Only what was written can have been run, and a request is on the way of the
\* connection it was written to.
PlaceInv ==
    /\ \A r \in Ran : Written(r)
    /\ \A r \in Reqs : order[r] <= nsent
    /\ \A g \in Gens : \A r \in Range(wire[g]) : via[r] = g
    /\ \A g \in Gens : hand[g] # None => via[hand[g]] = g

\* Nothing overtakes on the way, so no request is in two places or runs twice.
OrderInv ==
    /\ \A g \in Gens : Sorted(wire[g], via, order)
    /\ Sorted(queue[0], via, order)
    /\ Sorted(ran, via, order)
    /\ Precede(InHand, OnWire, via, order)
    /\ Precede(Queued, OnWire \cup InHand, via, order)
    /\ Precede(AtWorker, OnWire \cup InHand \cup Queued, via, order)
    /\ Precede(Ran, OnWire \cup InHand \cup Queued \cup AtWorker, via, order)

\* A response, in flight, at its goroutine, in a slot or returned, is of a call
\* that was run, and no call has a second one.
AnswerInv ==
    /\ IsInjective(back)
    /\ \A c \in Range(back) : c \in Ran /\ hpc[c] = "none"
    /\ \A h \in Calls : hpc[h] # "none" => h \in Ran
    /\ \A c \in Calls : /\ buf[c] # None => buf[c] \in Ran
                        /\ reply[c] # None => reply[c] \in Ran

\* A cast only sends.
CastInv == \A r \in Casts : pc[r] \in {"start", "done"}

RequestInv == CallerInv /\ PlaceInv /\ OrderInv /\ AnswerInv /\ CastInv

(***************************************************************************)
(* Sequences as the queues they are.                                       *)
(***************************************************************************)

LEMMA RangeAppend ==
    ASSUME NEW S, NEW s \in Seq(S), NEW x \in S
    PROVE  Range(Append(s, x)) = Range(s) \cup {x}
<1>1. /\ DOMAIN Append(s, x) = 1..Len(s)+1 /\ DOMAIN s = 1..Len(s) /\ Len(s) \in Nat
      /\ \A i \in 1..Len(s) : Append(s, x)[i] = s[i]
      /\ Append(s, x)[Len(s)+1] = x
  OBVIOUS
<1> QED
  BY <1>1 DEF Range

LEMMA RangeTail ==
    ASSUME NEW S, NEW s \in Seq(S), s # <<>>
    PROVE  Head(s) \in Range(s) /\ Range(Tail(s)) \subseteq Range(s)
<1>1. /\ DOMAIN s = 1..Len(s) /\ Len(s) \in Nat /\ Len(s) > 0
      /\ DOMAIN Tail(s) = 1..Len(s)-1
      /\ \A i \in 1..Len(s)-1 : Tail(s)[i] = s[i+1]
      /\ Head(s) = s[1]
  OBVIOUS
<1> QED
  BY <1>1 DEF Range

LEMMA RangeCut ==
    ASSUME NEW S, NEW s \in Seq(S), NEW t \in Cuts(s)
    PROVE  Range(t) \subseteq Range(s)
<1>1. PICK n \in 0..Len(s) : t = SubSeq(s, 1, n)
  BY DEF Cuts
<1>2. DOMAIN t = 1..n /\ DOMAIN s = 1..Len(s) /\ \A i \in 1..n : t[i] = s[i]
  BY <1>1
<1> QED
  BY <1>2 DEF Range

LEMMA RangeType ==
    ASSUME NEW S, NEW s \in Seq(S) PROVE Range(s) \subseteq S
  BY DEF Range

LEMMA SortedAppend ==
    ASSUME NEW S, NEW s \in Seq(S), NEW x \in S, NEW v, NEW o,
           Sorted(s, v, o), Precede(Range(s), {x}, v, o)
    PROVE  Sorted(Append(s, x), v, o)
<1>1. /\ DOMAIN Append(s, x) = 1..Len(s)+1 /\ DOMAIN s = 1..Len(s) /\ Len(s) \in Nat
      /\ \A i \in 1..Len(s) : Append(s, x)[i] = s[i]
      /\ Append(s, x)[Len(s)+1] = x
  OBVIOUS
<1> SUFFICES ASSUME NEW i \in 1..Len(s)+1, NEW j \in 1..Len(s)+1, i < j,
                    v[Append(s, x)[i]] = v[Append(s, x)[j]]
             PROVE  o[Append(s, x)[i]] < o[Append(s, x)[j]]
  BY <1>1 DEF Sorted
<1>2. i \in 1..Len(s)
  BY <1>1
<1>3. CASE j \in 1..Len(s)
  BY <1>1, <1>2, <1>3 DEF Sorted
<1>4. CASE j = Len(s) + 1
  BY <1>1, <1>2, <1>4 DEF Precede, Range
<1> QED
  BY <1>1, <1>3, <1>4

LEMMA SortedTail ==
    ASSUME NEW S, NEW s \in Seq(S), s # <<>>, NEW v, NEW o, Sorted(s, v, o)
    PROVE  Sorted(Tail(s), v, o) /\ Precede({Head(s)}, Range(Tail(s)), v, o)
<1>1. /\ DOMAIN s = 1..Len(s) /\ Len(s) \in Nat /\ Len(s) > 0
      /\ DOMAIN Tail(s) = 1..Len(s)-1
      /\ \A i \in 1..Len(s)-1 : Tail(s)[i] = s[i+1]
      /\ Head(s) = s[1]
  OBVIOUS
<1>2. Sorted(Tail(s), v, o)
  BY <1>1 DEF Sorted
<1>3. Precede({Head(s)}, Range(Tail(s)), v, o)
  BY <1>1 DEF Sorted, Precede, Range
<1> QED
  BY <1>2, <1>3

LEMMA SortedCut ==
    ASSUME NEW S, NEW s \in Seq(S), NEW t \in Cuts(s), NEW v, NEW o, Sorted(s, v, o)
    PROVE  Sorted(t, v, o)
<1>1. PICK n \in 0..Len(s) : t = SubSeq(s, 1, n)
  BY DEF Cuts
<1>2. DOMAIN t = 1..n /\ DOMAIN s = 1..Len(s) /\ \A i \in 1..n : t[i] = s[i]
  BY <1>1
<1> QED
  BY <1>2 DEF Sorted

(***************************************************************************)
(* The order of the requests.                                              *)
(***************************************************************************)

\* Whatever is on its way, or was run, has been written.
LEMMA PlacesType ==
    ASSUME CallerInv, PlaceInv
    PROVE  /\ OnWire \subseteq WrittenReqs /\ InHand \subseteq WrittenReqs
           /\ Queued \subseteq WrittenReqs /\ AtWorker \subseteq WrittenReqs
           /\ Ran \subseteq WrittenReqs
<1> USE RpcAssumption DEF CallerInv, FlightInv
<1>1. OnWire \subseteq WrittenReqs
  BY RangeType DEF OnWire
<1>2. InHand \subseteq WrittenReqs
  BY DEF InHand
<1>3. Queued \subseteq WrittenReqs
  BY RangeType DEF Queued
<1>4. AtWorker \subseteq WrittenReqs
  BY DEF AtWorker
<1>5. Ran \subseteq WrittenReqs
  <2>1. Ran \subseteq Reqs
    BY RangeType DEF Ran, TypeOK, CalleeType
  <2> QED
    BY <2>1 DEF PlaceInv, WrittenReqs
<1> QED
  BY <1>1, <1>2, <1>3, <1>4, <1>5

\* A step that moves nothing forward keeps the order of what is left.
LEMMA ShrinkOrder ==
    ASSUME CallerInv, PlaceInv, OrderInv, UNCHANGED sent,
           OnWire' \subseteq OnWire, InHand' \subseteq InHand, Queued' \subseteq Queued,
           AtWorker' \subseteq AtWorker, ran' = ran,
           \A g \in Gens : Sorted(wire'[g], via, order),
           Sorted(queue'[0], via, order)
    PROVE  OrderInv'
<1>1. Ran' = Ran
  BY DEF Ran
<1> QED
  BY <1>1 DEF OrderInv, Precede, sent

\* Writing a request puts it last.
LEMMA SendOrder ==
    ASSUME CallerInv, PlaceInv, OrderInv, TypeOK', NEW r \in Reqs, ~Written(r), Written(r)',
           Send(r), UNCHANGED callee, \A q \in Reqs : Written(q) => Written(q)'
    PROVE  PlaceInv' /\ OrderInv'
<1> USE RpcAssumption
<1>1. /\ via' = [via EXCEPT ![r] = gen] /\ order' = [order EXCEPT ![r] = nsent + 1]
      /\ nsent' = nsent + 1
      /\ wire' = IF up THEN [wire EXCEPT ![gen] = Append(@, r)] ELSE wire
      /\ hand' = hand /\ queue' = queue /\ worker' = worker /\ ran' = ran
      /\ gen' = gen
      /\ wire \in [Gens -> Seq(Reqs)] /\ gen \in Gens /\ order \in [Reqs -> Nat]
      /\ via \in [Reqs -> Gens] /\ nsent \in Nat
  BY DEF Send, callee, CallerInv, TypeOK, LinkType
<1>2. InHand' = InHand /\ Queued' = Queued /\ AtWorker' = AtWorker /\ Ran' = Ran
  BY <1>1 DEF InHand, Queued, AtWorker, Ran
<1> DEFINE Places == OnWire \cup InHand \cup Queued \cup AtWorker \cup Ran
<1>3. Places \subseteq Reqs /\ r \notin Places
  BY PlacesType DEF WrittenReqs
<1>4. \A a \in Places : /\ via'[a] = via[a] /\ order'[a] = order[a]
                       /\ order[a] < order'[r]
  <2> SUFFICES ASSUME NEW a \in Places
               PROVE  via'[a] = via[a] /\ order'[a] = order[a] /\ order[a] < order'[r]
    OBVIOUS
  <2>1. a \in Reqs /\ a # r
    BY <1>3
  <2>2. order[a] \in Nat /\ order[a] <= nsent
    BY <1>1, <2>1 DEF PlaceInv
  <2> QED
    BY <1>1, <2>1, <2>2
<1>5. via'[r] = gen
  BY <1>1
<1>6. \A g \in Gens : Range(wire[g]) \subseteq OnWire
  BY <1>1, RangeType DEF OnWire
<1>7. \A g \in Gens : \/ wire'[g] = wire[g]
                      \/ g = gen /\ wire'[g] = Append(wire[g], r)
  BY <1>1
<1>8. \A g \in Gens : \/ Range(wire'[g]) = Range(wire[g])
                      \/ g = gen /\ Range(wire'[g]) = Range(wire[g]) \cup {r}
  BY <1>1, <1>7, RangeAppend
<1>9. OnWire' \subseteq OnWire \cup {r}
  BY <1>6, <1>8 DEF OnWire
<1>10. ASSUME NEW s, Range(s) \subseteq Places, Sorted(s, via, order)
       PROVE  Sorted(s, via', order')
  BY <1>4, <1>10 DEF Sorted, Range
<1>11. \A g \in Gens : Sorted(wire'[g], via', order')
  <2> SUFFICES ASSUME NEW g \in Gens PROVE Sorted(wire'[g], via', order')
    OBVIOUS
  <2>1. Sorted(wire[g], via', order')
    BY <1>6, <1>10 DEF OrderInv
  <2>2. Precede(Range(wire[g]), {r}, via', order')
    BY <1>4, <1>6 DEF Precede
  <2> QED
    BY <1>1, <1>7, <2>1, <2>2, SortedAppend
<1>12. Sorted(queue'[0], via', order') /\ Sorted(ran', via', order')
  <2>1. Range(queue[0]) \subseteq Places /\ Range(ran) \subseteq Places
    BY DEF Queued, Ran
  <2> QED
    BY <1>1, <1>10, <2>1 DEF OrderInv
<1>13. ASSUME NEW A, NEW B, A \subseteq Places, B \subseteq Places, Precede(A, B, via, order)
       PROVE  Precede(A, B \cup {r}, via', order')
  BY <1>4, <1>13 DEF Precede
<1>14. OrderInv'
  <2> HIDE DEF Places
  <2>1. /\ OnWire \subseteq Places /\ InHand \subseteq Places /\ Queued \subseteq Places
        /\ AtWorker \subseteq Places /\ Ran \subseteq Places
    BY DEF Places
  <2>2. /\ Precede(InHand, OnWire \cup {r}, via', order')
        /\ Precede(Queued, (OnWire \cup InHand) \cup {r}, via', order')
        /\ Precede(AtWorker, (OnWire \cup InHand \cup Queued) \cup {r}, via', order')
        /\ Precede(Ran, (OnWire \cup InHand \cup Queued \cup AtWorker) \cup {r}, via', order')
    BY <1>13, <2>1 DEF OrderInv
  <2>3. /\ Precede(InHand, OnWire', via', order')
        /\ Precede(Queued, OnWire' \cup InHand, via', order')
        /\ Precede(AtWorker, OnWire' \cup InHand \cup Queued, via', order')
        /\ Precede(Ran, OnWire' \cup InHand \cup Queued \cup AtWorker, via', order')
    BY <1>9, <2>2 DEF Precede
  <2> QED
    BY <1>2, <1>11, <1>12, <2>3 DEF OrderInv
<1>15. PlaceInv'
  <2>1. \A q \in Ran' : Written(q)'
    BY <1>2, PlacesType DEF WrittenReqs
  <2>2. \A q \in Reqs : order'[q] <= nsent'
    BY <1>1 DEF PlaceInv
  <2>3. \A g \in Gens : \A q \in Range(wire'[g]) : via'[q] = g
    BY <1>4, <1>5, <1>6, <1>8 DEF PlaceInv
  <2>4. \A g \in Gens : hand'[g] # None => via'[hand'[g]] = g
    BY <1>1, <1>4 DEF PlaceInv, InHand, CallerInv, TypeOK, CalleeType
  <2> QED
    BY <2>1, <2>2, <2>3, <2>4 DEF PlaceInv
<1> QED
  BY <1>14, <1>15

LEMMA PlaceStep == CallerInv /\ PlaceInv /\ OrderInv /\ [Next]_vars /\ UNCHANGED sent => PlaceInv'
<1> SUFFICES ASSUME CallerInv, PlaceInv, OrderInv, [Next]_vars, UNCHANGED sent
             PROVE  PlaceInv'
  OBVIOUS
<1> USE RpcAssumption DEF CallerInv, TypeOK, LinkType, CalleeType
<1>1. via' = via /\ order' = order /\ nsent' = nsent
  BY DEF sent
<1>2. \A r \in Reqs : Written(r) => Written(r)'
  BY Monotone
<1>3. \A r \in Reqs : order'[r] <= nsent'
  BY <1>1 DEF PlaceInv
<1>4. ASSUME Ran' \subseteq Ran \cup AtWorker PROVE \A r \in Ran' : Written(r)'
  <2>1. Ran' \subseteq WrittenReqs
    BY <1>4, PlacesType
  <2> QED
    BY <1>2, <2>1 DEF WrittenReqs
<1>5. ASSUME \A g \in Gens : Range(wire'[g]) \subseteq Range(wire[g]),
             \A g \in Gens : hand'[g] \in {None, hand[g]} \cup Range(wire[g]),
             Ran' \subseteq Ran \cup AtWorker
      PROVE  PlaceInv'
  <2>1. \A g \in Gens : \A r \in Range(wire'[g]) : via'[r] = g
    BY <1>1, <1>5 DEF PlaceInv
  <2>2. \A g \in Gens : hand'[g] # None => via'[hand'[g]] = g
    BY <1>1, <1>5 DEF PlaceInv
  <2> QED
    BY <1>3, <1>4, <1>5, <2>1, <2>2 DEF PlaceInv
<1>6. ASSUME NEW g \in Gens, ReadRequest(g) PROVE PlaceInv'
  <2>1. Head(wire[g]) \in Range(wire[g]) /\ Range(Tail(wire[g])) \subseteq Range(wire[g])
    BY <1>6, RangeTail DEF ReadRequest
  <2>2. \A k \in Gens : wire'[k] = IF k = g THEN Tail(wire[g]) ELSE wire[k]
    BY <1>6 DEF ReadRequest
  <2>3. \A k \in Gens : hand'[k] = IF k = g THEN Head(wire[g]) ELSE hand[k]
    BY <1>6 DEF ReadRequest
  <2>4. Ran' = Ran
    BY <1>6 DEF ReadRequest, Ran
  <2> QED
    BY <1>5, <2>1, <2>2, <2>3, <2>4
<1>7. ASSUME NEW g \in Gens, DeliverToMsgQueue(g) PROVE PlaceInv'
  <2>1. wire' = wire /\ Ran' = Ran
    BY <1>7 DEF DeliverToMsgQueue, link, Ran
  <2>2. \A k \in Gens : hand'[k] = IF k = g THEN None ELSE hand[k]
    BY <1>7 DEF DeliverToMsgQueue
  <2> QED
    BY <1>5, <2>1, <2>2
<1>8. ASSUME NEW i \in RpcWorkers, DoMsg(i) PROVE PlaceInv'
  <2>1. wire' = wire /\ hand' = hand
    BY <1>8 DEF DoMsg
  <2>2. worker[0] \in Reqs /\ ran' = Append(ran, worker[0])
    BY <1>8 DEF DoMsg, RpcWorkers
  <2>3. Ran' = Ran \cup AtWorker
    BY <2>2, RangeAppend DEF Ran, AtWorker
  <2> QED
    BY <1>5, <2>1, <2>3
<1>9. CASE Disconnect
  <2>1. PICK w \in Cuts(wire[gen]) : wire' = [wire EXCEPT ![gen] = w]
    BY <1>9 DEF Disconnect
  <2>2. Range(w) \subseteq Range(wire[gen])
    BY RangeCut
  <2>3. hand' = hand /\ Ran' = Ran
    BY <1>9 DEF Disconnect, callee, Ran
  <2> QED
    BY <1>5, <2>1, <2>2, <2>3
<1>10. CASE CalleeCrash
  <2>1. \A g \in Gens : wire'[g] = <<>> /\ hand'[g] = None
    BY <1>10 DEF CalleeCrash
  <2>2. Ran' = Ran
    BY <1>10 DEF CalleeCrash, Ran
  <2>3. Range(<<>>) = {}
    BY DEF Range
  <2> QED
    BY <1>5, <2>1, <2>2, <2>3
<1>11. CASE UNCHANGED <<wire, hand, ran>>
  BY <1>5, <1>11 DEF Ran
<1>12. CASE UNCHANGED vars
  BY <1>11, <1>12 DEF vars, link, callee
<1>13. ASSUME NEW r \in Reqs, pc[r] \in {"start", "send"}, Send(r) PROVE FALSE
  BY <1>1, <1>13 DEF Send
<1> QED
  BY <1>6, <1>7, <1>8, <1>9, <1>10, <1>11, <1>12, <1>13
  DEF Next, Add, SendRequest, Cast, GetResult, Timeout, RemoveExpired, ReadResponse, FillGet,
      FillRemove, FillSet, FillPanic, TakeTask, DoMsgNotFound, ReConnection, Terminated,
      link, callee, Reqs

LEMMA OrderStep == CallerInv /\ PlaceInv /\ OrderInv /\ [Next]_vars /\ UNCHANGED sent => OrderInv'
<1> SUFFICES ASSUME CallerInv, PlaceInv, OrderInv, [Next]_vars, UNCHANGED sent
             PROVE  OrderInv'
  OBVIOUS
<1> USE RpcAssumption DEF CallerInv, TypeOK, LinkType, CalleeType
<1>1. via' = via /\ order' = order /\ 0 \in 0..PoolSize-1
  BY DEF sent
<1>2. \A g \in Gens : Sorted(wire[g], via, order)
  BY DEF OrderInv
<1>3. ASSUME NEW g \in Gens, ReadRequest(g) PROVE OrderInv'
  <2> DEFINE x == Head(wire[g])
  <2>1. /\ wire[g] # <<>> /\ queue' = queue /\ worker' = worker /\ ran' = ran
        /\ \A k \in Gens : wire'[k] = IF k = g THEN Tail(wire[g]) ELSE wire[k]
        /\ \A k \in Gens : hand'[k] = IF k = g THEN x ELSE hand[k]
    BY <1>3 DEF ReadRequest
  <2>2. x \in Range(wire[g]) /\ Range(Tail(wire[g])) \subseteq Range(wire[g])
    BY <2>1, RangeTail
  <2>3. Sorted(Tail(wire[g]), via, order) /\ Precede({x}, Range(Tail(wire[g])), via, order)
    BY <1>2, <2>1, SortedTail
  <2>4. x \in OnWire /\ via[x] = g
    BY <2>2, RangeType DEF OnWire, PlaceInv
  <2>5. OnWire' \subseteq OnWire
    BY <2>1, <2>2 DEF OnWire
  <2>6. InHand' \subseteq InHand \cup {x}
    BY <2>1 DEF InHand
  <2>7. Queued' = Queued /\ AtWorker' = AtWorker /\ Ran' = Ran
    BY <2>1 DEF Queued, AtWorker, Ran
  <2>8. \A k \in Gens : Sorted(wire'[k], via', order')
    BY <1>1, <1>2, <2>1, <2>3
  <2>9. \A b \in OnWire' : via[b] = g => b \in Range(Tail(wire[g]))
    BY <2>1 DEF OnWire, PlaceInv
  <2>10. Precede({x}, OnWire', via, order)
    BY <2>3, <2>4, <2>9 DEF Precede
  <2> HIDE DEF x
  <2>11. /\ Precede(InHand', OnWire', via, order)
         /\ Precede(Queued, OnWire' \cup InHand', via, order)
         /\ Precede(AtWorker, OnWire' \cup InHand' \cup Queued, via, order)
         /\ Precede(Ran, OnWire' \cup InHand' \cup Queued \cup AtWorker, via, order)
    BY <2>4, <2>5, <2>6, <2>10 DEF Precede, OrderInv
  <2> QED
    BY <1>1, <2>1, <2>7, <2>8, <2>11 DEF OrderInv
<1>4. ASSUME NEW g \in Gens, DeliverToMsgQueue(g) PROVE OrderInv'
  <2> DEFINE x == hand[g]
  <2>1. /\ x \in Reqs /\ wire' = wire /\ worker' = worker /\ ran' = ran
        /\ queue'[0] = Append(queue[0], x)
        /\ \A k \in Gens : hand'[k] = IF k = g THEN None ELSE hand[k]
    BY <1>1, <1>4 DEF DeliverToMsgQueue, RpcWorkers, link
  <2>2. Queued' = Queued \cup {x}
    BY <1>1, <2>1, RangeAppend DEF Queued
  <2>3. OnWire' = OnWire /\ AtWorker' = AtWorker /\ Ran' = Ran
    BY <2>1 DEF OnWire, AtWorker, Ran
  <2>4. x \in InHand /\ via[x] = g
    BY <2>1 DEF InHand, PlaceInv
  <2>5. \A b \in InHand' : \E k \in Gens \ {g} : b = hand[k] /\ b \in Reqs
    BY <2>1 DEF InHand
  <2>5a. InHand' \subseteq InHand /\ \A b \in InHand' : via[b] # g
    BY <2>5 DEF InHand, PlaceInv
  <2>6. Sorted(queue'[0], via', order')
    <3>1. Precede(Queued, {x}, via, order)
      BY <2>4 DEF OrderInv, Precede
    <3> QED
      BY <1>1, <2>1, <3>1, SortedAppend DEF OrderInv, Queued
  <2> HIDE DEF x
  <2>7. /\ Precede(InHand', OnWire, via, order)
        /\ Precede(Queued', OnWire \cup InHand', via, order)
        /\ Precede(AtWorker, OnWire \cup InHand' \cup Queued', via, order)
        /\ Precede(Ran, OnWire \cup InHand' \cup Queued' \cup AtWorker, via, order)
    BY <2>2, <2>4, <2>5a DEF Precede, OrderInv
  <2> QED
    BY <1>1, <1>2, <2>1, <2>3, <2>6, <2>7 DEF OrderInv
<1>5. ASSUME NEW i \in RpcWorkers, TakeTask(i) PROVE OrderInv'
  <2> DEFINE x == Head(queue[0])
  <2>1. /\ queue[0] # <<>> /\ wire' = wire /\ hand' = hand /\ ran' = ran
        /\ queue'[0] = Tail(queue[0]) /\ worker'[0] = x /\ queue[0] \in Seq(Reqs)
    BY <1>1, <1>5 DEF TakeTask, RpcWorkers, link
  <2>2. x \in Queued /\ Queued' \subseteq Queued
    BY <2>1, RangeTail DEF Queued
  <2>3. Sorted(queue'[0], via, order) /\ Precede({x}, Queued', via, order)
    <3>1. Sorted(queue[0], via, order)
      BY DEF OrderInv
    <3>2. Queued' = Range(Tail(queue[0]))
      BY <2>1 DEF Queued
    <3>3. /\ Sorted(Tail(queue[0]), via, order)
          /\ Precede({Head(queue[0])}, Range(Tail(queue[0])), via, order)
      BY <2>1, <3>1, SortedTail
    <3> QED
      BY <2>1, <3>2, <3>3
  <2>4. OnWire' = OnWire /\ InHand' = InHand /\ Ran' = Ran
    BY <2>1 DEF OnWire, InHand, Ran
  <2>5. AtWorker' \subseteq {x}
    BY <2>1 DEF AtWorker
  <2> HIDE DEF x
  <2>6. /\ Precede(Queued', OnWire \cup InHand, via, order)
        /\ Precede(AtWorker', OnWire \cup InHand \cup Queued', via, order)
        /\ Precede(Ran, OnWire \cup InHand \cup Queued' \cup AtWorker', via, order)
    BY <2>2, <2>3, <2>5 DEF Precede, OrderInv
  <2> QED
    BY <1>1, <1>2, <2>1, <2>3, <2>4, <2>6 DEF OrderInv
<1>6. ASSUME NEW i \in RpcWorkers, DoMsg(i) PROVE OrderInv'
  <2> DEFINE x == worker[0]
  <2>1. /\ x \in Reqs /\ wire' = wire /\ hand' = hand /\ queue' = queue
        /\ ran' = Append(ran, x) /\ worker'[0] = None
    BY <1>1, <1>6 DEF DoMsg, RpcWorkers
  <2>2. OnWire' = OnWire /\ InHand' = InHand /\ Queued' = Queued /\ x \in AtWorker
    BY <2>1 DEF OnWire, InHand, Queued, AtWorker
  <2>3. AtWorker' = {} /\ Ran' = Ran \cup {x}
    BY <2>1, RangeAppend DEF AtWorker, Ran
  <2>4. Sorted(ran', via, order)
    <3>1. Precede(Ran, {x}, via, order)
      BY <2>2 DEF OrderInv, Precede
    <3> QED
      BY <2>1, <3>1, SortedAppend DEF OrderInv, Ran
  <2> HIDE DEF x
  <2>5. Precede(Ran', OnWire \cup InHand \cup Queued \cup AtWorker', via, order)
    BY <2>2, <2>3 DEF Precede, OrderInv
  <2>6. Precede(AtWorker', OnWire \cup InHand \cup Queued, via, order)
    BY <2>3 DEF Precede
  <2> QED
    BY <1>1, <1>2, <2>1, <2>2, <2>4, <2>5, <2>6 DEF OrderInv
<1>7. ASSUME NEW i \in RpcWorkers, DoMsgNotFound(i) PROVE OrderInv'
  <2>1. /\ wire' = wire /\ hand' = hand /\ queue' = queue /\ ran' = ran
        /\ worker'[0] = None
    BY <1>1, <1>7 DEF DoMsgNotFound, RpcWorkers, link
  <2>2. OnWire' = OnWire /\ InHand' = InHand /\ Queued' = Queued /\ AtWorker' = {}
    BY <2>1 DEF OnWire, InHand, Queued, AtWorker
  <2> QED
    BY <1>2, <2>1, <2>2, ShrinkOrder DEF OrderInv
<1>8. CASE Disconnect
  <2>1. PICK w \in Cuts(wire[gen]) : wire' = [wire EXCEPT ![gen] = w]
    BY <1>8 DEF Disconnect
  <2>2. Range(w) \subseteq Range(wire[gen]) /\ Sorted(w, via, order)
    BY <1>2, RangeCut, SortedCut
  <2>3. hand' = hand /\ queue' = queue /\ worker' = worker /\ ran' = ran
    BY <1>8 DEF Disconnect, callee
  <2>4. OnWire' \subseteq OnWire
    BY <2>1, <2>2 DEF OnWire
  <2>5. InHand' = InHand /\ Queued' = Queued /\ AtWorker' = AtWorker
    BY <2>3 DEF InHand, Queued, AtWorker
  <2>6. \A g \in Gens : Sorted(wire'[g], via, order)
    BY <1>2, <2>1, <2>2
  <2> QED
    BY <2>3, <2>4, <2>5, <2>6, ShrinkOrder DEF OrderInv
<1>9. CASE CalleeCrash
  <2>1. /\ \A g \in Gens : wire'[g] = <<>> /\ hand'[g] = None
        /\ queue'[0] = <<>> /\ worker'[0] = None /\ ran' = ran
    BY <1>1, <1>9 DEF CalleeCrash
  <2>2. Range(<<>>) = {} /\ Sorted(<<>>, via, order)
    BY DEF Range, Sorted
  <2>3. OnWire' = {}
    BY <2>1, <2>2 DEF OnWire
  <2>4. InHand' = {} /\ Queued' = {} /\ AtWorker' = {}
    BY <2>1, <2>2 DEF InHand, Queued, AtWorker
  <2>5. \A g \in Gens : Sorted(wire'[g], via, order)
    BY <2>1, <2>2
  <2> QED
    BY <2>1, <2>2, <2>3, <2>4, <2>5, ShrinkOrder
<1>10. CASE UNCHANGED <<wire, hand, queue, worker, ran>>
  <2>1. OnWire' = OnWire /\ InHand' = InHand /\ Queued' = Queued /\ AtWorker' = AtWorker
    BY <1>10 DEF OnWire, InHand, Queued, AtWorker
  <2> QED
    BY <1>2, <1>10, <2>1, ShrinkOrder DEF OrderInv
<1>11. CASE UNCHANGED vars
  BY <1>10, <1>11 DEF vars, link, callee
<1>12. ASSUME NEW r \in Reqs, pc[r] \in {"start", "send"}, Send(r) PROVE FALSE
  BY <1>12 DEF Send, sent
<1> QED
  BY <1>3, <1>4, <1>5, <1>6, <1>7, <1>8, <1>9, <1>10, <1>11, <1>12
  DEF Next, Add, SendRequest, Cast, GetResult, Timeout, RemoveExpired, ReadResponse, FillGet,
      FillRemove, FillSet, FillPanic, ReConnection, Terminated, link, callee, Reqs

(***************************************************************************)
(* The answers.                                                            *)
(***************************************************************************)

LEMMA InjectiveAppend ==
    ASSUME NEW S, NEW s \in Seq(S), NEW x \in S, IsInjective(s), x \notin Range(s)
    PROVE  IsInjective(Append(s, x))
<1>1. /\ DOMAIN Append(s, x) = 1..Len(s)+1 /\ DOMAIN s = 1..Len(s) /\ Len(s) \in Nat
      /\ \A i \in 1..Len(s) : Append(s, x)[i] = s[i]
      /\ Append(s, x)[Len(s)+1] = x
  OBVIOUS
<1>2. \A i \in 1..Len(s)+1 : i \in 1..Len(s) \/ i = Len(s) + 1
  BY <1>1
<1>3. \A i \in 1..Len(s) : s[i] # x
  BY <1>1 DEF Range
<1> QED
  BY <1>1, <1>2, <1>3 DEF IsInjective

LEMMA InjectiveTail ==
    ASSUME NEW S, NEW s \in Seq(S), s # <<>>, IsInjective(s)
    PROVE  IsInjective(Tail(s)) /\ Head(s) \notin Range(Tail(s))
<1>1. /\ DOMAIN s = 1..Len(s) /\ Len(s) \in Nat /\ Len(s) > 0
      /\ DOMAIN Tail(s) = 1..Len(s)-1
      /\ \A i \in 1..Len(s)-1 : Tail(s)[i] = s[i+1]
      /\ Head(s) = s[1]
  OBVIOUS
<1>2. IsInjective(Tail(s))
  BY <1>1 DEF IsInjective
<1>3. \A i \in 1..Len(s)-1 : s[i+1] # s[1]
  BY <1>1 DEF IsInjective
<1> QED
  BY <1>1, <1>2, <1>3 DEF Range

LEMMA InjectiveCut ==
    ASSUME NEW S, NEW s \in Seq(S), NEW t \in Cuts(s), IsInjective(s)
    PROVE  IsInjective(t)
<1>1. PICK n \in 0..Len(s) : t = SubSeq(s, 1, n)
  BY DEF Cuts
<1>2. DOMAIN t = 1..n /\ DOMAIN s = 1..Len(s) /\ \A i \in 1..n : t[i] = s[i]
  BY <1>1
<1> QED
  BY <1>2 DEF IsInjective

\* What has been run stays so.
LEMMA RanGrows ==
    ASSUME TypeOK, [Next]_vars
    PROVE  Ran \subseteq Ran'
<1>1. CASE \E i \in RpcWorkers : DoMsg(i)
  <2>1. \E r \in Reqs : ran' = Append(ran, r) /\ ran \in Seq(Reqs)
    BY <1>1, RpcAssumption DEF DoMsg, TypeOK, CalleeType
  <2> QED
    BY <2>1, RangeAppend DEF Ran
<1>2. CASE ran' = ran
  BY <1>2 DEF Ran
<1>3. CASE UNCHANGED vars
  BY <1>2, <1>3 DEF vars, callee
<1> QED
  BY <1>1, <1>2, <1>3
  DEF Next, Add, SendRequest, Cast, GetResult, Timeout, RemoveExpired, ReadResponse, FillGet,
      FillRemove, FillSet, FillPanic, ReadRequest, DeliverToMsgQueue, TakeTask, DoMsgNotFound,
      Disconnect, CalleeCrash, ReConnection, Terminated, callee

\* A request is not run again: the worker holds none that was run.
LEMMA NotTwice == TypeOK /\ OrderInv => Ran \cap AtWorker = {}
<1> SUFFICES ASSUME TypeOK, OrderInv, NEW r \in Ran, r \in AtWorker PROVE FALSE
  OBVIOUS
<1>1. order[r] < order[r]
  BY DEF OrderInv, Precede
<1>2. order[r] \in Nat
  BY DEF AtWorker, TypeOK, LinkType
<1> QED
  BY <1>1, <1>2

LEMMA AnswerStep == RequestInv /\ [Next]_vars => AnswerInv'
<1> SUFFICES ASSUME RequestInv, [Next]_vars PROVE AnswerInv'
  OBVIOUS
<1> USE RpcAssumption DEF RequestInv, CallerInv, TypeOK, CallerType, LinkType, CalleeType
<1>1. Ran \subseteq Ran'
  BY RanGrows
<1>2. /\ IsInjective(back) /\ back \in Seq(Calls) /\ Range(back) \subseteq Calls
      /\ \A c \in Range(back) : c \in Ran /\ hpc[c] = "none"
      /\ \A h \in Calls : hpc[h] # "none" => h \in Ran
      /\ \A c \in Calls : buf[c] # None => buf[c] \in Ran
      /\ \A c \in Calls : reply[c] # None => reply[c] \in Ran
  BY RangeType DEF AnswerInv
<1>3. ASSUME NEW b \in Cuts(back), back' = b
      PROVE  IsInjective(back') /\ Range(back') \subseteq Range(back)
  BY <1>2, <1>3, InjectiveCut, RangeCut
<1>4. CASE IsInjective(back') /\ Range(back') \subseteq Range(back) /\ UNCHANGED <<hpc, buf, reply>>
  BY <1>1, <1>2, <1>4 DEF AnswerInv
<1>5. CASE ReadResponse
  <2>1. back # <<>> /\ back' = Tail(back) /\ UNCHANGED <<buf, reply>>
        /\ hpc' = [hpc EXCEPT ![Head(back)] = "get"]
    BY <1>5 DEF ReadResponse, slot
  <2>2. /\ Head(back) \in Range(back) /\ Range(back') \subseteq Range(back)
        /\ IsInjective(back') /\ Head(back) \notin Range(back')
    BY <1>2, <2>1, RangeTail, InjectiveTail
  <2>3. \A c \in Range(back') : c \in Ran' /\ hpc'[c] = "none"
    BY <1>1, <1>2, <2>1, <2>2
  <2>4. \A h \in Calls : hpc'[h] # "none" => h \in Ran'
    BY <1>1, <1>2, <2>1, <2>2
  <2> QED
    BY <1>1, <1>2, <2>1, <2>2, <2>3, <2>4 DEF AnswerInv
<1>6. ASSUME NEW h \in Calls, FillGet(h) \/ FillRemove(h) \/ FillSet(h)
      PROVE  AnswerInv'
  <2>1. /\ hpc[h] # "none" /\ back' = back /\ reply' = reply
        /\ \A c \in Calls : c # h => hpc'[c] = hpc[c]
        /\ \A c \in Calls : buf'[c] = buf[c] \/ buf'[c] = h
    BY <1>6 DEF FillGet, FillRemove, FillSet, slot, link
  <2> QED
    BY <1>1, <1>2, <2>1 DEF AnswerInv
<1>7. ASSUME NEW c \in Calls, GetResult(c) PROVE AnswerInv'
  <2>1. /\ back' = back /\ hpc' = hpc /\ buf[c] # None
        /\ buf' = [buf EXCEPT ![c] = None] /\ reply' = [reply EXCEPT ![c] = buf[c]]
    BY <1>7 DEF GetResult, link, fill
  <2>2. \A d \in Calls : buf'[d] # None => buf'[d] = buf[d]
    BY <2>1
  <2>3. \A d \in Calls : reply'[d] # None => reply'[d] = reply[d] \/ reply'[d] = buf[c]
    BY <2>1
  <2> QED
    BY <1>1, <1>2, <2>1, <2>2, <2>3 DEF AnswerInv
<1>8. ASSUME NEW h \in Calls, FillPanic(h) PROVE AnswerInv'
  <2>1. back' = <<>> /\ UNCHANGED <<hpc, buf, reply>>
    BY <1>8 DEF FillPanic, fill, slot
  <2>2. IsInjective(<<>>) /\ Range(<<>>) = {}
    BY DEF IsInjective, Range
  <2> QED
    BY <1>4, <2>1, <2>2
<1>9. ASSUME NEW i \in RpcWorkers, DoMsg(i) PROVE AnswerInv'
  <2> DEFINE r == worker[0]
  <2>1. r \in Reqs /\ UNCHANGED <<hpc, buf, reply>> /\ ran' = Append(ran, r)
    BY <1>9 DEF DoMsg, RpcWorkers, callerVars, fill, slot
  <2>a. back' = back \/ (r \in Calls /\ back' = Append(back, r))
    BY <1>9 DEF DoMsg, RpcWorkers
  <2>2. r \in AtWorker /\ r \notin Ran
    BY <2>1, NotTwice DEF AtWorker
  <2>3. r \in Ran'
    BY <2>1, RangeAppend DEF Ran
  <2>4. CASE back' = back
    BY <1>2, <1>4, <2>1, <2>4
  <2>5. CASE r \in Calls /\ back' = Append(back, r)
    <3>1. Range(back') = Range(back) \cup {r} /\ IsInjective(back')
      BY <1>2, <2>2, <2>5, RangeAppend, InjectiveAppend
    <3>2. hpc[r] = "none"
      BY <1>2, <2>2, <2>5
    <3> HIDE DEF r
    <3> QED
      BY <1>1, <1>2, <2>1, <2>3, <3>1, <3>2 DEF AnswerInv
  <2> QED
    BY <2>a, <2>4, <2>5
<1>10. CASE Disconnect
  BY <1>3, <1>4, <1>10 DEF Disconnect, callerVars, fill, slot
<1>11. CASE CalleeCrash
  BY <1>3, <1>4, <1>11 DEF CalleeCrash, callerVars, fill, slot
<1>12. CASE UNCHANGED <<back, hpc, buf, reply>>
  BY <1>2, <1>4, <1>12
<1>13. CASE UNCHANGED vars
  BY <1>12, <1>13 DEF vars, link, fill, slot
<1>14. ASSUME NEW r \in Reqs, Send(r) PROVE back' = back
  BY <1>14 DEF Send
<1> QED
  BY <1>5, <1>6, <1>7, <1>8, <1>9, <1>10, <1>11, <1>12, <1>13, <1>14
  DEF Next, Add, SendRequest, Cast, Timeout, RemoveExpired, ReadRequest, DeliverToMsgQueue,
      TakeTask, DoMsgNotFound, ReConnection, Terminated, callerVars, link, fill, slot, Reqs

LEMMA CastStep == TypeOK /\ CastInv /\ [Next]_vars => CastInv'
<1> SUFFICES ASSUME TypeOK, CastInv, [Next]_vars PROVE CastInv'
  OBVIOUS
<1> USE RpcAssumption DEF TypeOK, CallerType, CastInv, Reqs
<1>1. ASSUME NEW c \in Calls,
             Add(c) \/ SendRequest(c) \/ GetResult(c) \/ Timeout(c) \/ RemoveExpired(c)
      PROVE  CastInv'
  <2>1. \E s \in CallStates : pc' = [pc EXCEPT ![c] = s]
    BY <1>1 DEF Add, SendRequest, GetResult, Timeout, RemoveExpired, CallStates
  <2> QED
    BY <2>1
<1>2. ASSUME NEW r \in Casts, Cast(r) PROVE CastInv'
  BY <1>2 DEF Cast
<1>3. CASE pc' = pc
  BY <1>3
<1>4. CASE UNCHANGED vars
  BY <1>3, <1>4 DEF vars
<1> QED
  BY <1>1, <1>2, <1>3, <1>4
  DEF Next, ReadResponse, FillGet, FillRemove, FillSet, FillPanic, ReadRequest,
      DeliverToMsgQueue, TakeTask, DoMsg, DoMsgNotFound, Disconnect, CalleeCrash,
      ReConnection, Terminated, callerVars

LEMMA RequestInvStep == RequestInv /\ [Next]_vars => RequestInv'
<1> SUFFICES ASSUME RequestInv, [Next]_vars PROVE RequestInv'
  OBVIOUS
<1>1. CallerInv' /\ AnswerInv' /\ CastInv'
  BY CallerInvStep, AnswerStep, CastStep DEF RequestInv, CallerInv
<1>2. TypeOK /\ TypeOK' /\ \A q \in Reqs : Written(q) => Written(q)'
  BY <1>1, Monotone DEF RequestInv, CallerInv
<1>3. CASE UNCHANGED sent
  BY <1>1, <1>3, PlaceStep, OrderStep DEF RequestInv
<1>4. ASSUME NEW r \in Reqs, Send(r), UNCHANGED callee, pc[r] \in {"start", "send"},
             pc'[r] \in {"wait", "done"}
      PROVE  PlaceInv' /\ OrderInv'
  <2>1. ~Written(r) /\ Written(r)'
    BY <1>4 DEF Written
  <2> QED
    BY <1>2, <1>4, <2>1, SendOrder DEF RequestInv
<1>5. CASE \E c \in Calls : SendRequest(c)
  <2>1. PICK c \in Calls : SendRequest(c)
    BY <1>5
  <2>2. c \in Reqs /\ pc[c] = "send" /\ pc'[c] = "wait" /\ Send(c) /\ UNCHANGED callee
    BY <1>2, <2>1 DEF SendRequest, TypeOK, CallerType, Reqs
  <2> QED
    BY <1>1, <1>4, <2>2 DEF RequestInv
<1>6. CASE \E r \in Casts : Cast(r)
  <2>1. PICK r \in Casts : Cast(r)
    BY <1>6
  <2>2. r \in Reqs /\ pc[r] = "start" /\ pc'[r] = "done" /\ Send(r) /\ UNCHANGED callee
    BY <1>2, <2>1 DEF Cast, TypeOK, CallerType, Reqs
  <2> QED
    BY <1>1, <1>4, <2>2 DEF RequestInv
<1>7. CASE UNCHANGED vars
  BY <1>3, <1>7 DEF vars
<1> QED
  BY <1>3, <1>5, <1>6, <1>7
  DEF Next, Add, GetResult, Timeout, RemoveExpired, ReadResponse, FillGet, FillRemove,
      FillSet, FillPanic, ReadRequest, DeliverToMsgQueue, TakeTask, DoMsg, DoMsgNotFound,
      Disconnect, CalleeCrash, ReConnection, Terminated

LEMMA RequestInvInit == Init => RequestInv
<1> SUFFICES ASSUME Init PROVE RequestInv
  OBVIOUS
<1> USE RpcAssumption
<1>1. Range(<<>>) = {} /\ IsInjective(<<>>) /\ \A v, o : Sorted(<<>>, v, o)
  BY DEF Range, IsInjective, Sorted
<1>2. /\ OnWire = {} /\ InHand = {} /\ Queued = {} /\ AtWorker = {} /\ Ran = {}
  BY <1>1 DEF Init, OnWire, InHand, Queued, AtWorker, Ran
<1>3. PlaceInv /\ CastInv
  BY <1>1, <1>2 DEF PlaceInv, CastInv, Init, Reqs
<1>4. OrderInv
  BY <1>1, <1>2 DEF OrderInv, Precede, Init
<1>5. AnswerInv
  BY <1>1, <1>2 DEF AnswerInv, Init
<1> QED
  BY <1>3, <1>4, <1>5, CallerInvInit DEF RequestInv

LEMMA RequestInvariant == Spec => []RequestInv
<1> QED BY RequestInvInit, RequestInvStep, PTL DEF Spec

\* The functions of the callee run at most once and, for each connection, in
\* the order the requests were written: the reader blocks while the queue is
\* full, and one worker takes from one queue (DeliverToMsgQueue,
\* StartWorkerLoop).
THEOREM ExecutionOrderCorrect == Spec => []ExecutionOrder
<1>1. RequestInv => ExecutionOrder
  BY DEF RequestInv, OrderInv, Sorted, ExecutionOrder
<1> QED BY <1>1, RequestInvariant, PTL

\* The keys only get used up.
LEMMA KeysStayUsed == TypeOK /\ [Next]_vars /\ KeysUnused' => KeysUnused
<1> SUFFICES ASSUME TypeOK, [Next]_vars, KeysUnused' PROVE KeysUnused
  OBVIOUS
<1>1. CASE \E c \in Calls : Add(c)
  BY <1>1, RpcAssumption DEF Add, KeysUnused, TypeOK, CallerType
<1>2. CASE ~\E c \in Calls : Add(c)
  BY <1>2, OnlyAddStarts DEF KeysUnused
<1> QED
  BY <1>1, <1>2

\* A waiting call can only lose its registration to the goroutine of its own
\* response, because no other has its key, and that goroutine, which no second
\* response disturbs, goes on to fill the slot.
LEMMA DeliverableStep ==
    RequestInv /\ AnswerDeliverable /\ [Next]_vars => AnswerDeliverable'
<1> SUFFICES ASSUME RequestInv, AnswerDeliverable, [Next]_vars, KeysUnused', KeysUnused,
                    NEW c \in Calls, pc'[c] \in {"send", "wait"}
             PROVE  \/ results'[key'[c]] = c
                    \/ buf'[c] # None
                    \/ \E h \in Calls : hpc'[h] = "set" /\ hres'[h] = c
  BY KeysStayUsed DEF AnswerDeliverable, RequestInv, CallerInv
<1> USE RpcAssumption DEF RequestInv, CallerInv, TypeOK, CallerType
<1> DEFINE Deliverable == \/ results[key[c]] = c
                          \/ buf[c] # None
                          \/ \E h \in Calls : hpc[h] = "set" /\ hres[h] = c
<1>1. pc[c] \in {"send", "wait"} => Deliverable
  BY DEF AnswerDeliverable
<1>2. \A d \in Calls : pc[d] # "start" /\ pc[c] # "start" /\ key[d] = key[c] => d = c
  BY DEF KeyInv
<1>3. CASE UNCHANGED <<pc, key, results, buf, hpc, hres>>
  BY <1>1, <1>3
<1>4. ASSUME NEW a \in Calls, Add(a) PROVE Deliverable'
  <2>1. /\ pc[a] = "start" /\ pc' = [pc EXCEPT ![a] = "send"] /\ idGen' \in Keys
        /\ key' = [key EXCEPT ![a] = idGen'] /\ results' = [results EXCEPT ![idGen'] = a]
        /\ buf' = buf /\ hpc' = hpc /\ hres' = hres
    BY <1>4, CallerTypeStep DEF Add, slot, fill
  <2>2. CASE a = c
    BY <2>1, <2>2
  <2>3. CASE a # c
    <3>1. pc[c] = pc'[c] /\ key'[c] = key[c] /\ pc'[a] # "start" /\ key'[a] = idGen'
      BY <2>1, <2>3 DEF Reqs
    <3>2. key'[a] # key'[c]
      <4>1. KeyInv'
        BY KeyStep
      <4> QED
        BY <2>3, <3>1, <4>1 DEF KeyInv
    <3> QED
      BY <1>1, <2>1, <3>1, <3>2
  <2> QED
    BY <2>2, <2>3
<1>5. ASSUME NEW d \in Calls, SendRequest(d) PROVE Deliverable'
  <2>1. pc[c] \in {"send", "wait"}
    BY <1>5 DEF SendRequest, Reqs
  <2> QED
    BY <1>1, <1>5, <2>1 DEF SendRequest, mgr, slot, fill
<1>6. ASSUME NEW d \in Casts, Cast(d) PROVE Deliverable'
  BY <1>1, <1>6 DEF Cast, mgr, slot, fill, Reqs
<1>7. ASSUME NEW d \in Calls, GetResult(d) PROVE Deliverable'
  BY <1>1, <1>7 DEF GetResult, mgr, fill, Reqs
<1>8. ASSUME NEW d \in Calls, Timeout(d) PROVE Deliverable'
  BY <1>1, <1>8 DEF Timeout, mgr, fill, Reqs
<1>9. ASSUME NEW d \in Calls, RemoveExpired(d) PROVE Deliverable'
  <2>1. d # c /\ pc[c] \in {"send", "wait"} /\ pc[d] # "start"
    BY <1>9 DEF RemoveExpired, Reqs
  <2>2. key[d] # key[c]
    BY <1>2, <2>1
  <2> QED
    BY <1>1, <1>9, <2>1, <2>2 DEF RemoveExpired, slot, fill
<1>10. CASE ReadResponse
  <2>1. hpc[Head(back)] = "none" /\ hpc' = [hpc EXCEPT ![Head(back)] = "get"]
    BY <1>10, RangeTail DEF ReadResponse, AnswerInv, LinkType
  <2> QED
    BY <1>1, <1>10, <2>1 DEF ReadResponse, mgr, slot
<1>11. ASSUME NEW h \in Calls, FillGet(h) PROVE Deliverable'
  BY <1>1, <1>11 DEF FillGet, mgr, slot
<1>12. ASSUME NEW h \in Calls, FillRemove(h) PROVE Deliverable'
  <2>1. /\ hpc[h] = "remove" /\ hpc' = [hpc EXCEPT ![h] = "set"]
        /\ results' = [results EXCEPT ![key[h]] = None]
        /\ UNCHANGED <<pc, key, buf, hres>>
    BY <1>12 DEF FillRemove, slot
  <2>2. /\ key[hres[h]] = key[h] /\ pc[hres[h]] # "start" /\ hres[h] \in Calls
        /\ pc[h] # "start"
    BY <2>1 DEF HandlerInv, Written
  <2>3. CASE key[h] = key[c]
    <3>1. hres[h] = c
      BY <1>2, <2>1, <2>2, <2>3
    <3> QED
      BY <2>1, <3>1
  <2>4. CASE key[h] # key[c]
    BY <1>1, <2>1, <2>4
  <2> QED
    BY <2>3, <2>4
<1>13. ASSUME NEW h \in Calls, FillSet(h) PROVE Deliverable'
  <2>1. /\ hpc[h] = "set" /\ hpc' = [hpc EXCEPT ![h] = "done"]
        /\ buf' = [buf EXCEPT ![hres[h]] = h]
        /\ UNCHANGED <<pc, key, results, hres>>
    BY <1>13 DEF FillSet, mgr
  <2>2. CASE hres[h] = c
    BY <2>1, <2>2 DEF Reqs
  <2>3. CASE hres[h] # c
    BY <1>1, <2>1, <2>3
  <2> QED
    BY <2>2, <2>3
<1>14. CASE UNCHANGED vars
  BY <1>3, <1>14 DEF vars, mgr, slot, fill
<1> QED
  BY <1>3, <1>4, <1>5, <1>6, <1>7, <1>8, <1>9, <1>10, <1>11, <1>12, <1>13, <1>14
  DEF Next, FillPanic, ReadRequest, DeliverToMsgQueue, TakeTask, DoMsg, DoMsgNotFound,
      Disconnect, CalleeCrash, ReConnection, Terminated, callerVars, mgr, slot, fill

\* As long as the key generator has not wrapped, no path through Remove or
\* FillAsyncResult forgets a call that still waits: it stays registered, or
\* its slot is full or about to be filled.
THEOREM AnswerDeliverableCorrect == Spec => []AnswerDeliverable
<1>1. Init => AnswerDeliverable
  BY DEF Init, AnswerDeliverable, Reqs
<1> QED
  BY <1>1, DeliverableStep, RequestInvariant, PTL DEF Spec

(***************************************************************************)
(* The promise of RpcPromise, as long as the key generator has not wrapped *)
(* (after that a call may return another call's answer).                   *)
(***************************************************************************)

\* Under distinct keys a slot, and a returned answer, hold the call's own.
LEMMA OwnSlot ==
    ASSUME RequestInv, KeysUnused, NEW c \in Calls
    PROVE  buf[c] \in {None, c} /\ reply[c] \in {None, c}
  BY DEF RequestInv, CallerInv, TypeOK, CallerType, KeyInv, SlotInv

\* A request was run once or not at all, as it is among those that were run.
ExecutionsValue == \A r \in Reqs : Executions[r] = IF r \in Ran THEN 1 ELSE 0

\* The outcome of a request follows from its own control state and reply.
OutcomeValue ==
    \A r \in Reqs :
        /\ Outcome[r] = "idle" <=> ~Written(r)
        /\ r \in Calls /\ pc[r] \in {"wait", "expired"} => Outcome[r] = "issued"
        /\ r \in Calls /\ pc[r] = "failed" => Outcome[r] = "failed"
        /\ r \in Calls /\ pc[r] = "done" /\ reply[r] = r => Outcome[r] = "answered"
        /\ r \in Casts /\ Written(r) => Outcome[r] = "issued"

LEMMA ExecutionsValues == TypeOK /\ OrderInv => ExecutionsValue
<1> SUFFICES ASSUME TypeOK, OrderInv, NEW r \in Reqs
             PROVE  Executions[r] = IF r \in Ran THEN 1 ELSE 0
  BY DEF ExecutionsValue
<1> DEFINE Runs == {i \in DOMAIN ran : ran[i] = r}
<1>1. Executions[r] = Cardinality(Runs)
  BY DEF Executions
<1>2. CASE r \notin Ran
  <2>1. Runs = {}
    BY <1>2 DEF Ran, Range
  <2> QED
    BY <1>1, <1>2, <2>1, FS_EmptySet
<1>3. CASE r \in Ran
  <2>1. PICK i \in DOMAIN ran : ran[i] = r
    BY <1>3 DEF Ran, Range
  <2>2. order[r] \in Nat /\ DOMAIN ran \subseteq Nat
    BY DEF TypeOK, LinkType, CalleeType
  <2>3. \A j, k \in DOMAIN ran : j < k /\ ran[j] = r /\ ran[k] = r => FALSE
    BY <2>2 DEF OrderInv, Sorted
  <2>4. Runs = {i}
    BY <2>1, <2>2, <2>3
  <2> QED
    BY <1>1, <1>3, <2>4, FS_Singleton
<1> QED
  BY <1>2, <1>3

LEMMA OutcomeValues == TypeOK /\ CastInv => OutcomeValue
<1> SUFFICES ASSUME TypeOK, CastInv, NEW r \in Reqs
    PROVE  /\ Outcome[r] = "idle" <=> ~Written(r)
           /\ r \in Calls /\ pc[r] \in {"wait", "expired"} => Outcome[r] = "issued"
           /\ r \in Calls /\ pc[r] = "failed" => Outcome[r] = "failed"
           /\ r \in Calls /\ pc[r] = "done" /\ reply[r] = r => Outcome[r] = "answered"
           /\ r \in Casts /\ Written(r) => Outcome[r] = "issued"
  BY DEF OutcomeValue
<1> USE RpcAssumption DEF TypeOK, CallerType, CallStates, Written
<1>1. pc[r] \in CallStates /\ (r \in Calls \/ r \in Casts) /\ ~(r \in Calls /\ r \in Casts)
  BY DEF Reqs
<1>2. CASE r \in Casts
  <2>1. Outcome[r] = IF pc[r] = "start" THEN "idle" ELSE "issued"
    BY <1>1, <1>2 DEF Outcome
  <2> QED
    BY <1>1, <1>2, <2>1 DEF CastInv
<1>3. CASE r \in Calls
  <2>1. Outcome[r] = CallOutcome(r, pc[r], reply[r])
    BY <1>3 DEF Outcome
  <2> QED
    BY <1>1, <1>3, <2>1 DEF CallOutcome
<1> QED
  BY <1>1, <1>2, <1>3

LEMMA PromiseInit == Init => Promise!PInit
<1> SUFFICES ASSUME Init PROVE Promise!PInit
  OBVIOUS
<1>1. TypeOK /\ OrderInv /\ CastInv /\ ran = <<>>
  BY RequestInvInit DEF RequestInv, CallerInv, Init
<1>2. \A r \in Reqs : ~Written(r) /\ r \notin Ran
  BY <1>1 DEF Init, Written, Ran, Range
<1>3. \A r \in Reqs : Outcome[r] = "idle" /\ Executions[r] = 0
  BY <1>1, <1>2, OutcomeValues, ExecutionsValues DEF OutcomeValue, ExecutionsValue
<1>4. Outcome = [r \in Reqs |-> "idle"]
  BY <1>3 DEF Outcome
<1>5. Executions = [r \in Reqs |-> 0]
  BY <1>3 DEF Executions
<1> QED
  BY <1>4, <1>5 DEF Promise!PInit, Reqs

\* A step that moves the control of one request maps to a change of its outcome.
LEMMA OutcomeChange ==
    ASSUME NEW r \in Reqs, NEW v, Outcome'[r] = v,
           \A q \in Reqs : q # r => pc'[q] = pc[q] /\ (q \in Calls => reply'[q] = reply[q])
    PROVE  Outcome' = [Outcome EXCEPT ![r] = v]
<1>1. \A q \in Reqs : q # r => Outcome'[q] = Outcome[q]
  <2> SUFFICES ASSUME NEW q \in Reqs, q # r PROVE Outcome'[q] = Outcome[q]
    OBVIOUS
  <2>1. pc'[q] = pc[q] /\ (q \in Calls => reply'[q] = reply[q])
    OBVIOUS
  <2> QED
    BY <2>1 DEF Outcome
<1>2. Outcome = [q \in Reqs |-> Outcome[q]] /\ Outcome' = [q \in Reqs |-> Outcome'[q]]
  BY DEF Outcome
<1> HIDE DEF Outcome
<1> QED
  BY <1>1, <1>2

LEMMA PromiseStep ==
    /\ RequestInv /\ OutcomeValue /\ ExecutionsValue
    /\ RequestInv' /\ OutcomeValue' /\ ExecutionsValue'
    /\ KeysUnused
    /\ [Next]_vars
    => [Promise!PNext]_(Promise!promiseVars)
<1> SUFFICES ASSUME RequestInv, OutcomeValue, ExecutionsValue, RequestInv', OutcomeValue',
                    ExecutionsValue', KeysUnused, [Next]_vars
             PROVE  Promise!PNext \/ (Outcome' = Outcome /\ Executions' = Executions)
  BY DEF Promise!promiseVars
<1> USE RpcAssumption
<1>2. /\ TypeOK /\ CastInv /\ OrderInv /\ TypeOK' /\ CastInv' /\ OrderInv'
      /\ pc \in [Reqs -> CallStates] /\ reply \in [Calls -> Calls \cup {None}]
  BY DEF RequestInv, CallerInv, TypeOK, CallerType
<1>3. \A r \in Reqs : /\ Executions[r] = IF r \in Ran THEN 1 ELSE 0
                      /\ Executions'[r] = IF r \in Ran' THEN 1 ELSE 0
  BY DEF ExecutionsValue
<1>4. ASSUME pc' = pc, reply' = reply PROVE Outcome' = Outcome
  BY <1>4 DEF Outcome
<1>5. ASSUME ran' = ran PROVE Executions' = Executions
  BY <1>5 DEF Executions
<1>6. ASSUME NEW r \in Reqs, pc[r] \in {"start", "send"}, reply' = reply, ran' = ran,
             pc' = [pc EXCEPT ![r] = IF r \in Calls THEN "wait" ELSE "done"]
      PROVE  Promise!Issue(r)
  <2>1. ~Written(r) /\ Written(r)' /\ (r \in Calls => pc'[r] = "wait") /\ (r \in Calls \/ r \in Casts)
    BY <1>2, <1>6 DEF Written, Reqs
  <2>2. Outcome[r] = "idle" /\ Outcome'[r] = "issued"
    BY <1>2, <2>1 DEF OutcomeValue
  <2>3. Outcome' = [Outcome EXCEPT ![r] = "issued"]
    BY <1>2, <1>6, <2>2, OutcomeChange
  <2> QED
    BY <1>5, <1>6, <2>2, <2>3 DEF Promise!Issue
<1>7. ASSUME NEW c \in Calls, Add(c) PROVE Outcome' = Outcome /\ Executions' = Executions
  <2>1. /\ pc[c] = "start" /\ pc' = [pc EXCEPT ![c] = "send"] /\ reply' = reply /\ ran' = ran
        /\ c \in Reqs
    BY <1>7 DEF Add, slot, callee, Reqs
  <2>2. ~Written(c) /\ ~Written(c)'
    BY <1>2, <2>1 DEF Written
  <2>3. Outcome[c] = "idle" /\ Outcome'[c] = "idle"
    BY <1>2, <2>1, <2>2 DEF OutcomeValue
  <2>4. Outcome' = [Outcome EXCEPT ![c] = "idle"]
    BY <1>2, <2>1, <2>3, OutcomeChange
  <2>5. [Outcome EXCEPT ![c] = "idle"] = Outcome
    BY <2>3 DEF Outcome
  <2> QED
    BY <1>5, <2>1, <2>4, <2>5
<1>8. ASSUME NEW c \in Calls, SendRequest(c) PROVE Promise!PNext
  <2>1. Promise!Issue(c)
    BY <1>6, <1>8 DEF SendRequest, slot, callee, Reqs
  <2> QED
    BY <2>1 DEF Promise!PNext
<1>9. ASSUME NEW r \in Casts, Cast(r) PROVE Promise!PNext
  <2>1. Promise!Issue(r)
    BY <1>6, <1>9 DEF Cast, slot, callee, Reqs
  <2> QED
    BY <2>1 DEF Promise!PNext
<1>10. ASSUME NEW c \in Calls, GetResult(c) PROVE Promise!PNext
  <2>1. /\ pc[c] = "wait" /\ pc' = [pc EXCEPT ![c] = "done"] /\ ran' = ran /\ c \in Reqs
        /\ buf[c] # None /\ reply' = [reply EXCEPT ![c] = buf[c]]
    BY <1>10 DEF GetResult, callee, Reqs
  <2>2. buf[c] = c /\ c \in Ran
    BY <2>1, OwnSlot DEF RequestInv, AnswerInv
  <2>3. pc'[c] = "done" /\ reply'[c] = c
    BY <1>2, <2>1, <2>2
  <2>4. Outcome[c] = "issued" /\ Outcome'[c] = "answered"
    BY <1>2, <2>1, <2>3 DEF OutcomeValue
  <2>5. Outcome' = [Outcome EXCEPT ![c] = "answered"]
    BY <1>2, <2>1, <2>4, OutcomeChange
  <2>6. Promise!Answer(c)
    BY <1>3, <1>5, <2>1, <2>2, <2>4, <2>5 DEF Promise!Answer
  <2> QED
    BY <2>6 DEF Promise!PNext
<1>11. ASSUME NEW c \in Calls, Timeout(c) PROVE Outcome' = Outcome /\ Executions' = Executions
  <2>1. /\ pc[c] = "wait" /\ pc' = [pc EXCEPT ![c] = "expired"] /\ ran' = ran /\ c \in Reqs
        /\ reply' = reply
    BY <1>11 DEF Timeout, callee, Reqs
  <2>2. pc'[c] = "expired"
    BY <1>2, <2>1
  <2>3. Outcome[c] = "issued" /\ Outcome'[c] = "issued"
    BY <1>2, <2>1, <2>2 DEF OutcomeValue
  <2>4. Outcome' = [Outcome EXCEPT ![c] = "issued"]
    BY <1>2, <2>1, <2>3, OutcomeChange
  <2>5. [Outcome EXCEPT ![c] = "issued"] = Outcome
    BY <2>3 DEF Outcome
  <2> QED
    BY <1>5, <2>1, <2>4, <2>5
<1>12. ASSUME NEW c \in Calls, RemoveExpired(c) PROVE Promise!PNext
  <2>1. /\ pc[c] = "expired" /\ pc' = [pc EXCEPT ![c] = "failed"] /\ ran' = ran /\ c \in Reqs
        /\ reply' = reply
    BY <1>12 DEF RemoveExpired, slot, callee, Reqs
  <2>2. pc'[c] = "failed"
    BY <1>2, <2>1
  <2>3. Outcome[c] = "issued" /\ Outcome'[c] = "failed"
    BY <1>2, <2>1, <2>2 DEF OutcomeValue
  <2>4. Outcome' = [Outcome EXCEPT ![c] = "failed"]
    BY <1>2, <2>1, <2>3, OutcomeChange
  <2>5. Promise!Fail(c)
    BY <1>5, <2>1, <2>3, <2>4 DEF Promise!Fail
  <2> QED
    BY <2>5 DEF Promise!PNext
<1>13. ASSUME NEW i \in RpcWorkers, DoMsg(i) PROVE Promise!PNext
  <2> DEFINE r == worker[0]
  <2>1. /\ r \in Reqs /\ ran' = Append(ran, r) /\ pc' = pc /\ reply' = reply
    BY <1>13 DEF DoMsg, RpcWorkers, callerVars, slot
  <2>2. r \in AtWorker /\ r \notin Ran /\ Ran' = Ran \cup {r}
    <3>1. ran \in Seq(Reqs)
      BY <1>2 DEF TypeOK, CalleeType
    <3> QED
      BY <1>2, <2>1, <3>1, NotTwice, RangeAppend DEF AtWorker, Ran
  <2>3. Written(r)
    BY <2>2, PlacesType DEF RequestInv, WrittenReqs
  <2> HIDE DEF r
  <2>4. Outcome[r] # "idle"
    BY <1>2, <2>1, <2>3 DEF OutcomeValue
  <2>5. Executions' = [Executions EXCEPT ![r] = 1]
    <3>1. \A q \in Reqs : Executions'[q] = IF q = r THEN 1 ELSE Executions[q]
      BY <1>3, <2>2
    <3>2. /\ Executions = [q \in Reqs |-> Executions[q]]
          /\ Executions' = [q \in Reqs |-> Executions'[q]]
      BY DEF Executions
    <3> HIDE DEF Executions
    <3> QED
      BY <3>1, <3>2
  <2>6. Promise!Execute(r)
    BY <1>3, <1>4, <2>1, <2>2, <2>4, <2>5 DEF Promise!Execute
  <2> QED
    BY <2>1, <2>6 DEF Promise!PNext, Reqs
<1>14. CASE UNCHANGED <<pc, reply, ran>>
  BY <1>4, <1>5, <1>14
<1>15. CASE UNCHANGED vars
  BY <1>14, <1>15 DEF vars, slot, callee
<1> QED
  BY <1>7, <1>8, <1>9, <1>10, <1>11, <1>12, <1>13, <1>14, <1>15
  DEF Next, ReadResponse, FillGet, FillRemove, FillSet, FillPanic, ReadRequest,
      DeliverToMsgQueue, TakeTask, DoMsgNotFound, Disconnect, CalleeCrash, ReConnection,
      Terminated, callerVars, slot, callee

\* The calls implement RpcPromise: whatever reconnections, crashes of the
\* callee, timeouts and late responses do, a request is executed at most once
\* and only after it was issued, and a call returns an answer only after its
\* own execution - while the 32-bit key generator has not wrapped.
THEOREM KeepsPromiseCorrect == Spec /\ []KeysUnused => KeepsPromise
<1>1. RequestInv => OutcomeValue /\ ExecutionsValue
  BY OutcomeValues, ExecutionsValues DEF RequestInv, CallerInv
<1> QED
  BY <1>1, PromiseInit, PromiseStep, RequestInvariant, PTL
  DEF Spec, KeepsPromise, Promise!PSpec
=============================================================================
