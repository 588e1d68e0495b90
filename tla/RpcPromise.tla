----------------------------- MODULE RpcPromise -----------------------------
(***************************************************************************)
(* What CallRpcForResult and CallRpcNotForResult promise to the code that  *)
(* uses them, without keys, slots, queues or connections: a request is     *)
(* executed at most once and only after it was issued; a call that returns *)
(* an answer was executed; a call may fail at any time, executed or not,   *)
(* and a failed call may still be executed afterwards.                     *)
(***************************************************************************)
CONSTANTS Calls, Casts

VARIABLES outcome,   \* of each request: "idle", "issued", "answered", "failed"
          executions \* how often the function of each request was called

promiseVars == <<outcome, executions>>

PInit ==
    /\ outcome = [r \in Calls \cup Casts |-> "idle"]
    /\ executions = [r \in Calls \cup Casts |-> 0]

\* The request is issued; for a cast this is all its caller ever learns.
Issue(r) ==
    /\ outcome[r] = "idle"
    /\ outcome' = [outcome EXCEPT ![r] = "issued"]
    /\ UNCHANGED executions

\* The callee calls the function of an issued request, once.
Execute(r) ==
    /\ outcome[r] # "idle"
    /\ executions[r] = 0
    /\ executions' = [executions EXCEPT ![r] = 1]
    /\ UNCHANGED outcome

\* The call returns its answer.
Answer(c) ==
    /\ outcome[c] = "issued"
    /\ executions[c] = 1
    /\ outcome' = [outcome EXCEPT ![c] = "answered"]
    /\ UNCHANGED executions

\* The call returns an error.
Fail(c) ==
    /\ outcome[c] = "issued"
    /\ outcome' = [outcome EXCEPT ![c] = "failed"]
    /\ UNCHANGED executions

PNext ==
    \/ \E r \in Calls \cup Casts : Issue(r) \/ Execute(r)
    \/ \E c \in Calls : Answer(c) \/ Fail(c)

PSpec == PInit /\ [][PNext]_promiseVars
=============================================================================
