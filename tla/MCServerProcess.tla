-------------------------- MODULE MCServerProcess --------------------------
(* Instances of ServerProcess for TLC. *)
EXTENDS ServerProcess, TLC

CONSTANTS c1, c2, c3, r1, r2, later, loop

\* c1 and c3 share a worker of a pool of two.
Sids == [c \in {c1, c2, c3} |-> IF c = c1 THEN 1 ELSE IF c = c2 THEN 2 ELSE 3]

Gate == [role |-> "gate", pool |-> TRUE, server |-> TRUE, web |-> TRUE, http |-> TRUE,
         conns |-> {c1}, requests |-> {r1}, calls |-> {}]

\* A gate with delayed calls.
GateCalls == [Gate EXCEPT !.conns = {}, !.requests = {}, !.calls = {later, loop}]

Net == [role |-> "net", pool |-> TRUE, server |-> TRUE, web |-> TRUE, http |-> FALSE,
        conns |-> {c1, c2, c3}, requests |-> {}, calls |-> {}]

\* A net with delayed calls, one without a pool, and a game process with
\* clients, which has no use for their messages.
NetCalls   == [Net EXCEPT !.conns = {c1}, !.calls = {later, loop}, !.web = FALSE]
NetNoPool  == [Net EXCEPT !.conns = {c1}, !.pool = FALSE]
AdminWeb   == [role |-> "admin", pool |-> TRUE, server |-> FALSE, web |-> TRUE, http |-> TRUE,
               conns |-> {}, requests |-> {r1, r2}, calls |-> {}]
AdminMsgs  == [AdminWeb EXCEPT !.server = TRUE, !.conns = {c1}, !.requests = {r1}]

All == {Gate, GateCalls, Net, NetCalls, NetNoPool, AdminWeb, AdminMsgs}
============================================================================
