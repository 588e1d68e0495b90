----------------------------- MODULE RedisConn -----------------------------
(***************************************************************************)
(* A client connection of redigo (garyburd/redigo/redis/conn.go) and the   *)
(* server at its other end, as operators on a record:                      *)
(*   pending  conn.pending: replies the client still expects               *)
(*   err      conn.err is set and the socket is closed                     *)
(*   bw       commands in the write buffer                                 *)
(*   unread   replies and pushed messages that were not read yet           *)
(*   multi, watch, subs, monitor   the server's view of the client         *)
(* A command is its name; of replies only their number matters.  A         *)
(* connection has one user at a time, so that each method is one step.     *)
(***************************************************************************)
EXTENDS Integers, Sequences

\* NewConn, Dial.
Dialled == [pending |-> 0, err |-> FALSE, bw |-> <<>>, unread |-> 0,
            multi |-> FALSE, watch |-> FALSE, subs |-> 0, monitor |-> FALSE]

AtLeast(n, m) == IF n < m THEN m ELSE n

\* The server executes one command.  A subscribed client may only change its
\* subscriptions; inside MULTI commands are queued; every command has one
\* reply but UNSUBSCRIBE, which has one per channel and at least one.
Serve(c, cmd) ==
    LET r == [c EXCEPT !.unread = @ + 1] IN
    CASE cmd = "UNSUBSCRIBE" /\ ~c.multi ->
             [c EXCEPT !.unread = @ + AtLeast(c.subs, 1), !.subs = 0]
      [] cmd = "SUBSCRIBE" /\ ~c.multi -> [r EXCEPT !.subs = @ + 1]
      [] cmd = "EXEC" /\ c.multi /\ c.subs = 0 ->
             [r EXCEPT !.multi = FALSE, !.watch = FALSE]
      [] cmd = "DISCARD" /\ c.multi /\ c.subs = 0 ->
             [r EXCEPT !.multi = FALSE, !.watch = FALSE]
      [] cmd = "MULTI" /\ c.subs = 0   -> [r EXCEPT !.multi = TRUE]
      [] cmd = "WATCH" /\ ~c.multi /\ c.subs = 0   -> [r EXCEPT !.watch = TRUE]
      [] cmd = "UNWATCH" /\ ~c.multi /\ c.subs = 0 -> [r EXCEPT !.watch = FALSE]
      [] cmd = "MONITOR" /\ ~c.multi /\ c.subs = 0 -> [r EXCEPT !.monitor = TRUE]
      [] OTHER -> r

\* A message is published on a channel the client is subscribed to.
Push(c) == [c EXCEPT !.unread = @ + 1]

\* fatal, Close: the error is kept and the socket closed, so that every later
\* method fails and nothing else of the connection matters.
Fatal(c) == [Dialled EXCEPT !.err = TRUE]

\* Send: pending is raised before the command is written.
Send(c, cmd) == IF c.err THEN c
                ELSE [c EXCEPT !.pending = @ + 1, !.bw = Append(@, cmd)]

\* The server executes what it receives.
Served(c, q) ==
    LET served[i \in 0..Len(q)] == IF i = 0 THEN c ELSE Serve(served[i-1], q[i])
    IN  served[Len(q)]

\* Flush: the write buffer goes to the server.
Flush(c) == IF c.err THEN c ELSE Served([c EXCEPT !.bw = <<>>], c.bw)

\* readReply, n times.  If too few replies come the read deadline passes.
ReadReplies(c, n) ==
    IF c.err \/ c.unread < n THEN Fatal(c) ELSE [c EXCEPT !.unread = @ - n]

\* A push that is read does not count as a reply: pending is taken below what
\* is expected.
FaultyReceiveNegative(c) ==
    LET r == ReadReplies(c, 1) IN
    IF r.err THEN r ELSE [r EXCEPT !.pending = @ - 1]

\* Receive: pending is lowered, but not below zero.
Receive(c) ==
    LET r == ReadReplies(c, 1) IN
    IF r.err THEN r ELSE [r EXCEPT !.pending = AtLeast(@ - 1, 0)]

\* Do: writes the command, flushes, and reads all replies that are due.  Do("")
\* reads those of earlier commands only, and does nothing if there are none.
Do(c, cmd) ==
    LET w == [c EXCEPT !.pending = 0, !.bw = IF cmd = "" THEN @ ELSE Append(@, cmd)] IN
    IF cmd = "" /\ c.pending = 0 THEN c
    ELSE ReadReplies(Flush(w), IF cmd = "" THEN c.pending ELSE c.pending + 1)

\* A connection that carries nothing over to its next user.
Clean(c) == [c EXCEPT !.err = FALSE] = Dialled
=============================================================================
