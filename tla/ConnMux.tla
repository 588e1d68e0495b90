------------------------------ MODULE ConnMux ------------------------------
(***************************************************************************)
(* redigo's multiplexer (garyburd/redigo/redisx/connmux.go): goroutines    *)
(* share one connection, each through a muxConn of its own.  Commands are  *)
(* numbered as they are written; who reads is decided by the number.       *)
(*                                                                         *)
(* A command, and the reply to it, is its number.  place[m] is where       *)
(* goroutine m is: run, lock (before recvMu.Lock), blocked (on its         *)
(* channel), relock, read (in conn.Receive, with recvMu), pass (before the *)
(* send that hands the turn on), panic.                                    *)
(***************************************************************************)
EXTENDS Integers, Sequences, FiniteSets

CONSTANTS Muxers,    \* goroutines, one muxConn each
          MaxSends   \* bound: commands per goroutine

VARIABLES place,
          ids,       \* muxConn.ids
          turn,       \* the number Receive took from ids
          sends,     \* how many commands a goroutine has written
          ended,     \* the goroutine is in muxConn.Close
          sendID, recvID,
          recvWait,  \* numbers with a channel in recvWait
          recvMu,    \* who has recvMu: a set of at most one
          buffered,  \* written but not flushed
          stream,    \* replies that are on their way
          broken     \* the connection has failed

muxVars == <<place, ids, turn, sends, ended, sendID, recvID, recvWait, recvMu,
             buffered, stream, broken>>

\* All goroutines are about to start, or done (muxConn.Close has returned).
MuxStart(done) ==
    /\ place = [m \in Muxers |-> "run"]
    /\ ids = [m \in Muxers |-> <<>>]
    /\ turn = [m \in Muxers |-> 0]
    /\ sends = [m \in Muxers |-> 0]
    /\ ended = [m \in Muxers |-> done]
    /\ sendID = 0 /\ recvID = 0
    /\ recvWait = {} /\ recvMu = {}
    /\ buffered = <<>> /\ stream = <<>>
    /\ broken = FALSE

MuxInit == MuxStart(FALSE)

\* Receive, up to recvMu.Lock, for the goroutine's oldest number of list.
Enter(m, list) ==
    /\ turn' = [turn EXCEPT ![m] = Head(list)]
    /\ ids' = [ids EXCEPT ![m] = Tail(list)]
    /\ place' = [place EXCEPT ![m] = "lock"]

\* muxConn.Send, under sendMu.
MuxSend(m) ==
    /\ place[m] = "run" /\ ~ended[m] /\ sends[m] < MaxSends
    /\ sends' = [sends EXCEPT ![m] = @ + 1]
    /\ sendID' = sendID + 1
    /\ ids' = [ids EXCEPT ![m] = Append(@, sendID)]
    /\ buffered' = IF broken THEN buffered ELSE Append(buffered, sendID)
    /\ UNCHANGED <<place, turn, ended, recvID, recvWait, recvMu, stream, broken>>

\* muxConn.Do: send with a flush, then Receive of the oldest number, which may
\* be that of an earlier Send.  After an error the number stays in ids.
MuxDo(m) ==
    /\ place[m] = "run" /\ ~ended[m] /\ sends[m] < MaxSends
    /\ sends' = [sends EXCEPT ![m] = @ + 1]
    /\ sendID' = sendID + 1
    /\ IF broken
       THEN /\ ids' = [ids EXCEPT ![m] = Append(@, sendID)]
            /\ UNCHANGED <<place, turn, buffered, stream>>
       ELSE /\ Enter(m, Append(ids[m], sendID))
            /\ stream' = stream \o Append(buffered, sendID)
            /\ buffered' = <<>>
    /\ UNCHANGED <<ended, recvID, recvWait, recvMu, broken>>

\* muxConn.Flush.
MuxFlush(m) ==
    /\ place[m] = "run" /\ buffered # <<>> /\ ids[m] # <<>>
    /\ stream' = stream \o buffered
    /\ buffered' = <<>>
    /\ UNCHANGED <<place, ids, turn, sends, ended, sendID, recvID, recvWait, recvMu, broken>>

\* muxConn.Close: flush, then Receive for everything that is left.
MuxClose(m) ==
    /\ place[m] = "run" /\ ~ended[m]
    /\ ended' = [ended EXCEPT ![m] = TRUE]
    /\ stream' = IF ids[m] = <<>> THEN stream ELSE stream \o buffered
    /\ buffered' = IF ids[m] = <<>> THEN buffered ELSE <<>>
    /\ UNCHANGED <<place, ids, turn, sends, sendID, recvID, recvWait, recvMu, broken>>

\* muxConn.Receive, of a command that has been flushed.
MuxReceive(m) ==
    /\ place[m] = "run" /\ ids[m] # <<>>
    /\ \A i \in DOMAIN buffered : buffered[i] # Head(ids[m])
    /\ Enter(m, ids[m])
    /\ UNCHANGED <<sends, ended, sendID, recvID, recvWait, recvMu, buffered, stream, broken>>

\* recvMu.Lock: it is this goroutine's turn, or it leaves a channel and waits.
MuxLock(m) ==
    /\ place[m] = "lock" /\ recvMu = {}
    /\ IF recvID = turn[m]
       THEN /\ recvMu' = {m}
            /\ place' = [place EXCEPT ![m] = "read"]
            /\ UNCHANGED recvWait
       ELSE /\ recvWait' = recvWait \cup {turn[m]}
            /\ place' = [place EXCEPT ![m] = "blocked"]
            /\ UNCHANGED recvMu
    /\ UNCHANGED <<ids, turn, sends, ended, sendID, recvID, buffered, stream, broken>>

\* The second recvMu.Lock; "out of sync" if it is someone else's turn.
MuxRelock(m) ==
    /\ place[m] = "relock" /\ recvMu = {}
    /\ recvMu' = IF recvID = turn[m] THEN {m} ELSE {}
    /\ place' = [place EXCEPT ![m] = IF recvID = turn[m] THEN "read" ELSE "panic"]
    /\ UNCHANGED <<ids, turn, sends, ended, sendID, recvID, recvWait, buffered, stream, broken>>

\* The channel of the next number is left in recvWait without a wake-up.
FaultyMuxReadForgets(m) ==
    /\ place[m] = "read" /\ (broken \/ stream # <<>>)
    /\ stream' = IF broken THEN stream ELSE Tail(stream)
    /\ recvID' = turn[m] + 1
    /\ recvMu' = {}
    /\ place' = [place EXCEPT ![m] = "run"]
    /\ UNCHANGED <<ids, turn, sends, ended, sendID, recvWait, buffered, broken>>

\* conn.Receive returns a reply or the connection's error; the next number's
\* channel, if it is there, is taken out, and recvMu released.
MuxRead(m) ==
    /\ place[m] = "read" /\ (broken \/ stream # <<>>)
    /\ stream' = IF broken THEN stream ELSE Tail(stream)
    /\ recvID' = turn[m] + 1
    /\ recvWait' = recvWait \ {turn[m] + 1}
    /\ recvMu' = {}
    /\ place' = [place EXCEPT ![m] = IF turn[m] + 1 \in recvWait THEN "pass" ELSE "run"]
    /\ UNCHANGED <<ids, turn, sends, ended, sendID, buffered, broken>>

\* ch <- struct{}{} meets <-ch.
MuxPass(m) ==
    /\ place[m] = "pass"
    /\ \E w \in Muxers :
          /\ place[w] = "blocked" /\ turn[w] = turn[m] + 1
          /\ place' = [place EXCEPT ![m] = "run", ![w] = "relock"]
    /\ UNCHANGED <<ids, turn, sends, ended, sendID, recvID, recvWait, recvMu, buffered,
                   stream, broken>>

\* The connection fails; what is under way is lost.
MuxBreak ==
    /\ ~broken /\ broken' = TRUE
    /\ buffered' = <<>> /\ stream' = <<>>
    /\ UNCHANGED <<place, ids, turn, sends, ended, sendID, recvID, recvWait, recvMu>>

MuxRest ==
    /\ \A m \in Muxers : place[m] = "run" /\ ended[m] /\ ids[m] = <<>>
    /\ UNCHANGED muxVars

MuxNext ==
    \/ \E m \in Muxers :
          \/ MuxSend(m) \/ MuxDo(m) \/ MuxFlush(m) \/ MuxClose(m) \/ MuxReceive(m)
          \/ MuxLock(m) \/ MuxRelock(m) \/ MuxRead(m) \/ MuxPass(m)
    \/ MuxBreak
    \/ MuxRest

MuxSpec == MuxInit /\ [][MuxNext]_muxVars

\* The goroutine whose turn it is knows, or is about to be told.
TurnKnown(m) ==
    \/ \E i \in DOMAIN ids[m] : ids[m][i] = recvID
    \/ turn[m] = recvID /\ \/ place[m] \in {"lock", "relock", "read"}
                           \/ place[m] = "blocked" /\ \E w \in Muxers : place[w] = "pass" /\ turn[w] + 1 = recvID

\* The goroutine that reads from the shared connection reads the reply to its
\* own command, whoever wrote, waits or gave up before; "out of sync" does not
\* happen; and while a goroutine waits, the one before it can go on, so that no
\* turn is lost between recvWait, the channels and recvMu (send, Receive).
MuxOwnReply ==
    \A m \in Muxers :
        /\ place[m] # "panic"
        /\ place[m] = "read" /\ ~broken => stream \o buffered # <<>> /\ Head(stream \o buffered) = turn[m]
        /\ place[m] = "blocked" => \E w \in Muxers : TurnKnown(w)
=============================================================================
