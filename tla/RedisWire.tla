----------------------------- MODULE RedisWire -----------------------------
(***************************************************************************)
(* How redigo's conn writes commands and reads replies (redis/conn.go).    *)
(* A character is a digit 0..9 or one of the names below; the server is    *)
(* external and writes what its protocol says.  The connection may be cut  *)
(* anywhere.                                                               *)
(***************************************************************************)
EXTENDS Integers, Sequences, SequencesExt

CONSTANTS Replies,       \* what the server answers
          SentCommands,  \* what the program sends: a sequence of arguments
          MaxReplies,    \* bound on the answers
          MaxNesting,    \* bound on arrays within arrays
          LineRoom       \* the reader's buffer, which holds one line (bufio, 4096 bytes)

CR == 10
LF == 11
Minus == 12
Plus == 13
Colon == 14
Dollar == 15
Star == 16
Letter == 17
Digits == 0..9
Chars  == 0..Letter

\* A reply is a record: status, error, int, bulk (a sequence, or Nil), array.
Status(s) == [kind |-> "status", of |-> s]
ErrorReply(s) == [kind |-> "error", of |-> s]
Integer(n) == [kind |-> "int", n |-> n]
Bulk(s)   == [kind |-> "bulk", of |-> s]
Array(s)  == [kind |-> "array", of |-> s]
NilReply  == [kind |-> "nil"]

\* The decimal digits of n (writeLen, strconv.AppendInt).
Decimal(n) == LET upTo[m \in 0..n] == IF m < 10 THEN <<m>> ELSE Append(upTo[m \div 10], m % 10)
              IN  upTo[n]
NumberText(n) == IF n < 0 THEN <<Minus>> \o Decimal(-n) ELSE Decimal(n)

\* A line of a first character, this text and the line end fits the reader's buffer.
Fits(text) == Len(text) + 3 <= LineRoom

\* The replies whose arrays are at most d deep and whose lines fit: no line of one
\* holds a line end, a bulk string may.
FlatReplies ==
    [kind : {"status", "error"}, of : {s \in Seq(Chars \ {CR, LF}) : Fits(s)}]
    \cup [kind : {"int"}, n : {n \in Int : Fits(NumberText(n))}]
    \cup [kind : {"bulk"}, of : {s \in Seq(Chars) : Fits(Decimal(Len(s)))}] \cup {NilReply}
ArraysOf(S) == [kind : {"array"}, of : {s \in Seq(S) : Fits(Decimal(Len(s)))}]
NestedReplies[d \in 0..MaxNesting] ==
    FlatReplies \cup IF d = 0 THEN {} ELSE ArraysOf(NestedReplies[d-1])

\* An argument is a number, a truth value, nil, or a string; a server sees a string.
Arguments == [kind : {"int"}, n : Int] \cup [kind : {"bool"}, b : BOOLEAN]
             \cup [kind : {"bulk"}, of : Seq(Chars)] \cup {NilReply}
AsString(a) == CASE a.kind = "int"  -> Bulk(NumberText(a.n))
                 [] a.kind = "bool" -> Bulk(<<IF a.b THEN 1 ELSE 0>>)
                 [] a.kind = "nil"  -> Bulk(<<>>)
                 [] OTHER -> a
AsArray(args) == Array([i \in DOMAIN args |-> AsString(args[i])])
Sendable == {c \in Seq(Arguments) : AsArray(c) \in NestedReplies[MaxNesting]}

ASSUME RespAssumption == /\ MaxReplies \in Nat /\ MaxNesting \in Nat \ {0}
                         /\ LineRoom \in Nat /\ LineRoom >= 16
                         /\ Replies \subseteq NestedReplies[MaxNesting] /\ SentCommands \subseteq Sendable

(***************************************************************************)
(* The writer.                                                             *)
(***************************************************************************)
WriteLen(prefix, n) == <<prefix>> \o Decimal(n) \o <<CR, LF>>
WriteBytes(s) == WriteLen(Dollar, Len(s)) \o s \o <<CR, LF>>
WriteInt64(n) == WriteBytes(NumberText(n))

WriteArg(a) == CASE a.kind = "int"  -> WriteInt64(a.n)
                 [] a.kind = "bool" -> WriteBytes(<<IF a.b THEN 1 ELSE 0>>)
                 [] a.kind = "nil"  -> WriteBytes(<<>>)
                 [] a.kind = "bulk" -> WriteBytes(a.of)
WriteCommand(args) == WriteLen(Star, Len(args)) \o FlattenSeq([i \in DOMAIN args |-> WriteArg(args[i])])

(***************************************************************************)
(* The reader: a value, the position behind it and an error.               *)
(***************************************************************************)
Reads(v, i)   == [v |-> v, i |-> i, err |-> "nil"]
NotRead(i, e) == [v |-> NilReply, i |-> i, err |-> e]

\* readLine: up to a line feed, which must come within the buffer's room and which
\* a carriage return must precede.
ReadLine(buf, i) ==
    LET ends == {j \in i..Len(buf) : buf[j] = LF /\ j < i + LineRoom}
        j    == CHOOSE j \in ends : \A k \in ends : j <= k
    IN  IF ends = {} THEN NotRead(i, IF Len(buf) < i + LineRoom - 1 THEN "EOF" ELSE "long")
        ELSE IF j = i \/ buf[j - 1] # CR THEN NotRead(j + 1, "terminator")
        ELSE Reads(SubSeq(buf, i, j - 2), j + 1)

FromDigits(p) == LET n[k \in 0..Len(p)] == IF k = 0 THEN 0 ELSE 10 * n[k-1] + p[k] IN n[Len(p)]

ParseLen(p) == CASE p = <<>> -> [n |-> -1, err |-> "malformed"]
                 [] p = <<Minus, 1>> -> [n |-> -1, err |-> "nil"]
                 [] p # <<>> /\ p # <<Minus, 1>> ->
                        IF ToSet(p) \subseteq Digits THEN [n |-> FromDigits(p), err |-> "nil"]
                        ELSE [n |-> -1, err |-> "illegal"]

ParseInt(p) == LET negate == p # <<>> /\ p[1] = Minus
                   q      == IF negate THEN Tail(p) ELSE p
               IN  IF q = <<>> \/ ~(ToSet(q) \subseteq Digits) THEN [n |-> 0, err |-> "malformed"]
                   ELSE [n |-> IF negate THEN -FromDigits(q) ELSE FromDigits(q), err |-> "nil"]

\* A bulk string is taken to end with its line.
FaultyReadBulk(buf, i, n) ==
    LET line == ReadLine(buf, i) IN
    IF line.err # "nil" THEN line ELSE Reads(Bulk(line.v), line.i)

\* A bulk string: exactly n bytes, whatever they are, and an empty line.
ReadBulk(buf, i, n) ==
    LET line == ReadLine(buf, i + n) IN
    CASE i + n - 1 > Len(buf) -> NotRead(i, "EOF")
      [] i + n - 1 <= Len(buf) /\ line.err # "nil" -> line
      [] OTHER -> IF line.v # <<>> THEN NotRead(line.i, "format") ELSE Reads(Bulk(SubSeq(buf, i, i + n - 1)), line.i)

\* n replies one after the other, up to the first error; reply[j] is what is read
\* at j.
ReadInTurn(reply, i, n) ==
    LET upTo[k \in 0..n] ==
            IF k = 0 THEN Reads(<<>>, i)
            ELSE LET before == upTo[k-1]
                     next   == reply[before.i]
                 IN  IF before.err # "nil" THEN before
                     ELSE IF next.err # "nil" THEN [v |-> before.v, i |-> next.i, err |-> next.err]
                     ELSE Reads(Append(before.v, next.v), next.i)
    IN  upTo[n]

ReadElements(reply, i, n) ==
    LET all == ReadInTurn(reply, i, n) IN
    IF all.err # "nil" THEN NotRead(all.i, all.err) ELSE Reads(Array(all.v), all.i)

\* A reply, whose elements are read with the function reply.
ReplyAt(buf, i, reply) ==
    LET line == ReadLine(buf, i)
        rest == Tail(line.v)
        len  == ParseLen(rest)
        int  == ParseInt(rest)
    IN  IF line.err # "nil" THEN line
        ELSE IF line.v = <<>> THEN NotRead(line.i, "short")
        ELSE CASE line.v[1] = Plus  -> Reads(Status(rest), line.i)
               [] line.v[1] = Minus -> Reads(ErrorReply(rest), line.i)
               [] line.v[1] = Colon -> IF int.err # "nil" THEN NotRead(line.i, int.err) ELSE Reads(Integer(int.n), line.i)
               [] line.v[1] \in {Dollar, Star} ->
                      IF len.n < 0 THEN [v |-> NilReply, i |-> line.i, err |-> len.err]
                      ELSE IF line.v[1] = Dollar THEN ReadBulk(buf, line.i, len.n)
                      ELSE ReadElements(reply, line.i, len.n)
               [] OTHER -> NotRead(line.i, "unexpected")

\* readReply calls itself for the elements; more than MaxNesting calls in one
\* another do not happen here.
NoReply(buf) == [j \in 1..Len(buf) + 1 |-> NotRead(j, "nesting")]
ReadReply(buf, i) ==
    LET R[d \in 0..MaxNesting] ==
            [j \in 1..Len(buf) + 1 |-> ReplyAt(buf, j, IF d = 0 THEN NoReply(buf) ELSE R[d-1])]
    IN  R[MaxNesting][i]

\* What the connection reads: replies up to the first error.
AllReplies(buf) == ReadInTurn([j \in 1..Len(buf) + 1 |-> ReadReply(buf, j)], 1, MaxReplies + 1).v

(***************************************************************************)
(* The session: what the server has answered so far (external).            *)
(***************************************************************************)
ReplyBytes(x, written) ==
    CASE x.kind = "status" -> <<Plus>> \o x.of \o <<CR, LF>>
      [] x.kind = "error"  -> <<Minus>> \o x.of \o <<CR, LF>>
      [] x.kind = "int"    -> <<Colon>> \o NumberText(x.n) \o <<CR, LF>>
      [] x.kind = "bulk"   -> WriteBytes(x.of)
      [] x.kind = "nil"    -> <<Dollar>> \o <<Minus, 1>> \o <<CR, LF>>
      [] x.kind = "array"  -> WriteLen(Star, Len(x.of)) \o FlattenSeq([i \in DOMAIN x.of |-> written[x.of[i]]])
Written[d \in 0..MaxNesting] ==
    [x \in NestedReplies[d] |-> ReplyBytes(x, IF d = 0 THEN <<>> ELSE Written[d-1])]
ServerWrites(x) == Written[MaxNesting][x]

VARIABLE answered   \* the replies the server has written

RespInit == answered = <<>>
ServerAnswers(x) == Len(answered) < MaxReplies /\ answered' = Append(answered, x)
RespNext == (\E x \in Replies : ServerAnswers(x)) \/ (Len(answered) = MaxReplies /\ UNCHANGED answered)
RespSpec == RespInit /\ [][RespNext]_answered

\* Whatever the server answers, and wherever the connection is cut, the program
\* reads the answers in order and never one made of the bytes of others; and a
\* command is read by the server as the arguments it was given, also those that
\* contain line ends (conn.go's writeCommand and readReply).
RespIntact ==
    LET all == FlattenSeq([i \in DOMAIN answered |-> ServerWrites(answered[i])]) IN
    /\ AllReplies(all) = answered
    /\ \A cut \in 0..Len(all) : IsPrefix(AllReplies(SubSeq(all, 1, cut)), answered)
    /\ \A c \in SentCommands : LET r1 == ReadReply(WriteCommand(c), 1) IN
                           r1.err = "nil" /\ r1.v = AsArray(c)
=============================================================================
