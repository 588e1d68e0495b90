----------------------------- MODULE MCServices -----------------------------
(***************************************************************************)
(* The services below the server: connection pool, multiplexer, database   *)
(* access, timing wheel, logger and the streams of bytes, one of them at   *)
(* work in each behaviour: part names it, the others rest.                 *)
(***************************************************************************)
EXTENDS RedisPool, ConnMux, Dbop, TimingWheel, Logger, Snappy, Framing, RedisScan

VARIABLE part

\* Data for snappy: runs as long as the limits of a copy, offsets around those of
\* the short form, blocks that cannot be compressed.
Zeros(n) == [i \in 1..n |-> 0]
Cycle(n, k) == [i \in 1..n |-> (i % k) % ByteSize]
Data == << {<<>>, <<2>>, Zeros(5), Zeros(10), Zeros(11), Zeros(15), Cycle(16, 3), Cycle(16, 6),
            <<0, 1, 1, 0, 1, 0, 0, 1>>, <<0, 1, 2, 3, 0, 1, 2, 3, 4, 1, 2, 3, 0, 1>>},
           {Zeros(24), Cycle(30, 9)}, {<<1>>} >>

\* Frames: no data, some, just not and just too much, and an encoding that failed.
Messages == {[id |-> 5, data |-> <<>>], [id |-> 0, data |-> <<1, 0>>], [id |-> 1, data |-> <<3, 0, 0>>],
             [id |-> 1, data |-> <<1, 0, 0, 2>>], [id |-> 2, data |-> <<0, 1>>]}

Answers == {Status(<<Letter>>), ErrorReply(<<>>), Integer(0), Integer(-10), Bulk(<<>>),
            Bulk(<<CR, LF, Plus, CR, LF, 7, 8, 9, Star, 1, LF>>), NilReply, Array(<<>>),
            Array(<<Bulk(<<LF>>), NilReply, Array(<<Integer(20), Status(<<>>)>>)>>),
            Status([i \in 1..LineRoom - 3 |-> Letter])}
Sent == {<<Bulk(<<Letter>>), Bulk(<<CR, LF>>), Integer(-100), [kind |-> "bool", b |-> TRUE], NilReply>>,
         [i \in 1..10 |-> Bulk(<<i>>)]}

\* Structs: a field that hides a deeper one, two at one depth that hide each other,
\* and a deeper one before the one that hides it; empty fields that are omitted.
N(i) == <<Letter, i>>
Small == Dest("int", 4)
Text  == Dest("string", 0)
Account == <<Field(N(1), Small, FALSE),
             Embedded(<<Field(N(1), Small, FALSE), Field(N(2), Text, FALSE), Field(N(3), Dest("bool", 0), TRUE)>>),
             Ignored, Embedded(<<Field(N(2), Text, FALSE)>>), Field(N(4), Dest("uint", 4), TRUE)>>
AccountOf(a, b, c, d, e, f) == (<<1>> :> a) @@ (<<2, 1>> :> b) @@ (<<2, 2>> :> c) @@ (<<2, 3>> :> d)
                                 @@ (<<4, 1>> :> e) @@ (<<5>> :> f)
Mail == <<Embedded(<<Field(N(1), Small, FALSE)>>), Field(N(1), Small, FALSE), Field(N(3), Dest("bytes", 0), TRUE)>>
MailOf(a, b, c) == (<<1, 1>> :> a) @@ (<<2>> :> b) @@ (<<3>> :> c)
SavedStructs ==
    {[type |-> Account, values |-> {AccountOf(-8, 3, <<1>>, TRUE, <<CR, LF>>, 15), AccountOf(7, 0, <<>>, FALSE, <<5>>, 0)}],
     [type |-> Mail, values |-> {MailOf(1, 2, <<>>), MailOf(0, -1, <<Minus>>)}]}
Notices == {[kind |-> "message", args |-> <<N(1), <<CR>> >>], [kind |-> "pmessage", args |-> <<N(2), N(1), <<>> >>],
            [kind |-> "unsubscribe", args |-> <<N(1), 0>>], [kind |-> "pong", args |-> << <<>> >>]}

redisVars   == <<poolVars, muxVars, dbVars>>
supportVars == <<twVars, logVars>>
streamVars  == <<snapVars, frameVars, answered, scanVars>>
serviceVars == <<part, redisVars, supportVars, streamVars>>

ServicesInit ==
    /\ part \in {"pool", "mux", "db", "wheel", "log", "snappy", "frames", "resp", "scan"}
    /\ PoolInit /\ MuxStart(part # "mux") /\ DbInit
    /\ TwInit /\ LoggerInit /\ (part # "log" => ~dailyRolling)
    /\ SnapInit /\ FrameInit /\ (part # "frames" => ~rpc) /\ RespInit
    /\ ScanInit /\ (part # "scan" => stype = CHOOSE x \in Structs : TRUE)

ServicesNext ==
    /\ UNCHANGED part
    /\ \/ part = "pool" /\ PoolNext /\ UNCHANGED <<muxVars, dbVars, supportVars, streamVars>>
       \/ part = "mux" /\ MuxNext /\ UNCHANGED <<poolVars, dbVars, supportVars, streamVars>>
       \/ part = "db" /\ DbNext /\ UNCHANGED <<poolVars, muxVars, supportVars, streamVars>>
       \/ part = "wheel" /\ TwNext /\ UNCHANGED <<redisVars, logVars, streamVars>>
       \/ part = "log" /\ LoggerNext /\ UNCHANGED <<redisVars, twVars, streamVars>>
       \/ part = "snappy" /\ SnapNext /\ UNCHANGED <<redisVars, supportVars, frameVars, answered, scanVars>>
       \/ part = "frames" /\ FrameNext /\ UNCHANGED <<redisVars, supportVars, snapVars, answered, scanVars>>
       \/ part = "resp" /\ RespNext /\ UNCHANGED <<redisVars, supportVars, snapVars, frameVars, scanVars>>
       \/ part = "scan" /\ ScanNext /\ UNCHANGED <<redisVars, supportVars, snapVars, frameVars, answered>>

ServicesSpec == ServicesInit /\ [][ServicesNext]_serviceVars /\ PoolFairness
=============================================================================
