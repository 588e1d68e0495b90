------------------------------ MODULE Framing ------------------------------
(***************************************************************************)
(* The frames of client messages (fnet/datapack.go, read by                *)
(* fnet/protocol.go) and of RPC requests (cluster/rpcpack.go, read by      *)
(* cluster/rpcprotocol.go): a little-endian head and the encoded message,  *)
(* on a stream of which a prefix has arrived.  Senders write whole frames; *)
(* the reader takes a head and then a body, and stops at the first thing   *)
(* it cannot read.  proto.Marshal and gob are external here: a message is  *)
(* the bytes they left, also if they failed, for Pack ignores the error.   *)
(***************************************************************************)
EXTENDS Integers, Sequences, SequencesExt

CONSTANTS Radix,          \* values of a byte (256)
          LenBytes,       \* bytes of the length (4); MsgId has as many
          MaxPacketSize,  \* utils.GlobalObject.MaxPacketSize, or 1 MiB
          FrameMessages,  \* [id, data] the senders send
          MaxFrames       \* bound on the frames

Bytes == 0..Radix - 1
Weight[k \in Nat] == IF k = 0 THEN 1 ELSE Radix * Weight[k - 1]   \* of the byte behind k others

\* A message is shorter than 2 GiB, the most that proto.Marshal encodes.
ASSUME FramingAssumption ==
    /\ Radix \in Nat \ {0, 1} /\ LenBytes \in Nat \ {0} /\ MaxFrames \in Nat
    /\ MaxPacketSize \in 1..(Weight[LenBytes] \div 2 - 1)
    /\ \A m \in FrameMessages : /\ m = [id |-> m.id, data |-> m.data]
                                /\ m.id \in 0..Weight[LenBytes] - 1 /\ m.data \in Seq(Bytes)
                                /\ Len(m.data) < Weight[LenBytes] \div 2

VARIABLES rpc,       \* which of the two protocols the connection speaks
          inbound,    \* bytes that have been sent and not read
          arrived,   \* how many of them have arrived
          head,      \* the head that was read, << >> between frames
          stopped,   \* the reader has stopped the connection
          cut,       \* the peer is gone, nothing more arrives
          sent, handled   \* messages, in order

frameVars == <<rpc, inbound, arrived, head, stopped, cut, sent, handled>>

LittleEndian(x) == [k \in 1..LenBytes |-> (x \div Weight[k - 1]) % Radix]
Unsigned(b) == LET upTo[k \in 0..Len(b)] == IF k = 0 THEN 0 ELSE upTo[k-1] + b[k] * Weight[k - 1]
               IN  upTo[Len(b)]
Signed(b) == IF Unsigned(b) < Weight[LenBytes] \div 2 THEN Unsigned(b) ELSE Unsigned(b) - Weight[LenBytes]

\* Pack; the length is cut to its field's width.  r: the connection speaks RPC.
PbPack(m)  == LittleEndian(Len(m.data)) \o LittleEndian(m.id) \o m.data
RpcPack(m) == LittleEndian(Len(m.data)) \o m.data
Pack(r, m)  == IF r THEN RpcPack(m) ELSE PbPack(m)

\* gob decodes a request; what a failed encoding left (a 0 in front) it does not.
GobDecodes(data) == Head(data) # 0

GetHeadLen(r) == IF r THEN LenBytes ELSE 2 * LenBytes

\* Unpack of a head: a length that is too big is an error.
PbUnpack(b)  == LET n == Unsigned(SubSeq(b, 1, LenBytes)) IN
                [len |-> n, id |-> Unsigned(SubSeq(b, LenBytes + 1, 2 * LenBytes)), err |-> n > MaxPacketSize]
RpcUnpack(b) == [len |-> Signed(b), id |-> 0, err |-> Signed(b) > MaxPacketSize]
Unpack(r, b) == IF r THEN RpcUnpack(b) ELSE PbUnpack(b)

FrameInit ==
    /\ rpc \in BOOLEAN /\ inbound = <<>> /\ arrived = 0 /\ head = <<>>
    /\ stopped = FALSE /\ cut = FALSE /\ sent = <<>> /\ handled = <<>>

SendFrame(m) ==
    /\ Len(sent) < MaxFrames
    /\ sent' = Append(sent, m) /\ inbound' = inbound \o Pack(rpc, m)
    /\ UNCHANGED <<rpc, arrived, head, stopped, cut, handled>>

\* Bytes arrive, as many as the network brings at once.
Arrive(n) == /\ ~cut /\ arrived + n <= Len(inbound) /\ arrived' = arrived + n
             /\ UNCHANGED <<rpc, inbound, head, stopped, cut, sent, handled>>
Cut == /\ ~cut /\ cut' = TRUE /\ UNCHANGED <<rpc, inbound, arrived, head, stopped, sent, handled>>

\* io.ReadFull of n bytes: waits for them, or fails when the peer is gone.
Takes(n) == /\ ~stopped /\ arrived >= n
            /\ inbound' = SubSeq(inbound, n + 1, Len(inbound)) /\ arrived' = arrived - n
ReadFails(n) == /\ ~stopped /\ arrived < n /\ cut /\ stopped' = TRUE
            /\ UNCHANGED <<rpc, inbound, arrived, head, cut, sent, handled>>

\* A frame without data is handled by the client protocol and skipped by the
\* RPC protocol.
Deliver(id, data) == handled' = Append(handled, [id |-> id, data |-> data])

ReadHead ==
    LET h == Unpack(rpc, SubSeq(inbound, 1, GetHeadLen(rpc))) IN
    /\ head = <<>>
    /\ \/ ReadFails(GetHeadLen(rpc))
       \/ /\ Takes(GetHeadLen(rpc)) /\ UNCHANGED <<rpc, cut, sent>>
          /\ IF h.err THEN stopped' = TRUE /\ UNCHANGED <<head, handled>>
             ELSE /\ UNCHANGED stopped
                  /\ IF h.len > 0 THEN head' = <<h>> /\ UNCHANGED handled
                     ELSE /\ UNCHANGED head
                          /\ IF rpc THEN UNCHANGED handled ELSE Deliver(h.id, <<>>)

\* The body in one Read, which returns what there is.
FaultyReadBody ==
    /\ head # <<>>
    /\ \/ ReadFails(1)
       \/ LET n == IF arrived < head[1].len THEN arrived ELSE head[1].len IN
          /\ arrived > 0 /\ Takes(n) /\ Deliver(head[1].id, SubSeq(inbound, 1, n))
          /\ head' = <<>> /\ UNCHANGED <<rpc, stopped, cut, sent>>

ReadBody ==
    /\ head # <<>>
    /\ \/ ReadFails(head[1].len)
       \/ LET data == SubSeq(inbound, 1, head[1].len) IN
          /\ Takes(head[1].len) /\ head' = <<>> /\ UNCHANGED <<rpc, cut, sent>>
          /\ IF rpc /\ ~GobDecodes(data) THEN stopped' = TRUE /\ UNCHANGED handled
             ELSE Deliver(head[1].id, data) /\ UNCHANGED stopped

FrameNext == \/ \E m \in FrameMessages : SendFrame(m)
             \/ \E n \in 1..GetHeadLen(rpc) : Arrive(n)
             \/ Cut \/ ReadHead \/ ReadBody
             \/ stopped /\ UNCHANGED frameVars

FrameSpec == FrameInit /\ [][FrameNext]_frameVars

(***************************************************************************)
(* Properties.                                                             *)
(***************************************************************************)

\* The messages at which a reader stops.
Stops(r, m) == Len(m.data) > MaxPacketSize \/ (r /\ m.data # <<>> /\ ~GobDecodes(m.data))

\* What the reader hands on of a message; an RPC request has no id.
Handed(r, m) == [id |-> IF r THEN 0 ELSE m.id, data |-> m.data]

\* What the reader should hand on of the messages: all up to the first at which it
\* stops, the RPC reader without the empty ones.
Dropped(r, ms, k) == (\E i \in 1..k : Stops(r, ms[i])) \/ (r /\ ms[k].data = <<>>)
Expected(r, ms) ==
    LET upTo[k \in 0..Len(ms)] ==
            IF k = 0 THEN <<>> ELSE IF Dropped(r, ms, k) THEN upTo[k-1] ELSE Append(upTo[k-1], Handed(r, ms[k]))
    IN  upTo[Len(ms)]

\* However the bytes arrive and wherever the connection breaks, the reader hands
\* on the messages that were sent, in order and unchanged, and never bytes of two
\* messages as one; it stops only at a message that is too big or was not encoded
\* or at a broken connection, and hands on every message it has all bytes of.
FramesIntact ==
    /\ IsPrefix(handled, Expected(rpc, sent))
    /\ stopped => cut \/ \E i \in DOMAIN sent : Stops(rpc, sent[i])
    /\ inbound = <<>> /\ ~stopped => handled = Expected(rpc, sent)
=============================================================================
