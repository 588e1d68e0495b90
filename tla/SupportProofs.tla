--------------------------- MODULE SupportProofs ----------------------------
(***************************************************************************)
(* Proofs about the streams of bytes and what else stands below the server:*)
(* the frames of messages (Framing), for every width of a byte and of a    *)
(* length, every packet size and all messages that can be encoded; the     *)
(* compressed stream (Snappy), for all bytes and all sizes of its format;  *)
(* the multi-level timing wheel (TimingWheel), for any number of wheels,   *)
(* slots and jobs; and the rolling log file (Logger), for any number of    *)
(* files, lines, days and starts.                                          *)
(***************************************************************************)
EXTENDS Framing, Snappy, TimingWheel, Logger, DataInduction

(***************************************************************************)
(* Arithmetic.                                                             *)
(***************************************************************************)

LEMMA Division ==
    ASSUME NEW a \in Int, NEW b \in Nat \ {0}
    PROVE  \E q \in Int, r \in 0..b - 1 :
               a \div b = q /\ a % b = r /\ a = q * b + r /\ (a >= 0 => q >= 0)
<1> DEFINE q == a \div b
           r == a % b
<1>1. a % b = a - b * (a \div b)
  OBVIOUS
<1>2. q \in Int /\ r \in 0..b - 1 /\ r = a - b * q
  BY <1>1
<1>3. (a >= 0 => q >= 0) /\ a \div b = q /\ a % b = r
  OBVIOUS
<1>4. b * q \in Int /\ b * q = q * b
  BY <1>2
<1>5. a = q * b + r
  BY <1>2, <1>4
<1> HIDE DEF q, r
<1> QED
  BY <1>2, <1>3, <1>5

\* A quotient and a rest are the only ones.
LEMMA DivisionUnique ==
    ASSUME NEW a \in Int, NEW b \in Nat \ {0}, NEW q \in Int, NEW r \in 0..b - 1, a = q * b + r
    PROVE  a \div b = q /\ a % b = r
<1>1. PICK p \in Int, s \in 0..b - 1 : a \div b = p /\ a % b = s /\ a = p * b + s
  BY Division
<1>2. p = q
  <2>1. CASE p < q
    <3>1. (p + 1) * b <= q * b /\ (p + 1) * b = p * b + b /\ p * b \in Int /\ q * b \in Int
      BY <2>1
    <3> QED
      BY <1>1, <3>1
  <2>2. CASE q < p
    <3>1. (q + 1) * b <= p * b /\ (q + 1) * b = q * b + b /\ p * b \in Int /\ q * b \in Int
      BY <2>2
    <3> QED
      BY <1>1, <3>1
  <2> QED
    BY <1>1, <2>1, <2>2
<1>3. p * b \in Int
  OBVIOUS
<1> QED
  BY <1>1, <1>2, <1>3

\* The digit behind the rest of x by w, in base r.
LEMMA RestDigit ==
    ASSUME NEW x \in Int, NEW w \in Nat \ {0}, NEW r \in Nat \ {0}
    PROVE  /\ r * w \in Nat \ {0}
           /\ (x % w) + ((x \div w) % r) * w = x % (r * w)
           /\ (x \div w) \div r = x \div (r * w)
<1>1. PICK q \in Int, s \in 0..w - 1 : x \div w = q /\ x % w = s /\ x = q * w + s
  BY Division
<1>2. PICK p \in Int, d \in 0..r - 1 : q \div r = p /\ q % r = d /\ q = p * r + d
  BY Division
<1>3. r * w \in Nat \ {0}
  OBVIOUS
<1>4. x = p * (r * w) + (s + d * w)
  <2>1. q * w = (p * r + d) * w
    BY <1>2
  <2>2. (p * r + d) * w = p * (r * w) + d * w
    BY <1>2
  <2>3. p * (r * w) \in Int /\ d * w \in Int /\ q * w \in Int
    OBVIOUS
  <2> QED
    BY <1>1, <2>1, <2>2, <2>3
<1>5. s + d * w \in 0..r * w - 1
  <2>1. d * w <= (r - 1) * w
    BY <1>2
  <2>2. (r - 1) * w = r * w - w
    OBVIOUS
  <2>3. d * w \in Nat
    BY <1>2
  <2> QED
    BY <1>3, <2>1, <2>2, <2>3
<1>6. x \div (r * w) = p /\ x % (r * w) = s + d * w
  BY <1>3, <1>4, <1>5, DivisionUnique
<1> QED
  BY <1>1, <1>2, <1>3, <1>6

LEMMA WeightValues ==
    /\ Weight \in [Nat -> Nat \ {0}]
    /\ Weight[0] = 1 /\ \A k \in Nat : Weight[k + 1] = Radix * Weight[k]
<1> DEFINE S == Nat \ {0}
           step == [k \in Nat |-> [w \in S |-> Radix * w]]
<1>1. step \in [Nat -> [S -> S]]
  <2>1. \A w \in S : Radix * w \in S
    BY FramingAssumption
  <2> QED
    BY <2>1
<1>2. \E f \in [Nat -> S] : \A k \in Nat : f[k] = IF k = 0 THEN 1 ELSE step[k][f[k - 1]]
  <2> HIDE DEF step
  <2>1. 1 \in S
    OBVIOUS
  <2> HIDE DEF S
  <2> QED
    BY <1>1, <2>1, RecursionNat
<1>3. \E f : f = [k \in Nat |-> IF k = 0 THEN 1 ELSE Radix * f[k - 1]]
  <2>1. PICK f \in [Nat -> S] : \A k \in Nat : f[k] = IF k = 0 THEN 1 ELSE step[k][f[k - 1]]
    BY <1>2
  <2>2. \A k \in Nat : f[k] = IF k = 0 THEN 1 ELSE Radix * f[k - 1]
    <3> SUFFICES ASSUME NEW k \in Nat PROVE f[k] = IF k = 0 THEN 1 ELSE Radix * f[k - 1]
      OBVIOUS
    <3>1. f[k] = IF k = 0 THEN 1 ELSE step[k][f[k - 1]]
      BY <2>1
    <3>2. k # 0 => f[k - 1] \in S
      OBVIOUS
    <3> QED
      BY <3>1, <3>2
  <2>3. f = [k \in Nat |-> IF k = 0 THEN 1 ELSE Radix * f[k - 1]]
    BY <2>2
  <2> QED
    BY <2>3
<1>4. Weight = [k \in Nat |-> IF k = 0 THEN 1 ELSE Radix * Weight[k - 1]]
  BY <1>3, Zenon DEF Weight
<1> HIDE DEF step
<1>5. Weight[0] = 1 /\ \A k \in Nat : Weight[k + 1] = Radix * Weight[k]
  <2>1. \A k \in Nat : Weight[k] = IF k = 0 THEN 1 ELSE Radix * Weight[k - 1]
    BY <1>4
  <2>2. \A k \in Nat : k + 1 \in Nat /\ k + 1 # 0 /\ (k + 1) - 1 = k
    OBVIOUS
  <2> QED
    BY <2>1, <2>2
<1>6. \A k \in Nat : Weight[k] \in S
  <2> DEFINE T == {k \in Nat : Weight[k] \in S}
  <2>1. 0 \in T
    BY <1>5
  <2>2. ASSUME NEW k \in Nat, k \in T PROVE k + 1 \in T
    <3>1. Weight[k + 1] = Radix * Weight[k] /\ Weight[k] \in S
      BY <1>5, <2>2
    <3>2. Radix * Weight[k] \in S
      BY <3>1, FramingAssumption
    <3> QED
      BY <3>1, <3>2
  <2> HIDE DEF T
  <2>3. Nat \subseteq T
    BY <2>1, <2>2, SetInduction
  <2> QED
    BY <2>3 DEF T
<1>7. Weight \in [Nat -> S]
  <2> HIDE DEF S
  <2> QED
    BY <1>4, <1>6
<1> QED
  BY <1>5, <1>7

LEMMA UnsignedValues ==
    ASSUME NEW b \in Seq(Bytes)
    PROVE  \E f \in [0..Len(b) -> Nat] :
               /\ Unsigned(b) = f[Len(b)] /\ f[0] = 0
               /\ \A k \in 1..Len(b) : f[k] = f[k - 1] + b[k] * Weight[k - 1]
<1> DEFINE n == Len(b)
           S == Nat
           step == [k \in 0..n |-> [v \in S |-> IF k = 0 THEN v ELSE v + b[k] * Weight[k - 1]]]
           Is(f) == f = [k \in 0..n |-> IF k = 0 THEN 0 ELSE f[k - 1] + b[k] * Weight[k - 1]]
<1>1. step \in [0..n -> [S -> S]]
  <2>1. \A k \in 0..n, v \in Nat : k # 0 => v + b[k] * Weight[k - 1] \in Nat
    <3> SUFFICES ASSUME NEW k \in 0..n, NEW v \in Nat, k # 0 PROVE v + b[k] * Weight[k - 1] \in Nat
      OBVIOUS
    <3>1. k \in 1..n /\ k - 1 \in Nat
      OBVIOUS
    <3>2. b[k] \in Nat
      BY <3>1, FramingAssumption DEF Bytes
    <3>3. Weight[k - 1] \in Nat
      BY <3>1, WeightValues
    <3> QED
      BY <3>2, <3>3
  <2> QED
    BY <2>1
<1>2. \E f \in [0..n -> S] : \A k \in 0..n : f[k] = IF k = 0 THEN 0 ELSE step[k][f[k - 1]]
  <2>1. Downward(0..n) /\ 0 \in S
    BY DEF Downward
  <2> HIDE DEF step, n, S
  <2>2. \E f \in [0..n -> S] : Recurs(f, 0..n, step, 0)
    BY <1>1, <2>1, Recursion
  <2> QED
    BY <2>2 DEF Recurs
<1>3. PICK f \in [0..n -> S] : \A k \in 0..n : f[k] = IF k = 0 THEN 0 ELSE step[k][f[k - 1]]
  BY <1>2
<1>4. \A k \in 0..n : f[k] = IF k = 0 THEN 0 ELSE f[k - 1] + b[k] * Weight[k - 1]
  <2> SUFFICES ASSUME NEW k \in 0..n PROVE f[k] = IF k = 0 THEN 0 ELSE f[k - 1] + b[k] * Weight[k - 1]
    OBVIOUS
  <2>1. f[k] = IF k = 0 THEN 0 ELSE step[k][f[k - 1]]
    BY <1>3
  <2>2. k # 0 => f[k - 1] \in S
    OBVIOUS
  <2> QED
    BY <2>1, <2>2
<1>5. Is(f)
  BY <1>4
<1> DEFINE g == CHOOSE g : Is(g)
<1>6. Is(g)
  <2> HIDE DEF Is
  <2> QED
    BY <1>5
<1>7. Unsigned(b) = g[n]
  BY DEF Unsigned
<1> HIDE DEF g, step
<1>8. \A k \in 0..n : g[k] = IF k = 0 THEN 0 ELSE g[k - 1] + b[k] * Weight[k - 1]
  BY <1>6
<1>9. \A k \in Nat : k <= n => g[k] = f[k]
  <2> DEFINE T == {k \in Nat : k <= n => g[k] = f[k]}
  <2>1. 0 \in T
    BY <1>4, <1>8
  <2>2. ASSUME NEW k \in Nat, k \in T PROVE k + 1 \in T
    <3> SUFFICES ASSUME k + 1 <= n PROVE g[k + 1] = f[k + 1]
      OBVIOUS
    <3>1. k + 1 \in 0..n /\ k + 1 # 0 /\ (k + 1) - 1 = k /\ g[k] = f[k]
      BY <2>2
    <3>2. g[k + 1] = g[k] + b[k + 1] * Weight[k] /\ f[k + 1] = f[k] + b[k + 1] * Weight[k]
      BY <3>1, <1>4, <1>8
    <3> QED
      BY <3>1, <3>2
  <2> HIDE DEF T
  <2>3. Nat \subseteq T
    BY <2>1, <2>2, SetInduction
  <2> QED
    BY <2>3 DEF T
<1>10. Unsigned(b) = f[n]
  BY <1>7, <1>9
<1> QED
  BY <1>4, <1>10

\* The bytes of a number that fits give it back.
LEMMA UnsignedLittle ==
    ASSUME NEW x \in 0..Weight[LenBytes] - 1
    PROVE  /\ LittleEndian(x) \in Seq(Bytes) /\ Len(LittleEndian(x)) = LenBytes
           /\ Unsigned(LittleEndian(x)) = x
<1> DEFINE b == LittleEndian(x)
<1>0. LenBytes \in Nat /\ Weight[LenBytes] \in Nat \ {0} /\ x \in Nat /\ Radix \in Nat \ {0}
  BY FramingAssumption, WeightValues
<1>1. \A k \in 1..LenBytes : (x \div Weight[k - 1]) % Radix \in Bytes
  <2> SUFFICES ASSUME NEW k \in 1..LenBytes PROVE (x \div Weight[k - 1]) % Radix \in Bytes
    OBVIOUS
  <2>1. Weight[k - 1] \in Nat \ {0}
    BY WeightValues
  <2>2. x \div Weight[k - 1] \in Int
    BY <1>0, <2>1, Division
  <2> QED
    BY <1>0, <2>2, Division DEF Bytes
<1>2. b = [k \in 1..LenBytes |-> (x \div Weight[k - 1]) % Radix]
  BY DEF LittleEndian
<1> HIDE DEF b
<1>3. b \in Seq(Bytes) /\ Len(b) = LenBytes
  BY <1>0, <1>1, <1>2
<1>4. PICK f \in [0..LenBytes -> Nat] :
          /\ Unsigned(b) = f[LenBytes] /\ f[0] = 0
          /\ \A k \in 1..LenBytes : f[k] = f[k - 1] + b[k] * Weight[k - 1]
  BY <1>3, UnsignedValues
<1>5. \A k \in Nat : k <= LenBytes => f[k] = x % Weight[k]
  <2> DEFINE T == {k \in Nat : k <= LenBytes => f[k] = x % Weight[k]}
  <2>1. 0 \in T
    <3>1. x % 1 = 0
      BY <1>0
    <3> QED
      BY <3>1, <1>4, WeightValues
  <2>2. ASSUME NEW k \in Nat, k \in T PROVE k + 1 \in T
    <3> SUFFICES ASSUME k + 1 <= LenBytes PROVE f[k + 1] = x % Weight[k + 1]
      OBVIOUS
    <3> DEFINE w == Weight[k]
    <3>1. w \in Nat \ {0} /\ Weight[k + 1] = Radix * w
      BY WeightValues
    <3>2. k + 1 \in 1..LenBytes /\ (k + 1) - 1 = k /\ f[k] = x % w
      <4> HIDE DEF w
      <4> QED
        BY <2>2, <1>0 DEF w
    <3>3. f[k + 1] = f[k] + b[k + 1] * w
      BY <3>2, <1>4
    <3>4. b[k + 1] = (x \div w) % Radix
      BY <3>2, <1>2
    <3>5. (x % w) + ((x \div w) % Radix) * w = x % (Radix * w)
      <4> HIDE DEF w
      <4>1. w \in Nat \ {0} /\ x \in Int
        BY <1>0, <3>1
      <4> QED
        BY <1>0, <4>1, RestDigit
    <3> HIDE DEF w
    <3> QED
      BY <3>1, <3>2, <3>3, <3>4, <3>5
  <2> HIDE DEF T
  <2>3. Nat \subseteq T
    BY <2>1, <2>2, SetInduction
  <2> QED
    BY <2>3 DEF T
<1>6. x % Weight[LenBytes] = x
  <2> DEFINE w == Weight[LenBytes]
  <2>1. x = 0 * w + x /\ x \in 0..w - 1
    BY <1>0
  <2> HIDE DEF w
  <2> QED
    BY <1>0, <2>1, DivisionUnique DEF w
<1> QED
  BY <1>0, <1>3, <1>4, <1>5, <1>6 DEF b

(***************************************************************************)
(* Sequences.                                                              *)
(***************************************************************************)

LEMMA ConcatParts ==
    ASSUME NEW S, NEW a \in Seq(S), NEW b \in Seq(S)
    PROVE  /\ a \o b \in Seq(S) /\ Len(a \o b) = Len(a) + Len(b)
           /\ SubSeq(a \o b, 1, Len(a)) = a
           /\ SubSeq(a \o b, Len(a) + 1, Len(a \o b)) = b
<1>1. a \o b \in Seq(S) /\ Len(a \o b) = Len(a) + Len(b)
  OBVIOUS
<1>2. SubSeq(a \o b, 1, Len(a)) = a
  OBVIOUS
<1>3. SubSeq(a \o b, Len(a) + 1, Len(a \o b)) = b
  OBVIOUS
<1> QED
  BY <1>1, <1>2, <1>3

LEMMA ConcatAssoc ==
    ASSUME NEW S, NEW a \in Seq(S), NEW b \in Seq(S), NEW c \in Seq(S)
    PROVE  (a \o b) \o c = a \o (b \o c)
  OBVIOUS

LEMMA ConcatAppend ==
    ASSUME NEW S, NEW a \in Seq(S), NEW b \in Seq(S), NEW x \in S
    PROVE  Append(a \o b, x) = a \o Append(b, x)
  OBVIOUS

LEMMA ConcatEmpty ==
    ASSUME NEW S, NEW a \in Seq(S)
    PROVE  a \o <<>> = a /\ <<>> \o a = a
  OBVIOUS

LEMMA HeadTail ==
    ASSUME NEW S, NEW a \in Seq(S), a # <<>>
    PROVE  /\ a[1] \in S /\ Tail(a) \in Seq(S) /\ Len(Tail(a)) = Len(a) - 1
           /\ a = <<a[1]>> \o Tail(a)
  OBVIOUS

LEMMA PrefixParts ==
    ASSUME NEW S, NEW a \in Seq(S), NEW b \in Seq(S)
    PROVE  IsPrefix(a, a \o b)
<1>1. Len(a) <= Len(a \o b) /\ SubSeq(a, 1, Len(a)) = a
  OBVIOUS
<1> QED
  BY <1>1, ConcatParts DEF IsPrefix

LEMMA PrefixSelf ==
    ASSUME NEW S, NEW a \in Seq(S)
    PROVE  IsPrefix(a, a)
  BY DEF IsPrefix

LEMMA PrefixAppend ==
    ASSUME NEW S, NEW a \in Seq(S), NEW b \in Seq(S), NEW x \in S, IsPrefix(a, b)
    PROVE  IsPrefix(a, Append(b, x))
<1>1. SubSeq(Append(b, x), 1, Len(a)) = SubSeq(b, 1, Len(a))
  BY DEF IsPrefix
<1> QED
  BY <1>1 DEF IsPrefix

(***************************************************************************)
(* One frame.                                                              *)
(***************************************************************************)

LEMMA MessageFacts ==
    ASSUME NEW m \in FrameMessages
    PROVE  /\ m = [id |-> m.id, data |-> m.data]
           /\ m.id \in 0..Weight[LenBytes] - 1
           /\ m.data \in Seq(Bytes)
           /\ Len(m.data) \in 0..Weight[LenBytes] - 1
           /\ Len(m.data) < Weight[LenBytes] \div 2
<1>1. Weight[LenBytes] \in Nat \ {0}
  BY FramingAssumption, WeightValues
<1>2. Weight[LenBytes] \div 2 <= Weight[LenBytes]
  BY <1>1
<1>3. Weight[LenBytes] \div 2 \in Nat
  BY <1>1
<1>4. m.data \in Seq(Bytes) /\ Len(m.data) \in Nat /\ Len(m.data) < Weight[LenBytes] \div 2
  BY FramingAssumption
<1>5. Len(m.data) \in 0..Weight[LenBytes] - 1
  BY <1>1, <1>2, <1>3, <1>4
<1> QED
  BY <1>4, <1>5, FramingAssumption

HeadOf(r, m) == IF r THEN LittleEndian(Len(m.data))
                ELSE LittleEndian(Len(m.data)) \o LittleEndian(m.id)

\* Pack puts a head before the data; Unpack of that head tells the length and id.
LEMMA PackUnpack ==
    ASSUME NEW r \in BOOLEAN, NEW m \in FrameMessages
    PROVE  /\ HeadOf(r, m) \in Seq(Bytes) /\ Len(HeadOf(r, m)) = GetHeadLen(r)
           /\ Pack(r, m) = HeadOf(r, m) \o m.data
           /\ Unpack(r, HeadOf(r, m)) = [len |-> Len(m.data), id |-> Handed(r, m).id,
                                         err |-> Len(m.data) > MaxPacketSize]
<1> DEFINE n == LittleEndian(Len(m.data))
           i == LittleEndian(m.id)
<1>1. m.data \in Seq(Bytes) /\ Len(m.data) < Weight[LenBytes] \div 2 /\ LenBytes \in Nat
  BY MessageFacts, FramingAssumption
<1>2. n \in Seq(Bytes) /\ Len(n) = LenBytes /\ Unsigned(n) = Len(m.data)
  BY MessageFacts, UnsignedLittle
<1>3. i \in Seq(Bytes) /\ Len(i) = LenBytes /\ Unsigned(i) = m.id
  BY MessageFacts, UnsignedLittle
<1> HIDE DEF n, i
<1>4. CASE r
  <2>1. HeadOf(r, m) = n /\ Pack(r, m) = n \o m.data /\ GetHeadLen(r) = LenBytes
    BY <1>4 DEF HeadOf, Pack, RpcPack, GetHeadLen, n
  <2>2. Signed(n) = Len(m.data)
    BY <1>1, <1>2 DEF Signed
  <2>3. Unpack(r, n) = [len |-> Len(m.data), id |-> 0, err |-> Len(m.data) > MaxPacketSize]
    BY <1>4, <2>2 DEF Unpack, RpcUnpack
  <2> QED
    BY <1>2, <1>4, <2>1, <2>3 DEF Handed
<1>5. CASE ~r
  <2>1. HeadOf(r, m) = n \o i /\ Pack(r, m) = (n \o i) \o m.data /\ GetHeadLen(r) = 2 * LenBytes
    <3>1. HeadOf(r, m) = n \o i /\ GetHeadLen(r) = 2 * LenBytes
      BY <1>5 DEF HeadOf, GetHeadLen, n, i
    <3>2. Pack(r, m) = n \o i \o m.data
      BY <1>5 DEF Pack, PbPack, n, i
    <3> QED
      BY <1>1, <1>2, <1>3, <3>1, <3>2, ConcatAssoc
  <2>2. n \o i \in Seq(Bytes) /\ Len(n \o i) = 2 * LenBytes
    BY <1>1, <1>2, <1>3
  <2>3. SubSeq(n \o i, 1, LenBytes) = n
    BY <1>2, <1>3, ConcatParts
  <2>4. SubSeq(n \o i, LenBytes + 1, 2 * LenBytes) = i
    <3>1. SubSeq(n \o i, Len(n) + 1, Len(n \o i)) = i
      BY <1>2, <1>3, ConcatParts
    <3> QED
      BY <1>2, <2>2, <3>1
  <2>5. Unpack(r, n \o i) = [len |-> Len(m.data), id |-> m.id, err |-> Len(m.data) > MaxPacketSize]
    BY <1>2, <1>3, <1>5, <2>3, <2>4 DEF Unpack, PbUnpack
  <2> QED
    BY <1>5, <2>1, <2>2, <2>5 DEF Handed
<1> QED
  BY <1>4, <1>5

LEMMA PackFacts ==
    ASSUME NEW r \in BOOLEAN, NEW m \in FrameMessages
    PROVE  /\ Pack(r, m) \in Seq(Bytes) /\ Pack(r, m) # <<>>
           /\ GetHeadLen(r) \in Nat \ {0} /\ Len(Pack(r, m)) = GetHeadLen(r) + Len(m.data)
<1>1. HeadOf(r, m) \in Seq(Bytes) /\ m.data \in Seq(Bytes)
  BY PackUnpack, MessageFacts
<1>2. GetHeadLen(r) \in Nat \ {0}
  BY FramingAssumption DEF GetHeadLen
<1>3. Pack(r, m) \in Seq(Bytes) /\ Len(Pack(r, m)) = GetHeadLen(r) + Len(m.data)
  <2> DEFINE h == HeadOf(r, m)
             d == m.data
  <2>1. Pack(r, m) = h \o d /\ Len(h) = GetHeadLen(r)
    BY PackUnpack
  <2>2. h \in Seq(Bytes) /\ d \in Seq(Bytes)
    BY <1>1
  <2> HIDE DEF h, d
  <2>3. h \o d \in Seq(Bytes) /\ Len(h \o d) = Len(h) + Len(d)
    BY <2>2, ConcatParts
  <2> QED
    BY <2>1, <2>3 DEF d
<1>4. Len(Pack(r, m)) # 0
  BY <1>1, <1>2, <1>3
<1> QED
  BY <1>2, <1>3, <1>4

(***************************************************************************)
(* What the frames of a sequence of messages are on the wire, and what is  *)
(* handed on of them.                                                      *)
(***************************************************************************)

Wire(r, ms) ==
    LET upTo[k \in 0..Len(ms)] == IF k = 0 THEN <<>> ELSE upTo[k - 1] \o Pack(r, ms[k])
    IN  upTo[Len(ms)]

LEMMA WireValues ==
    ASSUME NEW r \in BOOLEAN, NEW ms \in Seq(FrameMessages)
    PROVE  \E f \in [0..Len(ms) -> Seq(Bytes)] :
               /\ Wire(r, ms) = f[Len(ms)] /\ f[0] = <<>>
               /\ \A k \in 1..Len(ms) : f[k] = f[k - 1] \o Pack(r, ms[k])
<1> DEFINE n == Len(ms)
           S == Seq(Bytes)
           step == [k \in 0..n |-> [v \in S |-> IF k = 0 THEN v ELSE v \o Pack(r, ms[k])]]
           Is(f) == f = [k \in 0..n |-> IF k = 0 THEN <<>> ELSE f[k - 1] \o Pack(r, ms[k])]
<1>1. \A k \in 1..n : ms[k] \in FrameMessages
  OBVIOUS
<1>2. step \in [0..n -> [S -> S]]
  <2> SUFFICES ASSUME NEW k \in 0..n, NEW v \in S, k # 0 PROVE v \o Pack(r, ms[k]) \in S
    OBVIOUS
  <2>1. ms[k] \in FrameMessages
    BY <1>1
  <2>2. Pack(r, ms[k]) \in Seq(Bytes)
    BY <2>1, PackFacts
  <2> QED
    BY <2>2
<1>3. PICK f \in [0..n -> S] : \A k \in 0..n : f[k] = IF k = 0 THEN <<>> ELSE step[k][f[k - 1]]
  <2>1. Downward(0..n) /\ <<>> \in S
    BY DEF Downward
  <2> HIDE DEF step, n, S
  <2>2. \E f \in [0..n -> S] : Recurs(f, 0..n, step, <<>>)
    BY <1>2, <2>1, Recursion
  <2> QED
    BY <2>2 DEF Recurs
<1>4. \A k \in 0..n : f[k] = IF k = 0 THEN <<>> ELSE f[k - 1] \o Pack(r, ms[k])
  <2> SUFFICES ASSUME NEW k \in 0..n PROVE f[k] = IF k = 0 THEN <<>> ELSE f[k - 1] \o Pack(r, ms[k])
    OBVIOUS
  <2>1. f[k] = IF k = 0 THEN <<>> ELSE step[k][f[k - 1]]
    BY <1>3
  <2>2. k # 0 => f[k - 1] \in S
    <3> HIDE DEF S
    <3> QED
      OBVIOUS
  <2> HIDE DEF S
  <2> QED
    BY <2>1, <2>2
<1> HIDE DEF step
<1>5. Is(f)
  <2> HIDE DEF S
  <2> QED
    BY <1>4
<1> DEFINE g == CHOOSE g : Is(g)
<1>6. Is(g)
  <2> HIDE DEF Is
  <2> QED
    BY <1>5
<1>7. Wire(r, ms) = g[n]
  BY DEF Wire
<1> HIDE DEF g
<1>8. \A k \in 0..n : g[k] = IF k = 0 THEN <<>> ELSE g[k - 1] \o Pack(r, ms[k])
  BY <1>6
<1>9. \A k \in Nat : k <= n => g[k] = f[k]
  <2> DEFINE T == {k \in Nat : k <= n => g[k] = f[k]}
  <2>1. 0 \in T
    <3>1. 0 \in 0..n
      OBVIOUS
    <3>2. g[0] = <<>> /\ f[0] = <<>>
      BY <3>1, <1>4, <1>8
    <3> QED
      BY <3>2
  <2>2. ASSUME NEW k \in Nat, k \in T PROVE k + 1 \in T
    <3> SUFFICES ASSUME k + 1 <= n PROVE g[k + 1] = f[k + 1]
      OBVIOUS
    <3>1. k + 1 \in 0..n /\ k + 1 # 0 /\ (k + 1) - 1 = k /\ g[k] = f[k]
      BY <2>2
    <3>2. g[k + 1] = g[k] \o Pack(r, ms[k + 1]) /\ f[k + 1] = f[k] \o Pack(r, ms[k + 1])
      BY <3>1, <1>4, <1>8
    <3> QED
      BY <3>1, <3>2
  <2> HIDE DEF T
  <2>3. Nat \subseteq T
    BY <2>1, <2>2, SetInduction
  <2> QED
    BY <2>3 DEF T
<1>10. Wire(r, ms) = f[n]
  BY <1>7, <1>9
<1>11. f[0] = <<>> /\ \A k \in 1..n : f[k] = f[k - 1] \o Pack(r, ms[k])
  <2> HIDE DEF S
  <2> QED
    BY <1>4
<1> QED
  BY <1>10, <1>11

LEMMA WireNext ==
    ASSUME NEW r \in BOOLEAN, NEW ms \in Seq(FrameMessages), NEW m \in FrameMessages
    PROVE  /\ Wire(r, ms) \in Seq(Bytes) /\ Wire(r, <<>>) = <<>>
           /\ Wire(r, Append(ms, m)) = Wire(r, ms) \o Pack(r, m)
<1> DEFINE n == Len(ms)
           ns == Append(ms, m)
<1>1. PICK f \in [0..n -> Seq(Bytes)] :
          /\ Wire(r, ms) = f[n] /\ f[0] = <<>>
          /\ \A k \in 1..n : f[k] = f[k - 1] \o Pack(r, ms[k])
  BY WireValues
<1>2. ns \in Seq(FrameMessages) /\ Len(ns) = n + 1 /\ n \in Nat /\ ns[n + 1] = m
      /\ \A k \in 1..n : ns[k] = ms[k]
  OBVIOUS
<1>3. PICK g \in [0..n + 1 -> Seq(Bytes)] :
          /\ Wire(r, ns) = g[n + 1] /\ g[0] = <<>>
          /\ \A k \in 1..n + 1 : g[k] = g[k - 1] \o Pack(r, ns[k])
  <2> HIDE DEF ns
  <2>1. \E g \in [0..Len(ns) -> Seq(Bytes)] :
            /\ Wire(r, ns) = g[Len(ns)] /\ g[0] = <<>>
            /\ \A k \in 1..Len(ns) : g[k] = g[k - 1] \o Pack(r, ns[k])
    BY <1>2, WireValues
  <2> QED
    BY <1>2, <2>1
<1> HIDE DEF ns
<1>4. \A k \in Nat : k <= n => g[k] = f[k]
  <2> DEFINE T == {k \in Nat : k <= n => g[k] = f[k]}
  <2>1. 0 \in T
    BY <1>1, <1>3
  <2>2. ASSUME NEW k \in Nat, k \in T PROVE k + 1 \in T
    <3> SUFFICES ASSUME k + 1 <= n PROVE g[k + 1] = f[k + 1]
      OBVIOUS
    <3>1. k + 1 \in 1..n /\ k + 1 \in 1..n + 1 /\ (k + 1) - 1 = k /\ g[k] = f[k]
          /\ ns[k + 1] = ms[k + 1]
      BY <1>2, <2>2
    <3>2. g[k + 1] = g[k] \o Pack(r, ns[k + 1]) /\ f[k + 1] = f[k] \o Pack(r, ms[k + 1])
      BY <3>1, <1>1, <1>3
    <3> QED
      BY <3>1, <3>2
  <2> HIDE DEF T
  <2>3. Nat \subseteq T
    BY <2>1, <2>2, SetInduction
  <2> QED
    BY <2>3 DEF T
<1>5. Wire(r, ms) \in Seq(Bytes) /\ g[n] = f[n] /\ n + 1 \in 1..n + 1 /\ (n + 1) - 1 = n
  <2>1. n \in Nat /\ n \in 0..n
    BY <1>2
  <2>2. Wire(r, ms) \in Seq(Bytes)
    BY <1>1, <2>1
  <2>3. g[n] = f[n]
    BY <1>4, <2>1
  <2> QED
    BY <2>1, <2>2, <2>3
<1>6. g[n + 1] = g[n] \o Pack(r, m)
  BY <1>2, <1>3, <1>5
<1>7. Wire(r, <<>>) = <<>>
  <2>1. <<>> \in Seq(FrameMessages) /\ Len(<<>>) = 0
    OBVIOUS
  <2> DEFINE e == <<>>
  <2>2. e \in Seq(FrameMessages) /\ Len(e) = 0
    BY <2>1
  <2> HIDE DEF e
  <2>3. \E f1 \in [0..Len(e) -> Seq(Bytes)] : Wire(r, e) = f1[Len(e)] /\ f1[0] = <<>>
    BY <2>2, WireValues
  <2>4. Wire(r, e) = <<>>
    BY <2>2, <2>3
  <2> QED
    BY <2>4 DEF e
<1> QED
  BY <1>1, <1>3, <1>5, <1>6, <1>7 DEF ns
HandedOn == [id : Nat, data : Seq(Bytes)]

LEMMA HandedType ==
    ASSUME NEW r \in BOOLEAN, NEW m \in FrameMessages
    PROVE  Handed(r, m) \in HandedOn
<1>1. m.data \in Seq(Bytes) /\ m.id \in Nat
  BY MessageFacts, WeightValues, FramingAssumption
<1> QED
  BY <1>1 DEF Handed, HandedOn

LEMMA ExpectedValues ==
    ASSUME NEW r \in BOOLEAN, NEW ms \in Seq(FrameMessages)
    PROVE  \E f \in [0..Len(ms) -> Seq(HandedOn)] :
               /\ Expected(r, ms) = f[Len(ms)] /\ f[0] = <<>>
               /\ \A k \in 1..Len(ms) : f[k] = IF Dropped(r, ms, k) THEN f[k - 1] ELSE Append(f[k - 1], Handed(r, ms[k]))
<1> DEFINE n == Len(ms)
           S == Seq(HandedOn)
           step == [k \in 0..n |-> [v \in S |-> IF k = 0 THEN v ELSE (IF Dropped(r, ms, k) THEN v ELSE Append(v, Handed(r, ms[k])))]]
           Is(f) == f = [k \in 0..n |-> IF k = 0 THEN <<>> ELSE IF Dropped(r, ms, k) THEN f[k - 1] ELSE Append(f[k - 1], Handed(r, ms[k]))]
<1>1. \A k \in 1..n : ms[k] \in FrameMessages
  OBVIOUS
<1>2. step \in [0..n -> [S -> S]]
  <2> SUFFICES ASSUME NEW k \in 0..n, NEW v \in S, k # 0 PROVE (IF Dropped(r, ms, k) THEN v ELSE Append(v, Handed(r, ms[k]))) \in S
    OBVIOUS
  <2>1. ms[k] \in FrameMessages
    BY <1>1
  <2>2. Handed(r, ms[k]) \in HandedOn
    BY <2>1, HandedType
  <2>3. Append(v, Handed(r, ms[k])) \in S
    BY <2>2
  <2> QED
    BY <2>3
<1>3. PICK f \in [0..n -> S] : \A k \in 0..n : f[k] = IF k = 0 THEN <<>> ELSE step[k][f[k - 1]]
  <2>1. Downward(0..n) /\ <<>> \in S
    BY DEF Downward
  <2> HIDE DEF step, n, S
  <2>2. \E f \in [0..n -> S] : Recurs(f, 0..n, step, <<>>)
    BY <1>2, <2>1, Recursion
  <2> QED
    BY <2>2 DEF Recurs
<1>4. \A k \in 0..n : f[k] = IF k = 0 THEN <<>> ELSE IF Dropped(r, ms, k) THEN f[k - 1] ELSE Append(f[k - 1], Handed(r, ms[k]))
  <2> SUFFICES ASSUME NEW k \in 0..n PROVE f[k] = IF k = 0 THEN <<>> ELSE IF Dropped(r, ms, k) THEN f[k - 1] ELSE Append(f[k - 1], Handed(r, ms[k]))
    OBVIOUS
  <2>1. f[k] = IF k = 0 THEN <<>> ELSE step[k][f[k - 1]]
    BY <1>3
  <2>2. k # 0 => f[k - 1] \in S
    <3> HIDE DEF S
    <3> QED
      OBVIOUS
  <2> HIDE DEF S
  <2> QED
    BY <2>1, <2>2
<1> HIDE DEF step
<1>5. Is(f)
  <2> HIDE DEF S, n
  <2>1. f = [k \in 0..n |-> f[k]]
    OBVIOUS
  <2>2. [k \in 0..n |-> f[k]] =
            [k \in 0..n |-> IF k = 0 THEN <<>>
                            ELSE (IF Dropped(r, ms, k) THEN f[k - 1] ELSE Append(f[k - 1], Handed(r, ms[k])))]
    BY <1>4, Zenon
  <2> QED
    BY <2>1, <2>2, Zenon
<1> DEFINE g == CHOOSE g : Is(g)
<1>6. Is(g)
  <2> HIDE DEF Is
  <2> QED
    BY <1>5
<1>7. Expected(r, ms) = g[n]
  BY DEF Expected
<1> HIDE DEF g
<1>8. \A k \in 0..n : g[k] = IF k = 0 THEN <<>> ELSE IF Dropped(r, ms, k) THEN g[k - 1] ELSE Append(g[k - 1], Handed(r, ms[k]))
  BY <1>6
<1>9. \A k \in Nat : k <= n => g[k] = f[k]
  <2> DEFINE T == {k \in Nat : k <= n => g[k] = f[k]}
  <2>1. 0 \in T
    <3>1. 0 \in 0..n
      OBVIOUS
    <3>2. g[0] = <<>> /\ f[0] = <<>>
      BY <3>1, <1>4, <1>8
    <3> QED
      BY <3>2
  <2>2. ASSUME NEW k \in Nat, k \in T PROVE k + 1 \in T
    <3> SUFFICES ASSUME k + 1 <= n PROVE g[k + 1] = f[k + 1]
      OBVIOUS
    <3>1. k + 1 \in 0..n /\ k + 1 # 0 /\ (k + 1) - 1 = k /\ g[k] = f[k]
      BY <2>2
    <3>2. g[k + 1] = (IF Dropped(r, ms, k + 1) THEN g[k] ELSE Append(g[k], Handed(r, ms[k + 1]))) /\ f[k + 1] = (IF Dropped(r, ms, k + 1) THEN f[k] ELSE Append(f[k], Handed(r, ms[k + 1])))
      BY <3>1, <1>4, <1>8
    <3> QED
      BY <3>1, <3>2
  <2> HIDE DEF T
  <2>3. Nat \subseteq T
    BY <2>1, <2>2, SetInduction
  <2> QED
    BY <2>3 DEF T
<1>10. Expected(r, ms) = f[n]
  BY <1>7, <1>9
<1>11. n \in Nat /\ 0 \in 0..n
  OBVIOUS
<1> HIDE DEF S, n
<1>12. f[0] = <<>>
  BY <1>4, <1>11
<1>13. ASSUME NEW k \in 1..n
       PROVE  f[k] = IF Dropped(r, ms, k) THEN f[k - 1] ELSE Append(f[k - 1], Handed(r, ms[k]))
  <2>1. k \in 0..n /\ k # 0
    BY <1>11
  <2> QED
    BY <2>1, <1>4
<1> USE DEF S, n
<1> QED
  BY <1>10, <1>12, <1>13

LEMMA ExpectedNext ==
    ASSUME NEW r \in BOOLEAN, NEW ms \in Seq(FrameMessages), NEW m \in FrameMessages
    PROVE  /\ Expected(r, ms) \in Seq(HandedOn) /\ Expected(r, <<>>) = <<>>
           /\ Expected(r, Append(ms, m)) = IF Dropped(r, Append(ms, m), Len(ms) + 1) THEN Expected(r, ms)
                                       ELSE Append(Expected(r, ms), Handed(r, m))
<1> DEFINE n == Len(ms)
           ns == Append(ms, m)
<1>1. PICK f \in [0..n -> Seq(HandedOn)] :
          /\ Expected(r, ms) = f[n] /\ f[0] = <<>>
          /\ \A k \in 1..n : f[k] = IF Dropped(r, ms, k) THEN f[k - 1] ELSE Append(f[k - 1], Handed(r, ms[k]))
  BY ExpectedValues
<1>2. ns \in Seq(FrameMessages) /\ Len(ns) = n + 1 /\ n \in Nat /\ ns[n + 1] = m
      /\ \A k \in 1..n : ns[k] = ms[k]
  OBVIOUS
<1>3. PICK g \in [0..n + 1 -> Seq(HandedOn)] :
          /\ Expected(r, ns) = g[n + 1] /\ g[0] = <<>>
          /\ \A k \in 1..n + 1 : g[k] = IF Dropped(r, ns, k) THEN g[k - 1] ELSE Append(g[k - 1], Handed(r, ns[k]))
  <2> HIDE DEF ns
  <2>1. \E g \in [0..Len(ns) -> Seq(HandedOn)] :
            /\ Expected(r, ns) = g[Len(ns)] /\ g[0] = <<>>
            /\ \A k \in 1..Len(ns) : g[k] = IF Dropped(r, ns, k) THEN g[k - 1] ELSE Append(g[k - 1], Handed(r, ns[k]))
    BY <1>2, ExpectedValues
  <2> QED
    BY <1>2, <2>1
<1> HIDE DEF ns
<1>4. \A k \in Nat : k <= n => g[k] = f[k]
  <2> DEFINE T == {k \in Nat : k <= n => g[k] = f[k]}
  <2>1. 0 \in T
    BY <1>1, <1>3
  <2>2. ASSUME NEW k \in Nat, k \in T PROVE k + 1 \in T
    <3> SUFFICES ASSUME k + 1 <= n PROVE g[k + 1] = f[k + 1]
      OBVIOUS
    <3>1. k + 1 \in 1..n /\ k + 1 \in 1..n + 1 /\ (k + 1) - 1 = k /\ g[k] = f[k]
          /\ ns[k + 1] = ms[k + 1]
      BY <1>2, <2>2
    <3>3. Dropped(r, ns, k + 1) = Dropped(r, ms, k + 1)
      <4>1. \A i \in 1..k + 1 : ns[i] = ms[i]
        BY <1>2, <3>1
      <4> QED
        BY <3>1, <4>1 DEF Dropped
    <3>2. g[k + 1] = (IF Dropped(r, ns, k + 1) THEN g[k] ELSE Append(g[k], Handed(r, ns[k + 1]))) /\ f[k + 1] = (IF Dropped(r, ms, k + 1) THEN f[k] ELSE Append(f[k], Handed(r, ms[k + 1])))
      BY <3>1, <1>1, <1>3
    <3> QED
      BY <3>1, <3>2, <3>3
  <2> HIDE DEF T
  <2>3. Nat \subseteq T
    BY <2>1, <2>2, SetInduction
  <2> QED
    BY <2>3 DEF T
<1>5. Expected(r, ms) \in Seq(HandedOn) /\ g[n] = f[n] /\ n + 1 \in 1..n + 1 /\ (n + 1) - 1 = n
  <2>1. n \in Nat /\ n \in 0..n
    BY <1>2
  <2>2. Expected(r, ms) \in Seq(HandedOn)
    BY <1>1, <2>1
  <2>3. g[n] = f[n]
    BY <1>4, <2>1
  <2> QED
    BY <2>1, <2>2, <2>3
<1>6. g[n + 1] = (IF Dropped(r, ns, n + 1) THEN g[n] ELSE Append(g[n], Handed(r, m)))
  BY <1>2, <1>3, <1>5
<1>7. Expected(r, <<>>) = <<>>
  <2>1. <<>> \in Seq(FrameMessages) /\ Len(<<>>) = 0
    OBVIOUS
  <2> DEFINE e == <<>>
  <2>2. e \in Seq(FrameMessages) /\ Len(e) = 0
    BY <2>1
  <2> HIDE DEF e
  <2>3. \E f1 \in [0..Len(e) -> Seq(HandedOn)] : Expected(r, e) = f1[Len(e)] /\ f1[0] = <<>>
    BY <2>2, ExpectedValues
  <2>4. Expected(r, e) = <<>>
    BY <2>2, <2>3
  <2> QED
    BY <2>4 DEF e
<1> QED
  BY <1>1, <1>3, <1>5, <1>6, <1>7 DEF ns

LEMMA WireTypes ==
    ASSUME NEW r \in BOOLEAN, NEW ms \in Seq(FrameMessages)
    PROVE  Wire(r, ms) \in Seq(Bytes) /\ Wire(r, <<>>) = <<>>
<1>1. PICK f \in [0..Len(ms) -> Seq(Bytes)] : Wire(r, ms) = f[Len(ms)]
  BY WireValues
<1>2. Wire(r, <<>>) = <<>>
  <2> DEFINE e == <<>>
  <2>1. e \in Seq(FrameMessages) /\ Len(e) = 0
    OBVIOUS
  <2> HIDE DEF e
  <2>2. \E f1 \in [0..Len(e) -> Seq(Bytes)] : Wire(r, e) = f1[Len(e)] /\ f1[0] = <<>>
    BY <2>1, WireValues
  <2>3. Wire(r, e) = <<>>
    BY <2>1, <2>2
  <2> QED
    BY <2>3 DEF e
<1>3. Len(ms) \in 0..Len(ms)
  OBVIOUS
<1> QED
  BY <1>1, <1>2, <1>3

LEMMA ExpectedTypes ==
    ASSUME NEW r \in BOOLEAN, NEW ms \in Seq(FrameMessages)
    PROVE  Expected(r, ms) \in Seq(HandedOn) /\ Expected(r, <<>>) = <<>>
<1>1. PICK f \in [0..Len(ms) -> Seq(HandedOn)] : Expected(r, ms) = f[Len(ms)]
  BY ExpectedValues
<1>2. Expected(r, <<>>) = <<>>
  <2> DEFINE e == <<>>
  <2>1. e \in Seq(FrameMessages) /\ Len(e) = 0
    OBVIOUS
  <2> HIDE DEF e
  <2>2. \E f1 \in [0..Len(e) -> Seq(HandedOn)] : Expected(r, e) = f1[Len(e)] /\ f1[0] = <<>>
    BY <2>1, ExpectedValues
  <2>3. Expected(r, e) = <<>>
    BY <2>1, <2>2
  <2> QED
    BY <2>3 DEF e
<1>3. Len(ms) \in 0..Len(ms)
  OBVIOUS
<1> QED
  BY <1>1, <1>2, <1>3

\* The frames of messages one after another.
LEMMA WireConcat ==
    ASSUME NEW r \in BOOLEAN, NEW p \in Seq(FrameMessages), NEW q \in Seq(FrameMessages)
    PROVE  Wire(r, p \o q) = Wire(r, p) \o Wire(r, q)
<1> DEFINE T == {x \in Seq(FrameMessages) : Wire(r, p \o x) = Wire(r, p) \o Wire(r, x)}
<1>1. <<>> \in T
  <2>1. p \o <<>> = p /\ Wire(r, p) \o <<>> = Wire(r, p) /\ Wire(r, <<>>) = <<>>
    <3>1. Wire(r, p) \in Seq(Bytes)
      BY WireTypes
    <3> QED
      BY <3>1, ConcatEmpty, WireTypes
  <2>2. <<>> \in Seq(FrameMessages)
    OBVIOUS
  <2> QED
    BY <2>1, <2>2
<1>2. ASSUME NEW x \in Seq(FrameMessages), NEW m \in FrameMessages, x \in T PROVE Append(x, m) \in T
  <2>1. p \o x \in Seq(FrameMessages) /\ p \o Append(x, m) = Append(p \o x, m)
    BY ConcatParts, ConcatAppend
  <2>2. Wire(r, Append(p \o x, m)) = Wire(r, p \o x) \o Pack(r, m)
    BY <2>1, WireNext
  <2>3. Wire(r, Append(x, m)) = Wire(r, x) \o Pack(r, m)
    BY WireNext
  <2>4. Wire(r, p) \in Seq(Bytes) /\ Wire(r, x) \in Seq(Bytes) /\ Pack(r, m) \in Seq(Bytes)
    BY WireTypes, PackFacts
  <2>5. (Wire(r, p) \o Wire(r, x)) \o Pack(r, m) = Wire(r, p) \o (Wire(r, x) \o Pack(r, m))
    BY <2>4, ConcatAssoc
  <2>6. Append(x, m) \in Seq(FrameMessages)
    OBVIOUS
  <2>7. Wire(r, p \o x) = Wire(r, p) \o Wire(r, x)
    BY <1>2
  <2> QED
    BY <2>1, <2>2, <2>3, <2>5, <2>6, <2>7
<1> HIDE DEF T
<1>3. Seq(FrameMessages) \subseteq T
  BY <1>1, <1>2, SequenceInduction
<1> QED
  BY <1>3 DEF T

LEMMA WireFirst ==
    ASSUME NEW r \in BOOLEAN, NEW ms \in Seq(FrameMessages), ms # <<>>
    PROVE  /\ ms[1] \in FrameMessages /\ Tail(ms) \in Seq(FrameMessages)
           /\ Wire(r, ms) = Pack(r, ms[1]) \o Wire(r, Tail(ms))
<1> DEFINE m == ms[1]
           t == Tail(ms)
<1>1. m \in FrameMessages /\ t \in Seq(FrameMessages) /\ ms = <<m>> \o t
  BY HeadTail
<1> HIDE DEF m, t
<1>2. <<m>> \in Seq(FrameMessages) /\ <<m>> = Append(<<>>, m) /\ <<>> \in Seq(FrameMessages)
  BY <1>1
<1>3. Wire(r, <<m>>) = Wire(r, <<>>) \o Pack(r, m) /\ Wire(r, <<>>) = <<>>
  <2> DEFINE e == <<>>
  <2>1. e \in Seq(FrameMessages) /\ <<m>> = Append(e, m)
    BY <1>2
  <2>2. Wire(r, e) = <<>>
    BY WireTypes
  <2> HIDE DEF e
  <2>3. Wire(r, Append(e, m)) = Wire(r, e) \o Pack(r, m)
    BY <1>1, <2>1, WireNext
  <2> QED
    BY <2>1, <2>2, <2>3 DEF e
<1>4. Pack(r, m) \in Seq(Bytes) /\ <<>> \o Pack(r, m) = Pack(r, m)
  BY <1>1, PackFacts, ConcatEmpty
<1>5. Wire(r, <<m>> \o t) = Wire(r, <<m>>) \o Wire(r, t)
  BY <1>1, <1>2, WireConcat
<1> QED
  BY <1>1, <1>3, <1>4, <1>5 DEF m, t

\* What is handed on of the first messages, then of all.
LEMMA ExpectedPrefix ==
    ASSUME NEW r \in BOOLEAN, NEW p \in Seq(FrameMessages), NEW q \in Seq(FrameMessages)
    PROVE  IsPrefix(Expected(r, p), Expected(r, p \o q))
<1> DEFINE T == {x \in Seq(FrameMessages) : IsPrefix(Expected(r, p), Expected(r, p \o x))}
<1>0. Expected(r, p) \in Seq(HandedOn)
  BY ExpectedTypes
<1>1. <<>> \in T
  <2>1. p \o <<>> = p /\ <<>> \in Seq(FrameMessages)
    BY ConcatEmpty
  <2> QED
    BY <1>0, <2>1, PrefixSelf
<1>2. ASSUME NEW x \in Seq(FrameMessages), NEW m \in FrameMessages, x \in T PROVE Append(x, m) \in T
  <2> DEFINE px == p \o x
  <2>1. px \in Seq(FrameMessages) /\ p \o Append(x, m) = Append(px, m) /\ Append(x, m) \in Seq(FrameMessages)
    BY ConcatParts, ConcatAppend
  <2>2. IsPrefix(Expected(r, p), Expected(r, px))
    BY <1>2
  <2> HIDE DEF px
  <2>3. Expected(r, px) \in Seq(HandedOn) /\ Handed(r, m) \in HandedOn
    BY <2>1, ExpectedTypes, HandedType
  <2>4. \/ Expected(r, Append(px, m)) = Expected(r, px)
        \/ Expected(r, Append(px, m)) = Append(Expected(r, px), Handed(r, m))
    BY <2>1, ExpectedNext
  <2>5. IsPrefix(Expected(r, p), Append(Expected(r, px), Handed(r, m)))
    BY <1>0, <2>2, <2>3, PrefixAppend
  <2>6. IsPrefix(Expected(r, p), Expected(r, Append(px, m)))
    BY <2>2, <2>4, <2>5
  <2> QED
    BY <2>1, <2>6 DEF px
<1> HIDE DEF T
<1>3. Seq(FrameMessages) \subseteq T
  BY <1>1, <1>2, SequenceInduction
<1> QED
  BY <1>3 DEF T

NoStop(r, ms) == \A i \in DOMAIN ms : ~Stops(r, ms[i])

\* Behind messages at which the reader does not stop, one more.
LEMMA ExpectedMore ==
    ASSUME NEW r \in BOOLEAN, NEW ms \in Seq(FrameMessages), NEW m \in FrameMessages, NoStop(r, ms)
    PROVE  /\ Stops(r, m) \/ (r /\ m.data = <<>>) => Expected(r, Append(ms, m)) = Expected(r, ms)
           /\ ~(Stops(r, m) \/ (r /\ m.data = <<>>)) =>
                  Expected(r, Append(ms, m)) = Append(Expected(r, ms), Handed(r, m))
<1> DEFINE n == Len(ms) + 1
           ns == Append(ms, m)
<1>1. n \in Nat /\ n > 0 /\ ns[n] = m /\ \A i \in 1..n : i = n \/ (i \in DOMAIN ms /\ ns[i] = ms[i])
  OBVIOUS
<1>2. Dropped(r, ns, n) <=> Stops(r, m) \/ (r /\ m.data = <<>>)
  <2> HIDE DEF n, ns
  <2>1. (\E i \in 1..n : Stops(r, ns[i])) <=> Stops(r, m)
    <3>1. \A i \in 1..n : i # n => ~Stops(r, ns[i])
      BY <1>1 DEF NoStop
    <3> QED
      BY <1>1, <3>1
  <2> QED
    BY <1>1, <2>1 DEF Dropped
<1>3. Expected(r, ns) = IF Dropped(r, ns, n) THEN Expected(r, ms) ELSE Append(Expected(r, ms), Handed(r, m))
  BY ExpectedNext
<1> QED
  BY <1>2, <1>3

(***************************************************************************)
(* The reader has taken whole messages, and what is left on the stream is  *)
(* the frames of the rest, after a head without its head.                  *)
(***************************************************************************)
FrameTypes ==
    /\ rpc \in BOOLEAN /\ stopped \in BOOLEAN /\ cut \in BOOLEAN
    /\ inbound \in Seq(Bytes) /\ arrived \in 0..Len(inbound)
    /\ sent \in Seq(FrameMessages)

StopsFor(r, ms, c, s) == s => c \/ \E i \in DOMAIN ms : Stops(r, ms[i])

HeadFor(r, m) == [len |-> Len(m.data), id |-> Handed(r, m).id, err |-> FALSE]

\* The bytes left when the messages of todo are not handed on.
Left(r, todo, h, b) ==
    \/ h = <<>> /\ b = Wire(r, todo)
    \/ /\ todo # <<>> /\ h = <<HeadFor(r, todo[1])>>
       /\ Len(todo[1].data) \in 1..MaxPacketSize
       /\ b = todo[1].data \o Wire(r, Tail(todo))

Accounted(done, todo) ==
    /\ sent = done \o todo
    /\ handled = Expected(rpc, done)
    /\ ~stopped => NoStop(rpc, done) /\ Left(rpc, todo, head, inbound)

FrameInv ==
    /\ FrameTypes
    /\ StopsFor(rpc, sent, cut, stopped)
    /\ \E done, todo \in Seq(FrameMessages) : Accounted(done, todo)

LEMMA FrameInvInit == FrameInit => FrameInv
<1> SUFFICES ASSUME FrameInit PROVE FrameInv
  OBVIOUS
<1> DEFINE e == <<>>
<1>1. e \in Seq(FrameMessages) /\ e \o e = e /\ NoStop(rpc, e) /\ e \in Seq(Bytes) /\ Len(e) = 0
  BY DEF NoStop
<1>2. rpc \in BOOLEAN /\ Wire(rpc, e) = e /\ Expected(rpc, e) = e
  BY <1>1, WireTypes, ExpectedTypes DEF FrameInit
<1>3. Left(rpc, e, head, inbound)
  BY <1>2 DEF Left, FrameInit
<1>4. Accounted(e, e)
  BY <1>1, <1>2, <1>3 DEF Accounted, FrameInit
<1>5. FrameTypes /\ StopsFor(rpc, sent, cut, stopped)
  <2>1. inbound = e /\ sent = e /\ arrived = 0
    BY DEF FrameInit
  <2>2. e \in Seq(Bytes) /\ e \in Seq(FrameMessages) /\ 0 \in 0..Len(e)
    OBVIOUS
  <2>3. rpc \in BOOLEAN /\ stopped = FALSE /\ cut = FALSE
    BY DEF FrameInit
  <2> HIDE DEF e
  <2> QED
    BY <2>1, <2>2, <2>3 DEF FrameTypes, StopsFor
<1> QED
  BY <1>1, <1>4, <1>5 DEF FrameInv

LEMMA FrameInvSend ==
    ASSUME FrameInv, NEW m \in FrameMessages, SendFrame(m)
    PROVE  FrameInv'
<1>1. PICK done \in Seq(FrameMessages), todo \in Seq(FrameMessages) : Accounted(done, todo)
  BY DEF FrameInv
<1> DEFINE more == Append(todo, m)
<1>2. more \in Seq(FrameMessages) /\ more # <<>> /\ sent' = done \o more
  <2>1. done \o more = Append(done \o todo, m)
    BY ConcatAppend
  <2>2. sent = done \o todo /\ sent' = Append(sent, m)
    BY <1>1 DEF Accounted, SendFrame
  <2>3. more \in Seq(FrameMessages) /\ more # <<>>
    OBVIOUS
  <2> HIDE DEF more
  <2> QED
    BY <2>1, <2>2, <2>3, Zenon
<1>3. UNCHANGED <<rpc, arrived, head, stopped, cut, handled>> /\ inbound' = inbound \o Pack(rpc, m)
  BY DEF SendFrame
<1>4. rpc \in BOOLEAN /\ inbound \in Seq(Bytes) /\ Pack(rpc, m) \in Seq(Bytes)
  BY PackFacts DEF FrameInv, FrameTypes
<1>5. FrameTypes'
  <2>1. inbound' \in Seq(Bytes) /\ Len(inbound') >= Len(inbound)
    BY <1>3, <1>4
  <2>2. sent' \in Seq(FrameMessages)
    BY DEF FrameInv, FrameTypes, SendFrame
  <2>3. arrived \in Nat /\ arrived <= Len(inbound) /\ Len(inbound') \in Nat
    BY <1>4, <2>1 DEF FrameInv, FrameTypes
  <2> QED
    BY <1>3, <2>1, <2>2, <2>3 DEF FrameInv, FrameTypes
<1>6. StopsFor(rpc, sent, cut, stopped)'
  <2>1. \A i \in DOMAIN sent : i \in DOMAIN sent' /\ sent'[i] = sent[i]
    BY DEF FrameInv, FrameTypes, SendFrame
  <2> QED
    BY <1>3, <2>1 DEF FrameInv, StopsFor
<1>7. ASSUME ~stopped PROVE Left(rpc, more, head, inbound')
  <2>1. Left(rpc, todo, head, inbound)
    BY <1>1, <1>7 DEF Accounted
  <2>2. CASE head = <<>>
    <3>1. inbound = Wire(rpc, todo)
      BY <2>1, <2>2 DEF Left
    <3>2. Wire(rpc, more) = Wire(rpc, todo) \o Pack(rpc, m)
      BY <1>4, WireNext
    <3> QED
      BY <1>3, <2>2, <3>1, <3>2 DEF Left
  <2>3. CASE head # <<>>
    <3>1. /\ todo # <<>> /\ head = <<HeadFor(rpc, todo[1])>>
          /\ Len(todo[1].data) \in 1..MaxPacketSize
          /\ inbound = todo[1].data \o Wire(rpc, Tail(todo))
      BY <2>1, <2>3 DEF Left
    <3>2. more[1] = todo[1] /\ todo[1] \in FrameMessages /\ Tail(more) = Append(Tail(todo), m)
          /\ Tail(todo) \in Seq(FrameMessages)
      BY <3>1
    <3>3. Wire(rpc, Tail(more)) = Wire(rpc, Tail(todo)) \o Pack(rpc, m)
      BY <1>4, <3>2, WireNext
    <3>4. todo[1].data \in Seq(Bytes) /\ Wire(rpc, Tail(todo)) \in Seq(Bytes)
      BY <1>4, <3>2, MessageFacts, WireTypes
    <3>5. (todo[1].data \o Wire(rpc, Tail(todo))) \o Pack(rpc, m) = todo[1].data \o Wire(rpc, Tail(more))
      <4>1. (todo[1].data \o Wire(rpc, Tail(todo))) \o Pack(rpc, m) =
                todo[1].data \o (Wire(rpc, Tail(todo)) \o Pack(rpc, m))
        <5> DEFINE d == todo[1].data
                   w == Wire(rpc, Tail(todo))
                   p == Pack(rpc, m)
        <5>1. d \in Seq(Bytes) /\ w \in Seq(Bytes) /\ p \in Seq(Bytes)
          BY <1>4, <3>4
        <5> HIDE DEF d, w, p
        <5>2. (d \o w) \o p = d \o (w \o p)
          BY <5>1, ConcatAssoc
        <5> QED
          BY <5>2 DEF d, w, p
      <4> QED
        BY <3>3, <4>1, Zenon
    <3>6. inbound' = more[1].data \o Wire(rpc, Tail(more))
      BY <1>3, <3>1, <3>2, <3>5
    <3> QED
      BY <1>2, <3>1, <3>2, <3>6 DEF Left
  <2> QED
    BY <2>2, <2>3
<1>8. Accounted(done, more)'
  BY <1>1, <1>2, <1>3, <1>7 DEF Accounted
<1> QED
  BY <1>2, <1>5, <1>6, <1>8 DEF FrameInv

LEMMA FrameInvNetwork ==
    ASSUME FrameInv, NEW n \in Nat, Arrive(n) \/ Cut \/ (stopped /\ UNCHANGED frameVars)
    PROVE  FrameInv'
<1>1. PICK done \in Seq(FrameMessages), todo \in Seq(FrameMessages) : Accounted(done, todo)
  BY DEF FrameInv
<1>2. UNCHANGED <<rpc, inbound, head, stopped, sent, handled>> /\ (cut => cut') /\ cut' \in BOOLEAN
  BY DEF Arrive, Cut, frameVars, FrameInv, FrameTypes
<1>3. arrived' \in 0..Len(inbound)
  <2>1. Len(inbound) \in Nat /\ arrived \in 0..Len(inbound)
    BY DEF FrameInv, FrameTypes
  <2> QED
    BY <2>1 DEF Arrive, Cut, frameVars
<1>4. FrameTypes' /\ StopsFor(rpc, sent, cut, stopped)'
  BY <1>2, <1>3 DEF FrameInv, FrameTypes, StopsFor
<1>5. Accounted(done, todo)'
  BY <1>1, <1>2 DEF Accounted
<1> QED
  BY <1>4, <1>5 DEF FrameInv

LEMMA FrameInvFails ==
    ASSUME FrameInv, NEW n \in Nat, ReadFails(n)
    PROVE  FrameInv'
<1>1. PICK done \in Seq(FrameMessages), todo \in Seq(FrameMessages) : Accounted(done, todo)
  BY DEF FrameInv
<1>2. UNCHANGED <<rpc, inbound, arrived, cut, sent, handled>> /\ stopped' = TRUE /\ cut
  BY DEF ReadFails
<1>3. FrameTypes' /\ StopsFor(rpc, sent, cut, stopped)'
  BY <1>2 DEF FrameInv, FrameTypes, StopsFor
<1>4. Accounted(done, todo)'
  BY <1>1, <1>2 DEF Accounted
<1> QED
  BY <1>3, <1>4 DEF FrameInv

\* Taking the first bytes of what is on the stream.
LEMMA TakeFirst ==
    ASSUME FrameInv, NEW a \in Seq(Bytes), NEW b \in Seq(Bytes), inbound = a \o b, Takes(Len(a))
    PROVE  inbound' = b /\ arrived' \in 0..Len(b)
<1>1. Len(a) \in Nat /\ Len(b) \in Nat /\ Len(inbound) = Len(a) + Len(b)
      /\ SubSeq(inbound, Len(a) + 1, Len(inbound)) = b
  BY ConcatParts
<1>2. arrived \in Nat /\ arrived <= Len(inbound) /\ arrived >= Len(a) /\ arrived' = arrived - Len(a)
  BY DEF FrameInv, FrameTypes, Takes
<1> QED
  BY <1>1, <1>2 DEF Takes

LEMMA FrameInvHead ==
    ASSUME FrameInv, ReadHead
    PROVE  FrameInv'
<1> DEFINE n == GetHeadLen(rpc)
           u == Unpack(rpc, SubSeq(inbound, 1, n))
<1>1. CASE ReadFails(n)
  <2>1. n \in Nat
    BY FramingAssumption DEF GetHeadLen
  <2> QED
    BY <1>1, <2>1, FrameInvFails
<1>2. CASE Takes(n) /\ ~ReadFails(n)
  <2>0. PICK done \in Seq(FrameMessages), todo \in Seq(FrameMessages) : Accounted(done, todo)
    BY DEF FrameInv
  <2>1. head = <<>> /\ ~stopped /\ rpc \in BOOLEAN /\ arrived >= n /\ inbound \in Seq(Bytes)
        /\ arrived \in 0..Len(inbound)
    BY <1>2 DEF ReadHead, Takes, FrameInv, FrameTypes
  <2>2. inbound = Wire(rpc, todo) /\ NoStop(rpc, done)
    BY <2>0, <2>1 DEF Accounted, Left
  <2>3. todo # <<>>
    <3>1. n \in Nat \ {0}
      BY FramingAssumption DEF GetHeadLen
    <3>2. Len(inbound) # 0
      BY <2>1, <3>1
    <3>3. inbound # <<>>
      BY <3>2
    <3>4. Wire(rpc, <<>>) = <<>>
      BY <2>1, WireTypes
    <3> QED
      BY <2>2, <3>3, <3>4
  <2> DEFINE m == todo[1]
             rest == Tail(todo)
             h == HeadOf(rpc, m)
             after == m.data \o Wire(rpc, rest)
             next == Append(done, m)
  <2>4. m \in FrameMessages /\ rest \in Seq(FrameMessages) /\ Wire(rpc, todo) = Pack(rpc, m) \o Wire(rpc, rest)
    BY <2>1, <2>3, WireFirst
  <2>5. m.data \in Seq(Bytes) /\ Wire(rpc, rest) \in Seq(Bytes) /\ h \in Seq(Bytes) /\ Len(h) = n
        /\ Pack(rpc, m) = h \o m.data
    BY <2>1, <2>4, MessageFacts, WireTypes, PackUnpack
  <2>6. inbound = h \o after /\ after \in Seq(Bytes)
    <3> DEFINE d == m.data
               w == Wire(rpc, rest)
    <3>1. h \in Seq(Bytes) /\ d \in Seq(Bytes) /\ w \in Seq(Bytes) /\ inbound = (h \o d) \o w
      BY <2>2, <2>4, <2>5
    <3> HIDE DEF d, w, h
    <3>2. (h \o d) \o w = h \o (d \o w)
      BY <3>1, ConcatAssoc
    <3>3. d \o w \in Seq(Bytes)
      BY <3>1, ConcatParts
    <3>4. inbound = h \o (d \o w)
      BY <3>1, <3>2, Zenon
    <3> QED
      BY <3>3, <3>4 DEF d, w
  <2>7. SubSeq(inbound, 1, n) = h
    <3> HIDE DEF h, after
    <3> QED
      BY <2>5, <2>6, ConcatParts
  <2>8. u = [len |-> Len(m.data), id |-> Handed(rpc, m).id, err |-> Len(m.data) > MaxPacketSize]
    BY <2>1, <2>4, <2>7, PackUnpack
  <2>9. inbound' = after /\ arrived' \in 0..Len(after)
    <3> HIDE DEF h, after
    <3>1. Takes(Len(h))
      BY <1>2, <2>5
    <3> QED
      BY <2>5, <2>6, <3>1, TakeFirst
  <2>10. /\ UNCHANGED <<rpc, cut, sent>>
         /\ IF Len(m.data) > MaxPacketSize THEN stopped' = TRUE /\ UNCHANGED <<head, handled>>
            ELSE /\ UNCHANGED stopped
                 /\ IF Len(m.data) > 0 THEN head' = <<u>> /\ UNCHANGED handled
                    ELSE /\ UNCHANGED head
                         /\ IF rpc THEN UNCHANGED handled ELSE Deliver(Handed(rpc, m).id, <<>>)
    <3>1. u.len = Len(m.data) /\ u.id = Handed(rpc, m).id /\ u.err = (Len(m.data) > MaxPacketSize)
      BY <2>8
    <3> HIDE DEF u
    <3> QED
      BY <1>2, <3>1 DEF ReadHead, u
  <2>11. stopped' \in BOOLEAN /\ (stopped' => Len(m.data) > MaxPacketSize)
    <3>1. stopped = FALSE
      BY <2>1 DEF FrameInv, FrameTypes
    <3>2. CASE Len(m.data) > MaxPacketSize
      <4>1. stopped' = TRUE
        BY <2>10, <3>2
      <4> QED
        BY <3>2, <4>1
    <3>3. CASE ~(Len(m.data) > MaxPacketSize)
      <4>1. stopped' = FALSE
        BY <2>10, <3>1, <3>3
      <4> QED
        BY <4>1
    <3> QED
      BY <3>2, <3>3
  <2>12. FrameTypes'
    <3>1. sent \in Seq(FrameMessages) /\ cut \in BOOLEAN
      BY DEF FrameInv, FrameTypes
    <3> HIDE DEF after
    <3> QED
      BY <2>1, <2>6, <2>9, <2>10, <2>11, <3>1 DEF FrameTypes
  <2>13. sent = done \o todo
    BY <2>0 DEF Accounted
  <2>14. StopsFor(rpc, sent, cut, stopped)'
    <3> SUFFICES ASSUME stopped' PROVE \E i \in DOMAIN sent : Stops(rpc, sent[i])
      BY <2>10 DEF StopsFor
    <3>1. Len(done) + 1 \in DOMAIN sent /\ sent[Len(done) + 1] = m
      BY <2>3, <2>13
    <3>2. Stops(rpc, m)
      BY <2>11 DEF Stops
    <3> QED
      BY <3>1, <3>2
  <2>15. \E d, t \in Seq(FrameMessages) : Accounted(d, t)'
    <3>1. next \in Seq(FrameMessages) /\ sent = next \o rest
      <4>1. <<m>> \in Seq(FrameMessages) /\ todo = <<m>> \o rest /\ next = done \o <<m>> /\ next \in Seq(FrameMessages)
        BY <2>3, <2>4
      <4> HIDE DEF m, rest, next
      <4>2. (done \o <<m>>) \o rest = done \o (<<m>> \o rest)
        BY <2>4, <4>1, ConcatAssoc
      <4> QED
        BY <2>13, <4>1, <4>2
    <3>2. handled = Expected(rpc, done)
      BY <2>0 DEF Accounted
    <3>3. CASE Len(m.data) > MaxPacketSize
      <4>1. Expected(rpc, next) = Expected(rpc, done)
        BY <2>1, <2>2, <2>4, <3>3, ExpectedMore DEF Stops
      <4>2. Accounted(next, rest)'
        BY <2>10, <3>1, <3>2, <3>3, <4>1 DEF Accounted
      <4> QED
        BY <2>4, <3>1, <4>2
    <3>4. CASE Len(m.data) <= MaxPacketSize /\ Len(m.data) > 0
      <4>1. head' = <<HeadFor(rpc, m)>> /\ handled' = handled /\ stopped' = stopped
        <5>1. head' = <<u>> /\ handled' = handled /\ stopped' = stopped
          BY <2>10, <3>4, FramingAssumption
        <5>2. (Len(m.data) > MaxPacketSize) = FALSE
          BY <3>4, <2>5, FramingAssumption
        <5>3. u = HeadFor(rpc, m)
          BY <2>8, <5>2 DEF HeadFor
        <5> QED
          BY <5>1, <5>3
      <4>2. Left(rpc, todo, head', inbound')
        <5>1. Len(m.data) \in 1..MaxPacketSize
          BY <2>5, <3>4, FramingAssumption
        <5> QED
          BY <2>3, <2>9, <4>1, <5>1 DEF Left
      <4>3. Accounted(done, todo)'
        BY <2>2, <2>10, <2>13, <3>2, <4>1, <4>2 DEF Accounted
      <4> QED
        BY <4>3
    <3>5. CASE Len(m.data) = 0
      <4>0. m.data = <<>> /\ ~(Len(m.data) > MaxPacketSize) /\ ~Stops(rpc, m)
        BY <2>5, <3>5, FramingAssumption DEF Stops
      <4>1. UNCHANGED <<stopped, head>> /\ (IF rpc THEN UNCHANGED handled ELSE Deliver(Handed(rpc, m).id, <<>>))
        BY <2>10, <3>5, <4>0
      <4>2. handled' = Expected(rpc, next)
        <5>1. CASE rpc
          <6>1. Expected(rpc, next) = Expected(rpc, done)
            BY <2>1, <2>2, <2>4, <4>0, <5>1, ExpectedMore
          <6> QED
            BY <3>2, <4>1, <5>1, <6>1
        <5>2. CASE ~rpc
          <6>1. Expected(rpc, next) = Append(Expected(rpc, done), Handed(rpc, m))
            BY <2>1, <2>2, <2>4, <4>0, <5>2, ExpectedMore
          <6>2. Handed(rpc, m) = [id |-> Handed(rpc, m).id, data |-> <<>>]
            BY <4>0 DEF Handed
          <6>3. handled' = Append(handled, Handed(rpc, m))
            BY <4>1, <5>2, <6>2 DEF Deliver
          <6> QED
            BY <3>2, <6>1, <6>3
        <5> QED
          BY <5>1, <5>2
      <4>3. NoStop(rpc, next)
        BY <2>2, <2>4, <4>0 DEF NoStop
      <4>4. after = Wire(rpc, rest)
        BY <2>5, <4>0, ConcatEmpty
      <4>5. Left(rpc, rest, head', inbound')
        BY <2>1, <2>9, <4>1, <4>4 DEF Left
      <4>6. Accounted(next, rest)'
        BY <2>10, <3>1, <4>2, <4>3, <4>5 DEF Accounted
      <4> QED
        BY <2>4, <3>1, <4>6
    <3>6. Len(m.data) \in Nat /\ MaxPacketSize \in Nat
      BY <2>5, FramingAssumption
    <3> QED
      BY <3>3, <3>4, <3>5, <3>6
  <2> QED
    BY <2>12, <2>14, <2>15 DEF FrameInv
<1>3. ReadFails(n) \/ Takes(n)
  BY DEF ReadHead
<1> QED
  BY <1>1, <1>2, <1>3

LEMMA FrameInvBody ==
    ASSUME FrameInv, ReadBody
    PROVE  FrameInv'
<1> DEFINE n == head[1].len
           data == SubSeq(inbound, 1, n)
<1>1. CASE stopped
  BY <1>1 DEF ReadBody, ReadFails, Takes
<1>2. CASE ~stopped
  <2>0. PICK done \in Seq(FrameMessages), todo \in Seq(FrameMessages) : Accounted(done, todo)
    BY DEF FrameInv
  <2> DEFINE m == todo[1]
             rest == Tail(todo)
             next == Append(done, m)
  <2>1. /\ todo # <<>> /\ head = <<HeadFor(rpc, m)>> /\ Len(m.data) \in 1..MaxPacketSize
        /\ inbound = m.data \o Wire(rpc, rest) /\ NoStop(rpc, done)
    <3>1. head # <<>>
      BY DEF ReadBody
    <3> QED
      BY <1>2, <2>0, <3>1 DEF Accounted, Left
  <2>2. rpc \in BOOLEAN /\ m \in FrameMessages /\ rest \in Seq(FrameMessages)
        /\ m.data \in Seq(Bytes) /\ Wire(rpc, rest) \in Seq(Bytes)
    BY <2>1, WireFirst, MessageFacts, WireTypes DEF FrameInv, FrameTypes
  <2>3. n = Len(m.data) /\ head[1].id = Handed(rpc, m).id /\ n \in Nat
    BY <2>1, FramingAssumption DEF HeadFor
  <2>4. data = m.data
    <3> DEFINE d == m.data
               w == Wire(rpc, rest)
    <3>1. d \in Seq(Bytes) /\ w \in Seq(Bytes) /\ inbound = d \o w
      BY <2>1, <2>2
    <3> HIDE DEF d, w
    <3>2. SubSeq(inbound, 1, Len(d)) = d
      BY <3>1, ConcatParts
    <3> QED
      BY <2>3, <3>2 DEF d
  <2>5. CASE ReadFails(n)
    BY <2>3, <2>5, FrameInvFails
  <2>6. CASE ~ReadFails(n)
    <3>1. /\ Takes(n) /\ head' = <<>> /\ UNCHANGED <<rpc, cut, sent>>
          /\ IF rpc /\ ~GobDecodes(m.data) THEN stopped' = TRUE /\ UNCHANGED handled
             ELSE Deliver(Handed(rpc, m).id, m.data) /\ UNCHANGED stopped
      <4> HIDE DEF n, m
      <4> QED
        BY <2>3, <2>4, <2>6 DEF ReadBody, n
    <3>2. inbound' = Wire(rpc, rest) /\ arrived' \in 0..Len(Wire(rpc, rest))
      <4>1. Takes(Len(m.data))
        BY <2>3, <3>1
      <4> QED
        BY <2>1, <2>2, <4>1, TakeFirst
    <3>3. sent = done \o todo /\ handled = Expected(rpc, done)
      BY <2>0 DEF Accounted
    <3>4. next \in Seq(FrameMessages) /\ sent = next \o rest
      <4>1. <<m>> \in Seq(FrameMessages) /\ todo = <<m>> \o rest /\ next = done \o <<m>> /\ next \in Seq(FrameMessages)
        BY <2>1, <2>2
      <4> HIDE DEF m, rest, next
      <4>2. (done \o <<m>>) \o rest = done \o (<<m>> \o rest)
        BY <2>2, <4>1, ConcatAssoc
      <4> QED
        BY <3>3, <4>1, <4>2
    <3>5. m.data # <<>> /\ ~(Len(m.data) > MaxPacketSize) /\ (Stops(rpc, m) <=> rpc /\ ~GobDecodes(m.data))
      BY <2>1, FramingAssumption DEF Stops
    <3>6. cut \in BOOLEAN /\ sent \in Seq(FrameMessages) /\ stopped = FALSE
      BY <1>2 DEF FrameInv, FrameTypes
    <3>7. CASE Stops(rpc, m)
      <4>1. stopped' = TRUE /\ handled' = handled
        BY <3>1, <3>5, <3>7
      <4>2. Expected(rpc, next) = Expected(rpc, done)
        BY <2>1, <2>2, <3>7, ExpectedMore
      <4>3. Accounted(next, rest)'
        BY <3>1, <3>3, <3>4, <4>1, <4>2 DEF Accounted
      <4>4. StopsFor(rpc, sent, cut, stopped)'
        <5>1. Len(done) + 1 \in DOMAIN sent /\ sent[Len(done) + 1] = m
          BY <2>1, <3>3
        <5> QED
          BY <3>1, <3>7, <5>1 DEF StopsFor
      <4>5. FrameTypes'
        BY <2>2, <3>1, <3>2, <3>6, <4>1 DEF FrameTypes
      <4> QED
        BY <2>2, <3>4, <4>3, <4>4, <4>5 DEF FrameInv
    <3>8. CASE ~Stops(rpc, m)
      <4>1. stopped' = FALSE /\ handled' = Append(handled, Handed(rpc, m))
        <5>1. Deliver(Handed(rpc, m).id, m.data) /\ UNCHANGED stopped
          BY <3>1, <3>5, <3>8
        <5>2. Handed(rpc, m) = [id |-> Handed(rpc, m).id, data |-> m.data]
          BY DEF Handed
        <5> QED
          BY <3>6, <5>1, <5>2 DEF Deliver
      <4>2. Expected(rpc, next) = Append(Expected(rpc, done), Handed(rpc, m))
        BY <2>1, <2>2, <3>5, <3>8, ExpectedMore
      <4>3. NoStop(rpc, next)
        BY <2>1, <2>2, <3>8 DEF NoStop
      <4>4. Left(rpc, rest, head', inbound')
        BY <3>1, <3>2 DEF Left
      <4>5. Accounted(next, rest)'
        BY <3>1, <3>3, <3>4, <4>1, <4>2, <4>3, <4>4 DEF Accounted
      <4>6. FrameTypes' /\ StopsFor(rpc, sent, cut, stopped)'
        BY <2>2, <3>1, <3>2, <3>6, <4>1 DEF FrameTypes, StopsFor
      <4> QED
        BY <2>2, <3>4, <4>5, <4>6 DEF FrameInv
    <3> QED
      BY <3>7, <3>8
  <2> QED
    BY <2>5, <2>6
<1> QED
  BY <1>1, <1>2

LEMMA FrameInvHolds == FrameSpec => []FrameInv
<1>1. ASSUME FrameInv, [FrameNext]_frameVars PROVE FrameInv'
  <2>1. CASE \E m \in FrameMessages : SendFrame(m)
    BY <1>1, <2>1, FrameInvSend
  <2>2. CASE \E n \in 1..GetHeadLen(rpc) : Arrive(n)
    BY <1>1, <2>2, FrameInvNetwork
  <2>3. CASE Cut \/ (stopped /\ UNCHANGED frameVars)
    <3>1. 0 \in Nat
      OBVIOUS
    <3> QED
      BY <1>1, <2>3, <3>1, FrameInvNetwork
  <2>4. CASE ReadHead
    BY <1>1, <2>4, FrameInvHead
  <2>5. CASE ReadBody
    BY <1>1, <2>5, FrameInvBody
  <2>6. CASE UNCHANGED frameVars
    BY <1>1, <2>6 DEF frameVars, FrameInv, FrameTypes, StopsFor, Accounted
  <2> QED
    BY <1>1, <2>1, <2>2, <2>3, <2>4, <2>5, <2>6 DEF FrameNext
<1> QED
  BY <1>1, FrameInvInit, PTL DEF FrameSpec

\* However the bytes arrive and wherever the connection breaks, the reader of
\* frames hands on the messages that were sent, in order and unchanged, stops only
\* where it has to and hands on all it has.
THEOREM FramesIntactCorrect == FrameSpec => []FramesIntact
<1>1. ASSUME FrameInv PROVE FramesIntact
  <2>1. PICK done \in Seq(FrameMessages), todo \in Seq(FrameMessages) : Accounted(done, todo)
    BY <1>1 DEF FrameInv
  <2>2. rpc \in BOOLEAN /\ sent = done \o todo /\ handled = Expected(rpc, done)
    BY <1>1, <2>1 DEF FrameInv, FrameTypes, Accounted
  <2>3. IsPrefix(handled, Expected(rpc, sent))
    BY <2>2, ExpectedPrefix
  <2>4. stopped => cut \/ \E i \in DOMAIN sent : Stops(rpc, sent[i])
    BY <1>1 DEF FrameInv, StopsFor
  <2>5. ASSUME inbound = <<>>, ~stopped PROVE handled = Expected(rpc, sent)
    <3>1. Left(rpc, todo, head, inbound)
      BY <2>1, <2>5 DEF Accounted
    <3>2. ASSUME todo # <<>> PROVE FALSE
      <4> DEFINE m == todo[1]
                 w == Wire(rpc, Tail(todo))
                 p == Pack(rpc, m)
                 d == m.data
      <4>1. m \in FrameMessages /\ w \in Seq(Bytes) /\ Wire(rpc, todo) = p \o w
        BY <2>2, <3>2, WireFirst, WireTypes
      <4>2. p \in Seq(Bytes) /\ p # <<>> /\ d \in Seq(Bytes)
        BY <2>2, <4>1, PackFacts, MessageFacts
      <4>3. inbound = p \o w \/ (inbound = d \o w /\ Len(d) >= 1)
        <5>1. inbound = Wire(rpc, todo) \/ (inbound = d \o w /\ Len(d) \in 1..MaxPacketSize)
          BY <3>1 DEF Left
        <5>2. Len(d) \in 1..MaxPacketSize => Len(d) >= 1
          BY FramingAssumption
        <5> QED
          BY <4>1, <5>1, <5>2
      <4> HIDE DEF p, w, d
      <4>4. Len(p \o w) # 0 /\ (Len(d) >= 1 => Len(d \o w) # 0)
        BY <4>1, <4>2
      <4> QED
        BY <2>5, <4>3, <4>4, SMTT(20)
    <3>3. todo = <<>> /\ done \o <<>> = done
      BY <3>2, ConcatEmpty
    <3> QED
      BY <2>2, <3>3
  <2> QED
    BY <2>3, <2>4, <2>5 DEF FramesIntact
<1> QED
  BY <1>1, FrameInvHolds, PTL

(***************************************************************************)
(* Chains.  The elements of a sequence lead from a position to another if  *)
(* each of them leads, by the relation R (a set of triples), from where    *)
(* the one before it ended.                                                *)
(***************************************************************************)
Chain(R, q, a, b) ==
    \E pos \in [0..Len(q) -> Nat] :
        /\ pos[0] = a /\ pos[Len(q)] = b
        /\ \A k \in 1..Len(q) : <<pos[k - 1], q[k], pos[k]>> \in R

LEMMA ChainEmpty == ASSUME NEW R, NEW a \in Nat PROVE Chain(R, <<>>, a, a)
<1> DEFINE pos == [k \in 0..0 |-> a]
<1>1. pos \in [0..Len(<<>>) -> Nat] /\ pos[0] = a /\ pos[Len(<<>>)] = a
  OBVIOUS
<1>2. \A k \in 1..Len(<<>>) : <<pos[k - 1], <<>>[k], pos[k]>> \in R
  OBVIOUS
<1> HIDE DEF pos
<1> QED
  BY <1>1, <1>2 DEF Chain

LEMMA ChainOne ==
    ASSUME NEW R, NEW a \in Nat, NEW b \in Nat, NEW x, <<a, x, b>> \in R
    PROVE  Chain(R, <<x>>, a, b)
<1> DEFINE pos == [k \in 0..1 |-> IF k = 0 THEN a ELSE b]
<1>1. pos \in [0..Len(<<x>>) -> Nat] /\ pos[0] = a /\ pos[Len(<<x>>)] = b
  OBVIOUS
<1>2. \A k \in 1..Len(<<x>>) : <<pos[k - 1], <<x>>[k], pos[k]>> \in R
  <2> SUFFICES ASSUME NEW k \in 1..Len(<<x>>) PROVE <<pos[k - 1], <<x>>[k], pos[k]>> \in R
    OBVIOUS
  <2>1. k = 1 /\ <<x>>[1] = x
    OBVIOUS
  <2>2. pos[0] = a /\ pos[1] = b
    OBVIOUS
  <2> HIDE DEF pos
  <2>3. pos[k - 1] = a /\ pos[k] = b
    BY <2>1, <2>2
  <2> QED
    BY <2>1, <2>3
<1> HIDE DEF pos
<1> QED
  BY <1>1, <1>2 DEF Chain

LEMMA ChainTwo ==
    ASSUME NEW R, NEW a \in Nat, NEW b \in Nat, NEW c \in Nat, NEW x, NEW y,
           <<a, x, b>> \in R, <<b, y, c>> \in R
    PROVE  Chain(R, <<x, y>>, a, c)
<1> DEFINE q == <<x, y>>
           pos == [k \in 0..2 |-> IF k = 0 THEN a ELSE IF k = 1 THEN b ELSE c]
<1>1. pos \in [0..2 -> Nat] /\ pos[0] = a /\ pos[1] = b /\ pos[2] = c
  OBVIOUS
<1>2. Len(q) = 2 /\ q[1] = x /\ q[2] = y
  OBVIOUS
<1> HIDE DEF pos, q
<1>3. \A k \in 1..2 : <<pos[k - 1], q[k], pos[k]>> \in R
  <2> SUFFICES ASSUME NEW k \in 1..2 PROVE <<pos[k - 1], q[k], pos[k]>> \in R
    OBVIOUS
  <2>1. CASE k = 1
    <3>1. k - 1 = 0
      BY <2>1
    <3> QED
      BY <1>1, <1>2, <2>1, <3>1
  <2>2. CASE k = 2
    <3>1. k - 1 = 1
      BY <2>2
    <3> QED
      BY <1>1, <1>2, <2>2, <3>1
  <2> QED
    BY <2>1, <2>2
<1> QED
  BY <1>1, <1>2, <1>3 DEF Chain, q

LEMMA ChainJoin ==
    ASSUME NEW R, NEW S, NEW q \in Seq(S), NEW r \in Seq(S), NEW a, NEW b, NEW c,
           Chain(R, q, a, b), Chain(R, r, b, c)
    PROVE  Chain(R, q \o r, a, c)
<1> DEFINE n == Len(q)
           m == Len(r)
<1>0. n \in Nat /\ m \in Nat /\ Len(q \o r) = n + m
  OBVIOUS
<1>1. PICK f \in [0..n -> Nat] : /\ f[0] = a /\ f[n] = b
                                 /\ \A k \in 1..n : <<f[k - 1], q[k], f[k]>> \in R
  BY DEF Chain
<1>2. PICK g \in [0..m -> Nat] : /\ g[0] = b /\ g[m] = c
                                 /\ \A k \in 1..m : <<g[k - 1], r[k], g[k]>> \in R
  BY DEF Chain
<1>3. \A k \in 1..n + m : (q \o r)[k] = IF k <= n THEN q[k] ELSE r[k - n]
  OBVIOUS
<1> HIDE DEF n, m
<1> DEFINE pos == [k \in 0..n + m |-> IF k <= n THEN f[k] ELSE g[k - n]]
<1>4. pos \in [0..n + m -> Nat]
  BY <1>0
<1>5. pos[0] = a /\ pos[n + m] = c
  BY <1>0, <1>1, <1>2
<1>6. \A k \in 1..n + m : <<pos[k - 1], (q \o r)[k], pos[k]>> \in R
  <2> SUFFICES ASSUME NEW k \in 1..n + m PROVE <<pos[k - 1], (q \o r)[k], pos[k]>> \in R
    OBVIOUS
  <2>1. CASE k <= n
    <3>1. pos[k - 1] = f[k - 1] /\ pos[k] = f[k] /\ (q \o r)[k] = q[k] /\ k \in 1..n
      BY <1>0, <1>3, <2>1
    <3> HIDE DEF pos
    <3> QED
      BY <1>1, <3>1
  <2>2. CASE k > n
    <3>1. k - n \in 1..m /\ (q \o r)[k] = r[k - n] /\ pos[k] = g[k - n]
      BY <1>0, <1>3, <2>2
    <3>2. pos[k - 1] = g[(k - n) - 1]
      <4>1. CASE k - 1 = n
        <5>1. pos[k - 1] = f[n] /\ (k - n) - 1 = 0
          BY <1>0, <4>1
        <5> QED
          BY <1>1, <1>2, <5>1
      <4>2. CASE k - 1 > n
        <5>1. pos[k - 1] = g[(k - 1) - n] /\ (k - 1) - n = (k - n) - 1
          BY <1>0, <4>2
        <5> QED
          BY <5>1
      <4> QED
        BY <1>0, <2>2, <4>1, <4>2
    <3> HIDE DEF pos
    <3> QED
      BY <1>2, <3>1, <3>2
  <2>3. k <= n \/ k > n
    BY <1>0
  <2> QED
    BY <2>1, <2>2, <2>3, Zenon
<1> HIDE DEF pos
<1> QED
  BY <1>0, <1>4, <1>5, <1>6 DEF Chain

LEMMA ChainAppend ==
    ASSUME NEW R, NEW S, NEW q \in Seq(S), NEW x \in S, NEW a, NEW b \in Nat, NEW c \in Nat,
           Chain(R, q, a, b), <<b, x, c>> \in R
    PROVE  Append(q, x) \in Seq(S) /\ Chain(R, Append(q, x), a, c)
<1>1. Append(q, x) = q \o <<x>> /\ <<x>> \in Seq(S) /\ Append(q, x) \in Seq(S)
  OBVIOUS
<1>2. Chain(R, <<x>>, b, c)
  BY ChainOne
<1>3. Chain(R, q \o <<x>>, a, c)
  BY <1>1, <1>2, ChainJoin, Zenon
<1> QED
  BY <1>1, <1>3

\* Everything a chain passes can be passed one by one.
LEMMA ChainHead ==
    ASSUME NEW R, NEW S, NEW q \in Seq(S), q # <<>>, NEW a, NEW b, Chain(R, q, a, b)
    PROVE  \E m \in Nat : <<a, Head(q), m>> \in R /\ Chain(R, Tail(q), m, b)
<1> DEFINE n == Len(q)
<1>0. n \in Nat \ {0} /\ Head(q) = q[1] /\ Len(Tail(q)) = n - 1 /\ \A k \in 1..n - 1 : Tail(q)[k] = q[k + 1]
  OBVIOUS
<1>1. PICK f \in [0..n -> Nat] : /\ f[0] = a /\ f[n] = b
                                 /\ \A k \in 1..n : <<f[k - 1], q[k], f[k]>> \in R
  BY DEF Chain
<1> HIDE DEF n
<1> DEFINE pos == [k \in 0..n - 1 |-> f[k + 1]]
<1>2. <<a, Head(q), f[1]>> \in R /\ f[1] \in Nat
  <2>1. 1 \in 1..n /\ 1 - 1 = 0 /\ 1 \in 0..n
    BY <1>0
  <2> QED
    BY <1>0, <1>1, <2>1
<1>3. pos \in [0..n - 1 -> Nat] /\ pos[0] = f[1] /\ pos[n - 1] = b
  BY <1>0, <1>1
<1>4. \A k \in 1..n - 1 : <<pos[k - 1], Tail(q)[k], pos[k]>> \in R
  <2> SUFFICES ASSUME NEW k \in 1..n - 1 PROVE <<pos[k - 1], Tail(q)[k], pos[k]>> \in R
    OBVIOUS
  <2>1. pos[k - 1] = f[k] /\ pos[k] = f[k + 1] /\ k + 1 \in 1..n /\ (k + 1) - 1 = k
    BY <1>0
  <2> HIDE DEF pos
  <2>2. <<f[(k + 1) - 1], q[k + 1], f[k + 1]>> \in R
    BY <1>1, <2>1
  <2> QED
    BY <1>0, <2>1, <2>2
<1> HIDE DEF pos
<1>5. Chain(R, Tail(q), f[1], b)
  BY <1>0, <1>3, <1>4 DEF Chain
<1> QED
  BY <1>2, <1>5

LEMMA ChainWider ==
    ASSUME NEW R, NEW T, R \subseteq T, NEW q, NEW a, NEW b, Chain(R, q, a, b)
    PROVE  Chain(T, q, a, b)
  BY Zenon DEF Chain

\* The same chain elsewhere.
LEMMA ChainMoved ==
    ASSUME NEW R, NEW T, NEW S, NEW q \in Seq(S), NEW a, NEW b, NEW d \in Nat, Chain(R, q, a, b),
           \A i, j \in Nat : \A x \in S : <<i, x, j>> \in R => <<d + i, x, d + j>> \in T
    PROVE  Chain(T, q, d + a, d + b)
<1> DEFINE n == Len(q)
<1>0. n \in Nat /\ \A k \in 1..n : q[k] \in S
  OBVIOUS
<1>1. PICK f \in [0..n -> Nat] : /\ f[0] = a /\ f[n] = b
                                 /\ \A k \in 1..n : <<f[k - 1], q[k], f[k]>> \in R
  BY DEF Chain
<1> HIDE DEF n
<1> DEFINE pos == [k \in 0..n |-> d + f[k]]
<1>2. pos \in [0..n -> Nat] /\ pos[0] = d + a /\ pos[n] = d + b
  BY <1>0, <1>1
<1>3. \A k \in 1..n : <<pos[k - 1], q[k], pos[k]>> \in T
  <2> SUFFICES ASSUME NEW k \in 1..n PROVE <<pos[k - 1], q[k], pos[k]>> \in T
    OBVIOUS
  <2>1. pos[k - 1] = d + f[k - 1] /\ pos[k] = d + f[k] /\ f[k - 1] \in Nat /\ f[k] \in Nat
    BY <1>0
  <2> HIDE DEF pos
  <2> QED
    BY <1>0, <1>1, <2>1
<1> HIDE DEF pos
<1> QED
  BY <1>2, <1>3 DEF Chain, n

(***************************************************************************)
(* Blocks.                                                                 *)
(***************************************************************************)
Octet == 0..ByteSize - 1

Element ==
    [tag : {"literal"}, n : Nat, bytes : Seq(Octet), size : Nat]
      \cup [tag : {"copy1", "copy2"}, n : Nat, offset : Nat, size : Nat]

\* What x says of src: its bytes from a to b, literally or as a copy of bytes before a.
Literally(src, a, x, b) == x.tag = "literal" /\ x.n = b - a - 1 /\ x.bytes = Bytes0(src, a, b)
Repeats(src, offset, a, b) == offset \in 1..a /\ \A i \in a + 1..b : src[i] = src[i - offset]
Copied(src, a, x, b) ==
    /\ (x.tag = "copy1" /\ MinMatch + x.n = b - a) \/ (x.tag = "copy2" /\ 1 + x.n = b - a)
    /\ Repeats(src, x.offset, a, b)
Says(src) == {t \in Nat \X Element \X Nat :
                  /\ t[1] < t[3] /\ t[3] <= Len(src)
                  /\ Literally(src, t[1], t[2], t[3]) \/ Copied(src, t[1], t[2], t[3])}

LEMMA SnapConstants ==
    /\ MaxBlockSize \in Nat \ {0} /\ InputMargin \in Nat \ {0} /\ MinMatch \in Nat \ {0} /\ MaxCopy \in Nat \ {0}
    /\ Copy1Lens \in Nat \ {0} /\ Copy1Offsets \in Nat \ {0} /\ LitShort \in Nat \ {0} /\ ByteSize \in Nat \ {0}
    /\ TableSize \in Nat \ {0} /\ SkipUnit \in Nat \ {0}
    /\ InputMargin >= MinMatch /\ ByteSize * ByteSize \in Nat \ {0} /\ MaxBlockSize <= ByteSize * ByteSize
    /\ MaxCopy >= 2 * MinMatch /\ MaxCopy > MinMatch + Copy1Lens
<1>1. \A x \in Nat \ {0} : x * x \in Nat \ {0}
  OBVIOUS
<1> QED
  BY <1>1, SnappyAssumption

LEMMA SaysIntro ==
    ASSUME NEW src, NEW a \in Nat, NEW b \in Nat, NEW x \in Element, a < b, b <= Len(src),
           Literally(src, a, x, b) \/ Copied(src, a, x, b)
    PROVE  <<a, x, b>> \in Says(src)
  BY DEF Says

LEMMA SaysElim ==
    ASSUME NEW src, NEW a, NEW b, NEW x, <<a, x, b>> \in Says(src)
    PROVE  /\ a \in Nat /\ b \in Nat /\ x \in Element /\ a < b /\ b <= Len(src)
           /\ Literally(src, a, x, b) \/ Copied(src, a, x, b)
  BY DEF Says

LEMMA SmallRest ==
    ASSUME NEW x \in Nat, NEW m \in Nat, x < m
    PROVE  x % m = x /\ x \div m = 0
<1>1. x \in 0..m - 1 /\ m \in Nat \ {0} /\ 0 * m = 0 /\ x = 0 * m + x
  OBVIOUS
<1> QED
  BY <1>1, DivisionUnique

\* src[i:j].
LEMMA Bytes0Values ==
    ASSUME NEW S, NEW src \in Seq(S), NEW i \in Nat, NEW j \in Nat, i <= j, j <= Len(src)
    PROVE  /\ Bytes0(src, i, j) \in Seq(S) /\ Len(Bytes0(src, i, j)) = j - i
           /\ \A k \in 1..j - i : Bytes0(src, i, j)[k] = src[i + k]
  BY DEF Bytes0

LEMMA BytesFrom ==
    ASSUME NEW S, NEW src \in Seq(S), NEW i \in Nat, NEW n \in Nat, i + n <= Len(src)
    PROVE  /\ Bytes0(src, i, i + n) \in Seq(S) /\ Len(Bytes0(src, i, i + n)) = n
           /\ \A k \in 1..n : Bytes0(src, i, i + n)[k] = src[i + k]
  BY DEF Bytes0

LEMMA EmitLiteralSays ==
    ASSUME NEW src \in Seq(Octet), NEW a \in Nat, NEW b \in Nat, a < b, b <= Len(src),
           b - a <= ByteSize * ByteSize
    PROVE  EmitLiteral(Bytes0(src, a, b)) \in Element /\ <<a, EmitLiteral(Bytes0(src, a, b)), b>> \in Says(src)
<1> DEFINE lit == Bytes0(src, a, b)
           x == EmitLiteral(lit)
<1>0. b - a \in Nat \ {0} /\ a <= b /\ b - a - 1 \in Nat /\ b - a - 1 < ByteSize * ByteSize
  BY SnapConstants
<1>1. lit \in Seq(Octet) /\ Len(lit) = b - a
  BY <1>0, Bytes0Values, Zenon
<1> HIDE DEF lit
<1>2. (Len(lit) - 1) % (ByteSize * ByteSize) = b - a - 1
  <2>1. (b - a - 1) % (ByteSize * ByteSize) = b - a - 1
    BY <1>0, SnapConstants, SmallRest, Zenon
  <2> QED
    BY <1>1, <2>1
<1>3. x = [tag |-> "literal", n |-> b - a - 1, bytes |-> lit,
           size |-> Len(lit) + IF b - a - 1 < LitShort THEN 1 ELSE IF b - a - 1 < ByteSize THEN 2 ELSE 3]
  BY <1>1, <1>2 DEF EmitLiteral
<1>4. x \in Element
  <2> HIDE DEF lit, x
  <2>1. Len(lit) + (IF b - a - 1 < LitShort THEN 1 ELSE IF b - a - 1 < ByteSize THEN 2 ELSE 3) \in Nat
    BY <1>1
  <2> QED
    BY <1>1, <1>2, <1>3, <2>1 DEF Element
<1>5. Literally(src, a, x, b)
  <2> HIDE DEF x
  <2> QED
    BY <1>3 DEF Literally, lit
<1> HIDE DEF x
<1>6. <<a, x, b>> \in Says(src)
  BY <1>4, <1>5, SaysIntro
<1> QED
  BY <1>4, <1>6 DEF x, lit

LEMMA Copy2Says ==
    ASSUME NEW src \in Seq(Octet), NEW a \in Nat, NEW b \in Nat, a < b, b <= Len(src), b - a <= MaxCopy,
           NEW offset \in Nat, offset < ByteSize * ByteSize, Repeats(src, offset, a, b)
    PROVE  Copy2(offset, b - a) \in Element /\ <<a, Copy2(offset, b - a), b>> \in Says(src)
<1> DEFINE x == Copy2(offset, b - a)
<1>1. (b - a - 1) % MaxCopy = b - a - 1 /\ b - a - 1 \in Nat
  BY SnapConstants, SmallRest
<1>2. offset % (ByteSize * ByteSize) = offset
  BY SnapConstants, SmallRest
<1>3. x = [tag |-> "copy2", n |-> b - a - 1, offset |-> offset, size |-> 3]
  BY <1>1, <1>2 DEF Copy2
<1> HIDE DEF x
<1>4. x \in Element
  BY <1>1, <1>3 DEF Element
<1>5. Copied(src, a, x, b)
  BY <1>1, <1>3 DEF Copied
<1>6. <<a, x, b>> \in Says(src)
  BY <1>4, <1>5, SaysIntro
<1> QED
  BY <1>4, <1>6 DEF x

LEMMA RestCopySays ==
    ASSUME NEW src \in Seq(Octet), NEW a \in Nat, NEW b \in Nat, b <= Len(src),
           b - a >= MinMatch, b - a <= MaxCopy,
           NEW offset \in Nat, offset < ByteSize * ByteSize, Repeats(src, offset, a, b)
    PROVE  RestCopy(offset, b - a) \in Element /\ <<a, RestCopy(offset, b - a), b>> \in Says(src)
<1> DEFINE x == Copy1(offset, b - a)
<1>0. a < b
  BY SnapConstants
<1>1. CASE b - a >= MinMatch + Copy1Lens \/ offset >= Copy1Offsets
  BY <1>0, <1>1, Copy2Says DEF RestCopy
<1>2. CASE ~(b - a >= MinMatch + Copy1Lens \/ offset >= Copy1Offsets)
  <2>1. RestCopy(offset, b - a) = x
    BY <1>2 DEF RestCopy
  <2>2. (b - a - MinMatch) % Copy1Lens = b - a - MinMatch /\ b - a - MinMatch \in Nat
    BY <1>2, SnapConstants, SmallRest
  <2>3. offset % Copy1Offsets = offset
    BY <1>2, SnapConstants, SmallRest
  <2>4. x = [tag |-> "copy1", n |-> b - a - MinMatch, offset |-> offset, size |-> 2]
    BY <2>2, <2>3 DEF Copy1
  <2> HIDE DEF x
  <2>5. x \in Element
    BY <2>2, <2>4 DEF Element
  <2>6. MinMatch + x.n = b - a
    BY <2>2, <2>4, SnapConstants
  <2>7. Copied(src, a, x, b)
    <3>1. x.tag = "copy1" /\ x.offset = offset
      BY <2>4
    <3>2. Repeats(src, x.offset, a, b)
      BY <3>1
    <3> QED
      BY <2>6, <3>1, <3>2, Zenon DEF Copied
  <2>8. <<a, x, b>> \in Says(src)
    BY <1>0, <2>5, <2>7, SaysIntro
  <2> QED
    BY <2>1, <2>5, <2>8
<1> QED
  BY <1>1, <1>2

LEMMA RepeatsPart ==
    ASSUME NEW src, NEW offset \in Nat, NEW a \in Nat, NEW b \in Nat, Repeats(src, offset, a, b),
           NEW c \in Nat, NEW d \in Nat, a <= c, d <= b
    PROVE  Repeats(src, offset, c, d)
  BY DEF Repeats

LEMMA LongCopiesSay ==
    ASSUME NEW src \in Seq(Octet), NEW a \in Nat, NEW q \in Nat, NEW b \in Nat,
           a + q * MaxCopy <= b, b <= Len(src),
           NEW offset \in Nat, offset < ByteSize * ByteSize, Repeats(src, offset, a, b),
           NEW cs, cs = [i \in 1..q |-> Copy2(offset, MaxCopy)]
    PROVE  cs \in Seq(Element) /\ Chain(Says(src), cs, a, a + q * MaxCopy)
<1> DEFINE x == Copy2(offset, MaxCopy)
           pos == [k \in 0..q |-> a + k * MaxCopy]
<1>1. MaxCopy \in Nat \ {0}
  BY SnapConstants
<1>2. \A k \in 0..q : k * MaxCopy \in Nat /\ k * MaxCopy <= q * MaxCopy
  BY <1>1
<1>3. \A k \in 1..q : (k - 1) * MaxCopy \in Nat /\ k * MaxCopy = (k - 1) * MaxCopy + MaxCopy
  BY <1>1
<1>4. ASSUME NEW k \in 1..q
      PROVE  x \in Element /\ <<a + (k - 1) * MaxCopy, x, a + k * MaxCopy>> \in Says(src)
  <2> DEFINE c == a + (k - 1) * MaxCopy
             d == a + k * MaxCopy
  <2>1. c \in Nat /\ d \in Nat /\ d - c = MaxCopy /\ c < d /\ a <= c /\ d <= b
    BY <1>1, <1>2, <1>3
  <2> HIDE DEF c, d
  <2>2. Repeats(src, offset, c, d)
    BY <2>1, RepeatsPart
  <2>3. d <= Len(src) /\ d - c <= MaxCopy
    BY <1>1, <2>1
  <2>4. Copy2(offset, d - c) \in Element /\ <<c, Copy2(offset, d - c), d>> \in Says(src)
    BY <2>1, <2>2, <2>3, Copy2Says, Zenon
  <2>5. Copy2(offset, d - c) = x
    BY <2>1
  <2> QED
    BY <2>4, <2>5 DEF c, d
<1> HIDE DEF x
<1>5. Len(cs) = q /\ cs \in Seq(Element) /\ \A k \in 1..q : cs[k] = x
  <2>1. cs = [i \in 1..q |-> x]
    BY DEF x
  <2>2. \A i \in 1..q : x \in Element
    BY <1>4
  <2> QED
    BY <2>1, <2>2
<1>6. pos \in [0..q -> Nat] /\ pos[0] = a /\ pos[q] = a + q * MaxCopy
  BY <1>1, <1>2
<1>7. \A k \in 1..q : <<pos[k - 1], cs[k], pos[k]>> \in Says(src)
  <2> SUFFICES ASSUME NEW k \in 1..q PROVE <<pos[k - 1], cs[k], pos[k]>> \in Says(src)
    OBVIOUS
  <2>1. pos[k - 1] = a + (k - 1) * MaxCopy /\ pos[k] = a + k * MaxCopy /\ cs[k] = x
    BY <1>5
  <2> HIDE DEF pos
  <2> QED
    BY <1>4, <2>1
<1> HIDE DEF pos
<1> QED
  BY <1>5, <1>6, <1>7 DEF Chain

\* However long a match is, its copies fit their fields and repeat all of it.
LEMMA EmitCopySays ==
    ASSUME NEW src \in Seq(Octet), NEW a \in Nat, NEW b \in Nat, b <= Len(src), b - a >= MinMatch,
           NEW offset \in Nat, offset < ByteSize * ByteSize, Repeats(src, offset, a, b)
    PROVE  EmitCopy(offset, b - a) \in Seq(Element) /\ Chain(Says(src), EmitCopy(offset, b - a), a, b)
<1>1. b - a \in Nat /\ (b - a) - MinMatch \in Nat /\ MaxCopy \in Nat \ {0} /\ MinMatch \in Nat \ {0}
      /\ MaxCopy >= 2 * MinMatch
  BY SnapConstants
<1>2. PICK q \in Int, r \in 0..MaxCopy - 1 :
          /\ ((b - a) - MinMatch) \div MaxCopy = q /\ ((b - a) - MinMatch) % MaxCopy = r
          /\ (b - a) - MinMatch = q * MaxCopy + r /\ q >= 0
  <2> DEFINE l == (b - a) - MinMatch
  <2>1. l \in Int /\ l >= 0
    BY <1>1
  <2> HIDE DEF l
  <2>2. \E q \in Int, r \in 0..MaxCopy - 1 :
            l \div MaxCopy = q /\ l % MaxCopy = r /\ l = q * MaxCopy + r /\ (l >= 0 => q >= 0)
    BY <1>1, <2>1, Division, Zenon
  <2> QED
    BY <2>1, <2>2 DEF l
<1> DEFINE m == a + q * MaxCopy
           long == LongCopies(offset, b - a)
<1>3. q \in Nat /\ q * MaxCopy \in Nat /\ m \in Nat /\ a <= m /\ m <= b /\ b - m = MinMatch + r
  BY <1>1, <1>2
<1>4. long = [i \in 1..q |-> Copy2(offset, MaxCopy)]
  BY <1>2 DEF LongCopies
<1> HIDE DEF long
<1>5. long \in Seq(Element) /\ Chain(Says(src), long, a, m)
  BY <1>3, <1>4, LongCopiesSay
<1> HIDE DEF m
<1>6. CASE MinMatch + r <= MaxCopy
  <2> DEFINE x == RestCopy(offset, MinMatch + r)
  <2>1. Repeats(src, offset, m, b)
    BY <1>3, RepeatsPart
  <2>2. b - m >= MinMatch /\ b - m <= MaxCopy
    BY <1>1, <1>2, <1>3, <1>6
  <2>3. RestCopy(offset, b - m) \in Element /\ <<m, RestCopy(offset, b - m), b>> \in Says(src)
    BY <1>3, <2>1, <2>2, RestCopySays, Zenon
  <2>4. EmitCopy(offset, b - a) = long \o <<x>>
    BY <1>2, <1>6 DEF EmitCopy, long
  <2>5. x \in Element /\ <<m, x, b>> \in Says(src)
    BY <1>3, <2>3
  <2> HIDE DEF x
  <2>6. Chain(Says(src), <<x>>, m, b)
    BY <1>3, <2>5, ChainOne
  <2>7. <<x>> \in Seq(Element)
    BY <2>5
  <2>8. Chain(Says(src), long \o <<x>>, a, b)
    BY <1>5, <2>6, <2>7, ChainJoin, Zenon
  <2>9. long \o <<x>> \in Seq(Element)
    BY <1>5, <2>7
  <2> QED
    BY <2>4, <2>8, <2>9
<1>7. CASE MinMatch + r > MaxCopy
  <2> DEFINE l == MaxCopy - MinMatch
             x == Copy2(offset, l)
             y == RestCopy(offset, MinMatch + r - l)
             c == m + l
  <2>1. c \in Nat /\ m < c /\ c - m = l /\ b - c = MinMatch + r - l /\ b - c >= MinMatch /\ b - c <= MaxCopy
        /\ c <= b /\ l <= MaxCopy /\ c <= Len(src)
    BY <1>1, <1>2, <1>3, <1>7
  <2>2. EmitCopy(offset, b - a) = long \o <<x, y>>
    <3>1. ~(MinMatch + r <= MaxCopy) /\ MinMatch + (((b - a) - MinMatch) % MaxCopy) = MinMatch + r
      BY <1>1, <1>2, <1>7
    <3> DEFINE rest == MinMatch + (((b - a) - MinMatch) % MaxCopy)
               two == <<Copy2(offset, MaxCopy - MinMatch), RestCopy(offset, rest - (MaxCopy - MinMatch))>>
    <3>2. EmitCopy(offset, b - a) = long \o (IF rest <= MaxCopy THEN <<RestCopy(offset, rest)>> ELSE two)
      BY DEF EmitCopy, long
    <3>4. rest = MinMatch + r /\ ~(rest <= MaxCopy)
      BY <3>1
    <3> HIDE DEF rest
    <3>3. two = <<x, y>>
      <4>1. rest - (MaxCopy - MinMatch) = MinMatch + r - l /\ MaxCopy - MinMatch = l
        BY <1>1, <3>4 DEF l
      <4> QED
        BY <4>1, Zenon
    <3> HIDE DEF two, x, y
    <3> QED
      BY <3>2, <3>3, <3>4
  <2> HIDE DEF l, c
  <2>3. Repeats(src, offset, m, c) /\ Repeats(src, offset, c, b)
    BY <1>3, <2>1, RepeatsPart
  <2>4. Copy2(offset, c - m) \in Element /\ <<m, Copy2(offset, c - m), c>> \in Says(src)
    <3>1. c - m <= MaxCopy
      BY <2>1
    <3> QED
      BY <1>3, <2>1, <2>3, <3>1, Copy2Says, Zenon
  <2>5. RestCopy(offset, b - c) \in Element /\ <<c, RestCopy(offset, b - c), b>> \in Says(src)
    BY <2>1, <2>3, RestCopySays, Zenon
  <2>6. x \in Element /\ <<m, x, c>> \in Says(src) /\ y \in Element /\ <<c, y, b>> \in Says(src)
    BY <2>1, <2>4, <2>5
  <2> HIDE DEF x, y
  <2>8. <<x, y>> \in Seq(Element)
    BY <2>6
  <2>9. Chain(Says(src), <<x, y>>, m, b)
    BY <1>3, <2>1, <2>6, ChainTwo, Zenon
  <2>10. Chain(Says(src), long \o <<x, y>>, a, b)
    BY <1>5, <2>8, <2>9, ChainJoin, Zenon
  <2>11. long \o <<x, y>> \in Seq(Element)
    BY <1>5, <2>8
  <2> QED
    BY <2>2, <2>10, <2>11
<1> QED
  BY <1>1, <1>2, <1>6, <1>7

\* Comparing two stretches of src compares their bytes.
LEMMA SameBytes ==
    ASSUME NEW S, NEW src \in Seq(S), NEW c \in Nat, NEW s \in Nat, NEW n \in Nat, c <= s, s + n <= Len(src)
    PROVE  Bytes0(src, c, c + n) = Bytes0(src, s, s + n) <=> \A m \in s + 1..s + n : src[m] = src[m - (s - c)]
<1> DEFINE p == Bytes0(src, c, c + n)
           q == Bytes0(src, s, s + n)
<1>1. c + n <= Len(src)
  OBVIOUS
<1>2. p \in Seq(S) /\ Len(p) = n /\ \A k \in 1..n : p[k] = src[c + k]
  BY <1>1, BytesFrom
<1>3. q \in Seq(S) /\ Len(q) = n /\ \A k \in 1..n : q[k] = src[s + k]
  BY BytesFrom
<1> HIDE DEF p, q
<1>4. p = q <=> \A k \in 1..n : p[k] = q[k]
  BY <1>2, <1>3
<1>5. ASSUME p = q PROVE \A m \in s + 1..s + n : src[m] = src[m - (s - c)]
  <2> SUFFICES ASSUME NEW m \in s + 1..s + n PROVE src[m] = src[m - (s - c)]
    OBVIOUS
  <2>1. m - s \in 1..n /\ s + (m - s) = m /\ c + (m - s) = m - (s - c)
    OBVIOUS
  <2> QED
    BY <1>2, <1>3, <1>5, <2>1
<1>6. ASSUME \A m \in s + 1..s + n : src[m] = src[m - (s - c)] PROVE p = q
  <2> SUFFICES ASSUME NEW k \in 1..n PROVE p[k] = q[k]
    BY <1>4
  <2>1. s + k \in s + 1..s + n /\ (s + k) - (s - c) = c + k
    OBVIOUS
  <2>2. src[s + k] = src[(s + k) - (s - c)]
    BY <1>6, <2>1
  <2> QED
    BY <1>2, <1>3, <2>1, <2>2
<1> QED
  BY <1>5, <1>6 DEF p, q

LEMMA ExtendMatchValues ==
    ASSUME NEW S, NEW src \in Seq(S), NEW i \in Nat, NEW j \in Nat, i < j, j <= Len(src)
    PROVE  /\ ExtendMatch(src, i, j) \in j..Len(src)
           /\ \A m \in j + 1..ExtendMatch(src, i, j) : src[m] = src[m - (j - i)]
<1> DEFINE Same(k) == Bytes0(src, i, i + k - j) = Bytes0(src, j, k)
           Ends(k) == Same(k) /\ (k = Len(src) \/ src[i + k - j + 1] # src[k + 1])
           Equal(k) == \A m \in j + 1..k : src[m] = src[m - (j - i)]
<1>0. Len(src) \in Nat
  OBVIOUS
<1>1. ASSUME NEW k \in j..Len(src) PROVE Same(k) <=> Equal(k)
  <2>1. k - j \in Nat /\ j + (k - j) = k /\ i + (k - j) = i + k - j /\ i <= j /\ j + (k - j) <= Len(src)
    BY <1>0
  <2>2. Bytes0(src, i, i + (k - j)) = Bytes0(src, j, j + (k - j))
        <=> \A m \in j + 1..j + (k - j) : src[m] = src[m - (j - i)]
    BY <2>1, SameBytes
  <2> QED
    BY <2>1, <2>2
<1> HIDE DEF Same, Equal
<1>2. \E k \in j..Len(src) : Ends(k)
  <2> SUFFICES ASSUME \A k \in j..Len(src) : ~Ends(k) PROVE FALSE
    OBVIOUS
  <2> DEFINE T == {d \in Nat : j + d <= Len(src) => Equal(j + d)}
  <2>1. 0 \in T
    BY DEF Equal
  <2>2. ASSUME NEW d \in Nat, d \in T PROVE d + 1 \in T
    <3> SUFFICES ASSUME j + (d + 1) <= Len(src) PROVE Equal(j + (d + 1))
      OBVIOUS
    <3>1. j + d \in j..Len(src) /\ Equal(j + d) /\ j + d # Len(src)
      BY <1>0, <2>2
    <3>2. src[i + (j + d) - j + 1] = src[(j + d) + 1]
      BY <1>1, <3>1
    <3>3. i + (j + d) - j + 1 = (j + (d + 1)) - (j - i) /\ (j + d) + 1 = j + (d + 1)
      OBVIOUS
    <3>4. src[j + (d + 1)] = src[(j + (d + 1)) - (j - i)]
      BY <3>2, <3>3
    <3>5. \A m \in j + 1..j + (d + 1) : m \in j + 1..j + d \/ m = j + (d + 1)
      OBVIOUS
    <3> QED
      BY <3>1, <3>4, <3>5 DEF Equal
  <2> HIDE DEF T
  <2>3. Nat \subseteq T
    BY <2>1, <2>2, SetInduction
  <2>4. Len(src) - j \in Nat /\ j + (Len(src) - j) = Len(src)
    BY <1>0
  <2>5. Equal(Len(src))
    <3> DEFINE d == Len(src) - j
    <3>1. d \in T /\ j + d = Len(src)
      BY <2>3, <2>4
    <3> HIDE DEF d
    <3> QED
      BY <1>0, <3>1 DEF T
  <2>6. Len(src) \in j..Len(src)
    BY <1>0
  <2> QED
    BY <1>1, <2>5, <2>6
<1>3. ExtendMatch(src, i, j) = CHOOSE k \in j..Len(src) : Ends(k)
  BY DEF ExtendMatch, Same
<1> DEFINE e == ExtendMatch(src, i, j)
<1>4. e \in j..Len(src) /\ Same(e)
  BY <1>2, <1>3
<1> HIDE DEF e
<1>5. Equal(e)
  BY <1>1, <1>4
<1> QED
  BY <1>4, <1>5 DEF Equal, e

LEMMA HashRange == ASSUME NEW u \in Seq(Octet) PROVE Hash(u) \in 0..TableSize - 1
<1> DEFINE n == Len(u)
           S == 0..TableSize - 1
           step == [k \in 0..n |-> [h \in S |-> IF k = 0 THEN h ELSE (3 * h + u[k]) % TableSize]]
           Is(f) == f = [k \in 0..n |-> IF k = 0 THEN 0 ELSE (3 * f[k - 1] + u[k]) % TableSize]
<1>0. TableSize \in Nat \ {0} /\ n \in Nat /\ \A k \in 1..n : u[k] \in Nat
  BY SnapConstants DEF Octet
<1>1. \A k \in 1..n, h \in S : (3 * h + u[k]) % TableSize \in S
  <2> SUFFICES ASSUME NEW k \in 1..n, NEW h \in S PROVE (3 * h + u[k]) % TableSize \in S
    OBVIOUS
  <2>1. 3 * h + u[k] \in Int
    BY <1>0
  <2> QED
    BY <1>0, <2>1, Division
<1> HIDE DEF n
<1>2. step \in [0..n -> [S -> S]]
  BY <1>0, <1>1
<1>3. \E f \in [0..n -> S] : Recurs(f, 0..n, step, 0)
  <2>1. Downward(0..n) /\ 0 \in S
    BY <1>0 DEF Downward
  <2> HIDE DEF step, S
  <2> QED
    BY <1>2, <2>1, Recursion
<1>4. \E f : Is(f)
  <2>1. PICK f \in [0..n -> S] : Recurs(f, 0..n, step, 0)
    BY <1>3
  <2>2. \A k \in 0..n : f[k] = IF k = 0 THEN 0 ELSE (3 * f[k - 1] + u[k]) % TableSize
    <3> SUFFICES ASSUME NEW k \in 0..n PROVE f[k] = IF k = 0 THEN 0 ELSE (3 * f[k - 1] + u[k]) % TableSize
      OBVIOUS
    <3>1. f[k] = IF k = 0 THEN 0 ELSE step[k][f[k - 1]]
      BY <2>1 DEF Recurs
    <3>2. k # 0 => f[k - 1] \in S
      BY <1>0
    <3> QED
      BY <3>1, <3>2
  <2> QED
    BY <2>2
<1> DEFINE g == CHOOSE f : Is(f)
<1>5. Is(g)
  <2> HIDE DEF Is
  <2> QED
    BY <1>4
<1>6. Hash(u) = g[n]
  BY DEF Hash, n
<1> HIDE DEF g, step
<1> DEFINE T == {k \in Nat : k <= n => g[k] \in S}
<1>7. 0 \in T
  BY <1>0, <1>5
<1>8. ASSUME NEW k \in Nat, k \in T PROVE k + 1 \in T
  <2> SUFFICES ASSUME k + 1 <= n PROVE g[k + 1] \in S
    OBVIOUS
  <2>1. k + 1 \in 1..n /\ k + 1 \in 0..n /\ (k + 1) - 1 = k /\ k + 1 # 0 /\ g[k] \in S
    BY <1>0, <1>8
  <2>2. g[k + 1] = (3 * g[k] + u[k + 1]) % TableSize
    BY <1>5, <2>1
  <2> HIDE DEF S
  <2> QED
    BY <1>1, <2>1, <2>2
<1> HIDE DEF T
<1>9. Nat \subseteq T
  BY <1>7, <1>8, SetInduction
<1> QED
  BY <1>0, <1>6, <1>9 DEF T

(***************************************************************************)
(* encodeBlock: after every step what was emitted says src up to           *)
(* nextEmit, or up to the match, and the table holds positions before s.   *)
(***************************************************************************)
EncodeTypes ==
    [at : {"search", "match", "done"}, out : Seq(Element), nextEmit : Nat, s : Nat, candidate : Nat,
     skip : Nat, table : [0..TableSize - 1 -> Nat], nextHash : 0..TableSize - 1]

Searching(src, e) ==
    /\ e.nextEmit < e.s /\ e.s <= SLimit(src) /\ e.skip >= SkipUnit
    /\ Chain(Says(src), e.out, 0, e.nextEmit)
    /\ \A h \in 0..TableSize - 1 : e.table[h] < e.s
Matched(src, e) ==
    /\ e.candidate < e.s /\ e.s <= SLimit(src)
    /\ Load32(src, e.s) = Load32(src, e.candidate)
    /\ Chain(Says(src), e.out, 0, e.s)
    /\ \A h \in 0..TableSize - 1 : e.table[h] <= e.s

EncodeInv(src, e) ==
    /\ e \in EncodeTypes
    /\ e.at = "search" => Searching(src, e)
    /\ e.at = "match" => Matched(src, e)
    /\ e.at = "done" => Chain(Says(src), e.out, 0, Len(src))

Block == {p \in Seq(Octet) : Len(p) >= MinNonLiteralBlockSize /\ Len(p) <= MaxBlockSize}

\* How far a step has come at least; it ends beyond the block.
Lead(e) == IF e.at = "match" THEN e.s + 1 ELSE e.s

LEMMA BlockValues ==
    ASSUME NEW src \in Block
    PROVE  /\ src \in Seq(Octet) /\ Len(src) \in Nat /\ SLimit(src) \in Nat /\ SLimit(src) >= 2
           /\ SLimit(src) + MinMatch <= Len(src) /\ SLimit(src) < Len(src)
           /\ Len(src) <= ByteSize * ByteSize /\ Len(src) \in Nat \ {0}
  BY SnapConstants DEF Block, MinNonLiteralBlockSize, SLimit

LEMMA HashOf ==
    ASSUME NEW src \in Block, NEW i \in Nat, i <= SLimit(src)
    PROVE  Hash(Load32(src, i)) \in 0..TableSize - 1
<1>1. i + MinMatch <= Len(src) /\ MinMatch \in Nat /\ src \in Seq(Octet)
  BY BlockValues, SnapConstants
<1>2. Bytes0(src, i, i + MinMatch) \in Seq(Octet)
  BY <1>1, BytesFrom
<1> QED
  BY <1>2, HashRange DEF Load32

LEMMA RemainderSays ==
    ASSUME NEW src \in Block, NEW e \in EncodeTypes, e.nextEmit <= Len(src),
           Chain(Says(src), e.out, 0, e.nextEmit)
    PROVE  EncodeInv(src, EmitRemainder(src, e)) /\ EmitRemainder(src, e).at = "done"
<1> DEFINE x == EmitLiteral(Bytes0(src, e.nextEmit, Len(src)))
           out == IF e.nextEmit < Len(src) THEN Append(e.out, x) ELSE e.out
           f == EmitRemainder(src, e)
<1>1. e.out \in Seq(Element) /\ e.nextEmit \in Nat
  BY DEF EncodeTypes
<1>2. out \in Seq(Element) /\ Chain(Says(src), out, 0, Len(src))
  <2>1. CASE e.nextEmit < Len(src)
    <3>1. Len(src) - e.nextEmit <= ByteSize * ByteSize
      BY <1>1, BlockValues, SnapConstants
    <3>2. x \in Element /\ <<e.nextEmit, x, Len(src)>> \in Says(src)
      BY <1>1, <2>1, <3>1, BlockValues, EmitLiteralSays
    <3> HIDE DEF x
    <3>3. Append(e.out, x) \in Seq(Element) /\ Chain(Says(src), Append(e.out, x), 0, Len(src))
      BY <1>1, <3>2, BlockValues, ChainAppend, Zenon
    <3> QED
      BY <2>1, <3>3
  <2>2. CASE ~(e.nextEmit < Len(src))
    <3>1. e.nextEmit = Len(src) /\ out = e.out
      BY <1>1, <2>2, BlockValues
    <3> QED
      BY <1>1, <3>1
  <2> QED
    BY <2>1, <2>2
<1>3. f = [e EXCEPT !.at = "done", !.out = out]
  BY DEF EmitRemainder
<1> HIDE DEF out, f
<1>4. f \in EncodeTypes /\ f.at = "done" /\ f.out = out
  BY <1>2, <1>3 DEF EncodeTypes
<1> QED
  BY <1>2, <1>4 DEF EncodeInv, f

LEMMA SearchKeeps ==
    ASSUME NEW src \in Block, NEW e, EncodeInv(src, e), e.at = "search"
    PROVE  /\ EncodeInv(src, Search(src, e))
           /\ Search(src, e).at # "done" => Lead(Search(src, e)) > Lead(e)
<1> DEFINE step == e.skip \div SkipUnit
           nextS == e.s + step
           candidate == e.table[e.nextHash]
           hash == Hash(Load32(src, nextS))
           table == [e.table EXCEPT ![e.nextHash] = e.s]
           x == EmitLiteral(Bytes0(src, e.nextEmit, e.s))
           g == Search(src, e)
<1>1. /\ e \in EncodeTypes /\ e.out \in Seq(Element) /\ e.nextEmit \in Nat /\ e.s \in Nat /\ e.skip \in Nat
      /\ e.table \in [0..TableSize - 1 -> Nat] /\ e.nextHash \in 0..TableSize - 1
  BY DEF EncodeInv, EncodeTypes
<1>2. Searching(src, e)
  BY DEF EncodeInv
<1>3. step \in Nat /\ step >= 1
  <2>1. SkipUnit \in Nat \ {0} /\ e.skip >= SkipUnit
    BY <1>2, SnapConstants DEF Searching
  <2>4. e.skip \in Int /\ e.skip >= 0
    BY <1>1
  <2>2. PICK q \in Int, r \in 0..SkipUnit - 1 :
            e.skip \div SkipUnit = q /\ e.skip % SkipUnit = r /\ e.skip = q * SkipUnit + r /\ (e.skip >= 0 => q >= 0)
    BY <2>1, <2>4, Division, Zenon
  <2>3. q # 0
    BY <1>1, <2>1, <2>2
  <2> QED
    BY <1>1, <2>2, <2>3
<1>4. nextS \in Nat /\ nextS > e.s /\ e.skip + step \in Nat /\ e.skip + step >= SkipUnit
  BY <1>1, <1>2, <1>3, SnapConstants DEF Searching
<1>5. candidate \in Nat /\ candidate < e.s
  BY <1>1, <1>2 DEF Searching
<1>6. table \in [0..TableSize - 1 -> Nat] /\ \A h \in 0..TableSize - 1 : table[h] <= e.s
  <2>1. \A h \in 0..TableSize - 1 : e.table[h] < e.s /\ e.table[h] \in Nat
    BY <1>1, <1>2 DEF Searching
  <2> QED
    BY <1>1, <2>1
<1>7. g = IF nextS > SLimit(src) THEN EmitRemainder(src, e)
          ELSE IF Load32(src, e.s) = Load32(src, candidate)
          THEN [e EXCEPT !.at = "match", !.candidate = candidate, !.out = Append(e.out, x),
                         !.table = table, !.nextHash = hash]
          ELSE [e EXCEPT !.table = table, !.nextHash = hash, !.s = nextS, !.skip = e.skip + step]
  BY <1>1 DEF Search, EncodeTypes
<1> HIDE DEF step, nextS, candidate, hash, table, g
<1>8. CASE nextS > SLimit(src)
  <2>1. g = EmitRemainder(src, e)
    BY <1>7, <1>8
  <2>2. e.nextEmit <= Len(src) /\ Chain(Says(src), e.out, 0, e.nextEmit)
    BY <1>1, <1>2, BlockValues DEF Searching
  <2> QED
    BY <1>1, <2>1, <2>2, RemainderSays DEF g
<1>9. CASE nextS <= SLimit(src)
  <2>1. hash \in 0..TableSize - 1
    BY <1>4, <1>9, HashOf DEF hash
  <2>2. ~(nextS > SLimit(src)) /\ e.s <= SLimit(src)
    BY <1>4, <1>9, BlockValues, <1>2 DEF Searching
  <2>3. CASE Load32(src, e.s) = Load32(src, candidate)
    <3>1. e.nextEmit < e.s /\ e.s <= Len(src) /\ e.s - e.nextEmit <= ByteSize * ByteSize
          /\ Chain(Says(src), e.out, 0, e.nextEmit)
      BY <1>1, <1>2, <2>2, BlockValues, SnapConstants DEF Searching
    <3>2. x \in Element /\ <<e.nextEmit, x, e.s>> \in Says(src)
      BY <1>1, <3>1, BlockValues, EmitLiteralSays
    <3> HIDE DEF x
    <3>3. Append(e.out, x) \in Seq(Element)
      BY <1>1, <3>2
    <3>5. Chain(Says(src), Append(e.out, x), 0, e.s)
      BY <1>1, <3>1, <3>2, ChainAppend, Zenon
    <3>6. g = [e EXCEPT !.at = "match", !.candidate = candidate, !.out = Append(e.out, x),
                         !.table = table, !.nextHash = hash]
      BY <1>7, <2>2, <2>3
    <3> DEFINE out == Append(e.out, x)
    <3> HIDE DEF out
    <3>7. /\ g \in EncodeTypes /\ g.at = "match" /\ g.s = e.s /\ g.candidate = candidate
          /\ g.out = Append(e.out, x) /\ g.table = table
      BY <1>1, <1>5, <1>6, <2>1, <3>3, <3>6 DEF EncodeTypes
    <3>8. Matched(src, g)
      BY <1>5, <1>6, <2>2, <2>3, <3>5, <3>7 DEF Matched
    <3>9. EncodeInv(src, g)
      BY <3>7, <3>8 DEF EncodeInv
    <3>10. Lead(g) > Lead(e)
      BY <1>1, <3>7 DEF Lead
    <3> QED
      BY <3>9, <3>10 DEF g
  <2>4. CASE ~(Load32(src, e.s) = Load32(src, candidate))
    <3>1. g = [e EXCEPT !.table = table, !.nextHash = hash, !.s = nextS, !.skip = e.skip + step]
      BY <1>7, <2>2, <2>4
    <3>2. /\ g \in EncodeTypes /\ g.at = "search" /\ g.s = nextS /\ g.skip = e.skip + step
          /\ g.out = e.out /\ g.table = table /\ g.nextEmit = e.nextEmit
      BY <1>1, <1>4, <1>6, <2>1, <3>1 DEF EncodeTypes
    <3>3. \A h \in 0..TableSize - 1 : table[h] < nextS
      BY <1>1, <1>4, <1>6
    <3>4. e.nextEmit < nextS
      BY <1>1, <1>2, <1>4 DEF Searching
    <3>5. Searching(src, g)
      BY <1>2, <1>4, <1>9, <3>2, <3>3, <3>4 DEF Searching
    <3>6. EncodeInv(src, g)
      BY <3>2, <3>5 DEF EncodeInv
    <3>7. Lead(g) > Lead(e)
      BY <1>4, <3>2 DEF Lead
    <3> QED
      BY <3>6, <3>7 DEF g
  <2> QED
    BY <2>3, <2>4
<1> QED
  BY <1>4, <1>8, <1>9, BlockValues

LEMMA CopiesKeep ==
    ASSUME NEW src \in Block, NEW e, EncodeInv(src, e), e.at = "match"
    PROVE  /\ EncodeInv(src, Copies(src, e))
           /\ Copies(src, e).at # "done" => Lead(Copies(src, e)) > Lead(e)
<1> DEFINE s == ExtendMatch(src, e.candidate + MinMatch, e.s + MinMatch)
           offset == e.s - e.candidate
           copies == EmitCopy(offset, s - e.s)
           out == e.out \o copies
           c == [e EXCEPT !.out = out, !.nextEmit = s, !.s = s]
           h == Hash(Load32(src, s))
           before == [e.table EXCEPT ![Hash(Load32(src, s - 1))] = s - 1]
           table == [before EXCEPT ![h] = s]
           next == Hash(Load32(src, s + 1))
           g == Copies(src, e)
<1>1. /\ e \in EncodeTypes /\ e.out \in Seq(Element) /\ e.candidate \in Nat /\ e.s \in Nat
      /\ e.table \in [0..TableSize - 1 -> Nat]
  BY DEF EncodeInv, EncodeTypes
<1>2. Matched(src, e)
  BY DEF EncodeInv
<1>3. MinMatch \in Nat \ {0} /\ SkipUnit \in Nat /\ src \in Seq(Octet)
  BY SnapConstants, BlockValues
<1>4. /\ e.candidate + MinMatch \in Nat /\ e.s + MinMatch \in Nat
      /\ e.candidate + MinMatch < e.s + MinMatch /\ e.s + MinMatch <= Len(src)
      /\ (e.s + MinMatch) - (e.candidate + MinMatch) = offset
      /\ offset \in 1..e.s /\ offset < ByteSize * ByteSize
  <2>1. e.candidate < e.s /\ e.s <= SLimit(src)
    BY <1>2 DEF Matched
  <2>2. SLimit(src) \in Nat /\ SLimit(src) + MinMatch <= Len(src) /\ SLimit(src) < Len(src)
        /\ Len(src) \in Nat /\ Len(src) <= ByteSize * ByteSize /\ ByteSize * ByteSize \in Nat
    BY BlockValues, SnapConstants
  <2> QED
    BY <1>1, <1>3, <2>1, <2>2
<1> DEFINE i == e.candidate + MinMatch
           j == e.s + MinMatch
<1>5. s \in j..Len(src) /\ \A m \in j + 1..s : src[m] = src[m - offset]
  <2>1. i \in Nat /\ j \in Nat /\ i < j /\ j <= Len(src) /\ j - i = offset /\ s = ExtendMatch(src, i, j)
    BY <1>4
  <2> HIDE DEF i, j, s, offset
  <2>2. ExtendMatch(src, i, j) \in j..Len(src)
        /\ \A m \in j + 1..ExtendMatch(src, i, j) : src[m] = src[m - (j - i)]
    BY <1>3, <2>1, ExtendMatchValues, Zenon
  <2> QED
    BY <2>1, <2>2
<1> HIDE DEF s
<1>6. \A m \in e.s + 1..e.s + MinMatch : src[m] = src[m - offset]
  <2>1. Bytes0(src, e.candidate, e.candidate + MinMatch) = Bytes0(src, e.s, e.s + MinMatch)
    BY <1>2 DEF Matched, Load32
  <2>2. e.candidate <= e.s
    BY <1>1, <1>2 DEF Matched
  <2>3. \A m \in e.s + 1..e.s + MinMatch : src[m] = src[m - (e.s - e.candidate)]
    <3> DEFINE c0 == e.candidate
               s0 == e.s
    <3>1. c0 \in Nat /\ s0 \in Nat /\ MinMatch \in Nat /\ c0 <= s0 /\ s0 + MinMatch <= Len(src)
      BY <1>1, <1>3, <1>4, <2>2
    <3>2. Bytes0(src, c0, c0 + MinMatch) = Bytes0(src, s0, s0 + MinMatch)
      BY <2>1
    <3> HIDE DEF c0, s0
    <3>3. Bytes0(src, c0, c0 + MinMatch) = Bytes0(src, s0, s0 + MinMatch)
          <=> \A m \in s0 + 1..s0 + MinMatch : src[m] = src[m - (s0 - c0)]
      BY <1>3, <3>1, SameBytes, ZenonT(40)
    <3>4. \A m \in s0 + 1..s0 + MinMatch : src[m] = src[m - (s0 - c0)]
      BY <3>2, <3>3, Zenon
    <3> QED
      BY <3>4 DEF c0, s0
  <2> QED
    BY <2>3
<1>7. s \in Nat /\ s <= Len(src) /\ s - e.s >= MinMatch /\ s > e.s /\ s - 1 \in Nat /\ s + 1 \in Nat
  <2>1. s \in e.s + MinMatch..Len(src) /\ Len(src) \in Nat
    BY <1>5, BlockValues
  <2> QED
    BY <1>1, <1>3, <2>1
<1> HIDE DEF offset
<1>8. Repeats(src, offset, e.s, s)
  <2>1. \A m \in e.s + 1..s : m \in e.s + 1..e.s + MinMatch \/ m \in e.s + MinMatch + 1..s
    BY <1>1, <1>3, <1>7
  <2> QED
    BY <1>4, <1>5, <1>6, <2>1 DEF Repeats
<1>9. copies \in Seq(Element) /\ Chain(Says(src), copies, e.s, s)
  <2>1. offset \in Nat
    BY <1>1, <1>4
  <2> QED
    BY <1>1, <1>3, <1>4, <1>7, <1>8, <2>1, EmitCopySays, Zenon
<1> HIDE DEF copies
<1>10. out \in Seq(Element) /\ Chain(Says(src), out, 0, s)
  <2>1. Chain(Says(src), e.out, 0, e.s)
    BY <1>2 DEF Matched
  <2>2. Chain(Says(src), out, 0, s)
    BY <1>1, <1>9, <2>1, ChainJoin, Zenon
  <2> QED
    BY <1>1, <1>9, <2>2
<1> HIDE DEF out
<1>11. /\ c \in EncodeTypes /\ c.nextEmit = s /\ c.out = out
  BY <1>1, <1>7, <1>10 DEF EncodeTypes
<1> HIDE DEF h, before, table, next
<1>12. g = IF s >= SLimit(src) THEN EmitRemainder(src, c)
           ELSE IF Load32(src, s) = Load32(src, before[h])
           THEN [e EXCEPT !.out = out, !.nextEmit = s, !.s = s, !.table = table, !.candidate = before[h]]
           ELSE [e EXCEPT !.at = "search", !.out = out, !.nextEmit = s, !.s = s + 1, !.table = table,
                          !.candidate = before[h], !.skip = SkipUnit, !.nextHash = next]
  <2> DEFINE f == [c EXCEPT !.table = table, !.candidate = before[h]]
             f1 == [f EXCEPT !.at = "search", !.s = s + 1, !.skip = SkipUnit, !.nextHash = next]
  <2>1. g = IF s >= SLimit(src) THEN EmitRemainder(src, c)
            ELSE IF Load32(src, s) = Load32(src, before[h]) THEN f ELSE f1
    BY Zenon DEF Copies, out, copies, offset, s, h, before, table, next
  <2> HIDE DEF g
  <2>2. f = [e EXCEPT !.out = out, !.nextEmit = s, !.s = s, !.table = table, !.candidate = before[h]]
    BY <1>1 DEF EncodeTypes
  <2>3. f1 = [e EXCEPT !.at = "search", !.out = out, !.nextEmit = s, !.s = s + 1, !.table = table,
                          !.candidate = before[h], !.skip = SkipUnit, !.nextHash = next]
    BY <1>1 DEF EncodeTypes
  <2> HIDE DEF c, f, f1
  <2> QED
    BY <2>1, <2>2, <2>3
<1>13. CASE s >= SLimit(src)
  <2>1. g = EmitRemainder(src, c)
    BY <1>12, <1>13
  <2> HIDE DEF g, c
  <2>2. EncodeInv(src, g) /\ g.at = "done"
    BY <1>7, <1>10, <1>11, <2>1, RemainderSays
  <2> QED
    BY <2>2 DEF g
<1>14. CASE s < SLimit(src)
  <2> HIDE DEF g, c
  <2>1. s - 1 <= SLimit(src) /\ s <= SLimit(src) /\ s + 1 <= SLimit(src) /\ ~(s >= SLimit(src))
    BY <1>7, <1>14, BlockValues
  <2>2. h \in 0..TableSize - 1 /\ Hash(Load32(src, s - 1)) \in 0..TableSize - 1 /\ next \in 0..TableSize - 1
    BY <1>7, <2>1, HashOf DEF h, next
  <2>3. before \in [0..TableSize - 1 -> Nat] /\ \A k \in 0..TableSize - 1 : before[k] < s
    <3>1. \A k \in 0..TableSize - 1 : e.table[k] \in Nat /\ e.table[k] <= e.s
      BY <1>1, <1>2 DEF Matched
    <3>2. \A k \in 0..TableSize - 1 : e.table[k] \in Nat /\ e.table[k] < s
      BY <1>1, <1>7, <3>1
    <3>3. s - 1 < s /\ s - 1 \in Nat
      BY <1>7
    <3> DEFINE l == Hash(Load32(src, s - 1))
    <3>4. before = [e.table EXCEPT ![l] = s - 1] /\ l \in 0..TableSize - 1
      BY <2>2 DEF before
    <3> HIDE DEF l
    <3> QED
      BY <1>1, <3>2, <3>3, <3>4
  <2>4. before[h] \in Nat /\ before[h] < s
    BY <2>2, <2>3
  <2>5. table \in [0..TableSize - 1 -> Nat] /\ \A k \in 0..TableSize - 1 : table[k] <= s
    BY <1>7, <2>2, <2>3 DEF table
  <2>6. CASE Load32(src, s) = Load32(src, before[h])
    <3>1. g = [e EXCEPT !.out = out, !.nextEmit = s, !.s = s, !.table = table, !.candidate = before[h]]
      BY <1>12, <2>1, <2>6
    <3>2. /\ g \in EncodeTypes /\ g.at = "match" /\ g.s = s /\ g.candidate = before[h]
          /\ g.out = out /\ g.table = table
      BY <1>1, <1>7, <1>10, <2>4, <2>5, <3>1 DEF EncodeTypes
    <3>3. Matched(src, g)
      BY <1>10, <2>1, <2>4, <2>5, <2>6, <3>2 DEF Matched
    <3>4. EncodeInv(src, g)
      BY <3>2, <3>3 DEF EncodeInv
    <3>5. Lead(g) > Lead(e)
      BY <1>1, <1>7, <3>2 DEF Lead
    <3> QED
      BY <3>4, <3>5 DEF g
  <2>7. CASE ~(Load32(src, s) = Load32(src, before[h]))
    <3>1. g = [e EXCEPT !.at = "search", !.out = out, !.nextEmit = s, !.s = s + 1, !.table = table,
                          !.candidate = before[h], !.skip = SkipUnit, !.nextHash = next]
      BY <1>12, <2>1, <2>7
    <3>2. /\ g \in EncodeTypes /\ g.at = "search" /\ g.s = s + 1 /\ g.nextEmit = s /\ g.skip = SkipUnit
          /\ g.out = out /\ g.table = table
      BY <1>1, <1>3, <1>7, <1>10, <2>2, <2>4, <2>5, <3>1 DEF EncodeTypes
    <3>3. \A v \in 0..TableSize - 1 : table[v] < s + 1
      BY <1>7, <2>5
    <3>4. Searching(src, g)
      BY <1>3, <1>7, <1>10, <2>1, <3>2, <3>3 DEF Searching
    <3>5. EncodeInv(src, g)
      BY <3>2, <3>4 DEF EncodeInv
    <3>6. Lead(g) > Lead(e)
      BY <1>1, <1>7, <3>2 DEF Lead
    <3> QED
      BY <3>5, <3>6 DEF g
  <2> QED
    BY <2>6, <2>7
<1> QED
  BY <1>7, <1>13, <1>14, BlockValues

LEMMA EncodeStepKeeps ==
    ASSUME NEW src \in Block, NEW e, EncodeInv(src, e)
    PROVE  /\ EncodeInv(src, EncodeStep(src, e))
           /\ EncodeStep(src, e).at # "done" => e.at # "done" /\ Lead(EncodeStep(src, e)) > Lead(e)
<1>1. CASE e.at = "search"
  <2>1. EncodeStep(src, e) = Search(src, e)
    BY <1>1 DEF EncodeStep
  <2> QED
    BY <1>1, <2>1, SearchKeeps
<1>2. CASE e.at = "match"
  <2>1. EncodeStep(src, e) = Copies(src, e)
    BY <1>2 DEF EncodeStep
  <2> QED
    BY <1>2, <2>1, CopiesKeep
<1>3. CASE e.at = "done"
  <2>1. EncodeStep(src, e) = e
    BY <1>3 DEF EncodeStep
  <2> QED
    BY <1>3, <2>1
<1> QED
  BY <1>1, <1>2, <1>3 DEF EncodeInv, EncodeTypes

\* What encodeBlock returns says the block from its first byte to its last.
LEMMA EncodeBlockSays ==
    ASSUME NEW src \in Block
    PROVE  EncodeBlock(src) \in Seq(Element) /\ Chain(Says(src), EncodeBlock(src), 0, Len(src))
<1> DEFINE n == Len(src)
           S == {e \in EncodeTypes : EncodeInv(src, e)}
           start == EncodeStart(src)
           step == [k \in 0..n |-> [e \in S |-> EncodeStep(src, e)]]
           Is(f) == f = [k \in 0..n |-> IF k = 0 THEN start ELSE EncodeStep(src, f[k - 1])]
<1>0. n \in Nat \ {0} /\ SLimit(src) < n /\ SLimit(src) \in Nat
  BY BlockValues
<1>1. start \in S /\ Lead(start) = 1
  <2> DEFINE table == [h \in 0..TableSize - 1 |-> 0]
             next == Hash(Load32(src, 1))
  <2>1. next \in 0..TableSize - 1 /\ 1 <= SLimit(src)
    BY BlockValues, HashOf
  <2> HIDE DEF next
  <2>2. start = [at |-> "search", out |-> <<>>, nextEmit |-> 0, s |-> 1, candidate |-> 0, skip |-> SkipUnit,
                 table |-> table, nextHash |-> next]
    BY DEF EncodeStart, next
  <2>3. table \in [0..TableSize - 1 -> Nat] /\ \A h \in 0..TableSize - 1 : table[h] < 1
    OBVIOUS
  <2>4. Chain(Says(src), <<>>, 0, 0)
    BY ChainEmpty
  <2>5. SkipUnit \in Nat
    BY SnapConstants
  <2> HIDE DEF start, table
  <2>6. start \in EncodeTypes
    BY <2>1, <2>2, <2>3, <2>5 DEF EncodeTypes
  <2>7. Searching(src, start)
    BY <2>1, <2>2, <2>3, <2>4, <2>5 DEF Searching
  <2>8. start.at = "search" /\ start.s = 1
    BY <2>2
  <2> QED
    BY <2>6, <2>7, <2>8 DEF EncodeInv, Lead
<1>2. \A e \in S : EncodeStep(src, e) \in S
  BY EncodeStepKeeps DEF EncodeInv
<1>3. \A e \in S : EncodeInv(src, e)
  OBVIOUS
<1> HIDE DEF S, start, n
<1>4. step \in [0..n -> [S -> S]]
  BY <1>2
<1>5. \E f : Is(f)
  <2>1. \E f \in [0..n -> S] : Recurs(f, 0..n, step, start)
    <3>1. Downward(0..n)
      BY <1>0 DEF Downward
    <3> HIDE DEF step
    <3> QED
      BY <1>1, <1>4, <3>1, Recursion
  <2>2. PICK f \in [0..n -> S] : Recurs(f, 0..n, step, start)
    BY <2>1
  <2>3. \A k \in 0..n : f[k] = IF k = 0 THEN start ELSE EncodeStep(src, f[k - 1])
    <3> SUFFICES ASSUME NEW k \in 0..n PROVE f[k] = IF k = 0 THEN start ELSE EncodeStep(src, f[k - 1])
      OBVIOUS
    <3>1. f[k] = IF k = 0 THEN start ELSE step[k][f[k - 1]]
      BY <2>2 DEF Recurs
    <3>2. k # 0 => f[k - 1] \in S
      BY <1>0
    <3> QED
      BY <3>1, <3>2
  <2> QED
    BY <2>3
<1> DEFINE g == CHOOSE f : Is(f)
<1>6. Is(g)
  <2> HIDE DEF Is
  <2> QED
    BY <1>5
<1>7. EncodeBlock(src) = g[n].out
  BY DEF EncodeBlock, n, start
<1> HIDE DEF g, step
<1> DEFINE T == {k \in Nat : k <= n => g[k] \in S /\ (g[k].at = "done" \/ Lead(g[k]) >= k + 1)}
<1>8. 0 \in T
  BY <1>0, <1>1, <1>6
<1>9. ASSUME NEW k \in Nat, k \in T PROVE k + 1 \in T
  <2> SUFFICES ASSUME k + 1 <= n
               PROVE  g[k + 1] \in S /\ (g[k + 1].at = "done" \/ Lead(g[k + 1]) >= (k + 1) + 1)
    OBVIOUS
  <2>1. k + 1 \in 0..n /\ (k + 1) - 1 = k /\ k + 1 # 0 /\ g[k] \in S /\ (g[k].at = "done" \/ Lead(g[k]) >= k + 1)
    BY <1>0, <1>9
  <2>2. g[k + 1] = EncodeStep(src, g[k])
    BY <1>6, <2>1
  <2> DEFINE e == g[k]
             f == g[k + 1]
  <2> HIDE DEF e, f
  <2>3. f \in S /\ (f.at # "done" => e.at # "done" /\ Lead(f) > Lead(e))
    BY <1>2, <1>3, <2>1, <2>2, EncodeStepKeeps DEF e, f
  <2>4. \A x \in S : Lead(x) \in Nat
    BY DEF S, EncodeTypes, Lead
  <2>5. f.at # "done" => Lead(f) >= (k + 1) + 1
    <3>1. Lead(f) \in Nat /\ Lead(e) \in Nat
      BY <2>1, <2>3, <2>4 DEF e
    <3> QED
      BY <2>1, <2>3, <3>1 DEF e
  <2> QED
    BY <2>3, <2>5 DEF f
<1> HIDE DEF T
<1>10. Nat \subseteq T
  BY <1>8, <1>9, SetInduction
<1> DEFINE e == g[n]
<1>11. e \in S /\ (e.at = "done" \/ Lead(e) >= n + 1)
  BY <1>0, <1>10 DEF T
<1> HIDE DEF e
<1>12. EncodeInv(src, e) /\ e \in EncodeTypes
  BY <1>11 DEF S
<1>13. e.at = "done"
  <2>1. e.at # "done" => e.s \in Nat /\ e.s <= SLimit(src) /\ Lead(e) <= e.s + 1
    BY <1>12 DEF EncodeInv, EncodeTypes, Searching, Matched, Lead
  <2> SUFFICES ASSUME e.at # "done" PROVE FALSE
    OBVIOUS
  <2>2. Lead(e) \in Nat
    BY <2>1 DEF Lead
  <2> QED
    BY <1>0, <1>11, <2>1, <2>2
<1> QED
  BY <1>7, <1>12, <1>13 DEF EncodeInv, EncodeTypes, e, n

(***************************************************************************)
(* SnapEncode: the pieces of src say, one after the other, all of src.     *)
(***************************************************************************)
LEMMA PieceValues ==
    ASSUME NEW src \in Seq(Octet)
    PROVE  /\ PieceCount(src) \in Nat /\ (PieceCount(src) = 0 <=> Len(src) = 0)
           /\ (Len(src) <= MaxBlockSize => PieceCount(src) <= 1)
           /\ PieceEnd(src, 0) = 0 /\ PieceEnd(src, PieceCount(src)) = Len(src)
           /\ \A k \in 0..PieceCount(src) : PieceEnd(src, k) \in Nat /\ PieceEnd(src, k) <= Len(src)
           /\ \A k \in 1..PieceCount(src) :
                  /\ PieceEnd(src, k - 1) = (k - 1) * MaxBlockSize
                  /\ PieceEnd(src, k - 1) < PieceEnd(src, k)
                  /\ PieceEnd(src, k) - PieceEnd(src, k - 1) <= MaxBlockSize
<1> DEFINE l == Len(src)
           n == PieceCount(src)
<1>1. l \in Nat /\ MaxBlockSize \in Nat \ {0}
  BY SnapConstants
<1>2. PICK q \in Int, r \in 0..MaxBlockSize - 1 :
          (l + MaxBlockSize - 1) \div MaxBlockSize = q /\ l + MaxBlockSize - 1 = q * MaxBlockSize + r /\ q >= 0
  <2> DEFINE x == l + MaxBlockSize - 1
  <2>1. x \in Int /\ x >= 0
    BY <1>1
  <2> HIDE DEF x
  <2>2. \E q \in Int, r \in 0..MaxBlockSize - 1 :
            x \div MaxBlockSize = q /\ x % MaxBlockSize = r /\ x = q * MaxBlockSize + r /\ (x >= 0 => q >= 0)
    BY <1>1, <2>1, Division, Zenon
  <2> QED
    BY <2>1, <2>2 DEF x
<1>3. n = q
  BY <1>2 DEF PieceCount
<1> HIDE DEF l, n
<1>4. n \in Nat /\ n * MaxBlockSize \in Nat /\ l <= n * MaxBlockSize /\ n * MaxBlockSize < l + MaxBlockSize
  BY <1>1, <1>2, <1>3
<1>5. n > 0 => (n - 1) * MaxBlockSize = n * MaxBlockSize - MaxBlockSize
  BY <1>1, <1>4
<1>6. \A k \in 0..n : k < n => k * MaxBlockSize \in Nat /\ k * MaxBlockSize <= (n - 1) * MaxBlockSize
  BY <1>1, <1>4
<1>7. \A k \in 0..n : k < n => k * MaxBlockSize \in Nat /\ k * MaxBlockSize < l
  BY <1>1, <1>4, <1>5, <1>6
<1>8. \A k \in 0..n : k < n => PieceEnd(src, k) = k * MaxBlockSize
  BY <1>7 DEF PieceEnd, l
<1>9. PieceEnd(src, n) = l
  BY <1>1, <1>4 DEF PieceEnd, l
<1>10. n = 0 <=> l = 0
  <2>1. n = 0 => l = 0
    BY <1>1, <1>4
  <2>2. n > 0 => l > 0
    <3>1. n > 0 => 0 \in 0..n /\ 0 < n
      BY <1>4
    <3>2. 0 * MaxBlockSize = 0
      BY <1>1
    <3> QED
      BY <1>1, <1>7, <3>1, <3>2
  <2> QED
    BY <1>4, <2>1, <2>2
<1>11. PieceEnd(src, 0) = 0
  <2>1. 0 * MaxBlockSize = 0
    BY <1>1
  <2> QED
    BY <1>4, <1>8, <1>9, <1>10, <2>1
<1>12. \A k \in 0..n : PieceEnd(src, k) \in Nat /\ PieceEnd(src, k) <= l
  <2> SUFFICES ASSUME NEW k \in 0..n PROVE PieceEnd(src, k) \in Nat /\ PieceEnd(src, k) <= l
    OBVIOUS
  <2>1. k < n \/ k = n
    BY <1>4
  <2> QED
    BY <1>1, <1>7, <1>8, <1>9, <2>1
<1>13. ASSUME NEW k \in 1..n
       PROVE  /\ PieceEnd(src, k - 1) = (k - 1) * MaxBlockSize
              /\ PieceEnd(src, k - 1) < PieceEnd(src, k)
              /\ PieceEnd(src, k) - PieceEnd(src, k - 1) <= MaxBlockSize
  <2>1. k - 1 \in 0..n /\ k - 1 < n /\ k \in 0..n
    BY <1>4
  <2>2. PieceEnd(src, k - 1) = (k - 1) * MaxBlockSize /\ (k - 1) * MaxBlockSize \in Nat /\ (k - 1) * MaxBlockSize < l
    BY <1>7, <1>8, <2>1
  <2>3. k * MaxBlockSize = (k - 1) * MaxBlockSize + MaxBlockSize
    BY <1>1, <2>1
  <2>4. CASE k < n
    <3>1. PieceEnd(src, k) = k * MaxBlockSize
      BY <1>8, <2>1, <2>4
    <3> QED
      BY <1>1, <2>2, <2>3, <3>1
  <2>5. CASE k = n
    <3>1. PieceEnd(src, k) = l /\ l <= (k - 1) * MaxBlockSize + MaxBlockSize
      BY <1>4, <1>9, <2>3, <2>5
    <3> QED
      BY <1>1, <2>2, <3>1
  <2> QED
    BY <1>4, <2>4, <2>5
<1>14. l <= MaxBlockSize => n <= 1
  <2> SUFFICES ASSUME l <= MaxBlockSize, n > 1 PROVE FALSE
    BY <1>4
  <2>1. 1 \in 0..n /\ 1 < n
    BY <1>4
  <2>2. 1 * MaxBlockSize < l /\ 1 * MaxBlockSize = MaxBlockSize
    BY <1>1, <1>7, <2>1
  <2> QED
    BY <1>1, <2>2
<1> QED
  BY <1>4, <1>9, <1>10, <1>11, <1>12, <1>13, <1>14 DEF l, n

LEMMA PiecesAre ==
    ASSUME NEW src \in Seq(Octet)
    PROVE  /\ Pieces(src) = [k \in 1..PieceCount(src) |-> Bytes0(src, PieceEnd(src, k - 1), PieceEnd(src, k))]
           /\ DOMAIN Pieces(src) = 1..PieceCount(src) /\ Len(Pieces(src)) = PieceCount(src)
<1>1. \A k \in 1..PieceCount(src) : PieceEnd(src, k - 1) = (k - 1) * MaxBlockSize
  BY PieceValues
<1>2. PieceCount(src) \in Nat
  BY PieceValues
<1> QED
  BY <1>1, <1>2 DEF Pieces

LEMMA BytesOfBytes ==
    ASSUME NEW S, NEW src \in Seq(S), NEW a \in Nat, NEW b \in Nat, a <= b, b <= Len(src),
           NEW i \in Nat, NEW j \in Nat, i <= j, j <= b - a
    PROVE  Bytes0(Bytes0(src, a, b), i, j) = Bytes0(src, a + i, a + j)
<1> DEFINE p == Bytes0(src, a, b)
           q == Bytes0(p, i, j)
           r == Bytes0(src, a + i, a + j)
<1>1. p \in Seq(S) /\ Len(p) = b - a /\ \A k \in 1..b - a : p[k] = src[a + k]
  BY Bytes0Values
<1> HIDE DEF p
<1>2. q \in Seq(S) /\ Len(q) = j - i /\ \A k \in 1..j - i : q[k] = p[i + k]
  <2>1. j <= Len(p) /\ p \in Seq(S)
    BY <1>1
  <2> QED
    BY <2>1, Bytes0Values, Zenon
<1>3. r \in Seq(S) /\ Len(r) = j - i /\ \A k \in 1..j - i : r[k] = src[(a + i) + k]
  <2> DEFINE c == a + i
             d == a + j
  <2>1. c \in Nat /\ d \in Nat /\ c <= d /\ d <= Len(src) /\ d - c = j - i
    OBVIOUS
  <2> HIDE DEF c, d
  <2>2. Bytes0(src, c, d) \in Seq(S) /\ Len(Bytes0(src, c, d)) = d - c
        /\ \A k \in 1..d - c : Bytes0(src, c, d)[k] = src[c + k]
    BY <2>1, Bytes0Values, Zenon
  <2>3. Bytes0(src, c, d) \in Seq(S) /\ Len(Bytes0(src, c, d)) = j - i
        /\ \A k \in 1..j - i : Bytes0(src, c, d)[k] = src[c + k]
    BY <2>1, <2>2, Zenon
  <2> QED
    BY <2>3, Zenon DEF c, d
<1> HIDE DEF q, r
<1>4. \A k \in 1..j - i : q[k] = r[k]
  <2> SUFFICES ASSUME NEW k \in 1..j - i PROVE q[k] = r[k]
    OBVIOUS
  <2>1. i + k \in 1..b - a /\ a + (i + k) = (a + i) + k
    OBVIOUS
  <2> QED
    BY <1>1, <1>2, <1>3, <2>1
<1>5. q = r
  BY <1>2, <1>3, <1>4
<1> QED
  BY <1>5 DEF p, q, r

\* What an element says of a piece, it says of src where the piece is.
LEMMA SaysMoved ==
    ASSUME NEW src \in Seq(Octet), NEW a \in Nat, NEW b \in Nat, a <= b, b <= Len(src),
           NEW i \in Nat, NEW j \in Nat, NEW x \in Element, <<i, x, j>> \in Says(Bytes0(src, a, b))
    PROVE  <<a + i, x, a + j>> \in Says(src)
<1> DEFINE p == Bytes0(src, a, b)
           c == a + i
           d == a + j
<1>1. p \in Seq(Octet) /\ Len(p) = b - a /\ \A k \in 1..b - a : p[k] = src[a + k]
  BY Bytes0Values
<1>2. i < j /\ j <= b - a /\ (Literally(p, i, x, j) \/ Copied(p, i, x, j))
  BY <1>1, SaysElim
<1>3. c \in Nat /\ d \in Nat /\ c < d /\ d <= Len(src) /\ d - c = j - i /\ d - c - 1 = j - i - 1
  BY <1>2
<1>4. CASE Literally(p, i, x, j)
  <2>1. Bytes0(p, i, j) = Bytes0(src, c, d)
    BY <1>2, BytesOfBytes
  <2> HIDE DEF p, c, d
  <2>2. Literally(src, c, x, d)
    BY <1>3, <1>4, <2>1 DEF Literally
  <2> QED
    BY <1>3, <2>2, SaysIntro DEF c, d
<1>5. CASE Copied(p, i, x, j)
  <2> HIDE DEF p
  <2>1. x.offset \in 1..i /\ \A k \in i + 1..j : p[k] = p[k - x.offset]
    BY <1>5 DEF Copied, Repeats
  <2>2. \A k \in c + 1..d : src[k] = src[k - x.offset]
    <3> SUFFICES ASSUME NEW k \in c + 1..d PROVE src[k] = src[k - x.offset]
      OBVIOUS
    <3> DEFINE l == k - a
               o == x.offset
    <3>1. o \in 1..i
      BY <2>1
    <3> HIDE DEF o
    <3>2. l \in i + 1..j /\ l \in 1..b - a /\ l - o \in 1..b - a /\ a + l = k /\ a + (l - o) = k - o
      BY <1>2, <3>1
    <3> HIDE DEF l
    <3>3. p[l] = p[l - o]
      BY <2>1, <3>2 DEF o
    <3>4. src[k] = src[k - o]
      BY <1>1, <3>2, <3>3
    <3> QED
      BY <3>4 DEF o
  <2>3. x.offset \in 1..c
    BY <2>1
  <2> HIDE DEF c, d
  <2>4. Copied(src, c, x, d)
    <3>1. Repeats(src, x.offset, c, d)
      BY <2>2, <2>3 DEF Repeats
    <3> QED
      BY <1>3, <1>5, <3>1 DEF Copied
  <2> QED
    BY <1>3, <2>4, SaysIntro DEF c, d
<1> QED
  BY <1>2, <1>4, <1>5

LEMMA EncodePieceSays ==
    ASSUME NEW p \in Seq(Octet), Len(p) > 0, Len(p) <= MaxBlockSize
    PROVE  EncodePiece(p) \in Seq(Element) /\ Chain(Says(p), EncodePiece(p), 0, Len(p))
<1>1. CASE Len(p) < MinNonLiteralBlockSize
  <2>1. Bytes0(p, 0, Len(p)) = p
    BY DEF Bytes0
  <2> DEFINE x == EmitLiteral(p)
             l == Len(p)
  <2>2. 0 \in Nat /\ l \in Nat /\ 0 < l /\ l <= Len(p) /\ l - 0 <= ByteSize * ByteSize
    BY SnapConstants
  <2> HIDE DEF l
  <2>3. EmitLiteral(Bytes0(p, 0, l)) \in Element /\ <<0, EmitLiteral(Bytes0(p, 0, l)), l>> \in Says(p)
    BY <2>2, EmitLiteralSays, Zenon
  <2>4. x \in Element /\ <<0, x, l>> \in Says(p)
    BY <2>1, <2>3 DEF l
  <2>5. EncodePiece(p) = <<x>>
    BY <1>1 DEF EncodePiece
  <2> HIDE DEF x
  <2>6. Chain(Says(p), <<x>>, 0, l) /\ <<x>> \in Seq(Element)
    BY <2>2, <2>4, ChainOne
  <2> QED
    BY <2>5, <2>6 DEF l
<1>2. CASE ~(Len(p) < MinNonLiteralBlockSize)
  <2>1. MinNonLiteralBlockSize \in Nat
    BY SnapConstants DEF MinNonLiteralBlockSize
  <2>2. p \in Block /\ EncodePiece(p) = EncodeBlock(p)
    BY <1>2, <2>1 DEF Block, EncodePiece
  <2> QED
    BY <2>2, EncodeBlockSays
<1> QED
  BY <1>1, <1>2

LEMMA FlattenChain ==
    ASSUME NEW R, NEW S, NEW n \in Nat, NEW qs \in [1..n -> Seq(S)], NEW pos \in [0..n -> Nat],
           \A k \in 1..n : Chain(R, qs[k], pos[k - 1], pos[k])
    PROVE  FlattenSeq(qs) \in Seq(S) /\ Chain(R, FlattenSeq(qs), pos[0], pos[n])
<1>1. Len(qs) = n
  OBVIOUS
<1>2. CASE n = 0
  <2>1. FlattenSeq(qs) = <<>>
    BY <1>1, <1>2 DEF FlattenSeq
  <2>2. pos[0] \in Nat /\ <<>> \in Seq(S)
    OBVIOUS
  <2> QED
    BY <1>2, <2>1, <2>2, ChainEmpty
<1>3. CASE n > 0
  <2> DEFINE Q == Seq(S)
             D == 0..n
             step == [k \in D |-> [v \in Q |-> IF k = 0 THEN v ELSE v \o qs[k]]]
             Is(f) == f = [i \in 1..n |-> IF i = 1 THEN qs[i] ELSE f[i - 1] \o qs[i]]
  <2>1. <<>> \in Q /\ Downward(D) /\ \A v \in Q : v \in Seq(S) /\ <<>> \o v = v
    BY DEF Downward
  <2>2. \A k \in 1..n, v \in Q : v \o qs[k] \in Q
    OBVIOUS
  <2>3. \A k \in 1..n : qs[k] \in Q
    OBVIOUS
  <2> HIDE DEF Q
  <2>4. step \in [D -> [Q -> Q]]
    BY <2>2
  <2>5. \E f \in [D -> Q] : Recurs(f, D, step, <<>>)
    <3> HIDE DEF step, D
    <3> QED
      BY <2>1, <2>4, Recursion
  <2>6. \E f : Is(f)
    <3>1. PICK f \in [D -> Q] : Recurs(f, D, step, <<>>)
      BY <2>5
    <3>2. \A k \in 1..n : f[k - 1] \in Q /\ f[k] = f[k - 1] \o qs[k]
      <4> SUFFICES ASSUME NEW k \in 1..n PROVE f[k - 1] \in Q /\ f[k] = f[k - 1] \o qs[k]
        OBVIOUS
      <4>1. f[k] = step[k][f[k - 1]]
        <5>1. k \in D /\ k # 0
          OBVIOUS
        <5> HIDE DEF step, D
        <5> QED
          BY <3>1, <5>1 DEF Recurs
      <4>2. f[k - 1] \in Q /\ k \in D /\ k # 0
        <5>1. k - 1 \in D /\ k \in D /\ k # 0
          OBVIOUS
        <5> HIDE DEF D
        <5> QED
          BY <5>1
      <4> QED
        BY <4>1, <4>2
    <3>3. f[0] = <<>>
      <4>1. 0 \in D
        OBVIOUS
      <4> HIDE DEF step, D
      <4> QED
        BY <3>1, <4>1 DEF Recurs
    <3>4. f[1] = qs[1]
      <4>1. 1 \in 1..n /\ 1 - 1 = 0
        BY <1>3
      <4> HIDE DEF step, D
      <4>2. f[1] = f[1 - 1] \o qs[1]
        BY <3>2, <4>1
      <4> QED
        BY <2>1, <2>3, <3>3, <4>1, <4>2
    <3> DEFINE h == [i \in 1..n |-> f[i]]
    <3>5. \A i \in 1..n : f[i] = IF i = 1 THEN qs[i] ELSE h[i - 1] \o qs[i]
      <4> SUFFICES ASSUME NEW i \in 1..n PROVE f[i] = IF i = 1 THEN qs[i] ELSE h[i - 1] \o qs[i]
        OBVIOUS
      <4>1. i # 1 => i - 1 \in 1..n /\ h[i - 1] = f[i - 1]
        BY <1>3
      <4> QED
        BY <3>2, <3>4, <4>1
    <3>6. h = [i \in 1..n |-> IF i = 1 THEN qs[i] ELSE h[i - 1] \o qs[i]]
      BY <3>5
    <3> QED
      BY <3>6
  <2> DEFINE g == CHOOSE f : Is(f)
  <2>7. Is(g)
    <3> HIDE DEF Is
    <3> QED
      BY <2>6
  <2>8. FlattenSeq(qs) = g[n]
    BY <1>1, <1>3 DEF FlattenSeq
  <2> HIDE DEF g, step, D
  <2> DEFINE T == {k \in Nat : k \in 1..n => g[k] \in Q /\ Chain(R, g[k], pos[0], pos[k])}
  <2>9. 0 \in T
    OBVIOUS
  <2>10. ASSUME NEW k \in Nat, k \in T PROVE k + 1 \in T
    <3> SUFFICES ASSUME k + 1 \in 1..n PROVE g[k + 1] \in Q /\ Chain(R, g[k + 1], pos[0], pos[k + 1])
      OBVIOUS
    <3>1. Chain(R, qs[k + 1], pos[k], pos[k + 1]) /\ qs[k + 1] \in Q
      <4>1. (k + 1) - 1 = k
        OBVIOUS
      <4> QED
        BY <2>3, <4>1
    <3>2. CASE k = 0
      <4>1. g[k + 1] = qs[k + 1]
        BY <2>7, <3>2
      <4> QED
        BY <3>1, <3>2, <4>1
    <3>3. CASE k > 0
      <4>1. k \in 1..n /\ (k + 1) - 1 = k /\ k + 1 # 1
        BY <3>3
      <4>2. g[k] \in Q /\ Chain(R, g[k], pos[0], pos[k])
        BY <2>10, <4>1
      <4>3. g[k + 1] = g[k] \o qs[k + 1]
        BY <2>7, <4>1
      <4> DEFINE u == g[k]
                 v == qs[k + 1]
      <4>4. u \in Seq(S) /\ v \in Seq(S)
        BY <2>1, <3>1, <4>2
      <4> HIDE DEF u, v
      <4>5. Chain(R, u \o v, pos[0], pos[k + 1])
        BY <3>1, <4>2, <4>4, ChainJoin, Zenon DEF u, v
      <4>6. u \o v \in Q
        BY <4>4 DEF Q
      <4> QED
        BY <4>3, <4>5, <4>6 DEF u, v
    <3> QED
      BY <3>2, <3>3
  <2> HIDE DEF T
  <2>11. Nat \subseteq T
    BY <2>9, <2>10, SetInduction
  <2>12. g[n] \in Q /\ Chain(R, g[n], pos[0], pos[n])
    BY <1>3, <2>11 DEF T
  <2> QED
    BY <2>1, <2>8, <2>12
<1> QED
  BY <1>2, <1>3

\* A block says all that was encoded, from the first byte to the last.
LEMMA SnapEncodeSays ==
    ASSUME NEW src \in Seq(Octet)
    PROVE  /\ SnapEncode(src).dLen = Len(src) /\ SnapEncode(src).elements \in Seq(Element)
           /\ Chain(Says(src), SnapEncode(src).elements, 0, Len(src))
<1> DEFINE n == PieceCount(src)
           pos == [k \in 0..n |-> PieceEnd(src, k)]
           p(k) == Bytes0(src, PieceEnd(src, k - 1), PieceEnd(src, k))
           qs == [k \in 1..n |-> EncodePiece(p(k))]
<1>1. n \in Nat /\ pos \in [0..n -> Nat] /\ pos[0] = 0 /\ pos[n] = Len(src)
  BY PieceValues
<1>2. SnapEncode(src) = [dLen |-> Len(src), elements |-> FlattenSeq(qs)]
  <2> DEFINE ps == Pieces(src)
  <2>1. DOMAIN ps = 1..n /\ \A k \in 1..n : ps[k] = p(k)
    BY PiecesAre
  <2>2. SnapEncode(src) = [dLen |-> Len(src), elements |-> FlattenSeq([k \in DOMAIN ps |-> EncodePiece(ps[k])])]
    BY DEF SnapEncode
  <2> HIDE DEF ps, p, n
  <2>3. [k \in DOMAIN ps |-> EncodePiece(ps[k])] = qs
    BY <2>1
  <2> QED
    BY <2>2, <2>3
<1>3. ASSUME NEW k \in 1..n
      PROVE  EncodePiece(p(k)) \in Seq(Element) /\ Chain(Says(src), EncodePiece(p(k)), PieceEnd(src, k - 1), PieceEnd(src, k))
  <2> DEFINE a == PieceEnd(src, k - 1)
             b == PieceEnd(src, k)
             piece == Bytes0(src, a, b)
  <2>1. a \in Nat /\ b \in Nat /\ a < b /\ b <= Len(src) /\ b - a <= MaxBlockSize
    <3>1. k - 1 \in 0..n /\ k \in 0..n
      BY <1>1
    <3> QED
      BY <3>1, PieceValues
  <2> HIDE DEF a, b, n
  <2>2. piece \in Seq(Octet) /\ Len(piece) = b - a
    <3>1. a <= b
      BY <2>1
    <3> QED
      BY <2>1, <3>1, Bytes0Values, Zenon
  <2>3. EncodePiece(piece) \in Seq(Element) /\ Chain(Says(piece), EncodePiece(piece), 0, b - a)
    BY <2>1, <2>2, EncodePieceSays
  <2>4. \A i, j \in Nat : \A x \in Element : <<i, x, j>> \in Says(piece) => <<a + i, x, a + j>> \in Says(src)
    <3>1. a <= b
      BY <2>1
    <3> QED
      BY <2>1, <3>1, SaysMoved, Zenon
  <2> HIDE DEF piece
  <2>5. Chain(Says(src), EncodePiece(piece), a + 0, a + (b - a))
    BY <2>1, <2>3, <2>4, ChainMoved, Zenon
  <2>6. a + 0 = a /\ a + (b - a) = b
    BY <2>1
  <2> QED
    BY <2>3, <2>5, <2>6 DEF piece, a, b
<1> HIDE DEF n, p
<1>4. qs \in [1..n -> Seq(Element)]
  BY <1>3
<1>5. \A k \in 1..n : Chain(Says(src), qs[k], pos[k - 1], pos[k])
  <2> SUFFICES ASSUME NEW k \in 1..n PROVE Chain(Says(src), qs[k], pos[k - 1], pos[k])
    OBVIOUS
  <2>1. qs[k] = EncodePiece(p(k)) /\ pos[k - 1] = PieceEnd(src, k - 1) /\ pos[k] = PieceEnd(src, k)
    BY <1>1
  <2> HIDE DEF qs, pos
  <2> QED
    BY <1>3, <2>1
<1> HIDE DEF qs, pos
<1>6. FlattenSeq(qs) \in Seq(Element) /\ Chain(Says(src), FlattenSeq(qs), pos[0], pos[n])
  BY <1>1, <1>4, <1>5, FlattenChain
<1> QED
  BY <1>1, <1>2, <1>6

(***************************************************************************)
(* SnapDecode: an element that says something of src restores it.          *)
(***************************************************************************)
Joins(src, a, b) == Bytes0(src, 0, a) \o Bytes0(src, a, b) = Bytes0(src, 0, b)
Associates(a, b, c) == (a \o b) \o c = a \o (b \o c)

LEMMA BytesJoins ==
    ASSUME NEW S, NEW src \in Seq(S), NEW a \in Nat, NEW b \in Nat, a <= b, b <= Len(src)
    PROVE  /\ Bytes0(src, 0, a) \in Seq(S) /\ Len(Bytes0(src, 0, a)) = a
           /\ Bytes0(src, a, b) \in Seq(S) /\ Len(Bytes0(src, a, b)) = b - a
           /\ Bytes0(src, 0, b) \in Seq(S) /\ Len(Bytes0(src, 0, b)) = b
           /\ Joins(src, a, b)
<1> DEFINE p == Bytes0(src, 0, a)
           q == Bytes0(src, a, b)
           r == Bytes0(src, 0, b)
<1>1. p \in Seq(S) /\ Len(p) = a /\ \A k \in 1..a : p[k] = src[k]
  BY DEF Bytes0
<1>2. q \in Seq(S) /\ Len(q) = b - a /\ \A k \in 1..b - a : q[k] = src[a + k]
  BY DEF Bytes0
<1>3. r \in Seq(S) /\ Len(r) = b /\ \A k \in 1..b : r[k] = src[k]
  BY DEF Bytes0
<1> HIDE DEF p, q, r, Joins
<1>4. p \o q \in Seq(S) /\ Len(p \o q) = b /\ \A k \in 1..b : (p \o q)[k] = IF k <= a THEN p[k] ELSE q[k - a]
  <2>1. p \in Seq(S) /\ q \in Seq(S) /\ Len(p) = a /\ Len(q) = b - a
    BY <1>1, <1>2
  <2>2. p \o q \in Seq(S)
    BY <2>1
  <2>3. Len(p \o q) = Len(p) + Len(q)
    BY <2>1
  <2>4. \A k \in 1..Len(p) + Len(q) : (p \o q)[k] = IF k <= Len(p) THEN p[k] ELSE q[k - Len(p)]
    BY <2>1
  <2>5. Len(p) = a /\ Len(p) + Len(q) = b
    BY <2>1
  <2>6. \A k \in 1..b : (p \o q)[k] = IF k <= a THEN p[k] ELSE q[k - a]
    BY <2>4, <2>5
  <2> QED
    BY <2>2, <2>3, <2>5, <2>6
<1>7. \A k \in 1..b : (p \o q)[k] = IF k <= a THEN p[k] ELSE q[k - a]
  BY <1>4
<1>8. \A k \in 1..b : r[k] = src[k]
  BY <1>3
<1>9. \A k \in 1..a : p[k] = src[k]
  BY <1>1
<1>10. \A k \in 1..b - a : q[k] = src[a + k]
  BY <1>2
<1>5. \A k \in 1..b : (p \o q)[k] = r[k]
  <2> SUFFICES ASSUME NEW k \in 1..b PROVE (p \o q)[k] = r[k]
    OBVIOUS
  <2>1. CASE k <= a
    <3>1. k \in 1..a
      BY <2>1
    <3> QED
      BY <1>7, <1>8, <1>9, <2>1, <3>1
  <2>2. CASE k > a
    <3>1. k - a \in 1..b - a /\ a + (k - a) = k /\ ~(k <= a)
      BY <2>2
    <3>2. q[k - a] = src[k]
      BY <1>10, <3>1
    <3> QED
      BY <1>7, <1>8, <3>1, <3>2
  <2>3. k <= a \/ k > a
    OBVIOUS
  <2> QED
    BY <2>1, <2>2, <2>3, Zenon
<1>6. p \o q = r
  <2>1. p \o q \in Seq(S) /\ r \in Seq(S) /\ Len(p \o q) = b /\ Len(r) = b
    BY <1>3, <1>4
  <2> QED
    BY <1>5, <2>1, SMTT(20)
<1> QED
  BY <1>1, <1>2, <1>3, <1>6 DEF p, q, r, Joins

LEMMA BytesJoin ==
    ASSUME NEW S, NEW src \in Seq(S), NEW a \in Nat, NEW b \in Nat, a <= b, b <= Len(src)
    PROVE  /\ Bytes0(src, 0, a) \in Seq(S) /\ Len(Bytes0(src, 0, a)) = a
           /\ Bytes0(src, a, b) \in Seq(S) /\ Len(Bytes0(src, a, b)) = b - a
           /\ Bytes0(src, 0, b) \in Seq(S) /\ Len(Bytes0(src, 0, b)) = b
           /\ Bytes0(src, 0, a) \o Bytes0(src, a, b) = Bytes0(src, 0, b)
<1>1. Joins(src, a, b)
  BY BytesJoins, Zenon
<1>2. a <= Len(src)
  OBVIOUS
<1> QED
  BY <1>1, <1>2 DEF Joins, Bytes0

LEMMA ConcatAssociates ==
    ASSUME NEW S, NEW a \in Seq(S), NEW b \in Seq(S), NEW c \in Seq(S)
    PROVE  Associates(a, b, c)
  BY DEF Associates

LEMMA BytesNext ==
    ASSUME NEW S, NEW src \in Seq(S), NEW m \in Nat, m < Len(src)
    PROVE  Bytes0(src, 0, m + 1) = Append(Bytes0(src, 0, m), src[m + 1])
<1> DEFINE p == Bytes0(src, 0, m)
           r == Bytes0(src, 0, m + 1)
           x == src[m + 1]
<1>1. p \in Seq(S) /\ Len(p) = m /\ \A k \in 1..m : p[k] = src[k]
  BY DEF Bytes0
<1>2. r \in Seq(S) /\ Len(r) = m + 1 /\ \A k \in 1..m + 1 : r[k] = src[k]
  BY DEF Bytes0
<1>3. x \in S
  OBVIOUS
<1> HIDE DEF p, r
<1>4. Append(p, x) \in Seq(S) /\ Len(Append(p, x)) = m + 1
      /\ \A k \in 1..m + 1 : Append(p, x)[k] = IF k <= m THEN p[k] ELSE x
  BY <1>1, <1>3
<1>5. \A k \in 1..m + 1 : Append(p, x)[k] = r[k]
  <2> SUFFICES ASSUME NEW k \in 1..m + 1 PROVE Append(p, x)[k] = r[k]
    OBVIOUS
  <2>1. k \in 1..m \/ (k = m + 1 /\ ~(k <= m))
    OBVIOUS
  <2> QED
    BY <1>1, <1>2, <1>4, <2>1
<1>6. r = Append(p, x)
  BY <1>2, <1>4, <1>5
<1> QED
  BY <1>6 DEF p, r

LEMMA BytesAll ==
    ASSUME NEW S, NEW src \in Seq(S)
    PROVE  Bytes0(src, 0, Len(src)) = src /\ Bytes0(src, 0, 0) = <<>>
  BY DEF Bytes0

\* A copy that overlaps what it writes repeats the bytes offset before.
LEMMA ForwardCopySays ==
    ASSUME NEW S, NEW src \in Seq(S), NEW a \in Nat, NEW n \in Nat, a + n <= Len(src),
           NEW offset, Repeats(src, offset, a, a + n)
    PROVE  ForwardCopy(Bytes0(src, 0, a), offset, n) = Bytes0(src, 0, a + n)
<1> DEFINE dst == Bytes0(src, 0, a)
           Is(f) == f = [k \in 0..n |-> IF k = 0 THEN dst ELSE Append(f[k - 1], f[k - 1][Len(f[k - 1]) + 1 - offset])]
           b(k) == Bytes0(src, 0, a + k)
           h == [k \in 0..n |-> b(k)]
<1>0. offset \in 1..a /\ \A i \in a + 1..a + n : src[i] = src[i - offset]
  BY DEF Repeats
<1>1. ASSUME NEW k \in 1..n
      PROVE  b(k) = Append(b(k - 1), b(k - 1)[Len(b(k - 1)) + 1 - offset])
  <2> DEFINE m == a + (k - 1)
             p == Bytes0(src, 0, m)
  <2>1. m \in Nat /\ m < Len(src) /\ m <= Len(src) /\ m + 1 = a + k /\ 0 <= m /\ m - 0 = m
    OBVIOUS
  <2>2. m + 1 - offset \in 1..m /\ m + 1 \in a + 1..a + n
    BY <1>0
  <2> HIDE DEF m
  <2>3. p \in Seq(S) /\ Len(p) = m /\ \A i \in 1..m : p[i] = src[i]
    BY <2>1 DEF Bytes0
  <2>4. Bytes0(src, 0, m + 1) = Append(p, src[m + 1])
    BY <2>1, BytesNext
  <2> HIDE DEF p
  <2>5. src[m + 1] = src[(m + 1) - offset]
    BY <1>0, <2>2
  <2>6. p[Len(p) + 1 - offset] = src[m + 1]
    <3> DEFINE i == m + 1 - offset
    <3>1. Len(p) + 1 - offset = i /\ (m + 1) - offset = i /\ i \in 1..m
      <4>1. Len(p) = m
        BY <2>3
      <4>2. offset \in Nat
        BY <1>0
      <4> QED
        BY <2>1, <2>2, <4>1, <4>2
    <3> HIDE DEF i
    <3> QED
      BY <2>3, <2>5, <3>1, Zenon
  <2> QED
    BY <2>1, <2>4, <2>6 DEF m, p
<1>2. b(0) = dst
  BY DEF Bytes0
<1> HIDE DEF b, dst
<1>3. Is(h)
  <2>1. \A k \in 0..n : h[k] = IF k = 0 THEN dst ELSE Append(h[k - 1], h[k - 1][Len(h[k - 1]) + 1 - offset])
    <3> SUFFICES ASSUME NEW k \in 0..n
                 PROVE  h[k] = IF k = 0 THEN dst ELSE Append(h[k - 1], h[k - 1][Len(h[k - 1]) + 1 - offset])
      OBVIOUS
    <3>1. k # 0 => k \in 1..n /\ h[k - 1] = b(k - 1)
      OBVIOUS
    <3>2. h[k] = b(k)
      OBVIOUS
    <3> HIDE DEF h
    <3> QED
      BY <1>1, <1>2, <3>1, <3>2
  <2>2. h = [k \in 0..n |-> h[k]]
    OBVIOUS
  <2> HIDE DEF h
  <2> QED
    BY <2>1, <2>2
<1> DEFINE g == CHOOSE f : Is(f)
<1>4. Is(g)
  <2> HIDE DEF Is, h
  <2> QED
    BY <1>3
<1>5. ForwardCopy(dst, offset, n) = g[n]
  BY DEF ForwardCopy
<1> HIDE DEF g, h
<1> DEFINE T == {k \in Nat : k <= n => g[k] = b(k)}
<1>6. 0 \in T
  BY <1>2, <1>4
<1>7. ASSUME NEW k \in Nat, k \in T PROVE k + 1 \in T
  <2> SUFFICES ASSUME k + 1 <= n PROVE g[k + 1] = b(k + 1)
    OBVIOUS
  <2>1. k + 1 \in 1..n /\ k + 1 \in 0..n /\ (k + 1) - 1 = k /\ k + 1 # 0 /\ g[k] = b(k)
    BY <1>7
  <2>2. g[k + 1] = Append(g[k], g[k][Len(g[k]) + 1 - offset])
    BY <1>4, <2>1
  <2>3. b(k + 1) = Append(b(k), b(k)[Len(b(k)) + 1 - offset])
    BY <1>1, <2>1
  <2> QED
    BY <2>1, <2>2, <2>3
<1> HIDE DEF T
<1>8. Nat \subseteq T
  BY <1>6, <1>7, SetInduction
<1>9. g[n] = b(n)
  BY <1>8 DEF T
<1> QED
  BY <1>5, <1>9 DEF dst, b

LEMMA BytesReplaced ==
    ASSUME NEW t, NEW p, NEW q
    PROVE  [[ok |-> t, bytes |-> p] EXCEPT !.bytes = q] = [ok |-> t, bytes |-> q]
  OBVIOUS

LEMMA DecodeNextSays ==
    ASSUME NEW src \in Seq(Octet), NEW a, NEW b, NEW x, <<a, x, b>> \in Says(src)
    PROVE  DecodeNext(Len(src), [ok |-> TRUE, bytes |-> Bytes0(src, 0, a)], x) =
               [ok |-> TRUE, bytes |-> Bytes0(src, 0, b)]
<1> DEFINE acc == [ok |-> TRUE, bytes |-> Bytes0(src, 0, a)]
           n == b - a
           length == CASE x.tag = "literal" -> x.n + 1
                       [] x.tag = "copy1"   -> MinMatch + x.n
                       [] x.tag = "copy2"   -> 1 + x.n
           l == Len(src)
           new == DecodeNext(l, acc, x)
<1>1. /\ a \in Nat /\ b \in Nat /\ x \in Element /\ a < b /\ b <= l /\ l \in Nat
      /\ Literally(src, a, x, b) \/ Copied(src, a, x, b)
  BY SaysElim
<1>2. /\ n \in Nat /\ n > 0 /\ n <= l - a /\ a <= b /\ a + n = b /\ ~(n > l - a)
  BY <1>1
<1>3. Len(acc.bytes) = a
  BY <1>1, <1>2, BytesJoin
<1>4. /\ acc.ok = TRUE /\ acc.bytes = Bytes0(src, 0, a)
      /\ [acc EXCEPT !.bytes = Bytes0(src, 0, b)] = [ok |-> TRUE, bytes |-> Bytes0(src, 0, b)]
  <2> DEFINE p == Bytes0(src, 0, a)
             q == Bytes0(src, 0, b)
  <2> HIDE DEF p, q
  <2>1. acc = [ok |-> TRUE, bytes |-> p]
    BY DEF p
  <2>2. acc.ok = TRUE /\ acc.bytes = p
    BY <2>1
  <2>3. [[ok |-> TRUE, bytes |-> p] EXCEPT !.bytes = q] = [ok |-> TRUE, bytes |-> q]
    BY BytesReplaced, Zenon
  <2> HIDE DEF acc
  <2>4. [acc EXCEPT !.bytes = q] = [ok |-> TRUE, bytes |-> q]
    BY <2>1, <2>3, Zenon
  <2> QED
    BY <2>2, <2>4 DEF p, q
<1>5. new = CASE ~acc.ok \/ length > l - Len(acc.bytes) -> Corrupt
              [] acc.ok /\ length <= l - Len(acc.bytes) /\ x.tag = "literal" ->
                     IF length > Len(x.bytes) THEN Corrupt
                     ELSE [acc EXCEPT !.bytes = acc.bytes \o Bytes0(x.bytes, 0, length)]
              [] OTHER -> IF x.offset <= 0 \/ Len(acc.bytes) < x.offset THEN Corrupt
                          ELSE [acc EXCEPT !.bytes = ForwardCopy(acc.bytes, x.offset, length)]
  BY DEF DecodeNext
<1> HIDE DEF acc, n, l, new
<1>6. CASE Literally(src, a, x, b)
  <2>1. x.tag = "literal" /\ length = n /\ x.bytes = Bytes0(src, a, b)
    <3>1. x.tag = "literal" /\ x.n = b - a - 1 /\ x.bytes = Bytes0(src, a, b)
      BY <1>6 DEF Literally
    <3>2. length = x.n + 1
      BY <3>1
    <3> HIDE DEF length
    <3> QED
      BY <1>1, <3>1, <3>2 DEF n
  <2> HIDE DEF length
  <2>2. Len(x.bytes) = n /\ Bytes0(x.bytes, 0, n) = x.bytes
    <3>1. x.bytes \in Seq(Octet) /\ Len(x.bytes) = n
      BY <1>1, <1>2, <2>1, BytesJoin DEF l, n
    <3> QED
      BY <3>1, BytesAll
  <2>3. acc.bytes \o Bytes0(x.bytes, 0, n) = Bytes0(src, 0, b)
    BY <1>1, <1>2, <1>4, <2>1, <2>2, BytesJoin DEF l
  <2>4. ~(~acc.ok \/ length > l - Len(acc.bytes)) /\ length <= l - Len(acc.bytes) /\ ~(length > Len(x.bytes))
    BY <1>2, <1>3, <1>4, <2>1, <2>2
  <2>5. new = [acc EXCEPT !.bytes = acc.bytes \o Bytes0(x.bytes, 0, length)]
    BY <1>4, <1>5, <2>1, <2>4
  <2> QED
    BY <1>4, <2>1, <2>3, <2>5 DEF new, acc, l
<1>7. CASE Copied(src, a, x, b)
  <2>1. x.tag # "literal" /\ length = n /\ Repeats(src, x.offset, a, b)
    <3>1. /\ (x.tag = "copy1" /\ MinMatch + x.n = n) \/ (x.tag = "copy2" /\ 1 + x.n = n)
          /\ Repeats(src, x.offset, a, b)
      BY <1>7 DEF Copied, n
    <3> QED
      BY <3>1
  <2> HIDE DEF length
  <2>2. x.offset \in 1..a
    BY <2>1 DEF Repeats
  <2>3. ForwardCopy(acc.bytes, x.offset, n) = Bytes0(src, 0, b)
    <3> DEFINE o == x.offset
    <3>1. a \in Nat /\ n \in Nat /\ a + n <= Len(src) /\ Repeats(src, o, a, a + n)
      BY <1>1, <1>2, <2>1 DEF l
    <3> HIDE DEF o
    <3>2. ForwardCopy(Bytes0(src, 0, a), o, n) = Bytes0(src, 0, a + n)
      BY <3>1, ForwardCopySays, Zenon
    <3> QED
      BY <1>2, <1>4, <3>2 DEF o
  <2>4. ~(~acc.ok \/ length > l - Len(acc.bytes)) /\ ~(x.offset <= 0 \/ Len(acc.bytes) < x.offset)
    BY <1>1, <1>2, <1>3, <1>4, <2>1, <2>2
  <2>5. new = [acc EXCEPT !.bytes = ForwardCopy(acc.bytes, x.offset, length)]
    BY <1>4, <1>5, <2>1, <2>4
  <2> QED
    BY <1>4, <2>1, <2>3, <2>5 DEF new, acc, l
<1> QED
  BY <1>1, <1>6, <1>7

LEMMA DecodeSays ==
    ASSUME NEW src \in Seq(Octet), NEW block, block.dLen = Len(src), block.elements \in Seq(Element),
           Chain(Says(src), block.elements, 0, Len(src))
    PROVE  SnapDecode(block) = [ok |-> TRUE, bytes |-> src]
<1> DEFINE es == block.elements
           n == Len(es)
           start == [ok |-> TRUE, bytes |-> <<>>]
           Is(f) == f = [k \in 0..n |-> IF k = 0 THEN start ELSE DecodeNext(block.dLen, f[k - 1], es[k])]
<1>0. n \in Nat
  OBVIOUS
<1>1. PICK pos \in [0..n -> Nat] : /\ pos[0] = 0 /\ pos[n] = Len(src)
                                   /\ \A k \in 1..n : <<pos[k - 1], es[k], pos[k]>> \in Says(src)
  BY DEF Chain
<1> HIDE DEF n
<1> DEFINE b(k) == [ok |-> TRUE, bytes |-> Bytes0(src, 0, pos[k])]
           h == [k \in 0..n |-> b(k)]
<1>2. ASSUME NEW k \in 1..n PROVE b(k) = DecodeNext(block.dLen, b(k - 1), es[k])
  <2>1. <<pos[k - 1], es[k], pos[k]>> \in Says(src)
    BY <1>1
  <2>2. DecodeNext(Len(src), [ok |-> TRUE, bytes |-> Bytes0(src, 0, pos[k - 1])], es[k]) =
            [ok |-> TRUE, bytes |-> Bytes0(src, 0, pos[k])]
    BY <2>1, DecodeNextSays, Zenon
  <2> QED
    BY <2>2
<1>3. b(0) = start
  BY <1>1, BytesAll
<1>4. b(n) = [ok |-> TRUE, bytes |-> src]
  BY <1>1, BytesAll
<1> HIDE DEF b, start, es
<1>5. Is(h)
  <2>1. \A k \in 0..n : h[k] = IF k = 0 THEN start ELSE DecodeNext(block.dLen, h[k - 1], es[k])
    <3> SUFFICES ASSUME NEW k \in 0..n
                 PROVE  h[k] = IF k = 0 THEN start ELSE DecodeNext(block.dLen, h[k - 1], es[k])
      OBVIOUS
    <3>1. k # 0 => k \in 1..n /\ h[k - 1] = b(k - 1)
      BY <1>0
    <3>2. h[k] = b(k)
      OBVIOUS
    <3> HIDE DEF h
    <3> QED
      BY <1>2, <1>3, <3>1, <3>2
  <2>2. h = [k \in 0..n |-> h[k]]
    OBVIOUS
  <2> HIDE DEF h
  <2> QED
    BY <2>1, <2>2
<1> DEFINE g == CHOOSE f : Is(f)
<1>6. Is(g)
  <2> HIDE DEF Is, h
  <2> QED
    BY <1>5
<1>7. SnapDecode(block) = IF Len(g[n].bytes) # block.dLen THEN Corrupt ELSE g[n]
  BY DEF SnapDecode, n, es, start
<1> HIDE DEF g, h
<1> DEFINE T == {k \in Nat : k <= n => g[k] = b(k)}
<1>8. 0 \in T
  BY <1>0, <1>3, <1>6
<1>9. ASSUME NEW k \in Nat, k \in T PROVE k + 1 \in T
  <2> SUFFICES ASSUME k + 1 <= n PROVE g[k + 1] = b(k + 1)
    OBVIOUS
  <2>1. k + 1 \in 1..n /\ k + 1 \in 0..n /\ (k + 1) - 1 = k /\ k + 1 # 0 /\ g[k] = b(k)
    BY <1>0, <1>9
  <2>2. g[k + 1] = DecodeNext(block.dLen, g[k], es[k + 1])
    BY <1>6, <2>1
  <2>3. b(k + 1) = DecodeNext(block.dLen, b(k), es[k + 1])
    BY <1>2, <2>1
  <2> QED
    BY <2>1, <2>2, <2>3
<1> HIDE DEF T
<1>10. Nat \subseteq T
  BY <1>8, <1>9, SetInduction
<1>11. g[n] = b(n)
  BY <1>0, <1>10 DEF T
<1> QED
  BY <1>4, <1>7, <1>11

\* What SnapEncode makes of any bytes, SnapDecode turns back into them.
LEMMA SnapRoundTrip ==
    ASSUME NEW src \in Seq(Octet)
    PROVE  SnapDecode(SnapEncode(src)) = [ok |-> TRUE, bytes |-> src]
  BY SnapEncodeSays, DecodeSays, Zenon

(***************************************************************************)
(* The stream: t is what the chunks that were sent hold, cs the chunks     *)
(* still to be read, each of which says a piece of t (or nothing of it).   *)
(***************************************************************************)
Chunk == {Magic, Torn} \cup {ChunkOf(p) : p \in Seq(Octet)}

Carries(t) == {x \in Nat \X Chunk \X Nat :
                   /\ x[3] <= Len(t)
                   /\ \/ x[2] = Magic /\ x[1] = x[3]
                      \/ x[1] < x[3] /\ x[3] - x[1] <= MaxBlockSize /\ x[2] = ChunkOf(Bytes0(t, x[1], x[3]))}

\* q is the beginning of t.
Starts(q, t) == Len(q) <= Len(t) /\ q = Bytes0(t, 0, Len(q))

\* A reader that got g and will read the chunks cs has all of t then.
Reads(r, g, cs, t) ==
    /\ t \in Seq(Octet) /\ cs \in Seq(Chunk)
    /\ Starts(g \o r.pending, t)
    /\ Chain(Carries(t), cs, Len(g \o r.pending), Len(t))

\* The identifier comes first; h tells whether the writer has sent it.
Headed(r, h, ch) ==
    /\ ~r.readHeader /\ ch # <<>> => ch[1] = Magic
    /\ h => r.readHeader \/ ch # <<>>

WriterType == [err : {"nil", "broken", "closed"}, ibuf : Seq(Octet), wroteStreamHeader : BOOLEAN]
ReaderType == [err : {"nil", "corrupt"}, pending : Seq(Octet), readHeader : BOOLEAN]

\* The stream is whole: it will give what was taken from the writer but for what
\* the writer has in its buffer.
Running(buffered, ch, u, r, g) ==
    /\ r.err = "nil"
    /\ \E t \in Seq(Octet) : Reads(r, g, ch, t) /\ u = t \o buffered

\* The stream is broken: the beginning of u gets through and then, if the reader
\* has not met it yet, the torn chunk.
Severed(ch, u, r, g) ==
    \E t \in Seq(Octet), cs \in Seq(Chunk) :
        /\ Reads(r, g, cs, t) /\ Starts(t, u)
        /\ ch = IF r.err = "nil" THEN Append(cs, Torn) ELSE <<>>

StreamType(w, ch, u, r, g) ==
    /\ w \in WriterType /\ Len(w.ibuf) <= MaxBlockSize /\ (~Buffered => w.ibuf = <<>>)
    /\ r \in ReaderType /\ u \in Seq(Octet) /\ g \in Seq(Octet) /\ ch \in Seq(Chunk)
    /\ Headed(r, w.wroteStreamHeader, ch)

\* A writer w that took u, the chunks ch between it and a reader r that got g.
Sound(w, ch, u, r, g) ==
    /\ StreamType(w, ch, u, r, g)
    /\ w.err # "broken" => Running(w.ibuf, ch, u, r, g)
    /\ w.err = "broken" => w.ibuf = <<>> /\ Severed(ch, u, r, g)

SnapInv == writes \in Nat /\ Sound(writer, chunks, written, reader, got)

LEMMA BytesOfConcat ==
    ASSUME NEW S, NEW t \in Seq(S), NEW x \in Seq(S), NEW a \in Nat, NEW b \in Nat, a <= b, b <= Len(t)
    PROVE  Bytes0(t \o x, a, b) = Bytes0(t, a, b)
<1> DEFINE u == t \o x
           p == Bytes0(u, a, b)
           q == Bytes0(t, a, b)
<1>1. u \in Seq(S)
  OBVIOUS
<1>2. Len(u) = Len(t) + Len(x)
  OBVIOUS
<1>3. \A k \in 1..Len(t) : u[k] = t[k]
  OBVIOUS
<1> HIDE DEF u
<1>4. p \in Seq(S) /\ Len(p) = b - a /\ \A k \in 1..b - a : p[k] = u[a + k]
  <2>1. b <= Len(u)
    BY <1>2
  <2> QED
    BY <1>1, <2>1, Bytes0Values, Zenon
<1>5. q \in Seq(S) /\ Len(q) = b - a /\ \A k \in 1..b - a : q[k] = t[a + k]
  BY Bytes0Values, Zenon
<1> HIDE DEF p, q
<1>6. \A k \in 1..b - a : p[k] = q[k]
  <2> SUFFICES ASSUME NEW k \in 1..b - a PROVE p[k] = q[k]
    OBVIOUS
  <2>1. a + k \in 1..Len(t)
    OBVIOUS
  <2> QED
    BY <1>3, <1>4, <1>5, <2>1
<1>7. p = q
  BY <1>4, <1>5, <1>6
<1> QED
  BY <1>7 DEF p, q, u

LEMMA BytesBehind ==
    ASSUME NEW S, NEW t \in Seq(S), NEW x \in Seq(S), NEW a \in Nat, NEW b \in Nat, a <= b, b <= Len(x)
    PROVE  Bytes0(t \o x, Len(t) + a, Len(t) + b) = Bytes0(x, a, b)
<1> DEFINE u == t \o x
           c == Len(t) + a
           d == Len(t) + b
           p == Bytes0(u, c, d)
           q == Bytes0(x, a, b)
<1>1. u \in Seq(S)
  OBVIOUS
<1>2. Len(u) = Len(t) + Len(x)
  OBVIOUS
<1>3. \A k \in 1..Len(x) : u[Len(t) + k] = x[k]
  OBVIOUS
<1>4. c \in Nat /\ d \in Nat /\ c <= d /\ d - c = b - a /\ Len(t) \in Nat
  OBVIOUS
<1> HIDE DEF u
<1>5. p \in Seq(S) /\ Len(p) = b - a /\ \A k \in 1..b - a : p[k] = u[c + k]
  <2>1. d <= Len(u)
    BY <1>2
  <2> HIDE DEF c, d
  <2>2. p \in Seq(S) /\ Len(p) = d - c /\ \A k \in 1..d - c : p[k] = u[c + k]
    BY <1>1, <1>4, <2>1, Bytes0Values, Zenon
  <2> HIDE DEF p
  <2> QED
    BY <1>4, <2>2, Zenon
<1>6. q \in Seq(S) /\ Len(q) = b - a /\ \A k \in 1..b - a : q[k] = x[a + k]
  BY Bytes0Values, Zenon
<1> HIDE DEF p, q
<1>7. \A k \in 1..b - a : p[k] = q[k]
  <2> SUFFICES ASSUME NEW k \in 1..b - a PROVE p[k] = q[k]
    OBVIOUS
  <2>1. a + k \in 1..Len(x) /\ c + k = Len(t) + (a + k)
    BY <1>4
  <2> HIDE DEF c
  <2> QED
    BY <1>3, <1>5, <1>6, <2>1
<1>8. p = q
  BY <1>5, <1>6, <1>7
<1> QED
  BY <1>8 DEF p, q, u, c, d

LEMMA SameSequence ==
    ASSUME NEW S, NEW p \in Seq(S), NEW q \in Seq(S), Len(p) = Len(q), \A k \in 1..Len(p) : p[k] = q[k]
    PROVE  p = q
  OBVIOUS

LEMMA BytesOfFirst ==
    ASSUME NEW S, NEW src \in Seq(S), NEW b \in Nat, b <= Len(src),
           NEW i \in Nat, NEW j \in Nat, i <= j, j <= b
    PROVE  Bytes0(Bytes0(src, 0, b), i, j) = Bytes0(src, i, j)
<1> DEFINE p == Bytes0(src, 0, b)
           q == Bytes0(p, i, j)
           r == Bytes0(src, i, j)
<1>1. p \in Seq(S) /\ Len(p) = b /\ \A k \in 1..b : p[k] = src[k]
  BY DEF Bytes0
<1> HIDE DEF p
<1>2. q \in Seq(S) /\ Len(q) = j - i /\ \A k \in 1..j - i : q[k] = p[i + k]
  <2>1. j <= Len(p) /\ p \in Seq(S)
    BY <1>1
  <2> QED
    BY <2>1, Bytes0Values, Zenon
<1>3. r \in Seq(S) /\ Len(r) = j - i /\ \A k \in 1..j - i : r[k] = src[i + k]
  <2>1. j <= Len(src)
    OBVIOUS
  <2> QED
    BY <2>1, Bytes0Values, Zenon
<1> HIDE DEF q, r
<1>4. \A k \in 1..j - i : q[k] = r[k]
  <2> SUFFICES ASSUME NEW k \in 1..j - i PROVE q[k] = r[k]
    OBVIOUS
  <2>1. i + k \in 1..b
    OBVIOUS
  <2> QED
    BY <1>1, <1>2, <1>3, <2>1
<1>5. q = r
  <2>1. Len(q) = Len(r) /\ \A k \in 1..Len(q) : q[k] = r[k]
    BY <1>2, <1>3, <1>4
  <2> QED
    BY <1>2, <1>3, <2>1, SameSequence
<1> QED
  BY <1>5 DEF p, q, r

LEMMA StartsSelf ==
    ASSUME NEW t \in Seq(Octet)
    PROVE  Starts(t, t)
<1>1. Len(t) <= Len(t)
  OBVIOUS
<1> QED
  BY <1>1, BytesAll, Zenon DEF Starts

LEMMA StartsMore ==
    ASSUME NEW q, NEW t \in Seq(Octet), NEW x \in Seq(Octet), Len(q) \in Nat, Starts(q, t)
    PROVE  Starts(q, t \o x)
<1>1. Len(q) <= Len(t) /\ q = Bytes0(t, 0, Len(q))
  BY DEF Starts
<1>2. Len(t \o x) = Len(t) + Len(x) /\ Len(t) \in Nat /\ Len(x) \in Nat
  OBVIOUS
<1>3. 0 \in Nat /\ 0 <= Len(q) /\ Len(q) <= Len(t \o x)
  BY <1>1, <1>2
<1>4. Bytes0(t \o x, 0, Len(q)) = Bytes0(t, 0, Len(q))
  BY <1>1, <1>3, BytesOfConcat, Zenon
<1> QED
  BY <1>1, <1>3, <1>4 DEF Starts

LEMMA StartsConcat ==
    ASSUME NEW t \in Seq(Octet), NEW x \in Seq(Octet)
    PROVE  Starts(t, t \o x)
<1>1. Len(t) \in Nat
  OBVIOUS
<1> QED
  BY <1>1, StartsSelf, StartsMore, Zenon

LEMMA StartsChain ==
    ASSUME NEW q, NEW t \in Seq(Octet), NEW u \in Seq(Octet), Len(q) \in Nat, Starts(q, t), Starts(t, u)
    PROVE  Starts(q, u)
<1> DEFINE n == Len(q)
           m == Len(t)
<1>2. 0 \in Nat /\ n \in Nat /\ 0 <= n /\ n <= m /\ m <= Len(u) /\ m \in Nat /\ Len(u) \in Nat
  BY DEF Starts
<1>1. q = Bytes0(t, 0, n) /\ t = Bytes0(u, 0, m)
  BY DEF Starts
<1> HIDE DEF n, m
<1>3. Bytes0(Bytes0(u, 0, m), 0, n) = Bytes0(u, 0, n)
  BY <1>2, BytesOfFirst, SMTT(20)
<1>4. q = Bytes0(u, 0, n)
  BY <1>1, <1>3, Zenon
<1>5. n <= Len(u)
  BY <1>2
<1> QED
  BY <1>4, <1>5 DEF Starts, n

LEMMA StartsPrefix ==
    ASSUME NEW q \in Seq(Octet), NEW t \in Seq(Octet), Starts(q, t)
    PROVE  IsPrefix(q, t)
  BY DEF Starts, Bytes0, IsPrefix

LEMMA CarriesWider ==
    ASSUME NEW t \in Seq(Octet), NEW x \in Seq(Octet)
    PROVE  Carries(t) \subseteq Carries(t \o x)
<1> SUFFICES ASSUME NEW a \in Nat, NEW c \in Chunk, NEW b \in Nat, <<a, c, b>> \in Carries(t)
             PROVE  <<a, c, b>> \in Carries(t \o x)
  BY DEF Carries
<1>1. b <= Len(t) /\ ((c = Magic /\ a = b) \/ (a < b /\ b - a <= MaxBlockSize /\ c = ChunkOf(Bytes0(t, a, b))))
  BY DEF Carries
<1>2. b <= Len(t \o x)
  <2>1. Len(t \o x) = Len(t) + Len(x) /\ Len(t) \in Nat /\ Len(x) \in Nat
    OBVIOUS
  <2> QED
    BY <1>1, <2>1
<1>3. a < b => Bytes0(t \o x, a, b) = Bytes0(t, a, b)
  <2> SUFFICES ASSUME a < b PROVE Bytes0(t \o x, a, b) = Bytes0(t, a, b)
    OBVIOUS
  <2>1. a <= b
    OBVIOUS
  <2> QED
    BY <1>1, <2>1, BytesOfConcat, Zenon
<1> QED
  BY <1>1, <1>2, <1>3 DEF Carries

LEMMA PieceEndMonotone ==
    ASSUME NEW p \in Seq(Octet), NEW k \in Nat, NEW i \in 0..k
    PROVE  PieceEnd(p, i) <= PieceEnd(p, k)
<1>1. MaxBlockSize \in Nat /\ Len(p) \in Nat
  BY SnapConstants
<1>2. i * MaxBlockSize \in Nat /\ k * MaxBlockSize \in Nat /\ i * MaxBlockSize <= k * MaxBlockSize
  BY <1>1
<1> QED
  BY <1>1, <1>2 DEF PieceEnd

LEMMA PieceInside ==
    ASSUME NEW t \in Seq(Octet), NEW p \in Seq(Octet), NEW e \in Nat, e <= Len(p),
           NEW c \in Nat, NEW d \in Nat, c <= d, d <= e
    PROVE  Bytes0(t \o Bytes0(p, 0, e), Len(t) + c, Len(t) + d) = Bytes0(p, c, d)
<1> DEFINE y == Bytes0(p, 0, e)
<1>1. y \in Seq(Octet) /\ d <= Len(y)
  BY DEF Bytes0
<1>2. Bytes0(y, c, d) = Bytes0(p, c, d)
  BY BytesOfFirst, Zenon
<1> HIDE DEF y
<1>3. Bytes0(t \o y, Len(t) + c, Len(t) + d) = Bytes0(y, c, d)
  BY <1>1, BytesBehind, Zenon
<1> QED
  BY <1>2, <1>3 DEF y

\* The first pieces of p behind t.
SentChunks(p, k) == [i \in 1..k |-> ChunkOf(Pieces(p)[i])]
Beyond(t, p, k) == t \o Bytes0(p, 0, PieceEnd(p, k))

LEMMA SentChain ==
    ASSUME NEW t \in Seq(Octet), NEW p \in Seq(Octet), NEW k \in 0..PieceCount(p)
    PROVE  /\ Beyond(t, p, k) \in Seq(Octet) /\ SentChunks(p, k) \in Seq(Chunk)
           /\ PieceEnd(p, k) \in Nat /\ PieceEnd(p, k) <= Len(p)
           /\ Len(Beyond(t, p, k)) = Len(t) + PieceEnd(p, k)
           /\ Chain(Carries(Beyond(t, p, k)), SentChunks(p, k), Len(t), Len(Beyond(t, p, k)))
<1> DEFINE n == PieceCount(p)
           l == Len(t)
           q == SentChunks(p, k)
           e == PieceEnd(p, k)
           u == Beyond(t, p, k)
           y == Bytes0(p, 0, e)
           pos == [i \in 0..k |-> l + PieceEnd(p, i)]
<1>0. q = [i \in 1..k |-> ChunkOf(Pieces(p)[i])] /\ u = t \o y /\ e = PieceEnd(p, k)
  BY DEF SentChunks, Beyond
<1> HIDE DEF q, e, u
<1>1. n \in Nat /\ k \in Nat /\ k <= n /\ PieceEnd(p, 0) = 0
      /\ \A i \in 0..n : PieceEnd(p, i) \in Nat /\ PieceEnd(p, i) <= Len(p)
  BY PieceValues
<1>2. e \in Nat /\ e <= Len(p) /\ 0 <= e /\ l \in Nat
  BY <1>0, <1>1
<1>3. y \in Seq(Octet) /\ Len(y) = e
  BY <1>2 DEF Bytes0
<1> HIDE DEF y
<1>4. u \in Seq(Octet) /\ Len(u) = l + e
  <2>1. u = t \o y
    BY <1>0
  <2>2. t \o y \in Seq(Octet) /\ Len(t \o y) = Len(t) + Len(y)
    <3>1. y \in Seq(Octet)
      BY <1>3
    <3> HIDE DEF y
    <3> QED
      BY <3>1
  <2> QED
    BY <1>3, <2>1, <2>2
<1>5. \A i \in 1..k : Pieces(p)[i] = Bytes0(p, PieceEnd(p, i - 1), PieceEnd(p, i))
  <2>1. \A i \in 1..k : i \in 1..n
    BY <1>1
  <2> HIDE DEF n
  <2> QED
    BY <2>1, PiecesAre DEF n
<1>6. ASSUME NEW i \in 1..k
      PROVE  q[i] \in Chunk /\ <<l + PieceEnd(p, i - 1), q[i], l + PieceEnd(p, i)>> \in Carries(u)
  <2> DEFINE c == PieceEnd(p, i - 1)
             d == PieceEnd(p, i)
             piece == Bytes0(p, c, d)
  <2>1. i \in 1..n /\ i - 1 \in 0..n /\ i \in 0..n /\ i \in 0..k
    BY <1>1
  <2>2. c \in Nat /\ d \in Nat /\ d <= Len(p) /\ d <= e
    <3>1. PieceEnd(p, i) <= PieceEnd(p, k)
      BY <1>1, <2>1, PieceEndMonotone
    <3> QED
      BY <1>0, <1>1, <2>1, <3>1
  <2>3. c < d /\ d - c <= MaxBlockSize
    BY <2>1, PieceValues
  <2>4. q[i] = ChunkOf(piece)
    BY <1>0, <1>5
  <2> HIDE DEF c, d
  <2>5. c <= d
    BY <2>2, <2>3
  <2>6. piece \in Seq(Octet)
    BY <2>2, <2>5, Bytes0Values, Zenon
  <2>7. piece = Bytes0(u, l + c, l + d)
    <3>1. Bytes0(t \o Bytes0(p, 0, e), l + c, l + d) = Bytes0(p, c, d)
      BY <1>2, <2>2, <2>5, PieceInside
    <3> QED
      BY <1>0, <3>1 DEF y
  <2> HIDE DEF piece
  <2>8. q[i] \in Chunk
    BY <2>4, <2>6 DEF Chunk
  <2>9. l + c \in Nat /\ l + d \in Nat /\ l + c < l + d /\ (l + d) - (l + c) <= MaxBlockSize /\ l + d <= Len(u)
    BY <1>2, <1>4, <2>2, <2>3, SnapConstants
  <2> DEFINE aa == l + c
             bb == l + d
  <2>10. q[i] = ChunkOf(Bytes0(u, aa, bb))
    BY <2>4, <2>7
  <2>12. aa \in Nat /\ bb \in Nat /\ aa < bb /\ bb - aa <= MaxBlockSize /\ bb <= Len(u)
    BY <2>9
  <2> HIDE DEF aa, bb
  <2>11. <<aa, q[i], bb>> \in Carries(u)
    BY <2>8, <2>10, <2>12 DEF Carries
  <2> QED
    BY <2>8, <2>11 DEF c, d, aa, bb
<1>7. q \in Seq(Chunk) /\ Len(q) = k
  <2>1. \A i \in 1..k : ChunkOf(Pieces(p)[i]) \in Chunk
    BY <1>0, <1>6
  <2> QED
    BY <1>0, <1>1, <2>1
<1>8. pos \in [0..k -> Nat] /\ pos[0] = l /\ pos[k] = Len(u)
  <2>1. \A i \in 0..k : l + PieceEnd(p, i) \in Nat
    <3> SUFFICES ASSUME NEW i \in 0..k PROVE l + PieceEnd(p, i) \in Nat
      OBVIOUS
    <3>1. i \in 0..n
      BY <1>1
    <3>2. PieceEnd(p, i) \in Nat
      BY <1>1, <3>1
    <3> QED
      BY <1>2, <3>2
  <2>2. l + PieceEnd(p, 0) = l /\ l + PieceEnd(p, k) = Len(u) /\ 0 \in 0..k /\ k \in 0..k
    BY <1>0, <1>1, <1>2, <1>4
  <2> HIDE DEF l, n
  <2> QED
    BY <2>1, <2>2
<1>9. \A i \in 1..k : <<pos[i - 1], q[i], pos[i]>> \in Carries(u)
  <2> SUFFICES ASSUME NEW i \in 1..k PROVE <<pos[i - 1], q[i], pos[i]>> \in Carries(u)
    OBVIOUS
  <2>1. pos[i - 1] = l + PieceEnd(p, i - 1) /\ pos[i] = l + PieceEnd(p, i)
    BY <1>1
  <2> HIDE DEF pos
  <2> QED
    BY <1>6, <2>1
<1> HIDE DEF pos
<1>10. Chain(Carries(u), q, Len(t), Len(u))
  BY <1>7, <1>8, <1>9 DEF Chain
<1> QED
  BY <1>2, <1>4, <1>7, <1>10 DEF q, e, u

(***************************************************************************)
(* The writer.                                                             *)
(***************************************************************************)
Working == [w : WriterType, chunks : Seq(Chunk), n : Nat]

Identifier(h) == IF h THEN <<>> ELSE <<Magic>>
Whole(p, ok) == IF ok < PieceCount(p) THEN ok ELSE PieceCount(p)
Break(p, ok) == IF ok < PieceCount(p) THEN <<Torn>> ELSE <<>>
Passed(s, p, ok) ==
    s.chunks \o Identifier(s.w.wroteStreamHeader) \o SentChunks(p, Whole(p, ok)) \o Break(p, ok)

LEMMA HeadedFirst ==
    ASSUME NEW r, NEW h \in BOOLEAN, NEW cs \in Seq(Chunk), Headed(r, h, cs)
    PROVE  Identifier(h) \in Seq(Chunk) /\ cs \o Identifier(h) \in Seq(Chunk) /\ Headed(r, TRUE, cs \o Identifier(h))
<1>1. <<>> \in Seq(Chunk) /\ <<Magic>> \in Seq(Chunk)
  BY DEF Chunk
<1>2. cs \o <<>> = cs
  BY ConcatEmpty
<1>3. CASE h = TRUE
  <2>1. Identifier(h) = <<>>
    BY <1>3, Zenon DEF Identifier
  <2>2. Headed(r, TRUE, cs)
    BY <1>3
  <2> QED
    BY <1>1, <1>2, <2>1, <2>2
<1>4. CASE h = FALSE
  <2>1. Identifier(h) = <<Magic>>
    BY <1>4, Zenon DEF Identifier
  <2> DEFINE y == cs \o <<Magic>>
  <2>2. y \in Seq(Chunk) /\ y # <<>>
    BY <1>1
  <2>3. y[1] = IF cs = <<>> THEN Magic ELSE cs[1]
    BY <1>1
  <2> HIDE DEF y
  <2>4. ~r.readHeader => y[1] = Magic
    <3>1. ~r.readHeader /\ cs # <<>> => cs[1] = Magic
      BY Zenon DEF Headed
    <3> QED
      BY <2>3, <3>1, Zenon
  <2>5. Headed(r, TRUE, y)
    BY <2>2, <2>4, Zenon DEF Headed
  <2>6. cs \o Identifier(h) = y
    BY <2>1 DEF y
  <2> QED
    BY <1>1, <2>1, <2>2, <2>5, <2>6
<1> QED
  BY <1>3, <1>4

LEMMA HeadedMore ==
    ASSUME NEW r, NEW cs \in Seq(Chunk), Headed(r, TRUE, cs), NEW x \in Seq(Chunk)
    PROVE  Headed(r, TRUE, cs \o x)
<1>1. cs = <<>> => r.readHeader
  BY DEF Headed
<1>2. cs # <<>> => cs \o x # <<>> /\ (cs \o x)[1] = cs[1]
  OBVIOUS
<1> QED
  BY <1>1, <1>2 DEF Headed

LEMMA WriteChunksValues ==
    ASSUME NEW s \in Working, s.w.err = "nil", NEW p \in Seq(Octet), p # <<>>, NEW ok \in Nat,
           Passed(s, p, ok) \in Seq(Chunk), PieceEnd(p, Whole(p, ok)) \in Nat
    PROVE  /\ WriteChunks(s, p, ok) \in Working
           /\ WriteChunks(s, p, ok).w.err = (IF ok < PieceCount(p) THEN "broken" ELSE "nil")
           /\ WriteChunks(s, p, ok).w.ibuf = s.w.ibuf
           /\ WriteChunks(s, p, ok).w.wroteStreamHeader = TRUE
           /\ WriteChunks(s, p, ok).n = s.n + PieceEnd(p, Whole(p, ok))
           /\ WriteChunks(s, p, ok).chunks = Passed(s, p, ok)
<1> DEFINE x == WriteChunks(s, p, ok)
           new == Passed(s, p, ok)
           broken == ok < PieceCount(p)
           err == IF broken THEN "broken" ELSE s.w.err
           m == PieceEnd(p, Whole(p, ok))
<1>1. Len(Pieces(p)) = PieceCount(p)
  BY PiecesAre
<1>2. x = [s EXCEPT !.w.wroteStreamHeader = TRUE, !.w.err = err, !.n = @ + m, !.chunks = new]
  BY <1>1, Zenon DEF WriteChunks, Passed, Identifier, SentChunks, Whole, Break
<1> HIDE DEF x, new, m, broken
<1>3. err \in {"nil", "broken"} /\ err = (IF broken THEN "broken" ELSE "nil")
  OBVIOUS
<1> HIDE DEF err
<1>4. x.n = s.n + m /\ x.chunks = new
  BY <1>2 DEF Working
<1>5. x.w = [s.w EXCEPT !.wroteStreamHeader = TRUE, !.err = err]
  BY <1>2 DEF Working
<1>6. s.w \in WriterType /\ s.n \in Nat
  BY DEF Working
<1>7. x.w \in WriterType /\ x.w.err = err /\ x.w.ibuf = s.w.ibuf /\ x.w.wroteStreamHeader = TRUE
  BY <1>3, <1>5, <1>6 DEF WriterType
<1>8. x \in Working
  <2>1. new \in Seq(Chunk)
    BY DEF new
  <2>2. m \in Nat
    BY DEF m
  <2>3. s.n + m \in Nat
    BY <1>6, <2>2
  <2> DEFINE w == [s.w EXCEPT !.wroteStreamHeader = TRUE, !.err = err]
  <2>4. w \in WriterType
    BY <1>5, <1>7
  <2>5. x = [s EXCEPT !.w = w, !.n = s.n + m, !.chunks = new]
    BY <1>2 DEF Working
  <2> HIDE DEF w
  <2> QED
    BY <2>1, <2>3, <2>4, <2>5 DEF Working
<1> QED
  BY <1>3, <1>4, <1>7, <1>8 DEF x, new, m, broken

Fine == {s \in Working : s.w.err = "nil"}
Sane == {r \in ReaderType : r.err = "nil"}

\* Of p, k bytes got through behind t.
Sent(x, s, r, g, t, p, ok) ==
    \E k \in 0..Len(p) :
        /\ x.n = s.n + k
        /\ \/ /\ x.w.err = "nil" /\ k = Len(p) /\ ok >= 1
              /\ Running(<<>>, x.chunks, t \o Bytes0(p, 0, k), r, g)
           \/ x.w.err = "broken" /\ Severed(x.chunks, t \o Bytes0(p, 0, k), r, g)

LEMMA StartsBehind ==
    ASSUME NEW t \in Seq(Octet), NEW p \in Seq(Octet), NEW k \in 0..Len(p)
    PROVE  /\ Bytes0(p, 0, k) \in Seq(Octet) /\ Len(Bytes0(p, 0, k)) = k /\ t \o Bytes0(p, 0, k) \in Seq(Octet)
           /\ Starts(t \o Bytes0(p, 0, k), t \o p)
<1> DEFINE n == Len(p)
           y == Bytes0(p, 0, k)
           z == Bytes0(p, k, n)
<1>1. n \in Nat /\ k \in Nat /\ k <= n /\ n <= Len(p)
  OBVIOUS
<1> HIDE DEF n
<1>2. y \in Seq(Octet) /\ z \in Seq(Octet) /\ Joins(p, k, n)
  BY <1>1, BytesJoins, Zenon
<1>3. y \o z = p
  <2>1. Bytes0(p, 0, n) = p
    BY BytesAll DEF n
  <2> QED
    BY <1>2, <2>1 DEF Joins
<1>4. Len(y) = k
  BY <1>1 DEF Bytes0
<1> HIDE DEF y, z
<1>5. t \o y \in Seq(Octet)
  BY <1>2
<1>6. Starts(t \o y, (t \o y) \o z)
  BY <1>2, <1>5, StartsConcat, Zenon
<1>7. Associates(t, y, z)
  BY <1>2, ConcatAssociates, Zenon
<1>8. (t \o y) \o z = t \o p
  BY <1>3, <1>7 DEF Associates
<1> QED
  BY <1>2, <1>4, <1>5, <1>6, <1>8 DEF y

\* What gets through is t and the first k bytes of p.
LEMMA SendKeeps ==
    ASSUME NEW s \in Fine, NEW r \in Sane, NEW g \in Seq(Octet), NEW t \in Seq(Octet),
           Reads(r, g, s.chunks, t), Headed(r, s.w.wroteStreamHeader, s.chunks),
           NEW p \in Seq(Octet) \ {<<>>}, NEW ok \in Nat
    PROVE  /\ WriteChunks(s, p, ok) \in Working
           /\ WriteChunks(s, p, ok).w.ibuf = s.w.ibuf /\ WriteChunks(s, p, ok).w.wroteStreamHeader = TRUE
           /\ Headed(r, TRUE, WriteChunks(s, p, ok).chunks)
           /\ Sent(WriteChunks(s, p, ok), s, r, g, t, p, ok)
<1> SUFFICES ASSUME s \in Working, s.w.err = "nil", r \in ReaderType, r.err = "nil", p \in Seq(Octet), p # <<>>
             PROVE  /\ WriteChunks(s, p, ok) \in Working
                    /\ WriteChunks(s, p, ok).w.ibuf = s.w.ibuf /\ WriteChunks(s, p, ok).w.wroteStreamHeader = TRUE
                    /\ Headed(r, TRUE, WriteChunks(s, p, ok).chunks)
                    /\ Sent(WriteChunks(s, p, ok), s, r, g, t, p, ok)
  BY Zenon DEF Fine, Sane
<1> DEFINE x == WriteChunks(s, p, ok)
           count == PieceCount(p)
           first == Identifier(s.w.wroteStreamHeader)
           broken == ok < count
           whole == Whole(p, ok)
           q == SentChunks(p, whole)
           last == Break(p, ok)
           k == PieceEnd(p, whole)
           u == Beyond(t, p, whole)
           c0 == s.chunks \o first
           cs == c0 \o q
           a == Len(g \o r.pending)
           l == Len(p)
           b == Len(t)
<1> HIDE DEF x, count, first, broken, whole, q, last, k, u, c0, cs, a, l, b
<1>0. l \in Nat /\ l > 0 /\ b \in Nat
  BY DEF l, b
<1>1. count \in Nat /\ count >= 1 /\ PieceEnd(p, count) = Len(p) /\ Len(p) \in Nat
  <2>1. PieceCount(p) \in Nat /\ (PieceCount(p) = 0 <=> Len(p) = 0) /\ PieceEnd(p, PieceCount(p)) = Len(p)
    BY PieceValues
  <2> QED
    BY <1>0, <2>1 DEF l, count
<1>2. whole \in 0..count /\ (~broken => whole = count /\ ok >= 1)
  BY <1>1 DEF broken, whole, Whole, count
<1>3. s.chunks \in Seq(Chunk) /\ s.n \in Nat /\ Starts(g \o r.pending, t) /\ Chain(Carries(t), s.chunks, a, Len(t))
  BY DEF Working, Reads, a
<1>4. a \in Nat
  <2>1. r.pending \in Seq(Octet)
    BY DEF ReaderType
  <2> QED
    BY <2>1 DEF a
<1>5. u \in Seq(Octet) /\ q \in Seq(Chunk) /\ k \in Nat /\ k <= Len(p) /\ Len(u) = Len(t) + k
      /\ Chain(Carries(u), q, Len(t), Len(u))
  <2>1. whole \in 0..PieceCount(p)
    BY <1>2 DEF count
  <2> QED
    BY <2>1, SentChain DEF q, k, u
<1>6. first \in Seq(Chunk) /\ c0 \in Seq(Chunk) /\ Headed(r, TRUE, c0)
  <2> DEFINE h == s.w.wroteStreamHeader
  <2>1. Headed(r, h, s.chunks) /\ first = Identifier(h) /\ h \in BOOLEAN
    BY DEF first, Working, WriterType
  <2> HIDE DEF h
  <2> QED
    BY <1>3, <2>1, HeadedFirst DEF c0
<1>7. last \in Seq(Chunk)
  <2>1. <<>> \in Seq(Chunk) /\ <<Torn>> \in Seq(Chunk)
    BY DEF Chunk
  <2> QED
    BY <2>1 DEF last, Break
<1>16. Bytes0(p, 0, k) \in Seq(Octet)
  BY <1>0, <1>1, <1>5 DEF Bytes0, l
<1>8. Chain(Carries(u), c0, a, Len(t))
  <2>1. Carries(t) \subseteq Carries(u)
    BY <1>16, CarriesWider DEF u, Beyond, k
  <2>2. Chain(Carries(u), s.chunks, a, Len(t))
    BY <1>3, <2>1, ChainWider, Zenon
  <2>3. Chain(Carries(u), first, Len(t), Len(t))
    <3>1. CASE s.w.wroteStreamHeader
      <4>1. first = <<>> /\ Len(t) \in Nat
        BY <3>1 DEF first, Identifier
      <4> QED
        BY <4>1, ChainEmpty
    <3>2. CASE ~s.w.wroteStreamHeader
      <4>1. first = <<Magic>> /\ Len(t) \in Nat
        BY <3>2 DEF first, Identifier
      <4>2. Len(t) <= Len(u) /\ Magic \in Chunk
        <5>1. Len(u) = Len(t) + k /\ k \in Nat
          BY <1>5
        <5> QED
          BY <4>1, <5>1 DEF Chunk
      <4>3. <<Len(t), Magic, Len(t)>> \in Carries(u)
        BY <4>1, <4>2 DEF Carries
      <4> QED
        BY <4>1, <4>3, ChainOne
    <3> QED
      BY <3>1, <3>2
  <2> QED
    BY <1>3, <1>6, <2>2, <2>3, ChainJoin, Zenon DEF c0
<1>9. cs \in Seq(Chunk) /\ Chain(Carries(u), cs, a, Len(u))
  <2>1. cs \in Seq(Chunk)
    BY <1>5, <1>6, ConcatParts DEF cs
  <2> QED
    BY <1>5, <1>6, <1>8, <2>1, ChainJoin, Zenon DEF cs
<1>10. cs \o last \in Seq(Chunk) /\ Headed(r, TRUE, cs \o last)
  <2>1. Headed(r, TRUE, cs)
    BY <1>5, <1>6, HeadedMore DEF cs
  <2> QED
    BY <1>7, <1>9, <2>1, HeadedMore, ConcatParts
<1>11. x \in Working /\ x.w.err = (IF broken THEN "broken" ELSE "nil") /\ x.w.ibuf = s.w.ibuf
       /\ x.w.wroteStreamHeader = TRUE /\ x.n = s.n + k /\ x.chunks = cs \o last
  <2>1. Passed(s, p, ok) = cs \o last
    BY DEF Passed, cs, c0, first, q, whole, last
  <2>2. Passed(s, p, ok) \in Seq(Chunk) /\ PieceEnd(p, Whole(p, ok)) \in Nat
    BY <1>5, <1>10, <2>1 DEF k, whole
  <2> QED
    BY <2>1, <2>2, WriteChunksValues DEF x, k, whole, broken, count
<1>12. Reads(r, g, cs, u)
  <2>1. Starts(g \o r.pending, u)
    <3>2. Len(g \o r.pending) \in Nat
      BY <1>4 DEF a
    <3> QED
      BY <1>3, <1>16, <3>2, StartsMore DEF u, Beyond, k
  <2> QED
    BY <1>5, <1>9, <2>1 DEF Reads, a
<1>13. (x.w.err = "nil" /\ k = Len(p) /\ ok >= 1 /\ x.chunks = cs) \/ (x.w.err = "broken" /\ x.chunks = Append(cs, Torn))
  <2>1. CASE broken
    <3>1. last = <<Torn>>
      BY <2>1 DEF last, Break, broken, count
    <3>2. cs \o <<Torn>> = Append(cs, Torn)
      <4>1. cs \in Seq(Chunk) /\ Torn \in Chunk
        BY <1>9 DEF Chunk
      <4> QED
        BY <4>1
    <3> QED
      BY <1>11, <2>1, <3>1, <3>2
  <2>2. CASE ~broken
    <3>1. last = <<>> /\ cs \o <<>> = cs
      BY <1>9, <2>2, ConcatEmpty DEF last, Break, broken, count
    <3>2. k = Len(p) /\ ok >= 1
      BY <1>1, <1>2, <2>2 DEF k
    <3> QED
      BY <1>11, <2>2, <3>1, <3>2
  <2>3. broken \in BOOLEAN
    BY DEF broken
  <2> QED
    BY <2>1, <2>2, Zenon
<1>14. k \in 0..Len(p)
  BY <1>1, <1>5
<1> DEFINE y == t \o Bytes0(p, 0, k)
<1>17. y \in Seq(Octet)
  BY <1>14, StartsBehind
<1>18. Reads(r, g, cs, y)
  BY <1>12 DEF u, Beyond, k
<1> HIDE DEF y
<1>19. x.w.err = "nil" /\ x.chunks = cs /\ r.err = "nil" => Running(<<>>, x.chunks, y, r, g)
  <2>1. y = y \o <<>>
    BY <1>17, ConcatEmpty
  <2> QED
    BY <1>17, <1>18, <2>1, Zenon DEF Running
<1>20. x.chunks = Append(cs, Torn) /\ r.err = "nil" => Severed(x.chunks, y, r, g)
  <2>1. Starts(y, y)
    BY <1>17, StartsSelf
  <2> QED
    BY <1>9, <1>17, <1>18, <2>1, Zenon DEF Severed
<1>21. \/ x.w.err = "nil" /\ k = Len(p) /\ ok >= 1 /\ Running(<<>>, x.chunks, y, r, g)
       \/ x.w.err = "broken" /\ Severed(x.chunks, y, r, g)
  BY <1>13, <1>19, <1>20, Zenon
<1>22. Sent(x, s, r, g, t, p, ok)
  BY <1>11, <1>14, <1>21, Zenon DEF Sent, y
<1> QED
  BY <1>10, <1>11, <1>22 DEF x

LEMMA SeveredMore ==
    ASSUME NEW ch, NEW r, NEW g, NEW u \in Seq(Octet), NEW v \in Seq(Octet), Severed(ch, u, r, g), Starts(u, v)
    PROVE  Severed(ch, v, r, g)
<1> DEFINE end(cs) == ch = IF r.err = "nil" THEN Append(cs, Torn) ELSE <<>>
<1> HIDE DEF end
<1>1. PICK t \in Seq(Octet), cs \in Seq(Chunk) : Reads(r, g, cs, t) /\ Starts(t, u) /\ end(cs)
  BY Zenon DEF Severed, end
<1>2. Len(t) \in Nat
  OBVIOUS
<1>3. Starts(t, v)
  BY <1>1, <1>2, StartsChain, Zenon
<1> QED
  BY <1>1, <1>3, Zenon DEF Severed, end

\* The writer x came from s by taking the first k bytes of p.
Took(x, s, p, u, r, g) ==
    /\ x \in Working
    /\ \E k \in 0..Len(p) : x.n = s.n + k /\ Sound(x.w, x.chunks, u \o Bytes0(p, 0, k), r, g)

LEMMA TookNothing ==
    ASSUME NEW s \in Working, NEW u, NEW r, NEW g, Sound(s.w, s.chunks, u, r, g), NEW p \in Seq(Octet)
    PROVE  Took(s, s, p, u, r, g)
<1>1. s.n = s.n + 0
  BY DEF Working
<1>2. u \o Bytes0(p, 0, 0) = u
  <2>1. Bytes0(p, 0, 0) = <<>>
    BY BytesAll
  <2>2. u \in Seq(Octet)
    BY Zenon DEF Sound, StreamType
  <2> QED
    BY <2>1, <2>2, ConcatEmpty
<1>3. 0 \in 0..Len(p)
  OBVIOUS
<1>4. Sound(s.w, s.chunks, u \o Bytes0(p, 0, 0), r, g)
  BY <1>2
<1> QED
  BY <1>1, <1>3, <1>4, Zenon DEF Took

Empty(w) == w.ibuf = <<>>

\* The chunks of p go out directly.
LEMMA DirectKeeps ==
    ASSUME NEW s \in Working, NEW u, NEW r, NEW g, Sound(s.w, s.chunks, u, r, g), Empty(s.w),
           NEW p \in Seq(Octet), NEW ok, s \in Fine => ok \in Nat
    PROVE  Took(WriteChunks(s, p, ok), s, p, u, r, g)
<1> DEFINE x == WriteChunks(s, p, ok)
<1>0. s.w \in WriterType /\ r \in ReaderType /\ u \in Seq(Octet) /\ g \in Seq(Octet) /\ s.w.ibuf = <<>>
      /\ Headed(r, s.w.wroteStreamHeader, s.chunks)
  BY Zenon DEF Sound, StreamType, Empty
<1>1. CASE p = <<>> \/ s.w.err # "nil"
  <2>1. x = s
    BY <1>1 DEF WriteChunks
  <2> QED
    BY <2>1, TookNothing
<1>2. CASE p # <<>> /\ s.w.err = "nil"
  <2>1. s \in Fine /\ p \in Seq(Octet) \ {<<>>}
    BY <1>2 DEF Fine
  <2>2. r \in Sane /\ Reads(r, g, s.chunks, u)
    <3>1. Running(s.w.ibuf, s.chunks, u, r, g)
      BY <1>2 DEF Sound
    <3>2. r.err = "nil"
      BY <3>1 DEF Running
    <3>3. PICK t \in Seq(Octet) : Reads(r, g, s.chunks, t) /\ u = t \o <<>>
      BY <1>0, <3>1 DEF Running
    <3>4. u = t
      BY <3>3, ConcatEmpty
    <3> QED
      BY <1>0, <3>2, <3>3, <3>4 DEF Sane
  <2> HIDE DEF x
  <2>3. ok \in Nat
    BY <2>1
  <2>4. x \in Working /\ x.w.ibuf = s.w.ibuf /\ x.w.wroteStreamHeader = TRUE
        /\ Headed(r, TRUE, x.chunks) /\ Sent(x, s, r, g, u, p, ok)
    <3>1. /\ WriteChunks(s, p, ok) \in Working
          /\ WriteChunks(s, p, ok).w.ibuf = s.w.ibuf /\ WriteChunks(s, p, ok).w.wroteStreamHeader = TRUE
          /\ Headed(r, TRUE, WriteChunks(s, p, ok).chunks) /\ Sent(WriteChunks(s, p, ok), s, r, g, u, p, ok)
      BY <1>0, <2>1, <2>2, <2>3, SendKeeps
    <3> QED
      BY <3>1 DEF x
  <2>5. PICK k \in 0..Len(p) :
            /\ x.n = s.n + k
            /\ \/ x.w.err = "nil" /\ Running(<<>>, x.chunks, u \o Bytes0(p, 0, k), r, g)
               \/ x.w.err = "broken" /\ Severed(x.chunks, u \o Bytes0(p, 0, k), r, g)
    BY <2>4, Zenon DEF Sent
  <2> DEFINE y == u \o Bytes0(p, 0, k)
  <2>6. y \in Seq(Octet)
    BY <1>0, StartsBehind
  <2> HIDE DEF y
  <2>7. x.w \in WriterType /\ x.chunks \in Seq(Chunk) /\ x.w.ibuf = <<>>
    BY <1>0, <2>4 DEF Working
  <2>8. StreamType(x.w, x.chunks, y, r, g)
    <3>1. Len(x.w.ibuf) <= MaxBlockSize
      BY <2>7, SnapConstants
    <3> QED
      BY <1>0, <2>4, <2>6, <2>7, <3>1 DEF StreamType
  <2>9. Sound(x.w, x.chunks, y, r, g)
    BY <2>5, <2>7, <2>8 DEF Sound, y
  <2> QED
    BY <2>4, <2>5, <2>9, Zenon DEF Took, x, y
<1> QED
  BY <1>1, <1>2

\* What fits the buffer goes there.
LEMMA FillKeeps ==
    ASSUME NEW s \in Fine, NEW u, NEW r, NEW g, Sound(s.w, s.chunks, u, r, g), Buffered,
           NEW p \in Seq(Octet), Len(p) <= Room(s)
    PROVE  /\ FillIbuf(s, p) \in Fine /\ FillIbuf(s, p).n = s.n + Len(p)
           /\ FillIbuf(s, p).w.ibuf = s.w.ibuf \o p
           /\ Sound(FillIbuf(s, p).w, FillIbuf(s, p).chunks, u \o p, r, g)
<1> DEFINE x == FillIbuf(s, p)
           b == s.w.ibuf \o p
<1>0. /\ s.w \in WriterType /\ r \in ReaderType /\ u \in Seq(Octet) /\ g \in Seq(Octet) /\ s.chunks \in Seq(Chunk)
      /\ Headed(r, s.w.wroteStreamHeader, s.chunks)
  BY Zenon DEF Sound, StreamType
<1>1. s \in Working /\ s.w.err = "nil"
  BY DEF Fine
<1>2. b \in Seq(Octet) /\ Len(b) <= MaxBlockSize
  <2>1. s.w.ibuf \in Seq(Octet)
    BY <1>0 DEF WriterType
  <2>2. Len(b) = Len(s.w.ibuf) + Len(p) /\ Len(p) \in Nat /\ Len(s.w.ibuf) \in Nat
    BY <2>1
  <2> QED
    BY <2>1, <2>2, SnapConstants DEF Room
<1>3. x = [s EXCEPT !.w.ibuf = b, !.n = @ + Len(p)]
  BY DEF FillIbuf
<1>4. x.w = [s.w EXCEPT !.ibuf = b] /\ x.n = s.n + Len(p) /\ x.chunks = s.chunks
  BY <1>1, <1>3 DEF Working
<1> HIDE DEF x, b
<1>5. x.w \in WriterType /\ x.w.ibuf = b /\ x.w.err = "nil" /\ x.w.wroteStreamHeader = s.w.wroteStreamHeader
  BY <1>0, <1>1, <1>2, <1>4 DEF WriterType
<1>6. x \in Working
  <2>1. s.n + Len(p) \in Nat
    BY <1>1 DEF Working
  <2> DEFINE w == [s.w EXCEPT !.ibuf = b]
  <2>2. w \in WriterType
    BY <1>4, <1>5
  <2>3. x = [s EXCEPT !.w = w, !.n = s.n + Len(p)]
    BY <1>1, <1>3 DEF Working
  <2> HIDE DEF w
  <2> QED
    BY <1>1, <2>1, <2>2, <2>3 DEF Working
<1>7. Running(b, x.chunks, u \o p, r, g)
  <2>1. Running(s.w.ibuf, s.chunks, u, r, g)
    BY <1>1 DEF Sound
  <2>2. r.err = "nil"
    BY <2>1 DEF Running
  <2>3. PICK t \in Seq(Octet) : Reads(r, g, s.chunks, t) /\ u = t \o s.w.ibuf
    BY <2>1 DEF Running
  <2>4. u \o p = t \o b
    <3> DEFINE i == s.w.ibuf
    <3>1. i \in Seq(Octet)
      BY <1>0 DEF WriterType
    <3> HIDE DEF i
    <3>2. Associates(t, i, p)
      BY <3>1, ConcatAssociates, Zenon
    <3> QED
      BY <2>3, <3>2 DEF Associates, i, b
  <2>5. Reads(r, g, x.chunks, t)
    BY <1>4, <2>3
  <2> QED
    BY <2>2, <2>4, <2>5, Zenon DEF Running
<1>8. u \o p \in Seq(Octet)
  BY <1>0
<1>9. StreamType(x.w, x.chunks, u \o p, r, g)
  BY <1>0, <1>2, <1>4, <1>5, <1>8 DEF StreamType
<1>10. Sound(x.w, x.chunks, u \o p, r, g)
  BY <1>5, <1>7, <1>9 DEF Sound
<1> QED
  BY <1>4, <1>5, <1>6, <1>10 DEF Fine, x, b

\* The writer x came from s by flushing its buffer.
Flushed(x, s, ok, u, r, g) ==
    /\ x \in Working /\ x.n = s.n /\ Sound(x.w, x.chunks, u, r, g)
    /\ x.w.err = "nil" => Empty(x.w)
    /\ x.w.err = "nil" /\ s.w.err = "nil" /\ ~Empty(s.w) => ok >= 1

LEMMA FlushKeeps ==
    ASSUME NEW s \in Working, NEW u, NEW r, NEW g, Sound(s.w, s.chunks, u, r, g), NEW ok \in Nat
    PROVE  Flushed(FlushIbuf(s, ok), s, ok, u, r, g)
<1> DEFINE x == FlushIbuf(s, ok)
           i == s.w.ibuf
           z == WriteChunks(s, i, ok)
<1>0. /\ s.w \in WriterType /\ r \in ReaderType /\ u \in Seq(Octet) /\ g \in Seq(Octet)
      /\ Headed(r, s.w.wroteStreamHeader, s.chunks)
  BY Zenon DEF Sound, StreamType
<1>1. CASE s.w.err # "nil" \/ s.w.ibuf = <<>>
  <2>1. x = s
    BY <1>1 DEF FlushIbuf
  <2> QED
    BY <1>1, <2>1 DEF Flushed, Empty
<1>2. CASE s.w.err = "nil" /\ s.w.ibuf # <<>>
  <2>1. s \in Fine /\ i \in Seq(Octet) \ {<<>>}
    BY <1>0, <1>2 DEF Fine, WriterType
  <2>2. Running(i, s.chunks, u, r, g)
    BY <1>2 DEF Sound
  <2>3. PICK t \in Seq(Octet) : Reads(r, g, s.chunks, t) /\ u = t \o i
    BY <2>2 DEF Running
  <2>4. r \in Sane
    BY <1>0, <2>2 DEF Running, Sane
  <2>5. x = [z EXCEPT !.w.ibuf = <<>>, !.n = s.n]
    BY <1>2 DEF FlushIbuf
  <2> HIDE DEF x
  <2>6. z \in Working /\ z.w.wroteStreamHeader = TRUE /\ Headed(r, TRUE, z.chunks) /\ Sent(z, s, r, g, t, i, ok)
    BY <1>0, <2>1, <2>3, <2>4, SendKeeps
  <2> HIDE DEF z, i
  <2>7. PICK k \in 0..Len(i) :
            \/ z.w.err = "nil" /\ k = Len(i) /\ ok >= 1 /\ Running(<<>>, z.chunks, t \o Bytes0(i, 0, k), r, g)
            \/ z.w.err = "broken" /\ Severed(z.chunks, t \o Bytes0(i, 0, k), r, g)
    BY <2>6, Zenon DEF Sent
  <2>8. x.w = [z.w EXCEPT !.ibuf = <<>>] /\ x.n = s.n /\ x.chunks = z.chunks
    BY <2>5, <2>6 DEF Working
  <2>9. x.w \in WriterType /\ x.w.ibuf = <<>> /\ x.w.err = z.w.err /\ x.w.wroteStreamHeader = TRUE
    <3>1. z.w \in WriterType /\ <<>> \in Seq(Octet)
      BY <2>6 DEF Working
    <3> QED
      BY <2>6, <2>8, <3>1 DEF WriterType
  <2>10. x \in Working
    <3> DEFINE w == [z.w EXCEPT !.ibuf = <<>>]
    <3>1. w \in WriterType
      BY <2>8, <2>9
    <3>2. x = [z EXCEPT !.w = w, !.n = s.n] /\ s.n \in Nat
      BY <2>5, <2>6 DEF Working
    <3> HIDE DEF w
    <3> QED
      BY <2>6, <3>1, <3>2 DEF Working
  <2>11. x.w.err = "nil" => ok >= 1 /\ Running(<<>>, x.chunks, u, r, g)
    <3> SUFFICES ASSUME x.w.err = "nil" PROVE ok >= 1 /\ Running(<<>>, x.chunks, u, r, g)
      OBVIOUS
    <3>1. k = Len(i) /\ ok >= 1 /\ Running(<<>>, z.chunks, t \o Bytes0(i, 0, k), r, g)
      BY <2>7, <2>9
    <3>2. Bytes0(i, 0, k) = i
      BY <2>1, <3>1, BytesAll
    <3> QED
      BY <2>3, <2>8, <3>1, <3>2
  <2>12. x.w.err # "nil" => x.w.err = "broken" /\ Severed(x.chunks, u, r, g)
    <3> SUFFICES ASSUME x.w.err # "nil" PROVE x.w.err = "broken" /\ Severed(x.chunks, u, r, g)
      OBVIOUS
    <3> DEFINE y == t \o Bytes0(i, 0, k)
    <3>1. x.w.err = "broken" /\ Severed(x.chunks, y, r, g)
      BY <2>7, <2>8, <2>9
    <3>2. y \in Seq(Octet) /\ Starts(y, u)
      BY <2>1, <2>3, StartsBehind
    <3> HIDE DEF y
    <3> QED
      BY <1>0, <3>1, <3>2, SeveredMore
  <2>13. StreamType(x.w, x.chunks, u, r, g)
    <3>1. Len(x.w.ibuf) <= MaxBlockSize
      BY <2>9, SnapConstants
    <3>2. x.chunks \in Seq(Chunk)
      BY <2>10 DEF Working
    <3>3. Headed(r, TRUE, x.chunks)
      BY <2>6, <2>8
    <3> QED
      BY <1>0, <2>9, <3>1, <3>2, <3>3 DEF StreamType
  <2>14. Sound(x.w, x.chunks, u, r, g)
    BY <2>9, <2>11, <2>12, <2>13 DEF Sound
  <2> QED
    BY <2>8, <2>9, <2>10, <2>11, <2>14 DEF Flushed, Empty, x
<1> QED
  BY <1>1, <1>2

LEMMA WriteLastKeeps ==
    ASSUME NEW s \in Working, NEW u, NEW r, NEW g, Sound(s.w, s.chunks, u, r, g), Buffered,
           NEW p \in Seq(Octet), NEW ok, s \in Fine => ok \in Nat /\ (Empty(s.w) \/ Len(p) <= Room(s))
    PROVE  Took(WriteLast(s, p, ok), s, p, u, r, g)
<1> DEFINE x == WriteLast(s, p, ok)
<1>1. CASE s.w.err # "nil"
  <2>1. x = s
    BY <1>1 DEF WriteLast
  <2> QED
    BY <2>1, TookNothing
<1>2. CASE s.w.err = "nil" /\ Len(p) <= Room(s)
  <2>1. x = FillIbuf(s, p) /\ s \in Fine
    BY <1>2 DEF WriteLast, Fine
  <2> HIDE DEF x
  <2>2. x \in Working /\ x.n = s.n + Len(p) /\ Sound(x.w, x.chunks, u \o p, r, g)
    BY <1>2, <2>1, FillKeeps DEF Fine
  <2>3. Bytes0(p, 0, Len(p)) = p /\ Len(p) \in 0..Len(p)
    BY BytesAll
  <2> QED
    BY <2>2, <2>3 DEF Took, x
<1>3. CASE s.w.err = "nil" /\ ~(Len(p) <= Room(s))
  <2>1. x = WriteChunks(s, p, ok) /\ s \in Fine
    BY <1>3 DEF WriteLast, Fine
  <2>2. Empty(s.w) /\ ok \in Nat
    BY <1>3, <2>1
  <2> QED
    BY <2>1, <2>2, DirectKeeps
<1> QED
  BY <1>1, <1>2, <1>3

LEMMA WriteLoopKeeps ==
    ASSUME NEW s \in Working, NEW u, NEW r, NEW g, Sound(s.w, s.chunks, u, r, g), Buffered,
           NEW p \in Seq(Octet), NEW ok \in Nat
    PROVE  Took(WriteLoop(s, p, ok), s, p, u, r, g)
<1> DEFINE x == WriteLoop(s, p, ok)
           a == Room(s)
           n == Len(p)
           p1 == Bytes0(p, 0, a)
           p2 == Bytes0(p, a, n)
           f == FillIbuf(s, p1)
           e == FlushIbuf(f, ok)
           z == WriteLast(e, p2, ok - 1)
           v == u \o p1
<1> HIDE DEF x, a, n, p1, p2, f, e, z, v
<1>0. s.w \in WriterType /\ u \in Seq(Octet) /\ Len(s.w.ibuf) <= MaxBlockSize
  BY Zenon DEF Sound, StreamType
<1>1. CASE ~(s.w.err = "nil" /\ n > a /\ s.w.ibuf # <<>>)
  <2>1. x = WriteLast(s, p, ok)
    BY <1>1 DEF WriteLoop, x, n, a
  <2>2. s \in Fine => Empty(s.w) \/ Len(p) <= Room(s)
    <3>1. Len(p) \in Nat /\ Room(s) \in Int
      BY <1>0, SnapConstants DEF Room, WriterType
    <3> QED
      BY <1>1, <3>1 DEF Fine, Empty, n, a
  <2>3. s \in Fine => ok \in Nat /\ (Empty(s.w) \/ Len(p) <= Room(s))
    BY <2>2
  <2>4. Took(WriteLast(s, p, ok), s, p, u, r, g)
    BY <2>3, WriteLastKeeps
  <2> QED
    BY <2>1, <2>4 DEF x
<1>2. CASE s.w.err = "nil" /\ n > a /\ s.w.ibuf # <<>>
  <2>1. x = z
    BY <1>2 DEF WriteLoop, x, n, a, z, e, f, p1, p2
  <2>2. a \in Nat /\ n \in Nat /\ a <= n /\ n <= Len(p)
    BY <1>0, <1>2, SnapConstants DEF Room, a, n, WriterType
  <2>3. p1 \in Seq(Octet) /\ Len(p1) = a /\ p2 \in Seq(Octet) /\ Len(p2) = n - a
    BY <2>2 DEF Bytes0, p1, p2
  <2>4. Len(p1) <= Room(s) /\ s \in Fine
    BY <1>2, <2>2, <2>3 DEF a, Fine
  <2>5. f \in Fine /\ f.n = s.n + a /\ f.w.ibuf = s.w.ibuf \o p1 /\ Sound(f.w, f.chunks, v, r, g)
    <3>1. /\ FillIbuf(s, p1) \in Fine /\ FillIbuf(s, p1).n = s.n + Len(p1)
          /\ FillIbuf(s, p1).w.ibuf = s.w.ibuf \o p1
          /\ Sound(FillIbuf(s, p1).w, FillIbuf(s, p1).chunks, u \o p1, r, g)
      BY <2>3, <2>4, FillKeeps
    <3> QED
      BY <2>3, <3>1 DEF f, v
  <2>6. f \in Working /\ f.w.err = "nil" /\ ~Empty(f.w)
    <3>1. s.w.ibuf \o p1 # <<>>
      BY <1>0, <1>2, <2>3 DEF WriterType
    <3> QED
      BY <2>5, <3>1 DEF Fine, Empty
  <2>7. Flushed(e, f, ok, v, r, g)
    BY <2>5, <2>6, FlushKeeps DEF e
  <2>8. e \in Working /\ e.n = s.n + a /\ Sound(e.w, e.chunks, v, r, g)
    BY <2>5, <2>7 DEF Flushed
  <2>9. e \in Fine => ok - 1 \in Nat /\ (Empty(e.w) \/ Len(p2) <= Room(e))
    BY <2>6, <2>7 DEF Flushed, Fine
  <2>10. Took(z, e, p2, v, r, g)
    BY <2>3, <2>8, <2>9, WriteLastKeeps DEF z
  <2>11. z \in Working
    BY <2>10 DEF Took
  <2>12. PICK j \in 0..Len(p2) : z.n = e.n + j /\ Sound(z.w, z.chunks, v \o Bytes0(p2, 0, j), r, g)
    BY <2>10, Zenon DEF Took
  <2> DEFINE k == a + j
             q == Bytes0(p2, 0, j)
  <2>13. k \in 0..Len(p) /\ z.n = s.n + k
    <3>1. z.n = (s.n + a) + j
      BY <2>8, <2>12
    <3>2. s.n \in Nat /\ j \in Nat /\ j <= n - a
      BY <2>3 DEF Working
    <3> QED
      BY <2>2, <3>1, <3>2 DEF n
  <2>14. v \o q = u \o Bytes0(p, 0, k)
    <3>1. q = Bytes0(p, a, k)
      <4>1. j \in Nat /\ j <= n - a /\ 0 <= j /\ 0 \in Nat
        BY <2>2, <2>3
      <4>2. Bytes0(Bytes0(p, a, n), 0, j) = Bytes0(p, a + 0, a + j)
        BY <2>2, <4>1, BytesOfBytes
      <4> QED
        BY <2>2, <4>2 DEF p2
    <3>2. k \in Nat /\ a <= k /\ k <= Len(p)
      BY <2>2, <2>13
    <3>3. Joins(p, a, k)
      BY <2>2, <3>2, BytesJoins
    <3>4. q \in Seq(Octet)
      BY <2>3, StartsBehind
    <3> HIDE DEF k, q
    <3>5. p1 \o q = Bytes0(p, 0, k)
      BY <3>1, <3>3 DEF Joins, p1
    <3>6. Associates(u, p1, q)
      BY <1>0, <2>3, <3>4, ConcatAssociates
    <3> QED
      BY <3>5, <3>6 DEF Associates, v
  <2>15. Sound(z.w, z.chunks, u \o Bytes0(p, 0, k), r, g)
    BY <2>12, <2>14
  <2> HIDE DEF k, q
  <2> QED
    BY <2>1, <2>11, <2>13, <2>15, Zenon DEF Took, x
<1> QED
  BY <1>1, <1>2

(***************************************************************************)
(* The actions of the stream.                                              *)
(***************************************************************************)
LEMMA InitSays == ASSUME SnapInit PROVE SnapInv
<1>1. writer = NewW /\ reader = NewR /\ chunks = <<>> /\ written = <<>> /\ got = <<>> /\ writes = 0
  BY DEF SnapInit
<1>2. NewW \in WriterType /\ NewR \in ReaderType /\ <<>> \in Seq(Octet) /\ <<>> \in Seq(Chunk)
  BY DEF NewW, NewR, WriterType, ReaderType
<1>3. Reads(NewR, <<>>, <<>>, <<>>)
  <2>1. <<>> \o NewR.pending = <<>> /\ Len(<<>>) = 0 /\ 0 \in Nat
    BY DEF NewR
  <2>2. Starts(<<>>, <<>>)
    BY <1>2, StartsSelf
  <2>3. Chain(Carries(<<>>), <<>>, 0, 0)
    BY <2>1, ChainEmpty
  <2> QED
    BY <1>2, <2>1, <2>2, <2>3 DEF Reads
<1>4. Running(<<>>, <<>>, <<>>, NewR, <<>>)
  <2>1. <<>> = <<>> \o <<>> /\ NewR.err = "nil"
    BY DEF NewR
  <2> QED
    BY <1>2, <1>3, <2>1 DEF Running
<1>5. NewW.ibuf = <<>> /\ Len(<<>>) <= MaxBlockSize /\ NewW.err = "nil" /\ NewW.wroteStreamHeader = FALSE
  BY SnapConstants DEF NewW
<1>6. Headed(NewR, FALSE, <<>>)
  BY DEF Headed
<1>7. StreamType(NewW, <<>>, <<>>, NewR, <<>>)
  BY <1>2, <1>5, <1>6 DEF StreamType
<1>8. Sound(NewW, <<>>, <<>>, NewR, <<>>)
  BY <1>4, <1>5, <1>7 DEF Sound
<1> QED
  BY <1>1, <1>8 DEF SnapInv

LEMMA NowWorks ==
    ASSUME SnapInv
    PROVE  /\ Now0 \in Working /\ Now0.n = 0 /\ Now0.w = writer /\ Now0.chunks = chunks
           /\ Sound(Now0.w, Now0.chunks, written, reader, got) /\ written \in Seq(Octet) /\ writer \in WriterType
<1>1. writer \in WriterType /\ chunks \in Seq(Chunk) /\ written \in Seq(Octet)
  BY Zenon DEF SnapInv, Sound, StreamType
<1>2. Now0.n = 0 /\ Now0.w = writer /\ Now0.chunks = chunks
  BY DEF Now0
<1>3. Now0 \in Working
  BY <1>1 DEF Now0, Working
<1>4. Sound(Now0.w, Now0.chunks, written, reader, got)
  BY <1>2 DEF SnapInv
<1> QED
  BY <1>1, <1>2, <1>3, <1>4

LEMMA WriteKeeps ==
    ASSUME SnapInv, writes < Len(SnapInputs), NEW p \in SnapInputs[writes + 1], NEW ok \in 0..3, SnapWrite(p, ok)
    PROVE  SnapInv'
<1> DEFINE x == IF Buffered THEN WriteLoop(Now0, p, ok) ELSE WriteChunks(Now0, p, ok)
<1>1. writes' = writes + 1 /\ writer' = x.w /\ chunks' = x.chunks
      /\ written' = written \o Bytes0(p, 0, x.n) /\ reader' = reader /\ got' = got
  BY DEF SnapWrite, Becomes
<1> HIDE DEF x
<1>2. writes \in Nat
  BY DEF SnapInv
<1>3. p \in Seq(Octet) /\ ok \in Nat
  <2>1. writes + 1 \in 1..Len(SnapInputs) /\ SnapInputs \in Seq(SUBSET Seq(0..ByteSize - 1))
    BY <1>2, SnappyAssumption
  <2>2. SnapInputs[writes + 1] \in SUBSET Seq(0..ByteSize - 1)
    BY <2>1
  <2> QED
    BY <2>2 DEF Octet
<1>4. Took(x, Now0, p, written, reader, got)
  <2>1. Now0 \in Working /\ Sound(Now0.w, Now0.chunks, written, reader, got)
    BY NowWorks
  <2>2. CASE Buffered
    <3>1. x = WriteLoop(Now0, p, ok)
      BY <2>2 DEF x
    <3> QED
      BY <1>3, <2>1, <2>2, <3>1, WriteLoopKeeps
  <2>3. CASE ~Buffered
    <3>1. x = WriteChunks(Now0, p, ok)
      BY <2>3 DEF x
    <3>2. Empty(Now0.w)
      BY <2>1, <2>3 DEF Sound, StreamType, Empty
    <3> QED
      BY <1>3, <2>1, <3>1, <3>2, DirectKeeps
  <2> QED
    BY <2>2, <2>3
<1>5. PICK k \in 0..Len(p) : x.n = Now0.n + k /\ Sound(x.w, x.chunks, written \o Bytes0(p, 0, k), reader, got)
  BY <1>4, Zenon DEF Took
<1>6. x.n = k
  BY <1>5, NowWorks
<1>7. Sound(writer', chunks', written', reader', got')
  BY <1>1, <1>5, <1>6
<1>8. writes' \in Nat
  BY <1>1, <1>2
<1> QED
  BY <1>7, <1>8 DEF SnapInv

LEMMA SnapFlushKeeps == ASSUME SnapInv, NEW ok \in 0..1, SnapFlush(ok) PROVE SnapInv'
<1> DEFINE x == FlushIbuf(Now0, ok)
<1>1. writes' = writes /\ writer' = x.w /\ chunks' = x.chunks /\ written' = written /\ reader' = reader /\ got' = got
  BY DEF SnapFlush, Becomes
<1>2. Flushed(x, Now0, ok, written, reader, got)
  BY NowWorks, FlushKeeps
<1>3. Sound(x.w, x.chunks, written, reader, got)
  BY <1>2 DEF Flushed
<1> HIDE DEF x
<1>4. Sound(writer', chunks', written', reader', got')
  BY <1>1, <1>3
<1>5. writes' \in Nat
  BY <1>1 DEF SnapInv
<1> QED
  BY <1>4, <1>5 DEF SnapInv

LEMMA SnapCloseKeeps == ASSUME SnapInv, NEW ok \in 0..1, SnapClose(ok) PROVE SnapInv'
<1> DEFINE x == FlushIbuf(Now0, ok)
           y == IF x.w.err = "nil" THEN [x EXCEPT !.w.err = "closed"] ELSE x
<1>1. writes' = writes /\ writer' = y.w /\ chunks' = y.chunks /\ written' = written /\ reader' = reader /\ got' = got
  BY DEF SnapClose, Becomes
<1>2. Flushed(x, Now0, ok, written, reader, got)
  BY NowWorks, FlushKeeps
<1>3. x \in Working /\ Sound(x.w, x.chunks, written, reader, got)
  BY <1>2 DEF Flushed
<1> HIDE DEF x
<1>4. Sound(y.w, y.chunks, written, reader, got)
  <2>1. CASE x.w.err = "nil"
    <3>1. y.w = [x.w EXCEPT !.err = "closed"] /\ y.chunks = x.chunks
      BY <1>3, <2>1 DEF Working
    <3> HIDE DEF y
    <3>2. x.w \in WriterType
      BY <1>3 DEF Working
    <3>3. /\ y.w \in WriterType /\ y.w.err = "closed" /\ y.w.ibuf = x.w.ibuf
          /\ y.w.wroteStreamHeader = x.w.wroteStreamHeader
      BY <3>1, <3>2 DEF WriterType
    <3>4. StreamType(x.w, x.chunks, written, reader, got) /\ Running(x.w.ibuf, x.chunks, written, reader, got)
      BY <1>3, <2>1 DEF Sound
    <3>5. StreamType(y.w, y.chunks, written, reader, got)
      BY <3>1, <3>3, <3>4 DEF StreamType
    <3>6. Running(y.w.ibuf, y.chunks, written, reader, got)
      BY <3>1, <3>3, <3>4
    <3> QED
      BY <3>3, <3>5, <3>6 DEF Sound
  <2>2. CASE x.w.err # "nil"
    BY <1>3, <2>2
  <2> QED
    BY <2>1, <2>2
<1> HIDE DEF y
<1>5. Sound(writer', chunks', written', reader', got')
  BY <1>1, <1>4
<1>6. writes' \in Nat
  BY <1>1 DEF SnapInv
<1> QED
  BY <1>5, <1>6 DEF SnapInv

LEMMA ResetKeeps == ASSUME SnapInv, WriterReset PROVE SnapInv'
<1> DEFINE b == writer.ibuf
           u == Bytes0(written, 0, Len(written) - Len(b))
<1>1. writer.err # "broken" /\ writer' = NewW /\ written' = u /\ reader' = reader /\ chunks' = chunks /\ got' = got
      /\ writes' = writes
  BY DEF WriterReset
<1>2. /\ writer \in WriterType /\ reader \in ReaderType /\ written \in Seq(Octet) /\ got \in Seq(Octet)
      /\ chunks \in Seq(Chunk) /\ Headed(reader, writer.wroteStreamHeader, chunks)
  BY Zenon DEF SnapInv, Sound, StreamType
<1>3. Running(b, chunks, written, reader, got)
  BY <1>1 DEF SnapInv, Sound
<1>4. PICK t \in Seq(Octet) : Reads(reader, got, chunks, t) /\ written = t \o b
  BY <1>3 DEF Running
<1>5. u = t
  <2>1. b \in Seq(Octet)
    BY <1>2 DEF WriterType
  <2> HIDE DEF b
  <2>2. Len(t) \in Nat /\ Len(written) - Len(b) = Len(t)
    BY <1>4, <2>1
  <2>3. Bytes0(t \o b, 0, Len(t)) = Bytes0(t, 0, Len(t))
    BY <2>1, <2>2, BytesOfConcat
  <2>4. Bytes0(t, 0, Len(t)) = t
    BY BytesAll
  <2> QED
    BY <1>4, <2>2, <2>3, <2>4
<1> HIDE DEF u
<1>6. Running(<<>>, chunks, u, reader, got)
  <2>1. reader.err = "nil" /\ t = t \o <<>>
    BY <1>3, ConcatEmpty DEF Running
  <2> QED
    BY <1>4, <1>5, <2>1 DEF Running
<1>7. NewW \in WriterType /\ NewW.ibuf = <<>> /\ Len(<<>>) <= MaxBlockSize /\ NewW.err = "nil"
      /\ NewW.wroteStreamHeader = FALSE
  BY SnapConstants DEF NewW, WriterType
<1>8. Headed(reader, FALSE, chunks)
  BY <1>2, Zenon DEF Headed
<1>9. StreamType(NewW, chunks, u, reader, got)
  BY <1>2, <1>5, <1>7, <1>8 DEF StreamType
<1>10. Sound(NewW, chunks, u, reader, got)
  BY <1>6, <1>7, <1>9 DEF Sound
<1>11. Sound(writer', chunks', written', reader', got')
  BY <1>1, <1>10
<1>12. writes' \in Nat
  BY <1>1 DEF SnapInv
<1> QED
  BY <1>11, <1>12 DEF SnapInv

LEMMA ChunkOfValues ==
    ASSUME NEW p \in Seq(Octet)
    PROVE  /\ ChunkOf(p).type \in {"compressed", "uncompressed"} /\ ChunkOf(p).sum = p
           /\ ChunkOf(p).type = "compressed" => ChunkOf(p).body = SnapEncode(p)
           /\ ChunkOf(p).type = "uncompressed" => ChunkOf(p).body = p
<1> DEFINE b == SnapEncode(p)
           big == EncodedLen(b) >= Len(p) - Len(p) \div 8
<1>1. ChunkOf(p) = IF big THEN [type |-> "uncompressed", sum |-> p, body |-> p]
                          ELSE [type |-> "compressed", sum |-> p, body |-> b]
  BY DEF ChunkOf
<1> HIDE DEF big, b
<1>2. ChunkOf(p).type \in {"compressed", "uncompressed"} /\ ChunkOf(p).sum = p
      /\ (ChunkOf(p).type = "compressed" => ChunkOf(p).body = b)
      /\ (ChunkOf(p).type = "uncompressed" => ChunkOf(p).body = p)
  BY <1>1
<1> QED
  BY <1>2 DEF b

\* A reader that takes over g2 and r2 what g and r had.
LEMMA SoundSame ==
    ASSUME NEW w, NEW ch, NEW u, NEW r \in ReaderType, NEW g, Sound(w, ch, u, r, g),
           NEW r2 \in ReaderType, NEW g2 \in Seq(Octet), g2 \o r2.pending = g \o r.pending,
           r2.err = r.err, r2.readHeader = r.readHeader
    PROVE  Sound(w, ch, u, r2, g2)
<1>1. ASSUME NEW cs, NEW t, Reads(r, g, cs, t) PROVE Reads(r2, g2, cs, t)
  BY <1>1 DEF Reads
<1>2. Running(w.ibuf, ch, u, r, g) => Running(w.ibuf, ch, u, r2, g2)
  BY <1>1 DEF Running
<1>3. Severed(ch, u, r, g) => Severed(ch, u, r2, g2)
  BY <1>1 DEF Severed
<1>4. StreamType(w, ch, u, r2, g2)
  <2>1. StreamType(w, ch, u, r, g)
    BY DEF Sound
  <2>2. Headed(r2, w.wroteStreamHeader, ch)
    BY <2>1, Zenon DEF StreamType, Headed
  <2> QED
    BY <2>1, <2>2, Zenon DEF StreamType
<1> QED
  BY <1>2, <1>3, <1>4 DEF Sound

LEMMA SnapReadKeeps == ASSUME SnapInv, NEW n \in {3, MaxBlockSize}, SnapRead(n) PROVE SnapInv'
<1> DEFINE b == reader.pending
           k == IF n > Len(b) THEN Len(b) ELSE n
           x == Bytes0(b, 0, k)
           y == Bytes0(b, k, Len(b))
<1>1. /\ got' = got \o x /\ reader' = [reader EXCEPT !.pending = y]
      /\ writer' = writer /\ chunks' = chunks /\ written' = written /\ writes' = writes
  BY DEF SnapRead
<1>2. reader \in ReaderType /\ got \in Seq(Octet) /\ Sound(writer, chunks, written, reader, got) /\ writes \in Nat
  BY Zenon DEF SnapInv, Sound, StreamType
<1>3. b \in Seq(Octet)
  BY <1>2 DEF ReaderType
<1> HIDE DEF b
<1>4. k \in Nat /\ k <= Len(b) /\ Len(b) \in Nat /\ Len(b) <= Len(b)
  BY <1>3, SnapConstants
<1> HIDE DEF k
<1>5. x \in Seq(Octet) /\ y \in Seq(Octet)
  BY <1>3, <1>4 DEF Bytes0
<1>6. x \o y = b
  <2>1. Joins(b, k, Len(b))
    BY <1>3, <1>4, BytesJoins
  <2>2. Bytes0(b, 0, Len(b)) = b
    BY <1>3, BytesAll
  <2> QED
    BY <2>1, <2>2 DEF Joins
<1> HIDE DEF x, y
<1>7. reader' \in ReaderType /\ reader'.pending = y /\ reader'.err = reader.err
      /\ reader'.readHeader = reader.readHeader
  BY <1>1, <1>2, <1>5 DEF ReaderType
<1>8. got' \in Seq(Octet)
  BY <1>1, <1>2, <1>5
<1>9. got' \o reader'.pending = got \o reader.pending
  <2>1. Associates(got, x, y)
    BY <1>2, <1>5, ConcatAssociates
  <2> QED
    BY <1>1, <1>6, <1>7, <2>1 DEF Associates, b
<1>10. Sound(writer, chunks, written, reader', got')
  BY <1>2, <1>7, <1>8, <1>9, SoundSame
<1>11. Sound(writer', chunks', written', reader', got')
  BY <1>1, <1>10
<1> QED
  BY <1>1, <1>2, <1>11 DEF SnapInv

\* The reader takes the first of the chunks cs it still will read.
LEMMA ReadChunkReads ==
    ASSUME SnapInv, ReadChunk, NEW t \in Seq(Octet), NEW cs \in Seq(Chunk) \ {<<>>},
           Reads(reader, got, cs, t), Head(chunks) = Head(cs)
    PROVE  /\ reader' \in ReaderType /\ reader'.err = "nil" /\ reader'.readHeader = TRUE
           /\ Reads(reader', got, Tail(cs), t)
<1> DEFINE c == Head(chunks)
           d == IF c.type = "compressed" THEN SnapDecode(c.body) ELSE [ok |-> TRUE, bytes |-> c.body]
           a == Len(got)
           corrupt == \/ c.type # "identifier" /\ ~reader.readHeader
                      \/ c.type = "torn"
                      \/ c.type # "identifier" /\ (~d.ok \/ Len(d.bytes) > MaxBlockSize \/ d.bytes # c.sum)
<1>1. reader.err = "nil" /\ reader.pending = <<>> /\ chunks # <<>>
  BY DEF ReadChunk
<1>0. reader' = IF corrupt THEN [reader EXCEPT !.err = "corrupt"]
               ELSE IF c.type = "identifier" THEN [reader EXCEPT !.readHeader = TRUE]
               ELSE [reader EXCEPT !.pending = d.bytes]
  BY Zenon DEF ReadChunk
<1>2. /\ reader \in ReaderType /\ got \in Seq(Octet) /\ chunks \in Seq(Chunk)
      /\ Headed(reader, writer.wroteStreamHeader, chunks)
  BY Zenon DEF SnapInv, Sound, StreamType
<1>3. got \o reader.pending = got
  BY <1>1, <1>2, ConcatEmpty
<1>4. Starts(got, t) /\ Chain(Carries(t), cs, a, Len(t))
  BY <1>3 DEF Reads
<1>5. PICK m \in Nat : <<a, Head(cs), m>> \in Carries(t) /\ Chain(Carries(t), Tail(cs), m, Len(t))
  BY <1>4, ChainHead
<1>6. a \in Nat /\ m <= Len(t) /\ Tail(cs) \in Seq(Chunk)
  BY <1>2, <1>5 DEF Carries
<1>7. ~reader.readHeader => c = Magic
  <2>1. ~reader.readHeader => chunks[1] = Magic
    BY <1>1, <1>2, Zenon DEF Headed
  <2>2. Head(chunks) = chunks[1]
    BY <1>1, <1>2
  <2> QED
    BY <2>1, <2>2, Zenon
<1>8. CASE c = Magic /\ a = m
  <2>1. c.type = "identifier"
    BY <1>8 DEF Magic
  <2>2. reader' = [reader EXCEPT !.readHeader = TRUE]
    BY <1>0, <2>1
  <2>3. reader' \in ReaderType /\ reader'.err = "nil" /\ reader'.readHeader = TRUE /\ reader'.pending = <<>>
    BY <1>1, <1>2, <2>2 DEF ReaderType
  <2>4. got \o reader'.pending = got
    BY <1>2, <2>3, ConcatEmpty
  <2>5. Chain(Carries(t), Tail(cs), a, Len(t))
    BY <1>5, <1>8
  <2> QED
    BY <1>4, <1>6, <2>3, <2>4, <2>5 DEF Reads
<1>9. CASE a < m /\ m - a <= MaxBlockSize /\ c = ChunkOf(Bytes0(t, a, m))
  <2> DEFINE p == Bytes0(t, a, m)
  <2>1. p \in Seq(Octet) /\ Len(p) = m - a
    BY <1>6, <1>9 DEF Bytes0
  <2>2. Joins(t, a, m) /\ Bytes0(t, 0, m) \in Seq(Octet) /\ Len(Bytes0(t, 0, m)) = m
    <3>1. a <= m
      BY <1>6, <1>9
    <3> QED
      BY <1>6, <3>1, BytesJoins
  <2>3. got = Bytes0(t, 0, a)
    BY <1>4 DEF Starts
  <2>4. got \o p = Bytes0(t, 0, m)
    BY <2>2, <2>3 DEF Joins
  <2> HIDE DEF p
  <2>5. c = ChunkOf(p)
    BY <1>9 DEF p
  <2>6. /\ c.type \in {"compressed", "uncompressed"} /\ c.sum = p
        /\ c.type = "compressed" => c.body = SnapEncode(p)
        /\ c.type = "uncompressed" => c.body = p
    BY <2>1, <2>5, ChunkOfValues
  <2>7. d = [ok |-> TRUE, bytes |-> p]
    <3>1. SnapDecode(SnapEncode(p)) = [ok |-> TRUE, bytes |-> p]
      BY <2>1, SnapRoundTrip
    <3> QED
      BY <2>6, <3>1
  <2>8. reader.readHeader = TRUE
    <3>1. c # Magic
      BY <2>6 DEF Magic
    <3>2. reader.readHeader \in BOOLEAN
      BY <1>2 DEF ReaderType
    <3> QED
      BY <1>7, <3>1, <3>2
  <2>9. ~(~d.ok \/ Len(d.bytes) > MaxBlockSize \/ d.bytes # c.sum)
    BY <1>6, <1>9, <2>1, <2>6, <2>7, SnapConstants
  <2>10. c.type # "identifier" /\ c.type # "torn"
    BY <2>6
  <2>11. reader' = [reader EXCEPT !.pending = d.bytes]
    <3>1. ~corrupt /\ c.type # "identifier"
      BY <2>8, <2>9, <2>10
    <3> HIDE DEF corrupt, d
    <3> QED
      BY <1>0, <3>1
  <2>12. reader' \in ReaderType /\ reader'.err = "nil" /\ reader'.readHeader = TRUE /\ reader'.pending = p
    <3>1. d.bytes = p
      BY <2>7
    <3> HIDE DEF d
    <3>2. reader' = [reader EXCEPT !.pending = p]
      BY <2>11, <3>1
    <3> QED
      BY <1>1, <1>2, <2>1, <2>8, <3>2 DEF ReaderType
  <2>13. got \o reader'.pending = Bytes0(t, 0, m)
    BY <2>4, <2>12
  <2>14. Starts(got \o reader'.pending, t) /\ Len(got \o reader'.pending) = m
    BY <1>6, <2>2, <2>13 DEF Starts
  <2> QED
    BY <1>5, <1>6, <2>12, <2>14 DEF Reads
<1>10. (c = Magic /\ a = m) \/ (a < m /\ m - a <= MaxBlockSize /\ c = ChunkOf(Bytes0(t, a, m)))
  BY <1>5 DEF Carries
<1> QED
  BY <1>8, <1>9, <1>10

LEMMA AppendHeadTail ==
    ASSUME NEW S, NEW q \in Seq(S), NEW x \in S
    PROVE  q # <<>> => Head(Append(q, x)) = Head(q) /\ Tail(Append(q, x)) = Append(Tail(q), x)
<1>1. q # <<>> => Head(Append(q, x)) = Head(q)
  OBVIOUS
<1>2. CASE q # <<>>
  <2> DEFINE n == Len(q)
             l == Tail(Append(q, x))
             m == Append(Tail(q), x)
  <2>1. n \in Nat \ {0}
    BY <1>2
  <2>2. Append(q, x) \in Seq(S) /\ Len(Append(q, x)) = n + 1 /\ \A i \in 1..n + 1 : Append(q, x)[i] = IF i <= n THEN q[i] ELSE x
    OBVIOUS
  <2>3. l \in Seq(S) /\ Len(l) = n /\ \A i \in 1..n : l[i] = Append(q, x)[i + 1]
    BY <2>1, <2>2
  <2>4. Tail(q) \in Seq(S) /\ Len(Tail(q)) = n - 1 /\ \A i \in 1..n - 1 : Tail(q)[i] = q[i + 1]
    BY <1>2
  <2>5. m \in Seq(S) /\ Len(m) = n /\ \A i \in 1..n : m[i] = IF i <= n - 1 THEN Tail(q)[i] ELSE x
    <3> DEFINE y == Tail(q)
    <3>1. y \in Seq(S) /\ Len(y) = n - 1 /\ n - 1 \in Nat /\ (n - 1) + 1 = n
      BY <2>1, <2>4
    <3> HIDE DEF y, n
    <3>2. Append(y, x) \in Seq(S) /\ Len(Append(y, x)) = n
      BY <3>1
    <3>3. \A i \in 1..n : Append(y, x)[i] = IF i <= n - 1 THEN y[i] ELSE x
      BY <3>1
    <3> QED
      BY <3>2, <3>3 DEF y
  <2> HIDE DEF n, l, m
  <2>6. \A i \in 1..n : l[i] = m[i]
    BY <2>1, <2>2, <2>3, <2>4, <2>5
  <2>7. l = m
    BY <2>3, <2>5, <2>6
  <2> QED
    BY <1>1, <1>2, <2>7 DEF l, m
<1> QED
  BY <1>1, <1>2

LEMMA ReadChunkKeeps == ASSUME SnapInv, ReadChunk PROVE SnapInv'
<1> DEFINE rest == Tail(chunks)
<1>1. reader.err = "nil" /\ chunks # <<>> /\ chunks' = rest
      /\ writer' = writer /\ written' = written /\ got' = got /\ writes' = writes
  BY DEF ReadChunk
<1>2. /\ writer \in WriterType /\ Len(writer.ibuf) <= MaxBlockSize /\ (~Buffered => writer.ibuf = <<>>)
      /\ reader \in ReaderType /\ written \in Seq(Octet) /\ got \in Seq(Octet) /\ chunks \in Seq(Chunk)
      /\ Headed(reader, writer.wroteStreamHeader, chunks) /\ writes \in Nat
  BY Zenon DEF SnapInv, Sound, StreamType
<1>3. rest \in Seq(Chunk)
  BY <1>1, <1>2
<1> HIDE DEF rest
<1>4. Torn \in Chunk
  BY DEF Chunk
<1> DEFINE Kept == /\ reader' \in ReaderType /\ reader'.readHeader = TRUE
                   /\ writer.err # "broken" => Running(writer.ibuf, rest, written, reader', got)
                   /\ writer.err = "broken" => Severed(rest, written, reader', got)
<1>5. ASSUME writer.err # "broken" PROVE Kept
  <2>1. Running(writer.ibuf, chunks, written, reader, got)
    BY <1>5 DEF SnapInv, Sound
  <2>2. PICK t \in Seq(Octet) : Reads(reader, got, chunks, t) /\ written = t \o writer.ibuf
    BY <2>1 DEF Running
  <2>3. chunks \in Seq(Chunk) \ {<<>>}
    BY <1>1, <1>2
  <2>4. reader' \in ReaderType /\ reader'.err = "nil" /\ reader'.readHeader = TRUE /\ Reads(reader', got, rest, t)
    BY <2>2, <2>3, ReadChunkReads DEF rest
  <2>5. Running(writer.ibuf, rest, written, reader', got)
    BY <2>2, <2>4 DEF Running
  <2> QED
    BY <1>5, <2>4, <2>5
<1>6. ASSUME writer.err = "broken" PROVE Kept
  <2>1. Severed(chunks, written, reader, got)
    BY <1>6 DEF SnapInv, Sound
  <2>2. PICK t \in Seq(Octet), cs \in Seq(Chunk) :
            Reads(reader, got, cs, t) /\ Starts(t, written) /\ chunks = Append(cs, Torn)
    BY <1>1, <2>1 DEF Severed
  <2>3. CASE cs # <<>>
    <3>1. cs \in Seq(Chunk) \ {<<>>} /\ Tail(cs) \in Seq(Chunk)
      BY <2>3
    <3>2. Head(chunks) = Head(cs) /\ rest = Append(Tail(cs), Torn)
      BY <1>4, <2>2, <2>3, AppendHeadTail DEF rest
    <3>3. reader' \in ReaderType /\ reader'.err = "nil" /\ reader'.readHeader = TRUE /\ Reads(reader', got, Tail(cs), t)
      BY <2>2, <3>1, <3>2, ReadChunkReads
    <3>4. Severed(rest, written, reader', got)
      BY <2>2, <3>1, <3>2, <3>3 DEF Severed
    <3> QED
      BY <1>6, <3>3, <3>4
  <2>4. CASE cs = <<>>
    <3>1. Head(chunks) = Torn /\ rest = <<>> /\ chunks[1] = Torn
      <4>1. chunks = <<Torn>>
        BY <2>2, <2>4
      <4> QED
        BY <4>1 DEF rest
    <3>2. Torn.type = "torn" /\ Torn # Magic
      BY DEF Torn, Magic
    <3>3. reader' = [reader EXCEPT !.err = "corrupt"]
      BY <3>1, <3>2 DEF ReadChunk
    <3>4. reader.readHeader = TRUE
      <4>1. ~reader.readHeader => chunks[1] = Magic
        BY <1>1, <1>2, Zenon DEF Headed
      <4>2. reader.readHeader \in BOOLEAN
        BY <1>2 DEF ReaderType
      <4> QED
        BY <3>1, <3>2, <4>1, <4>2
    <3>5. reader' \in ReaderType /\ reader'.err = "corrupt" /\ reader'.readHeader = TRUE
          /\ reader'.pending = reader.pending
      BY <1>2, <3>3, <3>4 DEF ReaderType
    <3>6. Reads(reader', got, cs, t)
      BY <2>2, <3>5 DEF Reads
    <3>7. Severed(rest, written, reader', got)
      <4>1. rest = IF reader'.err = "nil" THEN Append(cs, Torn) ELSE <<>>
        BY <3>1, <3>5
      <4> QED
        BY <2>2, <3>6, <4>1 DEF Severed
    <3> QED
      BY <1>6, <3>5, <3>7
  <2> QED
    BY <2>3, <2>4
<1>7. Kept
  BY <1>5, <1>6
<1>8. Headed(reader', writer.wroteStreamHeader, rest)
  BY <1>7, Zenon DEF Headed
<1>9. StreamType(writer, rest, written, reader', got)
  BY <1>2, <1>3, <1>7, <1>8 DEF StreamType
<1>10. Sound(writer, rest, written, reader', got)
  <2>1. writer.err = "broken" => writer.ibuf = <<>>
    BY DEF SnapInv, Sound
  <2> QED
    BY <1>7, <1>9, <2>1 DEF Sound
<1>11. Sound(writer', chunks', written', reader', got')
  BY <1>1, <1>10
<1> QED
  BY <1>1, <1>2, <1>11 DEF SnapInv

LEMMA SnapStep == SnapInv /\ [SnapNext]_snapVars => SnapInv'
<1> SUFFICES ASSUME SnapInv, [SnapNext]_snapVars PROVE SnapInv'
  OBVIOUS
<1>1. ASSUME writes < Len(SnapInputs), NEW p \in SnapInputs[writes + 1], NEW ok \in 0..3, SnapWrite(p, ok)
      PROVE  SnapInv'
  BY <1>1, WriteKeeps
<1>2. ASSUME NEW ok \in 0..1, SnapFlush(ok) PROVE SnapInv'
  BY <1>2, SnapFlushKeeps
<1>3. ASSUME NEW ok \in 0..1, SnapClose(ok) PROVE SnapInv'
  BY <1>3, SnapCloseKeeps
<1>4. CASE WriterReset
  BY <1>4, ResetKeeps
<1>5. CASE ReadChunk
  BY <1>5, ReadChunkKeeps
<1>6. ASSUME NEW n \in {3, MaxBlockSize}, SnapRead(n) PROVE SnapInv'
  BY <1>6, SnapReadKeeps
<1>7. CASE UNCHANGED snapVars
  BY <1>7 DEF snapVars, SnapInv
<1> QED
  BY <1>1, <1>2, <1>3, <1>4, <1>5, <1>6, <1>7 DEF SnapNext

LEMMA SnapInvSays == ASSUME SnapInv PROVE SnappyStream
<1> DEFINE q == got \o reader.pending
<1>1. /\ writer \in WriterType /\ reader \in ReaderType /\ written \in Seq(Octet) /\ got \in Seq(Octet)
  BY Zenon DEF SnapInv, Sound, StreamType
<1>2. q \in Seq(Octet) /\ Len(q) \in Nat /\ writer.ibuf \in Seq(Octet)
  BY <1>1 DEF ReaderType, WriterType
<1>3. CASE writer.err # "broken"
  <2>1. Running(writer.ibuf, chunks, written, reader, got)
    BY <1>3 DEF SnapInv, Sound
  <2>2. PICK t \in Seq(Octet) : Reads(reader, got, chunks, t) /\ written = t \o writer.ibuf
    BY <2>1 DEF Running
  <2>3. Starts(q, t) /\ Chain(Carries(t), chunks, Len(q), Len(t))
    BY <2>2 DEF Reads
  <2> HIDE DEF q
  <2>4. Starts(q, written)
    BY <1>2, <2>2, <2>3, StartsMore
  <2>5. chunks = <<>> /\ writer.ibuf = <<>> => q = written
    <3> SUFFICES ASSUME chunks = <<>>, writer.ibuf = <<>> PROVE q = written
      OBVIOUS
    <3>1. PICK f \in [0..0 -> Nat] : f[0] = Len(q) /\ f[0] = Len(t)
      BY <2>3 DEF Chain
    <3>2. q = t
      BY <2>3, <3>1, BytesAll DEF Starts
    <3>3. written = t
      BY <2>2, ConcatEmpty
    <3> QED
      BY <3>2, <3>3
  <2>6. reader.err = "nil"
    BY <2>1 DEF Running
  <2>7. IsPrefix(q, written)
    BY <1>1, <1>2, <2>4, StartsPrefix
  <2> QED
    BY <2>5, <2>6, <2>7 DEF SnappyStream, q
<1>4. CASE writer.err = "broken"
  <2>1. Severed(chunks, written, reader, got)
    BY <1>4 DEF SnapInv, Sound
  <2>2. PICK t \in Seq(Octet), cs \in Seq(Chunk) : Reads(reader, got, cs, t) /\ Starts(t, written)
    BY <2>1 DEF Severed
  <2>3. Starts(q, t)
    BY <2>2 DEF Reads
  <2> HIDE DEF q
  <2>4. Starts(q, written)
    BY <1>1, <1>2, <2>2, <2>3, StartsChain
  <2>5. IsPrefix(q, written)
    BY <1>1, <1>2, <2>4, StartsPrefix
  <2> QED
    BY <1>4, <2>5 DEF SnappyStream, q
<1> QED
  BY <1>3, <1>4

\* However a program cuts its data into calls of Write, Flush, Close and Reset,
\* and wherever the stream breaks: the reader returns, in order, only bytes that
\* were written, all of them once they were flushed and the stream is whole, and
\* finds the stream corrupt only if it broke.
THEOREM SnappyStreamCorrect == SnapSpec => []SnappyStream
<1>1. SnapInit => SnapInv
  BY InitSays
<1>2. SnapInv /\ [SnapNext]_snapVars => SnapInv'
  BY SnapStep
<1>3. SnapInv => SnappyStream
  BY SnapInvSays
<1> QED
  BY <1>1, <1>2, <1>3, PTL DEF SnapSpec

LEMMA PeriodValues ==
    /\ Period \in [Nat -> Nat \ {0}]
    /\ Period[0] = 1 /\ \A k \in Nat : Period[k + 1] = SlotCnt * Period[k]
<1> DEFINE S == Nat \ {0}
           step == [k \in Nat |-> [w \in S |-> SlotCnt * w]]
<1>1. step \in [Nat -> [S -> S]]
  <2>1. \A w \in S : SlotCnt * w \in S
    BY WheelAssumption
  <2> QED
    BY <2>1
<1>2. \E f \in [Nat -> S] : \A k \in Nat : f[k] = IF k = 0 THEN 1 ELSE step[k][f[k - 1]]
  <2> HIDE DEF step
  <2>1. 1 \in S
    OBVIOUS
  <2> HIDE DEF S
  <2> QED
    BY <1>1, <2>1, RecursionNat
<1>3. \E f : f = [k \in Nat |-> IF k = 0 THEN 1 ELSE SlotCnt * f[k - 1]]
  <2>1. PICK f \in [Nat -> S] : \A k \in Nat : f[k] = IF k = 0 THEN 1 ELSE step[k][f[k - 1]]
    BY <1>2
  <2>2. \A k \in Nat : f[k] = IF k = 0 THEN 1 ELSE SlotCnt * f[k - 1]
    <3> SUFFICES ASSUME NEW k \in Nat PROVE f[k] = IF k = 0 THEN 1 ELSE SlotCnt * f[k - 1]
      OBVIOUS
    <3>1. f[k] = IF k = 0 THEN 1 ELSE step[k][f[k - 1]]
      BY <2>1
    <3>2. k # 0 => f[k - 1] \in S
      OBVIOUS
    <3> QED
      BY <3>1, <3>2
  <2>3. f = [k \in Nat |-> IF k = 0 THEN 1 ELSE SlotCnt * f[k - 1]]
    BY <2>2
  <2> QED
    BY <2>3
<1>4. Period = [k \in Nat |-> IF k = 0 THEN 1 ELSE SlotCnt * Period[k - 1]]
  BY <1>3, Zenon DEF Period
<1> HIDE DEF step
<1>5. Period[0] = 1 /\ \A k \in Nat : Period[k + 1] = SlotCnt * Period[k]
  <2>1. \A k \in Nat : Period[k] = IF k = 0 THEN 1 ELSE SlotCnt * Period[k - 1]
    BY <1>4
  <2>2. \A k \in Nat : k + 1 \in Nat /\ k + 1 # 0 /\ (k + 1) - 1 = k
    OBVIOUS
  <2> QED
    BY <2>1, <2>2
<1>6. \A k \in Nat : Period[k] \in S
  <2> DEFINE T == {k \in Nat : Period[k] \in S}
  <2>1. 0 \in T
    BY <1>5
  <2>2. ASSUME NEW k \in Nat, k \in T PROVE k + 1 \in T
    <3>1. Period[k + 1] = SlotCnt * Period[k] /\ Period[k] \in S
      BY <1>5, <2>2
    <3>2. SlotCnt * Period[k] \in S
      BY <3>1, WheelAssumption
    <3> QED
      BY <3>1, <3>2
  <2> HIDE DEF T
  <2>3. Nat \subseteq T
    BY <2>1, <2>2, SetInduction
  <2> QED
    BY <2>3 DEF T
<1>7. Period \in [Nat -> S]
  <2> HIDE DEF S
  <2> QED
    BY <1>4, <1>6
<1> QED
  BY <1>5, <1>7

LEMMA RevolutionValues ==
    /\ Revolutions \in [Nat -> Nat]
    /\ Revolutions[0] = 0 /\ \A k \in Nat : Revolutions[k + 1] = Revolutions[k] + Period[k + 1]
<1> DEFINE S == Nat
           step == [k \in Nat |-> [w \in S |-> w + Period[k]]]
<1>1. step \in [Nat -> [S -> S]]
  <2>1. \A k \in Nat, w \in S : w + Period[k] \in S
    BY PeriodValues
  <2> QED
    BY <2>1
<1>2. \E f \in [Nat -> S] : \A k \in Nat : f[k] = IF k = 0 THEN 0 ELSE step[k][f[k - 1]]
  <2> HIDE DEF step
  <2>1. 0 \in S
    OBVIOUS
  <2> HIDE DEF S
  <2> QED
    BY <1>1, <2>1, RecursionNat
<1>3. \E f : f = [k \in Nat |-> IF k = 0 THEN 0 ELSE f[k - 1] + Period[k]]
  <2>1. PICK f \in [Nat -> S] : \A k \in Nat : f[k] = IF k = 0 THEN 0 ELSE step[k][f[k - 1]]
    BY <1>2
  <2>2. \A k \in Nat : f[k] = IF k = 0 THEN 0 ELSE f[k - 1] + Period[k]
    <3> SUFFICES ASSUME NEW k \in Nat PROVE f[k] = IF k = 0 THEN 0 ELSE f[k - 1] + Period[k]
      OBVIOUS
    <3>1. f[k] = IF k = 0 THEN 0 ELSE step[k][f[k - 1]]
      BY <2>1
    <3>2. k # 0 => f[k - 1] \in S
      OBVIOUS
    <3> QED
      BY <3>1, <3>2
  <2>3. f = [k \in Nat |-> IF k = 0 THEN 0 ELSE f[k - 1] + Period[k]]
    BY <2>2
  <2> QED
    BY <2>3
<1>4. Revolutions = [k \in Nat |-> IF k = 0 THEN 0 ELSE Revolutions[k - 1] + Period[k]]
  BY <1>3, Zenon DEF Revolutions
<1> HIDE DEF step
<1>5. Revolutions[0] = 0 /\ \A k \in Nat : Revolutions[k + 1] = Revolutions[k] + Period[k + 1]
  <2>1. \A k \in Nat : Revolutions[k] = IF k = 0 THEN 0 ELSE Revolutions[k - 1] + Period[k]
    BY <1>4
  <2>2. \A k \in Nat : k + 1 \in Nat /\ k + 1 # 0 /\ (k + 1) - 1 = k
    OBVIOUS
  <2> QED
    BY <2>1, <2>2
<1>6. \A k \in Nat : Revolutions[k] \in S
  <2> DEFINE T == {k \in Nat : Revolutions[k] \in S}
  <2>1. 0 \in T
    BY <1>5
  <2>2. ASSUME NEW k \in Nat, k \in T PROVE k + 1 \in T
    <3>1. Revolutions[k + 1] = Revolutions[k] + Period[k + 1] /\ Revolutions[k] \in S
      BY <1>5, <2>2
    <3>2. Revolutions[k] + Period[k + 1] \in S
      BY <3>1, PeriodValues
    <3> QED
      BY <3>1, <3>2
  <2> HIDE DEF T
  <2>3. Nat \subseteq T
    BY <2>1, <2>2, SetInduction
  <2> QED
    BY <2>3 DEF T
<1>7. Revolutions \in [Nat -> S]
  <2> HIDE DEF S
  <2> QED
    BY <1>4, <1>6
<1> QED
  BY <1>5, <1>7

\* The sums of the first values of a function.
SumOf(f) == CHOOSE g \in [Nat -> Nat] : g[0] = 0 /\ \A k \in Nat : g[k + 1] = g[k] + f[k]

LEMMA SumValues ==
    ASSUME NEW f \in [Nat -> Nat]
    PROVE  SumOf(f) \in [Nat -> Nat] /\ SumOf(f)[0] = 0 /\ \A k \in Nat : SumOf(f)[k + 1] = SumOf(f)[k] + f[k]
<1> DEFINE S == Nat
           stp == [k \in Nat |-> [w \in S |-> IF k = 0 THEN w ELSE w + f[k - 1]]]
<1>1. stp \in [Nat -> [S -> S]]
  <2>1. \A k \in Nat, w \in S : (IF k = 0 THEN w ELSE w + f[k - 1]) \in S
    OBVIOUS
  <2> QED
    BY <2>1
<1>2. PICK g \in [Nat -> S] : \A k \in Nat : g[k] = IF k = 0 THEN 0 ELSE stp[k][g[k - 1]]
  <2> HIDE DEF stp
  <2>1. 0 \in S
    OBVIOUS
  <2>2. Downward(Nat)
    BY DEF Downward
  <2> HIDE DEF S
  <2>3. \E g \in [Nat -> S] : Recurs(g, Nat, stp, 0)
    BY <1>1, <2>1, <2>2, Recursion
  <2> QED
    BY <2>3 DEF Recurs
<1>3. g[0] = 0 /\ \A k \in Nat : g[k + 1] = g[k] + f[k]
  <2>1. \A k \in Nat : k + 1 \in Nat /\ k + 1 # 0 /\ (k + 1) - 1 = k
    OBVIOUS
  <2>2. ASSUME NEW k \in Nat PROVE g[k + 1] = g[k] + f[k]
    <3>1. g[k + 1] = stp[k + 1][g[k]]
      <4> HIDE DEF stp
      <4> QED
        BY <1>2, <2>1
    <3>2. stp[k + 1][g[k]] = g[k] + f[k]
      BY <2>1
    <3> QED
      BY <3>1, <3>2
  <2>3. g[0] = 0
    BY <1>2
  <2> QED
    BY <2>2, <2>3
<1> QED
  BY <1>3 DEF SumOf

(***************************************************************************)
(* The positions of the wheels are the digits of the number of ticks.      *)
(***************************************************************************)
LEMMA NextQuotient ==
    ASSUME NEW n \in Nat, NEW p \in Nat \ {0}
    PROVE  /\ (n + 1) % p = 0 => (n + 1) \div p = n \div p + 1
           /\ (n + 1) % p # 0 => (n + 1) \div p = n \div p
           /\ (n + 1) % p = ((n % p) + 1) % p
<1>1. PICK q \in Int, r \in 0..p - 1 : n \div p = q /\ n % p = r /\ n = q * p + r
  BY Division
<1>2. CASE r = p - 1
  <2>1. n + 1 = (q + 1) * p + 0 /\ q + 1 \in Int /\ 0 \in 0..p - 1
    BY <1>1, <1>2
  <2>2. (n + 1) \div p = q + 1 /\ (n + 1) % p = 0
    <3>1. n + 1 \in Int
      OBVIOUS
    <3> QED
      BY <2>1, <3>1, DivisionUnique
  <2>3. (r + 1) % p = 0
    <3>1. r + 1 = 1 * p + 0 /\ r + 1 \in Int /\ 1 \in Int /\ 0 \in 0..p - 1
      BY <1>2
    <3> QED
      BY <3>1, DivisionUnique
  <2> QED
    BY <1>1, <2>2, <2>3
<1>3. CASE r # p - 1
  <2>1. n + 1 = q * p + (r + 1) /\ r + 1 \in 0..p - 1 /\ n + 1 \in Int
    BY <1>1, <1>3
  <2>2. (n + 1) \div p = q /\ (n + 1) % p = r + 1
    BY <2>1, DivisionUnique
  <2>3. (r + 1) % p = r + 1
    <3>1. r + 1 = 0 * p + (r + 1) /\ 0 \in Int /\ r + 1 \in Int
      OBVIOUS
    <3> QED
      BY <2>1, <3>1, DivisionUnique
  <2> QED
    BY <1>1, <2>1, <2>2, <2>3
<1> QED
  BY <1>2, <1>3

LEMMA CarryLevel ==
    ASSUME NEW n \in Nat, NEW i \in Nat
    PROVE  (n + 1) % Period[i + 1] = 0
               <=> (n + 1) % Period[i] = 0 /\ (((n \div Period[i]) % SlotCnt) + 1) % SlotCnt = 0
<1> DEFINE p == Period[i]
           x == n \div p
           y == (n + 1) \div p
<1>1. p \in Nat \ {0} /\ Period[i + 1] = SlotCnt * p /\ SlotCnt \in Nat \ {0}
  BY PeriodValues, WheelAssumption
<1> HIDE DEF p
<1>2. x \in Nat
  BY <1>1, Division
<1>3. ((n + 1) % p) + (y % SlotCnt) * p = (n + 1) % (SlotCnt * p)
  <2>1. n + 1 \in Int
    OBVIOUS
  <2> QED
    BY <1>1, <2>1, RestDigit
<1>4. (n + 1) % p \in Nat /\ y \in Int
  BY <1>1, Division
<1>5. y % SlotCnt \in Nat
  BY <1>1, <1>4, Division
<1> HIDE DEF x, y
<1>6. (n + 1) % (SlotCnt * p) = 0 <=> (n + 1) % p = 0 /\ y % SlotCnt = 0
  <2> DEFINE a == (n + 1) % p
             d == y % SlotCnt
  <2>1. a \in Nat /\ d \in Nat /\ a + d * p = (n + 1) % (SlotCnt * p)
    BY <1>3, <1>4, <1>5
  <2> HIDE DEF a, d
  <2>2. d * p \in Nat /\ (d * p = 0 <=> d = 0)
    BY <1>1, <2>1
  <2>3. a + d * p = 0 <=> a = 0 /\ d = 0
    BY <2>1, <2>2
  <2> QED
    BY <2>1, <2>3 DEF a, d
<1>7. (n + 1) % p = 0 => y = x + 1
  BY <1>1, NextQuotient DEF x, y
<1>8. (x + 1) % SlotCnt = ((x % SlotCnt) + 1) % SlotCnt
  BY <1>1, <1>2, NextQuotient
<1>9. (n + 1) % p = 0 => y % SlotCnt = ((x % SlotCnt) + 1) % SlotCnt
  BY <1>7, <1>8
<1> QED
  BY <1>1, <1>6, <1>9 DEF p, x

\* The position of each wheel after n ticks.
PosAt(n) == [i \in Levels |-> (n \div Period[i]) % SlotCnt]

LEMMA TurnsWhen ==
    ASSUME now \in Nat, curPos = PosAt(now), NEW i \in 0..LevelCnt
    PROVE  Turns(i) <=> (now + 1) % Period[i] = 0
<1> DEFINE T == {k \in Nat : k <= LevelCnt => (Turns(k) <=> (now + 1) % Period[k] = 0)}
<1>1. 0 \in T
  <2>1. Turns(0)
    BY WheelAssumption DEF Turns, Levels
  <2>2. (now + 1) % 1 = 0
    OBVIOUS
  <2> QED
    BY <2>1, <2>2, PeriodValues
<1>2. ASSUME NEW k \in Nat, k \in T PROVE k + 1 \in T
  <2> SUFFICES ASSUME k + 1 <= LevelCnt PROVE Turns(k + 1) <=> (now + 1) % Period[k + 1] = 0
    OBVIOUS
  <2>1. Turns(k) <=> (now + 1) % Period[k] = 0
    BY <1>2, WheelAssumption
  <2>2. k \in Levels /\ \A l \in Levels : l < k + 1 <=> l < k \/ l = k
    BY WheelAssumption DEF Levels
  <2>3. Turns(k + 1) <=> Turns(k) /\ (curPos[k] + 1) % SlotCnt = 0
    BY <2>2 DEF Turns
  <2>4. curPos[k] = (now \div Period[k]) % SlotCnt
    BY <2>2 DEF PosAt
  <2>5. (now + 1) % Period[k + 1] = 0
            <=> (now + 1) % Period[k] = 0 /\ (((now \div Period[k]) % SlotCnt) + 1) % SlotCnt = 0
    BY CarryLevel
  <2> QED
    BY <2>1, <2>3, <2>4, <2>5
<1> HIDE DEF T
<1>3. Nat \subseteq T
  BY <1>1, <1>2, SetInduction
<1>4. i \in Nat /\ i <= LevelCnt
  BY WheelAssumption
<1> QED
  BY <1>3, <1>4 DEF T

\* What a tick makes of the positions.
LEMMA PosNext ==
    ASSUME now \in Nat, curPos = PosAt(now)
    PROVE  [i \in Levels |-> IF Turns(i) THEN (curPos[i] + 1) % SlotCnt ELSE curPos[i]] = PosAt(now + 1)
<1> SUFFICES ASSUME NEW i \in Levels
             PROVE (IF Turns(i) THEN (curPos[i] + 1) % SlotCnt ELSE curPos[i]) = ((now + 1) \div Period[i]) % SlotCnt
  BY DEF PosAt
<1> DEFINE p == Period[i]
           x == now \div p
<1>1. i \in 0..LevelCnt /\ i \in Nat /\ p \in Nat \ {0} /\ SlotCnt \in Nat \ {0}
  BY PeriodValues, WheelAssumption DEF Levels
<1>2. Turns(i) <=> (now + 1) % p = 0
  BY <1>1, TurnsWhen
<1>3. curPos[i] = x % SlotCnt
  BY DEF PosAt
<1>4. x \in Nat
  BY <1>1, Division
<1> HIDE DEF p
<1>5. /\ (now + 1) % p = 0 => (now + 1) \div p = x + 1
      /\ (now + 1) % p # 0 => (now + 1) \div p = x
  BY <1>1, NextQuotient
<1> HIDE DEF x
<1>6. (x + 1) % SlotCnt = ((x % SlotCnt) + 1) % SlotCnt
  BY <1>1, <1>4, NextQuotient
<1> QED
  BY <1>2, <1>3, <1>5, <1>6 DEF p

LEMMA TimesOrder ==
    ASSUME NEW a \in Int, NEW b \in Int, NEW p \in Nat \ {0}
    PROVE  a * p < b * p <=> a < b
<1>1. ASSUME a < b PROVE a * p < b * p
  <2>1. (b - a) * p >= 1
    BY <1>1
  <2>2. (b - a) * p = b * p - a * p /\ a * p \in Int /\ b * p \in Int
    OBVIOUS
  <2> QED
    BY <2>1, <2>2
<1>2. ASSUME a >= b PROVE a * p >= b * p
  <2>1. (a - b) * p >= 0
    BY <1>2
  <2>2. (a - b) * p = a * p - b * p /\ a * p \in Int /\ b * p \in Int
    OBVIOUS
  <2> QED
    BY <2>1, <2>2
<1>3. a * p \in Int /\ b * p \in Int
  OBVIOUS
<1> QED
  BY <1>1, <1>2, <1>3

\* Of the turns in one revolution only one is to a given slot.
LEMMA SameTurn ==
    ASSUME NEW q \in Nat, NEW t \in Nat, NEW p \in Nat \ {0}, NEW s \in Nat \ {0}, NEW n \in Nat,
           n < q * p, q * p <= n + s * p, n + 1 = t * p, q % s = t % s
    PROVE  q = t
<1>1. q * p \in Nat /\ t * p \in Nat /\ s * p \in Nat /\ (t + s) * p = t * p + s * p
  OBVIOUS
<1>2. ~(q < t)
  <2>1. ~(q * p < t * p)
    BY <1>1
  <2> QED
    BY <2>1, TimesOrder
<1>3. q < t + s
  <2>1. q * p < (t + s) * p
    BY <1>1
  <2>2. t + s \in Int
    OBVIOUS
  <2> QED
    BY <2>1, <2>2, TimesOrder
<1>4. PICK a \in Int, r \in 0..s - 1 : q % s = r /\ q = a * s + r
  BY Division
<1>5. PICK b \in Int, r2 \in 0..s - 1 : t % s = r2 /\ t = b * s + r2
  BY Division
<1>6. r = r2 /\ a * s \in Int /\ b * s \in Int
  BY <1>4, <1>5
<1>7. ~(a < b)
  <2>1. ~(a * s < b * s)
    BY <1>2, <1>4, <1>5, <1>6
  <2> QED
    BY <2>1, TimesOrder
<1>8. a < b + 1
  <2>1. (b + 1) * s = b * s + s /\ b + 1 \in Int
    OBVIOUS
  <2>2. a * s < (b + 1) * s
    BY <1>3, <1>4, <1>5, <1>6, <2>1
  <2> QED
    BY <2>1, <2>2, TimesOrder
<1> QED
  BY <1>4, <1>5, <1>6, <1>7, <1>8

(***************************************************************************)
(* A job waits on wheel i for the turn q, and what its indices say of the  *)
(* wheels below adds up to its delay.                                      *)
(***************************************************************************)
Worth(idx) == [k \in Nat |-> IF k \in Levels THEN idx[k] * Period[k] ELSE 0]
WorthBelow(idx, i) == SumOf(Worth(idx))[i]

Waits(a, idx, n, i, q) ==
    /\ n < q * Period[i] /\ q * Period[i] <= n + Period[i + 1]
    /\ q % SlotCnt = idx[i]
    /\ q * Period[i] + Revolutions[i] <= a.at + Revolutions[LevelCnt - 1]
    /\ Exact(a) => q * Period[i] + WorthBelow(idx, i) = a.at + a.tc /\ \A k \in 0..i - 1 : idx[k] # 0
OnTime(a, idx, n, i) == \E q \in Nat : Waits(a, idx, n, i, q)

LEMMA WorthNext ==
    ASSUME NEW idx \in [Levels -> Slots]
    PROVE  /\ WorthBelow(idx, 0) = 0
           /\ \A i \in Levels : WorthBelow(idx, i + 1) = WorthBelow(idx, i) + idx[i] * Period[i]
           /\ \A i \in Nat : WorthBelow(idx, i) \in Nat
<1>1. Worth(idx) \in [Nat -> Nat]
  <2> SUFFICES ASSUME NEW k \in Levels PROVE idx[k] * Period[k] \in Nat
    BY DEF Worth
  <2>0. k \in Nat /\ idx[k] \in Slots
    BY WheelAssumption DEF Levels
  <2>1. idx[k] \in Nat /\ Period[k] \in Nat
    BY <2>0, PeriodValues, WheelAssumption DEF Slots
  <2> QED
    BY <2>1
<1>2. \A i \in Levels : i \in Nat /\ Worth(idx)[i] = idx[i] * Period[i]
  BY WheelAssumption DEF Levels, Worth
<1> QED
  BY <1>1, <1>2, SumValues DEF WorthBelow

\* The turn that is now is the one a job in the slot turned to waits for.
LEMMA DueTurn ==
    ASSUME NEW a, NEW idx, NEW n \in Nat, NEW i \in Nat, NEW q \in Nat, Waits(a, idx, n, i, q),
           (n + 1) % Period[i] = 0, ((n + 1) \div Period[i]) % SlotCnt = idx[i]
    PROVE  q * Period[i] = n + 1
<1> DEFINE p == Period[i]
           t == (n + 1) \div p
<1>1. p \in Nat \ {0} /\ SlotCnt \in Nat \ {0} /\ Period[i + 1] = SlotCnt * p
  BY PeriodValues, WheelAssumption
<1>2. n < q * p /\ q * p <= n + SlotCnt * p /\ q % SlotCnt = t % SlotCnt
  BY <1>1 DEF Waits
<1>3. (n + 1) % p = 0
  OBVIOUS
<1> HIDE DEF p
<1>4. t \in Nat /\ n + 1 = t * p
  <2>1. n + 1 \in Int /\ n + 1 >= 0
    OBVIOUS
  <2>2. \E x \in Int, r \in 0..p - 1 : (n + 1) \div p = x /\ (n + 1) % p = r /\ n + 1 = x * p + r /\ (n + 1 >= 0 => x >= 0)
    BY <1>1, <2>1, Division
  <2> QED
    BY <1>1, <1>3, <2>1, <2>2
<1> HIDE DEF t
<1>5. q = t
  BY <1>1, <1>2, <1>4, SameTurn
<1> QED
  BY <1>4, <1>5 DEF p

\* Any other turn is before it.
LEMMA WaitsOn ==
    ASSUME NEW a, NEW idx, NEW n \in Nat, NEW i \in Nat, OnTime(a, idx, n, i),
           ~((n + 1) % Period[i] = 0 /\ ((n + 1) \div Period[i]) % SlotCnt = idx[i])
    PROVE  OnTime(a, idx, n + 1, i)
<1>1. PICK q \in Nat : Waits(a, idx, n, i, q)
  BY DEF OnTime
<1> DEFINE p == Period[i]
           r == Period[i + 1]
<1>2. p \in Nat \ {0} /\ r \in Nat
  BY PeriodValues
<1>3. n < q * p /\ q * p <= n + r /\ q % SlotCnt = idx[i]
  BY <1>1 DEF Waits
<1>4. q * p # n + 1
  <2> SUFFICES ASSUME q * p = n + 1 PROVE FALSE
    OBVIOUS
  <2>1. n + 1 = q * p + 0 /\ 0 \in 0..p - 1 /\ n + 1 \in Int /\ q \in Int
    BY <1>2
  <2> HIDE DEF p
  <2>2. (n + 1) \div p = q /\ (n + 1) % p = 0
    BY <1>2, <2>1, DivisionUnique
  <2> QED
    BY <1>3, <2>2 DEF p
<1>5. n + 1 < q * p /\ q * p <= (n + 1) + r
  <2>1. q * p \in Nat
    BY <1>2
  <2> HIDE DEF p, r
  <2> QED
    BY <1>2, <1>3, <1>4, <2>1
<1>6. Waits(a, idx, n + 1, i, q)
  BY <1>1, <1>5 DEF Waits
<1> QED
  BY <1>6 DEF OnTime

\* A job that is moved down.
LEMMA MovesDown ==
    ASSUME NEW a, a.at \in Nat, a.tc \in Nat, NEW idx \in [Levels -> Slots], NEW n \in Nat, NEW i \in Levels, i # 0, OnTime(a, idx, n, i),
           (n + 1) % Period[i] = 0, ((n + 1) \div Period[i]) % SlotCnt = idx[i]
    PROVE  OnTime(a, idx, n + 1, i - 1)
<1>1. PICK q \in Nat : Waits(a, idx, n, i, q)
  BY DEF OnTime
<1> DEFINE k == i - 1
           d == IF idx[k] = 0 THEN SlotCnt ELSE idx[k]
           p == Period[k]
           w == q * SlotCnt + d
<1>2. i \in Nat /\ k \in Nat /\ k \in Levels /\ k + 1 = i
  BY WheelAssumption DEF Levels
<1>3. p \in Nat \ {0} /\ Period[i] = SlotCnt * p /\ Period[k + 1] = SlotCnt * p
  BY <1>2, PeriodValues
<1>4. q * Period[i] = n + 1
  BY <1>1, <1>2, DueTurn
<1>5. d \in 1..SlotCnt /\ SlotCnt \in Nat \ {0} /\ idx[k] \in 0..SlotCnt - 1
  BY <1>2, WheelAssumption DEF Slots
<1>6. w \in Nat /\ w % SlotCnt = idx[k]
  <2>1. w \in Nat
    BY <1>5
  <2>2. CASE idx[k] = 0
    <3>1. w = (q + 1) * SlotCnt + 0 /\ q + 1 \in Int /\ 0 \in 0..SlotCnt - 1
      BY <1>5, <2>2
    <3> HIDE DEF w
    <3> QED
      BY <1>5, <2>1, <2>2, <3>1, DivisionUnique
  <2>3. CASE idx[k] # 0
    <3> DEFINE e == idx[k]
    <3>1. w = q * SlotCnt + e /\ e \in 0..SlotCnt - 1 /\ w \in Int /\ q \in Int
      BY <1>5, <2>1, <2>3
    <3> HIDE DEF w, e
    <3>2. w % SlotCnt = e
      BY <1>5, <3>1, DivisionUnique
    <3> QED
      BY <2>1, <3>2 DEF e
  <2> QED
    BY <2>1, <2>2, <2>3
<1>7. w * p = (n + 1) + d * p
  <2>1. w * p = q * (SlotCnt * p) + d * p
    BY <1>3, <1>5
  <2> QED
    BY <1>3, <1>4, <2>1
<1>8. d * p \in Nat /\ d * p >= 1 /\ d * p <= SlotCnt * p
  <2> HIDE DEF d, p
  <2>1. d * p \in Nat /\ d * p >= 1
    BY <1>3, <1>5
  <2>2. ~(SlotCnt * p < d * p)
    <3>1. d \in Int /\ SlotCnt \in Int /\ ~(SlotCnt < d)
      BY <1>5
    <3> QED
      BY <1>3, <3>1, TimesOrder
  <2>3. SlotCnt * p \in Nat
    BY <1>3, <1>5
  <2> QED
    BY <2>1, <2>2, <2>3
<1>9. n + 1 < w * p /\ w * p <= (n + 1) + Period[k + 1]
  <2>1. SlotCnt * p \in Nat
    BY <1>3, <1>5
  <2> HIDE DEF w, d, p
  <2> QED
    BY <1>3, <1>7, <1>8, <2>1
<1>10. w * p + Revolutions[k] <= a.at + Revolutions[LevelCnt - 1]
  <2> DEFINE R == Revolutions[LevelCnt - 1]
             x == Revolutions[k]
             y == d * p
             z == SlotCnt * p
  <2>1. Revolutions[i] = x + z /\ x \in Nat /\ R \in Nat /\ z \in Nat
    <3>1. Revolutions[k + 1] = Revolutions[k] + Period[k + 1] /\ Revolutions[k] \in Nat
      BY <1>2, RevolutionValues
    <3>2. LevelCnt - 1 \in Nat
      BY WheelAssumption
    <3> QED
      BY <1>2, <1>3, <1>5, <3>1, <3>2, RevolutionValues
  <2>2. (n + 1) + Revolutions[i] <= a.at + R
    BY <1>1, <1>4 DEF Waits
  <2>3. w * p = (n + 1) + y /\ y <= z /\ y \in Nat
    BY <1>7, <1>8
  <2>4. w * p + x <= a.at + R
    <3> HIDE DEF R, x, y, z, w, p, d
    <3> QED
      BY <2>1, <2>2, <2>3
  <2> QED
    BY <2>4
<1>11. ASSUME Exact(a) PROVE w * p + WorthBelow(idx, k) = a.at + a.tc /\ \A l \in 0..k - 1 : idx[l] # 0
  <2>1. (n + 1) + WorthBelow(idx, i) = a.at + a.tc /\ \A l \in 0..i - 1 : idx[l] # 0
    BY <1>1, <1>4, <1>11 DEF Waits
  <2>2. d = idx[k] /\ \A l \in 0..k - 1 : idx[l] # 0
    BY <1>2, <2>1
  <2>3. WorthBelow(idx, i) = WorthBelow(idx, k) + d * p /\ WorthBelow(idx, k) \in Nat
    BY <1>2, <2>2, WorthNext
  <2> DEFINE y == d * p
  <2>4. w * p = (n + 1) + y /\ y \in Nat /\ WorthBelow(idx, i) = WorthBelow(idx, k) + y
    BY <1>7, <1>8, <2>3
  <2>5. w * p + WorthBelow(idx, k) = a.at + a.tc
    <3> HIDE DEF w, p, y, d
    <3> QED
      BY <2>1, <2>3, <2>4
  <2> QED
    BY <2>2, <2>5
<1>12. Waits(a, idx, n + 1, k, w)
  <2> HIDE DEF w
  <2> QED
    BY <1>6, <1>9, <1>10, <1>11 DEF Waits
<1> HIDE DEF w, k
<1>13. OnTime(a, idx, n + 1, k)
  BY <1>6, <1>12 DEF OnTime
<1> QED
  BY <1>13 DEF k

\* Longer periods above, and more revolutions.
LEMMA Grows ==
    ASSUME NEW k \in Nat, NEW m \in Nat, k <= m
    PROVE  Period[k] <= Period[m] /\ Revolutions[k] <= Revolutions[m]
<1> DEFINE T == {l \in Nat : k <= l => Period[k] <= Period[l] /\ Revolutions[k] <= Revolutions[l]}
<1>1. 0 \in T
  <2>1. k <= 0 => k = 0
    OBVIOUS
  <2>2. Period[k] \in Nat /\ Revolutions[k] \in Nat
    BY PeriodValues, RevolutionValues
  <2>3. 0 \in Nat /\ (k <= 0 => Period[k] <= Period[0] /\ Revolutions[k] <= Revolutions[0])
    BY <2>1, <2>2
  <2> QED
    BY <2>3
<1>2. ASSUME NEW l \in Nat, l \in T PROVE l + 1 \in T
  <2> DEFINE p == Period[l]
             r == Revolutions[l]
  <2>1. /\ p \in Nat \ {0} /\ r \in Nat /\ SlotCnt \in Nat \ {0}
        /\ Period[l + 1] = SlotCnt * p /\ Revolutions[l + 1] = r + SlotCnt * p
        /\ Period[k] \in Nat /\ Revolutions[k] \in Nat
    BY PeriodValues, RevolutionValues, WheelAssumption
  <2>2. SlotCnt * p \in Nat /\ SlotCnt * p >= p
    <3> HIDE DEF p
    <3>1. (SlotCnt - 1) * p >= 0 /\ (SlotCnt - 1) * p = SlotCnt * p - p /\ SlotCnt * p \in Nat
      BY <2>1
    <3> QED
      BY <2>1, <3>1
  <2>3. k <= l + 1 => k = l + 1 \/ k <= l
    OBVIOUS
  <2>4. k <= l => Period[k] <= p /\ Revolutions[k] <= r
    BY <1>2
  <2>5. ASSUME k <= l + 1 PROVE Period[k] <= Period[l + 1] /\ Revolutions[k] <= Revolutions[l + 1]
    <3> HIDE DEF p, r
    <3>1. CASE k = l + 1
      BY <2>1, <3>1
    <3>2. CASE k <= l
      <4> DEFINE y == SlotCnt * p
      <4>1. y \in Nat /\ y >= p /\ Period[l + 1] = y /\ Revolutions[l + 1] = r + y
        BY <2>1, <2>2
      <4> HIDE DEF y
      <4> QED
        BY <2>1, <2>4, <3>2, <4>1
    <3> QED
      BY <2>3, <2>5, <3>1, <3>2
  <2> HIDE DEF p, r
  <2> QED
    BY <2>5
<1> HIDE DEF T
<1>3. Nat \subseteq T
  BY <1>1, <1>2, SetInduction
<1> QED
  BY <1>3 DEF T

\* The highest wheel with an index other than 0.
LEMMA LevelFound ==
    ASSUME NEW idx \in [Levels -> Slots], idx[LevelCnt - 1] = 0
    PROVE  /\ LevelOf(idx) \in 0..LevelCnt - 2
           /\ \A k \in Levels : k > LevelOf(idx) => idx[k] = 0
           /\ idx[LevelOf(idx)] = 0 => \A k \in Levels : idx[k] = 0
<1> DEFINE Found(i) == idx[i] # 0 /\ \A k \in Levels : k > i => idx[k] = 0
           T == {m \in Nat : (\E i \in Levels : i <= m /\ idx[i] # 0) =>
                    \E i \in Levels : i <= m /\ idx[i] # 0 /\ \A k \in Levels : k > i /\ k <= m => idx[k] = 0}
<1>0. LevelCnt \in Nat \ {0, 1} /\ Levels = 0..LevelCnt - 1 /\ Levels \subseteq Nat
  BY WheelAssumption DEF Levels
<1>1. 0 \in T
  <2>1. \A i \in Levels : i <= 0 => i = 0
    BY <1>0
  <2> SUFFICES ASSUME NEW i \in Levels, i <= 0, idx[i] # 0
               PROVE \E l \in Levels : l <= 0 /\ idx[l] # 0 /\ \A k \in Levels : k > l /\ k <= 0 => idx[k] = 0
    OBVIOUS
  <2>2. \A k \in Levels : ~(k > i /\ k <= 0)
    BY <2>1
  <2> QED
    BY <2>2
<1>2. ASSUME NEW m \in Nat, m \in T PROVE m + 1 \in T
  <2> SUFFICES ASSUME NEW i \in Levels, i <= m + 1, idx[i] # 0
               PROVE \E l \in Levels : l <= m + 1 /\ idx[l] # 0 /\ \A k \in Levels : k > l /\ k <= m + 1 => idx[k] = 0
    OBVIOUS
  <2>1. \A k \in Levels : k <= m + 1 <=> k <= m \/ k = m + 1
    BY <1>0
  <2>2. CASE m + 1 \in Levels /\ idx[m + 1] # 0
    <3>1. \A k \in Levels : ~(k > m + 1 /\ k <= m + 1)
      BY <1>0
    <3>2. m + 1 <= m + 1
      OBVIOUS
    <3> QED
      BY <2>2, <3>1, <3>2
  <2>3. CASE ~(m + 1 \in Levels /\ idx[m + 1] # 0)
    <3>1. i <= m
      BY <2>1, <2>3
    <3>2. PICK l \in Levels : l <= m /\ idx[l] # 0 /\ \A k \in Levels : k > l /\ k <= m => idx[k] = 0
      BY <1>2, <3>1
    <3>3. \A k \in Levels : k > l /\ k <= m + 1 => idx[k] = 0
      BY <2>1, <2>3, <3>2
    <3>4. l <= m + 1
      BY <2>1, <3>2
    <3> QED
      BY <3>2, <3>3, <3>4
  <2> QED
    BY <2>2, <2>3
<1> HIDE DEF T
<1>3. Nat \subseteq T
  BY <1>1, <1>2, SetInduction
<1>4. CASE \A i \in Levels : idx[i] = 0
  <2>1. LevelOf(idx) = 0
    BY <1>4 DEF LevelOf
  <2>2. 0 \in 0..LevelCnt - 2
    BY <1>0
  <2> QED
    BY <1>4, <2>1, <2>2
<1>5. CASE \E i \in Levels : idx[i] # 0
  <2>1. LevelCnt - 1 \in T /\ \A k \in Levels : k <= LevelCnt - 1
    BY <1>0, <1>3
  <2>2. \E i \in Levels : Found(i)
    BY <1>5, <2>1 DEF T
  <2>3. LevelOf(idx) = CHOOSE i \in Levels : Found(i)
    BY <1>5 DEF LevelOf
  <2>4. LevelOf(idx) \in Levels /\ Found(LevelOf(idx))
    <3> HIDE DEF Found
    <3> QED
      BY <2>2, <2>3
  <2> DEFINE l == LevelOf(idx)
  <2> HIDE DEF l
  <2>5. l \in Levels /\ idx[l] # 0 /\ \A k \in Levels : k > l => idx[k] = 0
    BY <2>4 DEF l
  <2>6. l \in 0..LevelCnt - 2
    <3>1. l # LevelCnt - 1
      BY <2>5
    <3> QED
      BY <1>0, <2>5, <3>1
  <2> QED
    BY <2>5, <2>6 DEF l
<1> QED
  BY <1>4, <1>5

\* There is a turn to each slot in the next revolution.
LEMMA NextTurn ==
    ASSUME NEW n \in Nat, NEW p \in Nat \ {0}, NEW s \in Nat \ {0}, NEW e \in 0..s - 1
    PROVE  \E q \in Nat : n < q * p /\ q * p <= n + s * p /\ q % s = e
<1>1. PICK x \in Int, r \in 0..p - 1 : n = x * p + r /\ x >= 0
  <2>1. n \in Int /\ n >= 0
    OBVIOUS
  <2>2. \E x \in Int, r \in 0..p - 1 : n \div p = x /\ n % p = r /\ n = x * p + r /\ (n >= 0 => x >= 0)
    BY <2>1, Division
  <2> QED
    BY <2>1, <2>2
<1>2. PICK y \in Int, f \in 0..s - 1 : x = y * s + f /\ y >= 0
  BY <1>1, Division
<1> DEFINE z == IF f < e THEN y ELSE y + 1
           q == z * s + e
<1>3. z \in Nat /\ z \in Int
  BY <1>2
<1>4. q \in Nat /\ q >= x + 1 /\ q <= x + s
  <2>1. CASE f < e
    BY <1>2, <2>1
  <2>2. CASE f >= e
    <3>1. q = y * s + s + e /\ y * s \in Nat
      BY <1>2, <2>2
    <3> HIDE DEF q
    <3> QED
      BY <1>2, <2>2, <3>1
  <2> QED
    BY <1>2, <2>1, <2>2
<1>5. q % s = e
  <2>1. q \in Int
    BY <1>4
  <2> HIDE DEF z
  <2> QED
    BY <1>3, <2>1, DivisionUnique
<1> HIDE DEF q
<1>6. n < q * p /\ q * p <= n + s * p
  <2>1. x + 1 \in Int /\ x + s \in Int /\ ~(q < x + 1) /\ ~(x + s < q)
    BY <1>4
  <2>2. ~(q * p < (x + 1) * p) /\ ~((x + s) * p < q * p)
    BY <1>4, <2>1, TimesOrder
  <2>3. (x + 1) * p = x * p + p /\ (x + s) * p = x * p + s * p /\ x * p \in Int /\ s * p \in Int /\ q * p \in Int
    BY <1>4
  <2> QED
    BY <1>1, <2>2, <2>3
<1> QED
  BY <1>4, <1>5, <1>6

LEMMA AddModulo ==
    ASSUME NEW x \in Nat, NEW d \in Nat, NEW s \in Nat \ {0}
    PROVE  (x + d) % s = ((x % s) + d) % s
<1>1. PICK y \in Int, r \in 0..s - 1 : x % s = r /\ x = y * s + r
  <2>1. x \in Int
    OBVIOUS
  <2> QED
    BY <2>1, Division
<1>2. r + d \in Int
  OBVIOUS
<1>3. PICK z \in Int, u \in 0..s - 1 : (r + d) % s = u /\ r + d = z * s + u
  BY <1>2, Division
<1>4. x + d = (y + z) * s + u /\ y + z \in Int /\ x + d \in Int
  <2>1. (y + z) * s = y * s + z * s /\ y * s \in Int /\ z * s \in Int
    OBVIOUS
  <2> QED
    BY <1>1, <1>3, <2>1
<1>5. (x + d) % s = u
  BY <1>4, DivisionUnique
<1> QED
  BY <1>1, <1>3, <1>5

\* Small numbers.
LEMMA SmallDivision ==
    ASSUME NEW b \in Nat \ {0}, NEW a \in 0..b - 1
    PROVE  a \div b = 0 /\ a % b = a
<1>1. a = 0 * b + a /\ 0 \in Int /\ a \in Int
  OBVIOUS
<1> QED
  BY <1>1, DivisionUnique

\* The digits of a number are worth what it leaves of the period above them.
DigitsOf(x) == [i \in Levels |-> (x \div Period[i]) % SlotCnt]

LEMMA DigitsType ==
    ASSUME NEW x \in Nat
    PROVE  DigitsOf(x) \in [Levels -> Slots]
<1> SUFFICES ASSUME NEW i \in Levels PROVE (x \div Period[i]) % SlotCnt \in Slots
  BY DEF DigitsOf
<1>1. Period[i] \in Nat \ {0} /\ SlotCnt \in Nat \ {0}
  BY PeriodValues, WheelAssumption DEF Levels
<1>2. x \div Period[i] \in Int
  BY <1>1, Division
<1> QED
  BY <1>1, <1>2, Division DEF Slots

LEMMA DigitsWorth ==
    ASSUME NEW x \in Nat, NEW i \in 0..LevelCnt
    PROVE  WorthBelow(DigitsOf(x), i) = x % Period[i]
<1> DEFINE D == DigitsOf(x)
           T == {k \in Nat : k <= LevelCnt => WorthBelow(D, k) = x % Period[k]}
<1>0. D \in [Levels -> Slots]
  BY DigitsType
<1>1. 0 \in T
  <2>1. x % 1 = 0
    OBVIOUS
  <2> QED
    BY <1>0, <2>1, WorthNext, PeriodValues
<1>2. ASSUME NEW k \in Nat, k \in T PROVE k + 1 \in T
  <2> SUFFICES ASSUME k + 1 <= LevelCnt PROVE WorthBelow(D, k + 1) = x % Period[k + 1]
    OBVIOUS
  <2>1. k \in Levels /\ WorthBelow(D, k) = x % Period[k]
    BY <1>2, WheelAssumption DEF Levels
  <2>2. WorthBelow(D, k + 1) = WorthBelow(D, k) + D[k] * Period[k]
    BY <1>0, <2>1, WorthNext
  <2>3. D[k] = (x \div Period[k]) % SlotCnt
    BY <2>1 DEF DigitsOf
  <2>4. x \in Int /\ SlotCnt \in Nat \ {0} /\ Period[k] \in Nat \ {0} /\ Period[k + 1] = SlotCnt * Period[k]
    BY PeriodValues, WheelAssumption
  <2>5. (x % Period[k]) + ((x \div Period[k]) % SlotCnt) * Period[k] = x % (SlotCnt * Period[k])
    BY <2>4, RestDigit, Zenon
  <2>6. x % (SlotCnt * Period[k]) = x % Period[k + 1]
    BY <2>4
  <2> HIDE DEF D
  <2> QED
    BY <2>1, <2>2, <2>3, <2>5, <2>6, Zenon
<1> HIDE DEF T
<1>3. Nat \subseteq T
  BY <1>1, <1>2, SetInduction
<1>4. i \in Nat /\ i <= LevelCnt
  BY WheelAssumption
<1> QED
  BY <1>3, <1>4 DEF T

LEMMA WorthAdds ==
    ASSUME NEW idx \in [Levels -> Slots], NEW c \in [Levels -> Slots], NEW d \in [Levels -> Slots],
           NEW i \in 0..LevelCnt, \A k \in 0..i - 1 : idx[k] = c[k] + d[k]
    PROVE  WorthBelow(idx, i) = WorthBelow(c, i) + WorthBelow(d, i)
<1> DEFINE T == {k \in Nat : k <= i => WorthBelow(idx, k) = WorthBelow(c, k) + WorthBelow(d, k)}
<1>0. i \in Nat /\ i <= LevelCnt /\ LevelCnt \in Nat
  BY WheelAssumption
<1>1. 0 \in T
  BY WorthNext
<1>2. ASSUME NEW k \in Nat, k \in T PROVE k + 1 \in T
  <2> SUFFICES ASSUME k + 1 <= i PROVE WorthBelow(idx, k + 1) = WorthBelow(c, k + 1) + WorthBelow(d, k + 1)
    OBVIOUS
  <2>1. k \in Levels /\ k \in 0..i - 1 /\ WorthBelow(idx, k) = WorthBelow(c, k) + WorthBelow(d, k)
    BY <1>0, <1>2 DEF Levels
  <2> DEFINE p == Period[k]
             u == c[k]
             v == d[k]
  <2>2. /\ WorthBelow(idx, k + 1) = WorthBelow(idx, k) + idx[k] * p
        /\ WorthBelow(c, k + 1) = WorthBelow(c, k) + u * p
        /\ WorthBelow(d, k + 1) = WorthBelow(d, k) + v * p
    BY <2>1, WorthNext
  <2>3. idx[k] = u + v /\ u \in Nat /\ v \in Nat /\ p \in Nat
        /\ WorthBelow(c, k) \in Nat /\ WorthBelow(d, k) \in Nat
    <3>1. c[k] \in Slots /\ d[k] \in Slots
      BY <2>1
    <3>2. u \in Nat /\ v \in Nat
      BY <3>1, WheelAssumption DEF Slots
    <3> QED
      BY <2>1, <3>2, PeriodValues, WorthNext
  <2> HIDE DEF p, u, v
  <2>4. (u + v) * p = u * p + v * p /\ u * p \in Nat /\ v * p \in Nat
    BY <2>3
  <2> QED
    BY <2>1, <2>2, <2>3, <2>4
<1> HIDE DEF T
<1>3. Nat \subseteq T
  BY <1>1, <1>2, SetInduction
<1> QED
  BY <1>0, <1>3 DEF T

(***************************************************************************)
(* A job as AddFunc puts it into a slot.                                   *)
(***************************************************************************)
LEMMA PosIsDigits == PosAt(now) = DigitsOf(now)
  BY DEF PosAt, DigitsOf

LEMMA IndexType ==
    ASSUME now \in Nat, curPos = PosAt(now), NEW tc \in Nat
    PROVE  /\ LevelSlotIdx(tc) \in [Levels -> Slots] /\ LevelSlotIdx(tc)[LevelCnt - 1] = 0
           /\ \A k \in 0..LevelCnt - 2 : LevelSlotIdx(tc)[k] = (curPos[k] + DigitsOf(tc)[k]) % SlotCnt
           /\ curPos \in [Levels -> Slots] /\ DigitsOf(tc) \in [Levels -> Slots]
<1>1. curPos \in [Levels -> Slots] /\ DigitsOf(tc) \in [Levels -> Slots]
  BY DigitsType, PosIsDigits
<1>2. \A i \in Levels : DigitsOf(tc)[i] = Digit(tc, i)
  BY DEF DigitsOf, Digit
<1>3. LevelCnt - 1 \in Levels /\ ~(LevelCnt - 1 < LevelCnt - 1) /\ \A k \in 0..LevelCnt - 2 : k \in Levels /\ k < LevelCnt - 1
  BY WheelAssumption DEF Levels
<1>4. \A i \in Levels : LevelSlotIdx(tc)[i] \in Slots
  <2> SUFFICES ASSUME NEW i \in Levels PROVE LevelSlotIdx(tc)[i] \in Slots
    OBVIOUS
  <2>1. SlotCnt \in Nat \ {0} /\ 0 \in Slots
    BY WheelAssumption DEF Slots
  <2>2. curPos[i] + Digit(tc, i) \in Int
    <3>1. curPos[i] \in Slots /\ Digit(tc, i) \in Slots
      BY <1>1, <1>2
    <3> QED
      BY <3>1, WheelAssumption DEF Slots
  <2>3. (curPos[i] + Digit(tc, i)) % SlotCnt \in Slots
    BY <2>1, <2>2, Division DEF Slots
  <2> QED
    BY <2>1, <2>3 DEF LevelSlotIdx
<1>5. LevelSlotIdx(tc) = [i \in Levels |-> LevelSlotIdx(tc)[i]]
  BY DEF LevelSlotIdx
<1>6. LevelSlotIdx(tc) \in [Levels -> Slots]
  BY <1>4, <1>5
<1> QED
  BY <1>1, <1>2, <1>3, <1>6 DEF LevelSlotIdx

\* Of a delay that its indices express exactly.
LEMMA ExactWait ==
    ASSUME now \in Nat, curPos = PosAt(now), NEW tc \in Nat,
           NEW a, a = [at |-> now, from |-> curPos, tc |-> tc], Exact(a)
    PROVE  LET idx == LevelSlotIdx(tc)
               i   == LevelOf(idx)
           IN  \E q \in Nat : /\ now < q * Period[i] /\ q * Period[i] <= now + Period[i + 1]
                              /\ q % SlotCnt = idx[i]
                              /\ q * Period[i] + WorthBelow(idx, i) = now + tc
                              /\ \A k \in 0..i - 1 : idx[k] # 0
<1> DEFINE idx == LevelSlotIdx(tc)
           i   == LevelOf(idx)
           D   == DigitsOf(tc)
           sum(k) == curPos[k] + D[k]
           Wanted(q, l) == /\ now < q * Period[l] /\ q * Period[l] <= now + Period[l + 1]
                           /\ q % SlotCnt = idx[l]
                           /\ q * Period[l] + WorthBelow(idx, l) = now + tc
                           /\ \A k \in 0..l - 1 : idx[k] # 0
<1> SUFFICES \E q \in Nat : Wanted(q, i)
  OBVIOUS
<1>1. PICK top \in 0..LevelCnt - 2 :
        /\ tc < Period[top + 1]
        /\ \A k \in Levels : k > top => curPos[k] = 0
        /\ \A k \in 0..top : sum(k) % SlotCnt # 0 /\ (top > 0 => sum(k) < SlotCnt)
        /\ D[top] # 0
  <2>1. a.tc = tc /\ a.from = curPos
    OBVIOUS
  <2>2. \A k \in Levels : D[k] = Digit(tc, k)
    BY DEF DigitsOf, Digit
  <2>3. \A m \in 0..LevelCnt - 2 : m \in Levels /\ \A k \in 0..m : k \in Levels
    BY WheelAssumption DEF Levels
  <2>4. PICK top \in 0..LevelCnt - 2 :
        /\ tc < Period[top + 1]
        /\ \A k \in Levels : k > top => curPos[k] = 0
        /\ \A k \in 0..top : (curPos[k] + Digit(tc, k)) % SlotCnt # 0 /\ (top > 0 => curPos[k] + Digit(tc, k) < SlotCnt)
        /\ Digit(tc, top) # 0
    BY <2>1 DEF Exact
  <2> HIDE DEF D
  <2> QED
    BY <2>2, <2>3, <2>4
<1>2. /\ idx \in [Levels -> Slots] /\ idx[LevelCnt - 1] = 0
      /\ \A k \in 0..LevelCnt - 2 : idx[k] = sum(k) % SlotCnt
      /\ curPos \in [Levels -> Slots] /\ D \in [Levels -> Slots]
  BY IndexType
<1> HIDE DEF idx
<1>3. /\ SlotCnt \in Nat \ {0, 1} /\ LevelCnt \in Nat \ {0, 1} /\ top \in Nat /\ top \in Levels
      /\ top + 1 \in 0..LevelCnt /\ top \in 0..LevelCnt
      /\ \A k \in Levels : k \in Nat /\ curPos[k] \in 0..SlotCnt - 1 /\ D[k] \in 0..SlotCnt - 1
  BY <1>2, WheelAssumption DEF Levels, Slots
<1>4. ASSUME NEW k \in Levels, k > top PROVE idx[k] = 0
  <2>1. CASE k = LevelCnt - 1
    BY <1>2, <2>1
  <2>2. CASE k # LevelCnt - 1
    <3>1. k \in 0..LevelCnt - 2 /\ curPos[k] = 0
      BY <1>1, <1>3, <1>4, <2>2 DEF Levels
    <3>2. Period[k] \in Nat \ {0} /\ Period[top + 1] <= Period[k] /\ Period[top + 1] \in Nat
      <4>1. top + 1 <= k /\ top + 1 \in Nat /\ k \in Nat
        BY <1>3, <1>4
      <4> QED
        BY <4>1, Grows, PeriodValues
    <3>3. tc \in 0..Period[k] - 1
      BY <1>1, <3>2
    <3>4. tc \div Period[k] = 0
      BY <3>2, <3>3, SmallDivision
    <3>5. 0 % SlotCnt = 0
      BY <1>3
    <3>6. D[k] = 0
      BY <3>4, <3>5 DEF DigitsOf
    <3> HIDE DEF D
    <3> QED
      BY <1>2, <3>1, <3>5, <3>6
  <2> QED
    BY <2>1, <2>2
<1>5. i = top
  <2>1. idx[top] # 0
    BY <1>1, <1>2
  <2>2. /\ i \in 0..LevelCnt - 2
        /\ \A k \in Levels : k > i => idx[k] = 0
        /\ idx[i] = 0 => \A k \in Levels : idx[k] = 0
    BY <1>2, LevelFound
  <2> HIDE DEF i
  <2>3. i \in Levels /\ ~(top > i) /\ ~(i > top)
    BY <1>3, <1>4, <2>1, <2>2 DEF Levels
  <2> QED
    BY <1>3, <2>3
<1> HIDE DEF i, D
<1> DEFINE p == Period[top]
           P == Period[top + 1]
<1>6. p \in Nat \ {0} /\ P = SlotCnt * p /\ P \in Nat \ {0}
  BY <1>3, PeriodValues
<1>7. CASE top = 0
  <2>1. p = 1 /\ P = SlotCnt /\ WorthBelow(idx, top) = 0
    BY <1>2, <1>3, <1>6, <1>7, PeriodValues, WorthNext
  <2>2. curPos[0] = now % SlotCnt
    <3>1. now \div 1 = now
      OBVIOUS
    <3> QED
      BY <1>3, <1>7, <2>1, <3>1 DEF PosAt
  <2>3. D[0] = tc /\ tc # 0
    <3>1. tc \div 1 = tc
      OBVIOUS
    <3>2. tc \in 0..SlotCnt - 1
      BY <1>1, <1>3, <1>7, <2>1
    <3>3. tc % SlotCnt = tc
      BY <1>3, <3>2, SmallDivision
    <3>4. D[0] = tc
      BY <1>3, <1>7, <2>1, <3>1, <3>3 DEF D, DigitsOf
    <3> QED
      BY <1>1, <1>7, <3>4
  <2>4. (now + tc) % SlotCnt = idx[0]
    <3>1. (now + tc) % SlotCnt = ((now % SlotCnt) + tc) % SlotCnt
      BY <1>3, AddModulo
    <3> QED
      BY <1>2, <1>7, <2>2, <2>3, <3>1
  <2> DEFINE q == now + tc
  <2>5. q \in Nat /\ q * p = now + tc /\ now < q * p /\ q * p <= now + P
    BY <1>1, <1>3, <2>1, <2>3
  <2>6. q * p + WorthBelow(idx, top) = now + tc /\ \A k \in 0..top - 1 : idx[k] # 0
    BY <1>7, <2>1, <2>5
  <2>7. Period[0 + 1] = P
    BY <1>7
  <2> HIDE DEF P
  <2>8. Wanted(q, top)
    BY <1>7, <2>4, <2>5, <2>6, <2>7
  <2> QED
    BY <1>5, <2>5, <2>8
<1>8. CASE top > 0
  <2> DEFINE x == now \div P
             c == curPos[top]
             d == D[top]
             e == idx[top]
             q == x * SlotCnt + e
             low == now % p
             rest == now % P
  <2>1. \A k \in 0..top : k \in Levels /\ k \in 0..LevelCnt - 2 /\ idx[k] = sum(k) /\ idx[k] # 0
    <3> SUFFICES ASSUME NEW k \in 0..top PROVE k \in Levels /\ k \in 0..LevelCnt - 2 /\ idx[k] = sum(k) /\ idx[k] # 0
      OBVIOUS
    <3>1. k \in Levels /\ k \in 0..LevelCnt - 2
      BY <1>3 DEF Levels
    <3>2. sum(k) \in 0..SlotCnt - 1
      BY <1>1, <1>3, <1>8, <3>1
    <3>3. sum(k) % SlotCnt = sum(k)
      BY <1>3, <3>2, SmallDivision
    <3> QED
      BY <1>1, <1>2, <3>1, <3>3
  <2>2. x \in Nat /\ rest \in 0..P - 1 /\ now = x * P + rest
    <3>1. now \in Int /\ now >= 0
      OBVIOUS
    <3> HIDE DEF P
    <3>2. \E y \in Int, r \in 0..P - 1 : now \div P = y /\ now % P = r /\ now = y * P + r /\ (now >= 0 => y >= 0)
      BY <1>6, <3>1, Division
    <3> QED
      BY <3>1, <3>2
  <2>3. low \in 0..p - 1
    <3>1. now \in Int
      OBVIOUS
    <3> HIDE DEF p
    <3> QED
      BY <1>6, <3>1, Division
  <2>4. e = c + d /\ c \in Nat /\ d \in Nat /\ d >= 1 /\ e \in 0..SlotCnt - 1
    <3>1. top \in 0..top
      BY <1>3
    <3>2. e = c + d
      BY <2>1, <3>1
    <3>3. c \in 0..SlotCnt - 1 /\ d \in 0..SlotCnt - 1
      BY <1>3
    <3>4. d # 0
      BY <1>1
    <3>5. e \in Slots
      BY <1>2, <1>3
    <3> HIDE DEF c, d, e
    <3> QED
      BY <1>3, <3>2, <3>3, <3>4, <3>5 DEF Slots
  <2>5. rest = low + c * p
    <3>1. WorthBelow(curPos, top) = low /\ WorthBelow(curPos, top + 1) = rest
      BY <1>3, DigitsWorth, PosIsDigits
    <3>2. WorthBelow(curPos, top + 1) = WorthBelow(curPos, top) + c * p
      BY <1>2, <1>3, WorthNext
    <3> HIDE DEF c, p, low, rest
    <3> QED
      BY <3>1, <3>2
  <2>6. WorthBelow(idx, top) + e * p = rest + tc /\ WorthBelow(idx, top) \in Nat
    <3>1. \A k \in 0..(top + 1) - 1 : idx[k] = curPos[k] + D[k]
      BY <1>3, <2>1
    <3>2. WorthBelow(idx, top + 1) = WorthBelow(curPos, top + 1) + WorthBelow(D, top + 1)
      BY <1>2, <1>3, <3>1, WorthAdds
    <3>3. WorthBelow(curPos, top + 1) = rest
      BY <1>3, DigitsWorth, PosIsDigits
    <3>4. WorthBelow(D, top + 1) = tc
      <4>1. tc \in 0..P - 1
        BY <1>1, <1>6
      <4>2. tc % P = tc
        BY <1>6, <4>1, SmallDivision
      <4> QED
        BY <1>3, <4>2, DigitsWorth DEF D
    <3>5. WorthBelow(idx, top + 1) = WorthBelow(idx, top) + e * p /\ WorthBelow(idx, top) \in Nat
      BY <1>2, <1>3, WorthNext
    <3> HIDE DEF e, p, rest
    <3> QED
      BY <3>2, <3>3, <3>4, <3>5
  <2> HIDE DEF c, d, e, low, rest, x, p, P
  <2>7. q * p = x * P + e * p /\ x * P \in Nat /\ e * p \in Nat /\ q \in Nat
    <3>1. (x * SlotCnt + e) * p = x * (SlotCnt * p) + e * p
      BY <1>3, <1>6, <2>2, <2>4
    <3> QED
      BY <1>3, <1>6, <2>2, <2>4, <3>1
  <2>8. q % SlotCnt = e
    <3>1. x \in Int /\ q \in Int /\ SlotCnt \in Nat \ {0}
      BY <1>3, <2>2, <2>7
    <3> QED
      BY <2>4, <3>1, DivisionUnique
  <2> HIDE DEF q
  <2>9. now < q * p
    <3>1. e * p = c * p + d * p /\ c * p \in Nat /\ d * p \in Nat
      BY <1>6, <2>4
    <3>2. d * p >= p
      <4>1. ~(d * p < 1 * p)
        BY <1>6, <2>4, TimesOrder
      <4> QED
        BY <1>6, <3>1, <4>1
    <3> QED
      BY <1>6, <2>2, <2>3, <2>5, <2>7, <3>1, <3>2
  <2>10. q * p <= now + P
    <3>1. e * p < SlotCnt * p
      BY <1>3, <1>6, <2>4, TimesOrder
    <3> QED
      BY <1>6, <2>2, <2>7, <3>1
  <2>11. q * p + WorthBelow(idx, top) = now + tc
    BY <2>2, <2>6, <2>7
  <2>12. \A k \in 0..top - 1 : idx[k] # 0
    BY <1>3, <2>1
  <2>13. Wanted(q, top)
    BY <2>8, <2>9, <2>10, <2>11, <2>12 DEF e, p, P
  <2> QED
    BY <1>5, <2>7, <2>13
<1>9. top = 0 \/ top > 0
  BY <1>3
<1> QED
  BY <1>7, <1>8, <1>9 DEF idx, i

LEMMA AddedOnTime ==
    ASSUME now \in Nat, curPos = PosAt(now), NEW tc \in Nat,
           NEW a, a = [at |-> now, from |-> curPos, tc |-> tc]
    PROVE  OnTime(a, LevelSlotIdx(tc), now, LevelOf(LevelSlotIdx(tc)))
<1> DEFINE idx == LevelSlotIdx(tc)
           i   == LevelOf(idx)
           Next1(q) == now < q * Period[i] /\ q * Period[i] <= now + Period[i + 1] /\ q % SlotCnt = idx[i]
<1>1. idx \in [Levels -> Slots] /\ idx[LevelCnt - 1] = 0
  BY IndexType
<1>2. i \in 0..LevelCnt - 2
  BY <1>1, LevelFound
<1>3. i \in Nat /\ i + 1 \in Nat /\ LevelCnt - 1 \in Nat /\ i + 1 <= LevelCnt - 1 /\ i \in Levels
      /\ SlotCnt \in Nat \ {0}
  <2> HIDE DEF i
  <2> QED
    BY <1>2, WheelAssumption DEF Levels
<1>4. \E q \in Nat : Next1(q) /\ (Exact(a) => q * Period[i] + WorthBelow(idx, i) = now + tc /\ \A k \in 0..i - 1 : idx[k] # 0)
  <2>1. CASE Exact(a)
    <3>1. \E q \in Nat : /\ now < q * Period[i] /\ q * Period[i] <= now + Period[i + 1]
                         /\ q % SlotCnt = idx[i]
                         /\ q * Period[i] + WorthBelow(idx, i) = now + tc
                         /\ \A k \in 0..i - 1 : idx[k] # 0
      BY <2>1, ExactWait
    <3> HIDE DEF idx, i
    <3> QED
      BY <3>1
  <2>2. CASE ~Exact(a)
    <3> HIDE DEF idx, i
    <3> DEFINE p == Period[i]
               e == idx[i]
    <3>1. p \in Nat \ {0} /\ Period[i + 1] = SlotCnt * p /\ e \in 0..SlotCnt - 1
      BY <1>1, <1>3, PeriodValues DEF Slots
    <3> HIDE DEF p, e
    <3>2. \E q \in Nat : now < q * p /\ q * p <= now + SlotCnt * p /\ q % SlotCnt = e
      BY <1>3, <3>1, NextTurn
    <3> QED
      BY <2>2, <3>1, <3>2 DEF p, e
  <2> QED
    BY <2>1, <2>2
<1> HIDE DEF idx, i
<1>5. PICK q \in Nat : Next1(q) /\ (Exact(a) => q * Period[i] + WorthBelow(idx, i) = now + tc /\ \A k \in 0..i - 1 : idx[k] # 0)
  BY <1>4
<1>6. q * Period[i] + Revolutions[i] <= now + Revolutions[LevelCnt - 1]
  <2> DEFINE w == q * Period[i]
             p == Period[i + 1]
             r == Revolutions[i]
             R == Revolutions[LevelCnt - 1]
  <2>1. w \in Nat /\ p \in Nat /\ r \in Nat /\ R \in Nat /\ Revolutions[i + 1] = r + p
    <3>1. Period[i] \in Nat /\ p \in Nat /\ r \in Nat /\ R \in Nat
      BY <1>3, PeriodValues, RevolutionValues
    <3>2. w \in Nat
      BY <3>1
    <3>3. Revolutions[i + 1] = r + p
      BY <1>3, RevolutionValues
    <3> QED
      BY <3>1, <3>2, <3>3
  <2>2. Revolutions[i + 1] <= R
    BY <1>3, Grows
  <2>3. w <= now + p
    BY <1>5
  <2> HIDE DEF w, p, r, R
  <2>4. w + r <= now + R
    BY <2>1, <2>2, <2>3
  <2> QED
    BY <2>4 DEF w, r, R
<1>7. a.at = now /\ a.tc = tc
  OBVIOUS
<1>8. Waits(a, idx, now, i, q)
  BY <1>5, <1>6, <1>7 DEF Waits
<1> QED
  BY <1>8 DEF OnTime, idx, i

(***************************************************************************)
(* The invariant: every job that was added and has not fired waits in      *)
(* exactly one slot, the one its index names, for the turn that is due.    *)
(***************************************************************************)
AddedJobs == [at : Nat, from : [Levels -> Slots], tc : Nat]

TwTypes ==
    /\ now \in Nat /\ curPos = PosAt(now)
    /\ slots \in [Levels -> [Slots -> SUBSET Jobs]]
    /\ slotIdx \in [Jobs -> [Levels -> Slots]]
    /\ added \in [Jobs -> AddedJobs \cup {NotAdded}]
    /\ firedAt \in [Jobs -> SUBSET Nat]

InSlot(j, i, s) ==
    /\ s = slotIdx[j][i] /\ i < LevelCnt - 1
    /\ added[j] # NotAdded /\ firedAt[j] = {}
    /\ OnTime(added[j], slotIdx[j], now, i)

FiredOnce(j) ==
    firedAt[j] # {} => /\ added[j] # NotAdded
                       /\ \E t \in Nat : /\ firedAt[j] = {t} /\ t <= now
                                         /\ Exact(added[j]) => t = added[j].at + added[j].tc

TwInv ==
    /\ TwTypes
    /\ \A i \in Levels, s \in Slots : \A j \in slots[i][s] : InSlot(j, i, s)
    /\ \A j \in Jobs : added[j] # NotAdded /\ firedAt[j] = {} => \E i \in Levels : j \in slots[i][slotIdx[j][i]]
    /\ \A i, k \in Levels, s, u \in Slots : \A j \in slots[i][s] : j \in slots[k][u] => i = k
    /\ \A j \in Jobs : FiredOnce(j)

LEMMA NotAddedApart == \A a \in AddedJobs : a # NotAdded
  BY DEF AddedJobs, NotAdded

LEMMA TwInvInit == TwInit => TwInv
<1> SUFFICES ASSUME TwInit PROVE TwInv
  OBVIOUS
<1>1. curPos = PosAt(0)
  <2>1. \A i \in Levels : (0 \div Period[i]) % SlotCnt = 0
    <3> SUFFICES ASSUME NEW i \in Levels PROVE (0 \div Period[i]) % SlotCnt = 0
      OBVIOUS
    <3>1. Period[i] \in Nat \ {0} /\ SlotCnt \in Nat \ {0}
      BY PeriodValues, WheelAssumption DEF Levels
    <3>2. 0 \in 0..Period[i] - 1 /\ 0 \in 0..SlotCnt - 1
      BY <3>1
    <3> QED
      BY <3>1, <3>2, SmallDivision
  <2> QED
    BY <2>1 DEF TwInit, PosAt
<1>2. 0 \in Slots
  BY WheelAssumption DEF Slots
<1>3. TwTypes
  BY <1>1, <1>2 DEF TwInit, TwTypes
<1>4. \A i \in Levels, s \in Slots : slots[i][s] = {}
  BY DEF TwInit
<1>5. \A j \in Jobs : added[j] = NotAdded /\ firedAt[j] = {}
  BY DEF TwInit
<1> QED
  BY <1>3, <1>4, <1>5 DEF TwInv, FiredOnce

LEMMA TwInvAdd ==
    ASSUME TwInv, NEW j \in Jobs, NEW tc \in Nat, AddFunc(j, tc)
    PROVE  TwInv'
<1> DEFINE idx == LevelSlotIdx(tc)
           i   == LevelOf(idx)
           a   == [at |-> now, from |-> curPos, tc |-> tc]
<1>1. TwTypes
  BY DEF TwInv
<1>2. /\ idx \in [Levels -> Slots] /\ idx[LevelCnt - 1] = 0 /\ curPos \in [Levels -> Slots]
      /\ OnTime(a, idx, now, i)
  BY <1>1, IndexType, AddedOnTime DEF TwTypes
<1>3. i \in 0..LevelCnt - 2
  BY <1>2, LevelFound
<1>4. /\ added[j] = NotAdded /\ UNCHANGED <<curPos, firedAt, now>>
      /\ slotIdx' = [slotIdx EXCEPT ![j] = idx]
      /\ slots' = [slots EXCEPT ![i][idx[i]] = @ \cup {j}]
      /\ added' = [added EXCEPT ![j] = a]
  BY DEF AddFunc
<1> HIDE DEF i, idx
<1>5. i \in Levels /\ i < LevelCnt - 1 /\ idx[i] \in Slots
  <2>1. i \in Levels /\ i < LevelCnt - 1
    BY <1>3, WheelAssumption DEF Levels
  <2> QED
    BY <1>2, <2>1
<1>6. a \in AddedJobs /\ a # NotAdded
  <2>1. a \in AddedJobs
    BY <1>1, <1>2 DEF TwTypes, AddedJobs
  <2> QED
    BY <2>1, NotAddedApart
<1> HIDE DEF a
<1>7. \A k \in Levels, s \in Slots : slots'[k][s] = IF k = i /\ s = idx[i] THEN slots[k][s] \cup {j} ELSE slots[k][s]
  BY <1>1, <1>4, <1>5 DEF TwTypes
<1>17. \A k \in Levels, s \in Slots, l \in Jobs : l # j => (l \in slots'[k][s] <=> l \in slots[k][s])
  <2> SUFFICES ASSUME NEW k \in Levels, NEW s \in Slots, NEW l \in Jobs, l # j
               PROVE l \in slots'[k][s] <=> l \in slots[k][s]
    OBVIOUS
  <2>1. CASE k = i /\ s = idx[i]
    <3>1. slots'[k][s] = slots[k][s] \cup {j}
      BY <1>7, <2>1
    <3> QED
      BY <2>1, <3>1
  <2>2. CASE ~(k = i /\ s = idx[i])
    <3>1. slots'[k][s] = slots[k][s]
      BY <1>7, <2>2
    <3> QED
      BY <3>1
  <2> QED
    BY <2>1, <2>2
<1>8. TwTypes'
  <2>1. slots' \in [Levels -> [Slots -> SUBSET Jobs]]
    BY <1>1, <1>4, <1>5 DEF TwTypes
  <2>2. slotIdx' \in [Jobs -> [Levels -> Slots]] /\ added' \in [Jobs -> AddedJobs \cup {NotAdded}]
    BY <1>1, <1>2, <1>4, <1>6 DEF TwTypes
  <2>3. curPos' = PosAt(now)'
    BY <1>1, <1>4 DEF TwTypes, PosAt
  <2> QED
    BY <1>1, <1>4, <2>1, <2>2, <2>3 DEF TwTypes
<1>9. firedAt[j] = {}
  BY <1>4 DEF TwInv, FiredOnce
<1>10. \A k \in Levels, s \in Slots : j \notin slots[k][s]
  BY <1>4 DEF TwInv, InSlot
<1>18. \A k \in Levels, s \in Slots : j \in slots'[k][s] => k = i /\ s = idx[i]
  BY <1>7, <1>10
<1>11. \A k \in Jobs : k # j => added'[k] = added[k] /\ slotIdx'[k] = slotIdx[k]
  BY <1>1, <1>4 DEF TwTypes
<1>12. added'[j] = a /\ slotIdx'[j] = idx
  BY <1>1, <1>4 DEF TwTypes
<1>13. ASSUME NEW k \in Levels, NEW s \in Slots, NEW l \in slots'[k][s] PROVE InSlot(l, k, s)'
  <2>1. CASE l = j
    <3>1. k = i /\ s = idx[i]
      BY <1>13, <1>18, <2>1
    <3>2. k < LevelCnt - 1 /\ s = slotIdx'[j][k] /\ added'[j] # NotAdded /\ firedAt'[j] = {}
      BY <1>4, <1>5, <1>6, <1>9, <1>12, <3>1
    <3>3. OnTime(added'[j], slotIdx'[j], now', k)
      <4>1. OnTime(added'[j], slotIdx'[j], now', k) = OnTime(a, idx, now, i)
        BY <1>4, <1>12, <3>1
      <4> QED
        BY <1>2, <4>1, Zenon
    <3> QED
      BY <2>1, <3>2, <3>3, Zenon DEF InSlot
  <2>2. CASE l # j
    <3>2. l \in Jobs
      BY <1>8, <1>13 DEF TwTypes
    <3>1. l \in slots[k][s]
      BY <1>13, <1>17, <2>2, <3>2
    <3>3. InSlot(l, k, s)
      BY <3>1 DEF TwInv
    <3> QED
      BY <1>4, <1>11, <2>2, <3>2, <3>3 DEF InSlot
  <2> QED
    BY <2>1, <2>2
<1>14. ASSUME NEW l \in Jobs, added'[l] # NotAdded, firedAt'[l] = {} PROVE \E k \in Levels : l \in slots'[k][slotIdx'[l][k]]
  <2>1. CASE l = j
    BY <1>5, <1>7, <1>12, <2>1
  <2>2. CASE l # j
    <3>1. PICK k \in Levels : l \in slots[k][slotIdx[l][k]]
      BY <1>4, <1>11, <1>14, <2>2 DEF TwInv
    <3>2. slotIdx[l][k] \in Slots
      BY <1>1 DEF TwTypes
    <3>3. l \in slots'[k][slotIdx[l][k]]
      BY <1>7, <3>1, <3>2
    <3> QED
      BY <1>11, <2>2, <3>3
  <2> QED
    BY <2>1, <2>2
<1>15. ASSUME NEW k \in Levels, NEW m \in Levels, NEW s \in Slots, NEW u \in Slots,
              NEW l \in slots'[k][s], l \in slots'[m][u]
       PROVE k = m
  <2>1. CASE l = j
    BY <1>15, <1>18, <2>1
  <2>2. CASE l # j
    <3>3. l \in Jobs
      BY <1>8, <1>15 DEF TwTypes
    <3>1. l \in slots[k][s]
      BY <1>15, <1>17, <2>2, <3>3
    <3>2. l \in slots[m][u]
      BY <1>15, <1>17, <2>2, <3>3
    <3> QED
      BY <3>1, <3>2 DEF TwInv
  <2> QED
    BY <2>1, <2>2
<1>16. ASSUME NEW l \in Jobs PROVE FiredOnce(l)'
  <2>1. CASE l = j
    BY <1>4, <1>9, <2>1 DEF FiredOnce
  <2>2. CASE l # j
    <3>1. FiredOnce(l)
      BY DEF TwInv
    <3> QED
      BY <1>4, <1>11, <2>2, <3>1 DEF FiredOnce
  <2> QED
    BY <2>1, <2>2
<1> QED
  BY <1>8, <1>13, <1>14, <1>15, <1>16 DEF TwInv

LEMMA TwInvTick ==
    ASSUME TwInv, Tick
    PROVE  TwInv'
<1>1. TwTypes
  BY DEF TwInv
<1>2. now' = now + 1 /\ now \in Nat /\ now' \in Nat /\ UNCHANGED <<slotIdx, added>>
  BY <1>1 DEF Tick, TwTypes
<1>3. curPos' = PosAt(now')
  <2>1. curPos' = [i \in Levels |-> IF Turns(i) THEN (curPos[i] + 1) % SlotCnt ELSE curPos[i]]
    BY DEF Tick
  <2> QED
    BY <1>1, <1>2, <2>1, PosNext DEF TwTypes
<1>4. curPos' \in [Levels -> Slots]
  BY <1>2, <1>3, PosIsDigits, DigitsType DEF PosAt, DigitsOf
<1> DEFINE Turned(i, s) == Turns(i) /\ s = curPos'[i]
<1>5. \A i \in Levels, s \in Slots : Turned(i, s) <=> (now + 1) % Period[i] = 0 /\ ((now + 1) \div Period[i]) % SlotCnt = s
  <2> SUFFICES ASSUME NEW i \in Levels, NEW s \in Slots
               PROVE Turned(i, s) <=> (now + 1) % Period[i] = 0 /\ ((now + 1) \div Period[i]) % SlotCnt = s
    OBVIOUS
  <2>1. Turns(i) <=> (now + 1) % Period[i] = 0
    <3>1. i \in 0..LevelCnt
      BY WheelAssumption DEF Levels
    <3> QED
      BY <1>1, <3>1, TurnsWhen DEF TwTypes
  <2>2. curPos'[i] = ((now + 1) \div Period[i]) % SlotCnt
    BY <1>2, <1>3 DEF PosAt
  <2> QED
    BY <2>1, <2>2
<1>6. \A i \in Levels : i \in Nat /\ i <= LevelCnt - 1
  BY WheelAssumption DEF Levels
<1>7. ASSUME NEW i \in Levels
      PROVE Down(curPos', i) = {j \in Jobs : \E s \in Slots : Turned(i, s) /\ j \in slots[i][s]}
  <2>1. curPos'[i] \in Slots /\ slots[i][curPos'[i]] \subseteq Jobs
    BY <1>1, <1>4 DEF TwTypes
  <2> QED
    BY <2>1 DEF Down
\* Where the jobs of a slot are after the tick.
<1>8. ASSUME NEW i \in Levels, NEW s \in Slots, NEW j \in Jobs
      PROVE  j \in slots'[i][s] <=>
                 \/ j \in slots[i][s] /\ ~Turned(i, s)
                 \/ /\ i + 1 \in Levels /\ slotIdx[j][i] = s
                    /\ \E u \in Slots : Turned(i + 1, u) /\ j \in slots[i + 1][u]
  <2>1. slots'[i][s] = (IF Turned(i, s) THEN {} ELSE slots[i][s]) \cup {l \in Down(curPos', i + 1) : slotIdx[l][i] = s}
    BY DEF Tick
  <2>2. CASE i + 1 \in Levels
    <3>1. Down(curPos', i + 1) = {l \in Jobs : \E u \in Slots : Turned(i + 1, u) /\ l \in slots[i + 1][u]}
      BY <1>7, <2>2
    <3> HIDE DEF Turned
    <3> QED
      BY <2>1, <2>2, <3>1
  <2>3. CASE i + 1 \notin Levels
    <3>1. Down(curPos', i + 1) = {}
      BY <2>3 DEF Down
    <3> HIDE DEF Turned
    <3> QED
      BY <2>1, <2>3, <3>1
  <2> QED
    BY <2>2, <2>3
<1>9. \A j \in Jobs : firedAt'[j] = IF \E s \in Slots : Turned(0, s) /\ j \in slots[0][s]
                                    THEN firedAt[j] \cup {now + 1} ELSE firedAt[j]
  <2>1. 0 \in Levels
    BY WheelAssumption DEF Levels
  <2>2. Down(curPos', 0) = {j \in Jobs : \E s \in Slots : Turned(0, s) /\ j \in slots[0][s]}
    BY <1>7, <2>1
  <2>3. firedAt' = [j \in Jobs |-> IF j \in Down(curPos', 0) THEN firedAt[j] \cup {now + 1} ELSE firedAt[j]]
    BY <1>2 DEF Tick
  <2> HIDE DEF Turned
  <2> QED
    BY <2>2, <2>3
<1> HIDE DEF Turned
<1>10. TwTypes'
  <2>1. slots' \in [Levels -> [Slots -> SUBSET Jobs]]
    <3>1. \A i \in Nat : Down(curPos', i) \subseteq Jobs
      <4> SUFFICES ASSUME NEW i \in Nat PROVE Down(curPos', i) \subseteq Jobs
        OBVIOUS
      <4>1. CASE i \in Levels
        BY <1>7, <4>1
      <4>2. CASE i \notin Levels
        BY <4>2 DEF Down
      <4> QED
        BY <4>1, <4>2
    <3>2. ASSUME NEW i \in Levels, NEW s \in Slots
          PROVE (IF Turns(i) /\ s = curPos'[i] THEN {} ELSE slots[i][s]) \cup {l \in Down(curPos', i + 1) : slotIdx[l][i] = s} \in SUBSET Jobs
      <4>1. i + 1 \in Nat /\ slots[i][s] \subseteq Jobs
        BY <1>1, <1>6 DEF TwTypes
      <4> QED
        BY <3>1, <4>1
    <3>3. slots' = [i \in Levels |-> [s \in Slots |->
             (IF Turns(i) /\ s = curPos'[i] THEN {} ELSE slots[i][s]) \cup {l \in Down(curPos', i + 1) : slotIdx[l][i] = s}]]
      BY DEF Tick
    <3> QED
      BY <3>2, <3>3
  <2>2. firedAt' \in [Jobs -> SUBSET Nat]
    <3>1. firedAt' = [j \in Jobs |-> IF j \in Down(curPos', 0) THEN firedAt[j] \cup {now'} ELSE firedAt[j]]
      BY DEF Tick
    <3> QED
      BY <1>1, <1>2, <3>1 DEF TwTypes
  <2>3. PosAt(now)' = PosAt(now')
    BY DEF PosAt
  <2> QED
    BY <1>1, <1>2, <1>3, <2>1, <2>2, <2>3 DEF TwTypes
\* A job that is in a slot of the wheel 0 that is turned to fires on its tick.
<1>11. ASSUME NEW i \in Levels, NEW s \in Slots, NEW j \in slots[i][s]
       PROVE /\ j \in Jobs /\ InSlot(j, i, s) /\ added[j] \in AddedJobs
             /\ ~Turned(i, s) => OnTime(added[j], slotIdx[j], now', i)
             /\ Turned(i, s) /\ i # 0 => OnTime(added[j], slotIdx[j], now', i - 1)
             /\ Turned(i, s) /\ i = 0 /\ Exact(added[j]) => now' = added[j].at + added[j].tc
  <2>1. j \in Jobs /\ InSlot(j, i, s)
    BY <1>1 DEF TwInv, TwTypes
  <2>2. added[j] \in AddedJobs /\ slotIdx[j] \in [Levels -> Slots] /\ s = slotIdx[j][i] /\ OnTime(added[j], slotIdx[j], now, i)
    BY <1>1, <2>1 DEF InSlot, TwTypes
  <2> DEFINE a == added[j]
             idx == slotIdx[j]
  <2>3. a.at \in Nat /\ a.tc \in Nat
    BY <2>2 DEF AddedJobs
  <2>4. Turned(i, s) <=> (now + 1) % Period[i] = 0 /\ ((now + 1) \div Period[i]) % SlotCnt = idx[i]
    BY <1>5, <2>2
  <2> HIDE DEF a, idx
  <2>5. OnTime(a, idx, now, i) /\ idx \in [Levels -> Slots]
    BY <2>2 DEF a, idx
  <2>6. ASSUME ~Turned(i, s) PROVE OnTime(a, idx, now', i)
    BY <1>2, <1>6, <2>4, <2>5, <2>6, WaitsOn
  <2>7. ASSUME Turned(i, s), i # 0 PROVE OnTime(a, idx, now', i - 1)
    BY <1>2, <2>3, <2>4, <2>5, <2>7, MovesDown
  <2>8. ASSUME Turned(i, s), i = 0, Exact(a) PROVE now' = a.at + a.tc
    <3>1. PICK q \in Nat : Waits(a, idx, now, i, q)
      BY <2>5 DEF OnTime
    <3>2. q * Period[i] = now + 1
      BY <1>2, <1>6, <2>4, <2>8, <3>1, DueTurn
    <3>3. q * Period[i] + WorthBelow(idx, i) = a.at + a.tc
      BY <2>8, <3>1 DEF Waits
    <3>4. WorthBelow(idx, i) = 0
      BY <2>5, <2>8, WorthNext
    <3> QED
      BY <1>2, <3>2, <3>3, <3>4
  <2> QED
    BY <2>1, <2>2, <2>6, <2>7, <2>8 DEF a, idx
\* Only jobs of wheel 0 that it turned to have fired now.
<1>12. ASSUME NEW i \in Levels, NEW s \in Slots, NEW j \in slots[i][s], ~(i = 0 /\ Turned(i, s))
       PROVE firedAt'[j] = {}
  <2>1. j \in Jobs /\ InSlot(j, i, s)
    BY <1>11
  <2>2. ~\E u \in Slots : Turned(0, u) /\ j \in slots[0][u]
    <3> SUFFICES ASSUME NEW u \in Slots, Turned(0, u), j \in slots[0][u] PROVE FALSE
      OBVIOUS
    <3>1. 0 \in Levels
      BY WheelAssumption DEF Levels
    <3>2. i = 0
      BY <3>1 DEF TwInv
    <3>3. u = s
      BY <1>11, <2>1, <3>1, <3>2 DEF InSlot
    <3> QED
      BY <1>12, <3>2, <3>3
  <2> QED
    BY <1>9, <2>1, <2>2 DEF InSlot
\* Where a job that is in a slot now was before.
<1>13. ASSUME NEW i \in Levels, NEW s \in Slots, NEW j \in slots'[i][s]
       PROVE /\ j \in Jobs
             /\ \E k \in Levels, u \in Slots :
                    /\ j \in slots[k][u] /\ ~(k = 0 /\ Turned(k, u))
                    /\ i = (IF Turned(k, u) THEN k - 1 ELSE k) /\ s = slotIdx[j][i]
  <2>1. j \in Jobs
    BY <1>10 DEF TwTypes
  <2>2. CASE j \in slots[i][s] /\ ~Turned(i, s)
    <3>1. s = slotIdx[j][i]
      BY <1>11, <2>2 DEF InSlot
    <3> QED
      BY <2>1, <2>2, <3>1
  <2>3. CASE i + 1 \in Levels /\ slotIdx[j][i] = s /\ \E u \in Slots : Turned(i + 1, u) /\ j \in slots[i + 1][u]
    <3>1. i + 1 # 0 /\ (i + 1) - 1 = i
      BY <1>6
    <3> QED
      BY <2>1, <2>3, <3>1
  <2> QED
    BY <1>8, <2>1, <2>2, <2>3
<1>14. ASSUME NEW i \in Levels, NEW s \in Slots, NEW j \in slots'[i][s] PROVE InSlot(j, i, s)'
  <2>1. PICK k \in Levels, u \in Slots :
            /\ j \in slots[k][u] /\ ~(k = 0 /\ Turned(k, u))
            /\ i = (IF Turned(k, u) THEN k - 1 ELSE k) /\ s = slotIdx[j][i]
    BY <1>13, <1>14
  <2>2. InSlot(j, k, u) /\ j \in Jobs
    BY <1>11, <2>1
  <2>3. OnTime(added[j], slotIdx[j], now', i)
    BY <1>11, <2>1
  <2>4. i < LevelCnt - 1
    <3>1. k < LevelCnt - 1 /\ k \in Nat /\ i \in Nat /\ (i = k \/ i = k - 1)
      BY <1>6, <2>1, <2>2 DEF InSlot
    <3> QED
      BY <3>1, WheelAssumption
  <2>5. firedAt'[j] = {}
    BY <1>12, <2>1
  <2> QED
    BY <1>2, <2>1, <2>2, <2>3, <2>4, <2>5 DEF InSlot
<1>15. ASSUME NEW j \in Jobs, added'[j] # NotAdded, firedAt'[j] = {} PROVE \E i \in Levels : j \in slots'[i][slotIdx'[j][i]]
  <2>1. firedAt[j] = {} /\ added[j] # NotAdded
    BY <1>2, <1>9, <1>15
  <2>2. PICK i \in Levels : j \in slots[i][slotIdx[j][i]]
    BY <2>1 DEF TwInv
  <2> DEFINE s == slotIdx[j][i]
  <2>3. s \in Slots /\ j \in slots[i][s]
    BY <1>1, <2>2 DEF TwTypes
  <2> HIDE DEF s
  <2>4. CASE ~Turned(i, s)
    <3>1. j \in slots'[i][s]
      BY <1>8, <2>3, <2>4
    <3> QED
      BY <1>2, <3>1 DEF s
  <2>5. CASE Turned(i, s)
    <3>1. i # 0
      <4> SUFFICES ASSUME i = 0 PROVE FALSE
        OBVIOUS
      <4>1. firedAt'[j] = firedAt[j] \cup {now + 1}
        BY <1>9, <2>3, <2>5
      <4> QED
        BY <1>15, <4>1
    <3>2. i - 1 \in Levels /\ (i - 1) + 1 = i
      BY <1>6, <3>1, WheelAssumption DEF Levels
    <3>3. slotIdx[j][i - 1] \in Slots
      BY <1>1, <3>2 DEF TwTypes
    <3>4. j \in slots'[i - 1][slotIdx[j][i - 1]]
      BY <1>8, <2>3, <2>5, <3>2, <3>3
    <3> QED
      BY <1>2, <3>2, <3>4
  <2> QED
    BY <2>4, <2>5
<1>16. ASSUME NEW i \in Levels, NEW m \in Levels, NEW s \in Slots, NEW u \in Slots,
              NEW j \in slots'[i][s], j \in slots'[m][u]
       PROVE i = m
  <2>1. PICK k \in Levels, v \in Slots : j \in slots[k][v] /\ i = (IF Turned(k, v) THEN k - 1 ELSE k)
    BY <1>13, <1>16
  <2>2. PICK l \in Levels, w \in Slots : j \in slots[l][w] /\ m = (IF Turned(l, w) THEN l - 1 ELSE l)
    BY <1>13, <1>16
  <2>3. k = l
    BY <2>1, <2>2 DEF TwInv
  <2>4. v = w
    BY <1>11, <2>1, <2>2, <2>3 DEF InSlot
  <2> QED
    BY <2>1, <2>2, <2>3, <2>4
<1>17. ASSUME NEW j \in Jobs PROVE FiredOnce(j)'
  <2>1. CASE \E s \in Slots : Turned(0, s) /\ j \in slots[0][s]
    <3>1. 0 \in Levels
      BY WheelAssumption DEF Levels
    <3>2. PICK s \in Slots : Turned(0, s) /\ j \in slots[0][s]
      BY <2>1
    <3>3. InSlot(j, 0, s) /\ (Exact(added[j]) => now' = added[j].at + added[j].tc)
      BY <1>11, <3>1, <3>2
    <3>4. firedAt'[j] = {now'} /\ added[j] # NotAdded
      BY <1>2, <1>9, <2>1, <3>3 DEF InSlot
    <3>5. now' <= now'
      BY <1>2
    <3> QED
      BY <1>2, <3>3, <3>4, <3>5 DEF FiredOnce
  <2>2. CASE ~\E s \in Slots : Turned(0, s) /\ j \in slots[0][s]
    <3>1. firedAt'[j] = firedAt[j] /\ FiredOnce(j)
      BY <1>9, <2>2 DEF TwInv
    <3>2. \A t \in Nat : t <= now => t <= now'
      BY <1>2
    <3> QED
      BY <1>2, <3>1, <3>2 DEF FiredOnce
  <2> QED
    BY <2>1, <2>2
<1> QED
  BY <1>10, <1>14, <1>15, <1>16, <1>17 DEF TwInv

LEMMA TwInvHolds == TwSpec => []TwInv
<1>1. ASSUME TwInv, [TwNext]_twVars PROVE TwInv'
  <2>1. CASE \E j \in Jobs, tc \in 0..Period[LevelCnt] : AddFunc(j, tc)
    <3>1. PICK j \in Jobs, tc \in 0..Period[LevelCnt] : AddFunc(j, tc)
      BY <2>1
    <3>2. tc \in Nat
      BY PeriodValues, WheelAssumption
    <3> QED
      BY <1>1, <3>1, <3>2, TwInvAdd
  <2>2. CASE Tick
    BY <1>1, <2>2, TwInvTick
  <2>3. CASE CloseWheel \/ UNCHANGED twVars
    <3>1. UNCHANGED <<curPos, slots, slotIdx, added, firedAt, now>>
      BY <2>3 DEF CloseWheel, twVars
    <3>2. PosAt(now)' = PosAt(now)
      BY <3>1 DEF PosAt
    <3>3. TwTypes'
      BY <1>1, <3>1, <3>2 DEF TwInv, TwTypes
    <3>4. \A i \in Levels, s \in Slots : \A j \in slots[i][s] : InSlot(j, i, s)'
      BY <1>1, <3>1 DEF TwInv, InSlot
    <3>5. \A j \in Jobs : FiredOnce(j)'
      BY <1>1, <3>1 DEF TwInv, FiredOnce
    <3> QED
      BY <1>1, <3>1, <3>3, <3>4, <3>5 DEF TwInv
  <2> QED
    BY <1>1, <2>1, <2>2, <2>3 DEF TwNext, TwRest
<1> QED
  BY <1>1, TwInvInit, PTL DEF TwSpec

\* Every job fires once and in time: at its tick when the indices express its
\* delay, else after one revolution of each wheel at the latest.
THEOREM TwExactCorrect == TwSpec => []TwExact
<1>1. ASSUME TwInv PROVE TwExact
  <2> SUFFICES ASSUME NEW j \in Jobs
               PROVE  /\ Cardinality(firedAt[j]) <= 1
                      /\ added[j] # NotAdded /\ Exact(added[j]) =>
                            /\ firedAt[j] \subseteq {added[j].at + added[j].tc}
                            /\ now >= added[j].at + added[j].tc => firedAt[j] # {}
                      /\ added[j] # NotAdded /\ firedAt[j] = {} => now - added[j].at <= Revolutions[LevelCnt - 1]
    BY DEF TwExact
  <2>1. TwTypes /\ FiredOnce(j)
    BY <1>1 DEF TwInv
  <2>2. Cardinality(firedAt[j]) <= 1
    <3>1. firedAt[j] = {} \/ \E t \in Nat : firedAt[j] = {t}
      BY <2>1 DEF FiredOnce
    <3>2. CASE firedAt[j] = {}
      <4>1. Cardinality(firedAt[j]) = 0
        BY <3>2, FS_EmptySet
      <4> QED
        BY <4>1
    <3>3. CASE \E t \in Nat : firedAt[j] = {t}
      <4>1. Cardinality(firedAt[j]) = 1
        BY <3>3, FS_Singleton
      <4> QED
        BY <4>1
    <3> QED
      BY <3>1, <3>2, <3>3
  <2>3. ASSUME added[j] # NotAdded, firedAt[j] = {}
        PROVE  /\ now - added[j].at <= Revolutions[LevelCnt - 1]
               /\ Exact(added[j]) => now < added[j].at + added[j].tc
    <3>1. PICK i \in Levels : j \in slots[i][slotIdx[j][i]]
      BY <1>1, <2>3 DEF TwInv
    <3>2. slotIdx[j] \in [Levels -> Slots] /\ added[j] \in AddedJobs /\ slotIdx[j][i] \in Slots
      BY <2>1, <2>3 DEF TwTypes
    <3>3. OnTime(added[j], slotIdx[j], now, i)
      BY <1>1, <3>1, <3>2 DEF TwInv, InSlot
    <3>4. PICK q \in Nat : Waits(added[j], slotIdx[j], now, i, q)
      BY <3>3 DEF OnTime
    <3> DEFINE w == q * Period[i]
               r == Revolutions[i]
               b == WorthBelow(slotIdx[j], i)
               R == Revolutions[LevelCnt - 1]
    <3>5. i \in Nat /\ LevelCnt - 1 \in Nat
      BY WheelAssumption DEF Levels
    <3>6. w \in Nat
      <4>1. Period[i] \in Nat
        BY <3>5, PeriodValues
      <4> QED
        BY <4>1
    <3>7. r \in Nat /\ R \in Nat /\ b \in Nat
      BY <3>2, <3>5, RevolutionValues, WorthNext
    <3>8. now < w /\ w + r <= added[j].at + R /\ (Exact(added[j]) => w + b = added[j].at + added[j].tc)
      BY <3>4 DEF Waits
    <3>9. now \in Nat /\ added[j].at \in Nat /\ added[j].tc \in Nat
      BY <2>1, <3>2 DEF TwTypes, AddedJobs
    <3> HIDE DEF w, r, b, R
    <3>10. now - added[j].at <= R /\ (Exact(added[j]) => now < added[j].at + added[j].tc)
      BY <3>6, <3>7, <3>8, <3>9
    <3> QED
      BY <3>10 DEF R
  <2>4. ASSUME added[j] # NotAdded, Exact(added[j])
        PROVE  /\ firedAt[j] \subseteq {added[j].at + added[j].tc}
               /\ now >= added[j].at + added[j].tc => firedAt[j] # {}
    <3>1. firedAt[j] \subseteq {added[j].at + added[j].tc}
      BY <2>1, <2>4 DEF FiredOnce
    <3>2. ASSUME now >= added[j].at + added[j].tc, firedAt[j] = {} PROVE FALSE
      <4>1. now < added[j].at + added[j].tc
        BY <2>3, <2>4, <3>2
      <4>2. now \in Nat /\ added[j].at \in Nat /\ added[j].tc \in Nat
        BY <2>1, <2>4 DEF TwTypes, AddedJobs
      <4> QED
        BY <3>2, <4>1, <4>2
    <3> QED
      BY <3>1, <3>2
  <2> QED
    BY <2>2, <2>3, <2>4
<1> QED
  BY <1>1, TwInvHolds, PTL

(***************************************************************************)
(* The logger.                                                             *)
(***************************************************************************)

\* Lines a+1 to b.
LinesFrom(a, b) == [i \in 1..(b - a) |-> a + i]

Rises(s) == \A i, j \in DOMAIN s : i < j => s[i] < s[j]

Below(s, t) == \A x \in ToSet(s), y \in ToSet(t) : x < y

LoggerTypeOK ==
    /\ dailyRolling \in BOOLEAN /\ buffering \in BOOLEAN /\ blind \in BOOLEAN
    /\ file \in Seq(Nat) /\ buf \in Seq(Nat)
    /\ \A k \in DOMAIN old : old[k] \in Seq(Nat)
    /\ line \in Nat

(***************************************************************************)
(* By size: the files, oldest first, are cut out of the lines without a    *)
(* gap, although a file that was never written or was overwritten is empty *)
(* or new; and without a lost count the suffixes in use are 1 to the last, *)
(* or all of them.                                                         *)
(***************************************************************************)
Cuts(ends) ==
    /\ ends \in [0..MaxFileCount -> Nat]
    /\ \A k \in 1..MaxFileCount :
          ends[k-1] <= ends[k] /\ OldFile(InTurn(k)) = LinesFrom(ends[k-1], ends[k])
    /\ ends[MaxFileCount] <= line
    /\ file = LinesFrom(ends[MaxFileCount], line)

Counted ==
    /\ suffix \in 0..MaxFileCount
    /\ DOMAIN old \in {1..suffix, 1..MaxFileCount}
    /\ \E ends : Cuts(ends)

SizeInv ==
    /\ buf = <<>> /\ ~buffering
    /\ ~blind => Counted

(***************************************************************************)
(* By day: the files of earlier days hold earlier lines, the buffer the    *)
(* last ones, and what is in no file and not in the buffer is gone.        *)
(***************************************************************************)
Stored(n) == n \in ToSet(file) \/ \E d \in DOMAIN old : n \in ToSet(old[d])

DaysInv ==
    /\ today \in 0..MaxDays /\ date \in 0..today
    /\ \A d \in DOMAIN old : d \in Nat /\ d < date
    /\ \A d \in DOMAIN old : Rises(old[d]) /\ Below(old[d], file)
    /\ \A d, e \in DOMAIN old : d < e => Below(old[d], old[e])
    /\ Rises(file)

BufferInv ==
    \E start \in Nat :
        /\ start <= line /\ buf = LinesFrom(start, line)
        /\ ~buffering => start = line
        /\ gone \subseteq 1..start
        /\ \A n : Stored(n) <=> n \in 1..start /\ n \notin gone

LoggerInv ==
    /\ LoggerTypeOK
    /\ ~dailyRolling => SizeInv
    /\ dailyRolling => DaysInv /\ BufferInv

\* A sequence is what its length and its elements are.
LEMMA SameLines ==
    ASSUME NEW s \in Seq(Nat), NEW t \in Seq(Nat), Len(s) = Len(t),
           \A i \in 1..Len(s) : s[i] = t[i]
    PROVE  s = t
OBVIOUS

LEMMA JoinFields ==
    ASSUME NEW s \in Seq(Nat), NEW t \in Seq(Nat)
    PROVE  /\ s \o t \in Seq(Nat) /\ Len(s) \in Nat /\ Len(t) \in Nat
           /\ Len(s \o t) = Len(s) + Len(t)
           /\ \A i \in 1..Len(s) : (s \o t)[i] = s[i]
           /\ \A i \in 1..Len(t) : (s \o t)[Len(s) + i] = t[i]
           /\ DOMAIN s = 1..Len(s) /\ DOMAIN t = 1..Len(t)
           /\ DOMAIN (s \o t) = 1..(Len(s) + Len(t))
OBVIOUS

LEMMA LinesFields ==
    ASSUME NEW a \in Nat, NEW b \in Nat, a <= b
    PROVE  /\ LinesFrom(a, b) \in Seq(Nat) /\ Len(LinesFrom(a, b)) = b - a
           /\ \A i \in 1..(b - a) : LinesFrom(a, b)[i] = a + i
           /\ ToSet(LinesFrom(a, b)) = (a + 1)..b
<1>1. b - a \in Nat
  OBVIOUS
<1>2. LinesFrom(a, b) \in [1..(b - a) -> Nat]
  BY <1>1 DEF LinesFrom
<1>3. /\ LinesFrom(a, b) \in Seq(Nat) /\ Len(LinesFrom(a, b)) = b - a
      /\ DOMAIN LinesFrom(a, b) = 1..(b - a)
  <2> DEFINE n == b - a
             s == LinesFrom(a, b)
  <2>1. n \in Nat /\ s \in [1..n -> Nat]
    BY <1>1, <1>2
  <2> HIDE DEF n, s
  <2>2. s \in Seq(Nat) /\ Len(s) = n /\ DOMAIN s = 1..n
    BY <2>1
  <2> QED
    BY <2>2 DEF n, s
<1>4. \A i \in 1..(b - a) : LinesFrom(a, b)[i] = a + i
  BY DEF LinesFrom
<1>5. ASSUME NEW n \in (a + 1)..b PROVE n \in ToSet(LinesFrom(a, b))
  <2>1. n - a \in 1..(b - a) /\ a + (n - a) = n
    OBVIOUS
  <2>2. LinesFrom(a, b)[n - a] = n
    BY <1>4, <2>1
  <2> QED
    BY <1>3, <2>1, <2>2 DEF ToSet
<1>6. ASSUME NEW n \in ToSet(LinesFrom(a, b)) PROVE n \in (a + 1)..b
  <2>1. PICK i \in 1..(b - a) : n = LinesFrom(a, b)[i]
    BY <1>3 DEF ToSet
  <2>2. n = a + i
    BY <1>4, <2>1
  <2> QED
    BY <2>1, <2>2
<1> QED
  BY <1>3, <1>4, <1>5, <1>6

LEMMA LinesNone == ASSUME NEW a \in Nat PROVE <<>> = LinesFrom(a, a)
<1> DEFINE s == LinesFrom(a, a)
<1>1. s \in Seq(Nat) /\ Len(s) = a - a /\ a - a = 0
  BY LinesFields
<1> HIDE DEF s
<1>2. s = <<>>
  BY <1>1
<1> QED
  BY <1>2 DEF s

\* Consecutive pieces make one.
LEMMA LinesJoin ==
    ASSUME NEW a \in Nat, NEW b \in Nat, NEW c \in Nat, a <= b, b <= c
    PROVE  LinesFrom(a, b) \o LinesFrom(b, c) = LinesFrom(a, c)
<1> DEFINE s == LinesFrom(a, b)
           t == LinesFrom(b, c)
           u == LinesFrom(a, c)
<1>1. /\ s \in Seq(Nat) /\ Len(s) = b - a /\ \A i \in 1..(b - a) : s[i] = a + i
      /\ t \in Seq(Nat) /\ Len(t) = c - b /\ \A i \in 1..(c - b) : t[i] = b + i
      /\ u \in Seq(Nat) /\ Len(u) = c - a /\ \A i \in 1..(c - a) : u[i] = a + i
  <2>1. a <= c
    OBVIOUS
  <2>2. s \in Seq(Nat) /\ Len(s) = b - a /\ \A i \in 1..(b - a) : s[i] = a + i
    BY LinesFields
  <2>3. t \in Seq(Nat) /\ Len(t) = c - b /\ \A i \in 1..(c - b) : t[i] = b + i
    BY LinesFields
  <2>4. u \in Seq(Nat) /\ Len(u) = c - a /\ \A i \in 1..(c - a) : u[i] = a + i
    BY <2>1, LinesFields
  <2> HIDE DEF s, t, u
  <2> QED
    BY <2>2, <2>3, <2>4
<1> HIDE DEF s, t, u
<1>2. /\ s \o t \in Seq(Nat) /\ Len(s \o t) = c - a
      /\ \A i \in 1..Len(s) : (s \o t)[i] = s[i]
      /\ \A i \in 1..Len(t) : (s \o t)[Len(s) + i] = t[i]
  <2>1. Len(s \o t) = Len(s) + Len(t)
    BY <1>1, JoinFields
  <2>2. Len(s) + Len(t) = c - a
    BY <1>1
  <2> QED
    BY <1>1, <2>1, <2>2, JoinFields
<1> DEFINE w == s \o t
<1>3. w \in Seq(Nat) /\ Len(w) = c - a
      /\ (\A i \in 1..Len(s) : w[i] = s[i]) /\ (\A i \in 1..Len(t) : w[Len(s) + i] = t[i])
  BY <1>2
<1> HIDE DEF w
<1>4. ASSUME NEW i \in 1..(c - a) PROVE w[i] = u[i]
  <2>1. CASE i <= b - a
    <3>1. i \in 1..Len(s) /\ i \in 1..(b - a)
      BY <1>1, <2>1
    <3> QED
      BY <1>1, <1>3, <3>1
  <2>2. CASE i > b - a
    <3> DEFINE k == i - (b - a)
    <3>1. k \in 1..Len(t) /\ k \in 1..(c - b) /\ i = Len(s) + k /\ b + k = a + i
      BY <1>1, <2>2
    <3> HIDE DEF k
    <3>2. w[i] = t[k]
      BY <1>3, <3>1
    <3> QED
      BY <1>1, <3>1, <3>2
  <2> QED
    BY <2>1, <2>2
<1>5. w = u
  BY <1>1, <1>3, <1>4, SameLines
<1> QED
  BY <1>5 DEF w, s, t, u

\* Joining two that rise, one below the other.
LEMMA JoinRises ==
    ASSUME NEW s \in Seq(Nat), NEW t \in Seq(Nat)
    PROVE  /\ ToSet(s \o t) = ToSet(s) \cup ToSet(t)
           /\ Rises(s) /\ Rises(t) /\ Below(s, t) => Rises(s \o t)
<1> DEFINE w == s \o t
           m == Len(s)
           n == Len(t)
<1>1. /\ w \in Seq(Nat) /\ m \in Nat /\ n \in Nat /\ DOMAIN s = 1..m /\ DOMAIN t = 1..n
      /\ DOMAIN w = 1..(m + n)
      /\ (\A i \in 1..m : w[i] = s[i]) /\ (\A i \in 1..n : w[m + i] = t[i])
  BY JoinFields
<1> HIDE DEF w, m, n
<1>2. \A i \in 1..(m + n) : i \in 1..m \/ (i - m \in 1..n /\ m + (i - m) = i)
  BY <1>1
<1>3. ToSet(w) = ToSet(s) \cup ToSet(t)
  <2>1. ASSUME NEW x \in ToSet(w) PROVE x \in ToSet(s) \cup ToSet(t)
    <3>1. PICK i \in 1..(m + n) : x = w[i]
      BY <1>1 DEF ToSet
    <3>2. CASE i \in 1..m
      BY <1>1, <3>1, <3>2 DEF ToSet
    <3>3. CASE i - m \in 1..n /\ m + (i - m) = i
      <4>1. x = t[i - m]
        BY <1>1, <3>1, <3>3
      <4> QED
        BY <1>1, <3>3, <4>1 DEF ToSet
    <3> QED
      BY <1>2, <3>2, <3>3
  <2>2. ASSUME NEW x \in ToSet(s) PROVE x \in ToSet(w)
    <3>1. PICK i \in 1..m : x = s[i]
      BY <1>1, <2>2 DEF ToSet
    <3>3. m \in Nat /\ n \in Nat /\ w[i] = s[i]
      BY <1>1
    <3>2. i \in 1..(m + n) /\ x = w[i]
      BY <3>1, <3>3
    <3> QED
      BY <1>1, <3>2 DEF ToSet
  <2>3. ASSUME NEW x \in ToSet(t) PROVE x \in ToSet(w)
    <3>1. PICK i \in 1..n : x = t[i]
      BY <1>1, <2>3 DEF ToSet
    <3>3. m \in Nat /\ n \in Nat /\ w[m + i] = t[i]
      BY <1>1
    <3>2. m + i \in 1..(m + n) /\ x = w[m + i]
      BY <3>1, <3>3
    <3> QED
      BY <1>1, <3>2 DEF ToSet
  <2> QED
    BY <2>1, <2>2, <2>3
<1>4. ASSUME Rises(s), Rises(t), Below(s, t) PROVE Rises(w)
  <2> SUFFICES ASSUME NEW i \in 1..(m + n), NEW j \in 1..(m + n), i < j PROVE w[i] < w[j]
    BY <1>1 DEF Rises
  <2>1. CASE i \in 1..m /\ j \in 1..m
    BY <1>1, <1>4, <2>1 DEF Rises
  <2>2. CASE i \in 1..m /\ j - m \in 1..n /\ m + (j - m) = j
    <3>1. w[i] = s[i] /\ w[j] = t[j - m]
      BY <1>1, <2>2
    <3>2. s[i] \in ToSet(s) /\ t[j - m] \in ToSet(t)
      BY <1>1, <2>2 DEF ToSet
    <3> QED
      BY <1>4, <3>1, <3>2 DEF Below
  <2>3. CASE /\ i - m \in 1..n /\ m + (i - m) = i
             /\ j - m \in 1..n /\ m + (j - m) = j
    <3>1. w[i] = t[i - m] /\ w[j] = t[j - m]
      BY <1>1, <2>3
    <3>2. i - m < j - m
      BY <1>1, <2>3
    <3> QED
      BY <1>1, <1>4, <2>3, <3>1, <3>2 DEF Rises
  <2>4. ~(i \notin 1..m /\ j \in 1..m)
    BY <1>1
  <2> QED
    BY <1>2, <2>1, <2>2, <2>3, <2>4
<1> QED
  BY <1>3, <1>4 DEF w

(***************************************************************************)
(* History is what the files hold, joined: by induction on their number.   *)
(***************************************************************************)
JoinsTo(f, n) ==
    f = [k \in 0..n |-> IF k = 0 THEN <<>> ELSE f[k-1] \o OldFile(InTurn(k))]

LEMMA JoinsExists == ASSUME NEW n \in Nat PROVE \E f : JoinsTo(f, n)
<1> DEFINE T == {k \in Nat : \E f : JoinsTo(f, k)}
<1>1. 0 \in T
  <2> DEFINE f == [k \in 0..0 |-> <<>>]
  <2>1. f = [k \in 0..0 |-> IF k = 0 THEN <<>> ELSE f[k-1] \o OldFile(InTurn(k))]
    OBVIOUS
  <2> QED
    BY <2>1 DEF JoinsTo
<1>2. ASSUME NEW k \in Nat, k \in T PROVE k + 1 \in T
  <2>1. PICK f : JoinsTo(f, k)
    BY <1>2
  <2> DEFINE g == [i \in 0..k+1 |-> IF i = k + 1 THEN f[k] \o OldFile(InTurn(k+1)) ELSE f[i]]
             h == [i \in 0..k+1 |-> IF i = 0 THEN <<>> ELSE g[i-1] \o OldFile(InTurn(i))]
  <2>2. \A i \in 0..k : g[i] = f[i]
    OBVIOUS
  <2>3. \A i \in 0..k : f[i] = IF i = 0 THEN <<>> ELSE f[i-1] \o OldFile(InTurn(i))
    BY <2>1 DEF JoinsTo
  <2>4. ASSUME NEW i \in 0..k+1
        PROVE  g[i] = IF i = 0 THEN <<>> ELSE g[i-1] \o OldFile(InTurn(i))
    <3>1. CASE i = k + 1
      <4>1. i - 1 = k /\ i # 0 /\ k \in 0..k
        BY <3>1
      <4>2. g[i-1] = f[k]
        BY <4>1, <2>2
      <4>3. g[i] = f[k] \o OldFile(InTurn(i))
        BY <3>1
      <4> HIDE DEF g
      <4> QED
        BY <4>1, <4>2, <4>3
    <3>2. CASE i \in 0..k
      <4>1. g[i] = f[i] /\ (i # 0 => i - 1 \in 0..k /\ g[i-1] = f[i-1])
        BY <3>2, <2>2
      <4> QED
        BY <4>1, <3>2, <2>3
    <3> QED
      BY <3>1, <3>2
  <2>5. g = h
    <3>1. \A i \in 0..k+1 : g[i] = h[i]
      BY <2>4
    <3>2. g = [i \in 0..k+1 |-> g[i]] /\ h = [i \in 0..k+1 |-> h[i]]
      OBVIOUS
    <3> HIDE DEF g, h
    <3> QED
      BY <3>1, <3>2
  <2>6. JoinsTo(g, k + 1)
    BY <2>5 DEF JoinsTo
  <2> QED
    BY <2>6
<1> HIDE DEF T
<1>3. Nat \subseteq T
  BY <1>1, <1>2, SetInduction
<1> QED
  BY <1>3 DEF T

LEMMA JoinedIs ==
    ASSUME NEW n \in Nat
    PROVE  \E f : /\ Joined(n) = f[n] /\ f[0] = <<>>
                  /\ \A k \in 1..n : f[k] = f[k-1] \o OldFile(InTurn(k))
<1> DEFINE f == CHOOSE f : f = [k \in 0..n |-> IF k = 0 THEN <<>> ELSE f[k-1] \o OldFile(InTurn(k))]
<1>1. Joined(n) = f[n]
  BY DEF Joined
<1>2. f = [k \in 0..n |-> IF k = 0 THEN <<>> ELSE f[k-1] \o OldFile(InTurn(k))]
  <2>1. \E g : g = [k \in 0..n |-> IF k = 0 THEN <<>> ELSE g[k-1] \o OldFile(InTurn(k))]
    <3>1. PICK g : JoinsTo(g, n)
      BY JoinsExists
    <3>2. g = [k \in 0..n |-> IF k = 0 THEN <<>> ELSE g[k-1] \o OldFile(InTurn(k))]
      BY <3>1 DEF JoinsTo
    <3> QED
      BY <3>2, Zenon
  <2> QED
    BY <2>1, Zenon
<1> HIDE DEF f
<1>3. \A k \in 0..n : f[k] = IF k = 0 THEN <<>> ELSE f[k-1] \o OldFile(InTurn(k))
  BY <1>2
<1>4. f[0] = <<>>
  BY <1>3
<1>5. \A k \in 1..n : f[k] = f[k-1] \o OldFile(InTurn(k))
  <2>1. \A k \in 1..n : k \in 0..n /\ k # 0
    OBVIOUS
  <2> QED
    BY <1>3, <2>1
<1> QED
  BY <1>1, <1>4, <1>5

\* By size: from the first cut to the last line.
LEMMA HistoryBySize ==
    ASSUME LoggerTypeOK, ~dailyRolling, NEW ends, Cuts(ends)
    PROVE  ends[0] \in Nat /\ ends[0] <= line /\ History = LinesFrom(ends[0], line)
<1> DEFINE N == MaxFileCount
<1>1. /\ N \in Nat /\ ends \in [0..N -> Nat] /\ line \in Nat /\ ends[N] <= line
      /\ \A k \in 1..N : ends[k-1] <= ends[k] /\ OldFile(InTurn(k)) = LinesFrom(ends[k-1], ends[k])
      /\ file = LinesFrom(ends[N], line)
  BY LoggerAssumption DEF Cuts, LoggerTypeOK
<1>2. History = Joined(N) \o file
  BY DEF History
<1> HIDE DEF N
<1>3. PICK f : /\ Joined(N) = f[N] /\ f[0] = <<>>
               /\ \A k \in 1..N : f[k] = f[k-1] \o OldFile(InTurn(k))
  BY <1>1, JoinedIs
<1> DEFINE T == {k \in Nat : k <= N => ends[0] <= ends[k] /\ f[k] = LinesFrom(ends[0], ends[k])}
<1>4. 0 \in T
  <2>1. ends[0] \in Nat
    BY <1>1
  <2>2. LinesFrom(ends[0], ends[0]) = <<>>
    BY <2>1, LinesNone
  <2> QED
    BY <1>3, <2>1, <2>2
<1>5. ASSUME NEW k \in Nat, k \in T PROVE k + 1 \in T
  <2> SUFFICES ASSUME k + 1 <= N
               PROVE  ends[0] <= ends[k+1] /\ f[k+1] = LinesFrom(ends[0], ends[k+1])
    OBVIOUS
  <2>1. k + 1 \in 1..N /\ (k + 1) - 1 = k /\ k <= N /\ k \in 0..N /\ k + 1 \in 0..N
    BY <1>1
  <2>2. ends[k] <= ends[k+1] /\ f[k+1] = f[k] \o LinesFrom(ends[k], ends[k+1])
    BY <1>1, <1>3, <2>1
  <2>3. ends[0] \in Nat /\ ends[k] \in Nat /\ ends[k+1] \in Nat
    BY <1>1, <2>1
  <2>4. ends[0] <= ends[k] /\ f[k] = LinesFrom(ends[0], ends[k])
    BY <1>5, <2>1
  <2> HIDE DEF T
  <2>5. LinesFrom(ends[0], ends[k]) \o LinesFrom(ends[k], ends[k+1]) = LinesFrom(ends[0], ends[k+1])
    BY <2>2, <2>3, <2>4, LinesJoin
  <2> QED
    BY <2>2, <2>3, <2>4, <2>5
<1>6. ends[0] <= ends[N] /\ f[N] = LinesFrom(ends[0], ends[N])
  <2> HIDE DEF T
  <2>1. Nat \subseteq T
    BY <1>4, <1>5, SetInduction
  <2> QED
    BY <1>1, <2>1 DEF T
<1>7. ends[0] \in Nat /\ ends[N] \in Nat
  BY <1>1
<1>8. LinesFrom(ends[0], ends[N]) \o LinesFrom(ends[N], line) = LinesFrom(ends[0], line)
  BY <1>1, <1>6, <1>7, LinesJoin
<1> QED
  BY <1>1, <1>2, <1>3, <1>6, <1>7, <1>8

\* By day: the lines that are stored, in order.
LEMMA HistoryByDay ==
    ASSUME LoggerTypeOK, dailyRolling, DaysInv
    PROVE  History \in Seq(Nat) /\ Rises(History) /\ \A n : n \in ToSet(History) <=> Stored(n)
<1> DEFINE N == MaxDays + 1
           Early(k, n) == \E d \in DOMAIN old : d < k /\ n \in ToSet(old[d])
<1>1. N \in Nat /\ file \in Seq(Nat) /\ \A d \in DOMAIN old : old[d] \in Seq(Nat) /\ d \in Nat
  BY LoggerAssumption DEF LoggerTypeOK, DaysInv
<1>2. History = Joined(N) \o file
  BY DEF History
<1>3. PICK f : /\ Joined(N) = f[N] /\ f[0] = <<>>
               /\ \A k \in 1..N : f[k] = f[k-1] \o OldFile(InTurn(k))
  BY <1>1, JoinedIs
<1>4. /\ \A d \in DOMAIN old : d < N /\ Rises(old[d]) /\ Below(old[d], file)
      /\ \A d, e \in DOMAIN old : d < e => Below(old[d], old[e])
      /\ Rises(file)
  BY LoggerAssumption DEF DaysInv
<1> HIDE DEF N
<1> DEFINE T == {k \in Nat : k <= N => /\ f[k] \in Seq(Nat) /\ Rises(f[k])
                                       /\ \A n : n \in ToSet(f[k]) <=> Early(k, n)}
<1>5. 0 \in T
  <2>1. <<>> \in Seq(Nat) /\ DOMAIN <<>> = {}
    OBVIOUS
  <2>2. Rises(<<>>) /\ ToSet(<<>>) = {}
    BY <2>1 DEF Rises, ToSet
  <2>3. \A n : ~Early(0, n)
    BY <1>1
  <2> QED
    BY <1>3, <2>1, <2>2, <2>3
<1>6. ASSUME NEW k \in Nat, k \in T PROVE k + 1 \in T
  <2> SUFFICES ASSUME k + 1 <= N
               PROVE  /\ f[k+1] \in Seq(Nat) /\ Rises(f[k+1])
                      /\ \A n : n \in ToSet(f[k+1]) <=> Early(k+1, n)
    OBVIOUS
  <2>1. k + 1 \in 1..N /\ (k + 1) - 1 = k /\ k <= N
    BY <1>1
  <2>2. f[k+1] = f[k] \o OldFile(k)
    <3>1. InTurn(k+1) = k
      BY <2>1 DEF InTurn
    <3> QED
      BY <1>3, <2>1, <3>1
  <2>3. f[k] \in Seq(Nat) /\ Rises(f[k]) /\ \A n : n \in ToSet(f[k]) <=> Early(k, n)
    BY <1>6, <2>1
  <2> HIDE DEF T
  <2>4. CASE k \in DOMAIN old
    <3>1. OldFile(k) = old[k] /\ old[k] \in Seq(Nat) /\ Rises(old[k])
      BY <1>1, <1>4, <2>4 DEF OldFile
    <3>2. Below(f[k], old[k])
      <4> SUFFICES ASSUME NEW x \in ToSet(f[k]), NEW y \in ToSet(old[k]) PROVE x < y
        BY DEF Below
      <4>1. PICK d \in DOMAIN old : d < k /\ x \in ToSet(old[d])
        BY <2>3
      <4> QED
        BY <1>4, <2>4, <4>1 DEF Below
    <3>3. /\ f[k+1] \in Seq(Nat) /\ Rises(f[k+1])
          /\ ToSet(f[k+1]) = ToSet(f[k]) \cup ToSet(old[k])
      BY <2>2, <2>3, <3>1, <3>2, JoinFields, JoinRises
    <3>4. \A n : Early(k+1, n) <=> Early(k, n) \/ n \in ToSet(old[k])
      <4>1. \A d \in DOMAIN old : d < k + 1 <=> d < k \/ d = k
        BY <1>1
      <4> QED
        BY <2>4, <4>1
    <3> QED
      BY <2>3, <3>3, <3>4
  <2>5. CASE k \notin DOMAIN old
    <3>1. f[k+1] = f[k]
      <4>1. OldFile(k) = <<>>
        BY <2>5 DEF OldFile
      <4> QED
        BY <2>2, <2>3, <4>1
    <3>2. \A n : Early(k+1, n) <=> Early(k, n)
      <4>1. \A d \in DOMAIN old : d < k + 1 <=> d < k
        BY <1>1, <2>5
      <4> QED
        BY <4>1
    <3> QED
      BY <2>3, <3>1, <3>2
  <2> QED
    BY <2>4, <2>5
<1>7. f[N] \in Seq(Nat) /\ Rises(f[N]) /\ \A n : n \in ToSet(f[N]) <=> Early(N, n)
  <2> HIDE DEF T
  <2>1. Nat \subseteq T
    BY <1>5, <1>6, SetInduction
  <2>2. N \in T /\ N <= N
    BY <1>1, <2>1
  <2> QED
    BY <2>2 DEF T
<1>8. Below(f[N], file)
  <2> SUFFICES ASSUME NEW x \in ToSet(f[N]), NEW y \in ToSet(file) PROVE x < y
    BY DEF Below
  <2>1. PICK d \in DOMAIN old : x \in ToSet(old[d])
    BY <1>7
  <2> QED
    BY <1>4, <2>1 DEF Below
<1>9. /\ History \in Seq(Nat) /\ Rises(History)
      /\ ToSet(History) = ToSet(f[N]) \cup ToSet(file)
  BY <1>1, <1>2, <1>3, <1>4, <1>7, <1>8, JoinFields, JoinRises
<1>10. \A n : Early(N, n) <=> \E d \in DOMAIN old : n \in ToSet(old[d])
  BY <1>4
<1> QED
  BY <1>7, <1>9, <1>10 DEF Stored

\* The inductive invariant implies the property.
LEMMA InvKept == LoggerInv => LogKept
<1> SUFFICES ASSUME LoggerInv PROVE LogKept
  OBVIOUS
<1>1. CASE dailyRolling
  <2>1. DaysInv /\ BufferInv /\ LoggerTypeOK
    BY <1>1 DEF LoggerInv
  <2>2. History \in Seq(Nat) /\ Rises(History) /\ \A n : n \in ToSet(History) <=> Stored(n)
    BY <1>1, <2>1, HistoryByDay
  <2>3. PICK start \in Nat :
           /\ start <= line /\ buf = LinesFrom(start, line)
           /\ gone \subseteq 1..start
           /\ \A n : Stored(n) <=> n \in 1..start /\ n \notin gone
    BY <2>1 DEF BufferInv
  <2>4. line \in Nat
    BY <2>1 DEF LoggerTypeOK
  <2>5. ToSet(buf) = (start + 1)..line
    BY <2>3, <2>4, LinesFields
  <2>6. \A n : n \in 1..start /\ n \notin gone <=> n \in (1..line) \ (gone \cup ToSet(buf))
    BY <2>3, <2>4, <2>5
  <2>7. ToSet(History) = (1..line) \ (gone \cup ToSet(buf))
    BY <2>2, <2>3, <2>6
  <2> QED
    BY <1>1, <2>2, <2>7 DEF LogKept, Rises
<1>2. CASE ~dailyRolling
  <2> SUFFICES ASSUME ~blind
               PROVE  History = [i \in 1..Len(History) |-> line - Len(History) + i]
    BY <1>2 DEF LogKept
  <2>1. LoggerTypeOK /\ line \in Nat
    BY DEF LoggerInv, LoggerTypeOK
  <2>2. PICK ends : Cuts(ends)
    BY <1>2 DEF LoggerInv, SizeInv, Counted
  <2> DEFINE a == ends[0]
  <2>3. a \in Nat /\ a <= line /\ History = LinesFrom(a, line)
    BY <1>2, <2>1, <2>2, HistoryBySize
  <2> HIDE DEF a
  <2>4. Len(LinesFrom(a, line)) = line - a
    BY <2>1, <2>3, LinesFields
  <2>5. line - (line - a) = a
    BY <2>1, <2>3
  <2>6. LinesFrom(a, line) = [i \in 1..(line - a) |-> line - (line - a) + i]
    BY <2>5 DEF LinesFrom
  <2> QED
    BY <2>3, <2>4, <2>6
<1> QED
  BY <1>1, <1>2 DEF LoggerInv, LoggerTypeOK

(***************************************************************************)
(* Steps of the logger that rolls by size.                                 *)
(***************************************************************************)
LEMMA Remainder ==
    ASSUME NEW L \in Nat, NEW x \in Nat, x < 2 * L, L > 0
    PROVE  x % L = IF x < L THEN x ELSE x - L
<1>1. CASE x < L
  BY <1>1
<1>2. CASE x >= L
  <2> DEFINE y == x - L
  <2>1. y \in Nat /\ y < L /\ x = y + L
    BY <1>2
  <2> HIDE DEF y
  <2>2. x % L = y
    BY <2>1
  <2> QED
    BY <1>2, <2>1, <2>2
<1> QED
  BY <1>1, <1>2

\* The file that is renamed is the newest, and the others are what they were.
LEMMA WithFields ==
    ASSUME NEW k
    PROVE  /\ DOMAIN With(old, k, file) = DOMAIN old \cup {k}
           /\ With(old, k, file)[k] = file
           /\ \A d \in DOMAIN old : d # k => With(old, k, file)[d] = old[d]
BY DEF With

\* The turn of the suffixes: after a rotation each comes one earlier, and the
\* one that was taken comes last.
LEMMA TurnPasses ==
    ASSUME NEW N \in Nat \ {0}, NEW s \in 0..N, NEW s2, s2 = (s % N) + 1
    PROVE  /\ s2 \in 1..N /\ s2 = (IF s < N THEN s + 1 ELSE 1)
           /\ \A k \in 1..(N-1) : /\ ((s2 + k - 1) % N) + 1 = ((s + (k + 1) - 1) % N) + 1
                                  /\ ((s + (k + 1) - 1) % N) + 1 # s2
           /\ ((s2 + N - 1) % N) + 1 = s2
<1>1. s % N = IF s < N THEN s ELSE s - N
  BY Remainder
<1>2. s2 \in 1..N /\ s2 = IF s < N THEN s + 1 ELSE 1
  BY <1>1
<1>3. ASSUME NEW k \in 1..N
      PROVE  /\ (s + k - 1) % N = IF s + k - 1 < N THEN s + k - 1 ELSE s + k - 1 - N
             /\ (s2 + k - 1) % N = IF s2 + k - 1 < N THEN s2 + k - 1 ELSE s2 + k - 1 - N
  <2> DEFINE x == s + k - 1
             y == s2 + k - 1
  <2>1. x \in Nat /\ y \in Nat /\ x < 2 * N /\ y < 2 * N
    BY <1>2
  <2> HIDE DEF x, y
  <2>2. x % N = IF x < N THEN x ELSE x - N
    BY <2>1, Remainder
  <2>3. y % N = IF y < N THEN y ELSE y - N
    BY <2>1, Remainder
  <2> QED
    BY <2>2, <2>3 DEF x, y
<1>4. ASSUME NEW k \in 1..(N-1)
      PROVE  /\ ((s2 + k - 1) % N) + 1 = ((s + (k + 1) - 1) % N) + 1
             /\ ((s + (k + 1) - 1) % N) + 1 # s2
  <2>1. k \in 1..N /\ k + 1 \in 1..N
    OBVIOUS
  <2>2. (s + (k + 1) - 1) % N = IF s + (k + 1) - 1 < N THEN s + (k + 1) - 1 ELSE s + (k + 1) - 1 - N
    BY <1>3, <2>1
  <2>3. (s2 + k - 1) % N = IF s2 + k - 1 < N THEN s2 + k - 1 ELSE s2 + k - 1 - N
    BY <1>3, <2>1
  <2> DEFINE x == (s + (k + 1) - 1) % N
             y == (s2 + k - 1) % N
  <2>4. /\ x = IF s + (k + 1) - 1 < N THEN s + (k + 1) - 1 ELSE s + (k + 1) - 1 - N
        /\ y = IF s2 + k - 1 < N THEN s2 + k - 1 ELSE s2 + k - 1 - N
    BY <2>2, <2>3
  <2> HIDE DEF x, y
  <2>5. y + 1 = x + 1 /\ x + 1 # s2
    BY <1>2, <2>1, <2>4
  <2> QED
    BY <2>5 DEF x, y
<1>5. ((s2 + N - 1) % N) + 1 = s2
  <2>1. N \in 1..N
    OBVIOUS
  <2>2. (s2 + N - 1) % N = IF s2 + N - 1 < N THEN s2 + N - 1 ELSE s2 + N - 1 - N
    BY <1>3, <2>1
  <2> DEFINE y == (s2 + N - 1) % N
  <2>3. y = IF s2 + N - 1 < N THEN s2 + N - 1 ELSE s2 + N - 1 - N
    BY <2>2
  <2> HIDE DEF y
  <2>4. y + 1 = s2
    BY <1>2, <2>3
  <2> QED
    BY <2>4 DEF y
<1> QED
  BY <1>2, <1>4, <1>5

LEMMA RotateStep ==
    ASSUME LoggerTypeOK, ~dailyRolling, Counted, CoverNextOne(suffix),
           line' = line, dailyRolling' = dailyRolling
    PROVE  Counted'
<1> DEFINE N == MaxFileCount
<1> PICK s2 : s2 = NextSuffix(suffix)
  OBVIOUS
<1>1. /\ N \in Nat \ {0} /\ suffix \in 0..N /\ line \in Nat
      /\ DOMAIN old \in {1..suffix, 1..N}
  BY LoggerAssumption DEF Counted, LoggerTypeOK
<1>2. PICK ends : Cuts(ends)
  BY DEF Counted
<1>3. /\ suffix' = s2 /\ old' = With(old, s2, file) /\ file' = <<>>
  BY DEF CoverNextOne
<1>4. s2 = (suffix % N) + 1
  BY DEF NextSuffix
<1>5. \A k : /\ InTurn(k) = ((suffix + k - 1) % N) + 1
             /\ InTurn(k)' = ((s2 + k - 1) % N) + 1
  BY <1>3 DEF InTurn
<1> HIDE DEF N
<1>6. /\ s2 \in 1..N /\ s2 = (IF suffix < N THEN suffix + 1 ELSE 1)
      /\ \A k \in 1..(N-1) : InTurn(k)' = InTurn(k + 1) /\ InTurn(k + 1) # s2
      /\ InTurn(N)' = s2
  <2>1. /\ s2 \in 1..N /\ s2 = (IF suffix < N THEN suffix + 1 ELSE 1)
        /\ \A k \in 1..(N-1) :
              /\ ((s2 + k - 1) % N) + 1 = ((suffix + (k + 1) - 1) % N) + 1
              /\ ((suffix + (k + 1) - 1) % N) + 1 # s2
        /\ ((s2 + N - 1) % N) + 1 = s2
    BY <1>1, <1>4, TurnPasses, ZenonT(30)
  <2>2. InTurn(N)' = s2
    BY <1>5, <2>1
  <2>3. ASSUME NEW k \in 1..(N-1) PROVE InTurn(k)' = InTurn(k + 1) /\ InTurn(k + 1) # s2
    BY <1>5, <2>1
  <2> QED
    BY <2>1, <2>2, <2>3
<1>7. /\ DOMAIN old' = DOMAIN old \cup {s2} /\ old'[s2] = file
      /\ \A d \in DOMAIN old : d # s2 => old'[d] = old[d]
  BY <1>3, WithFields
<1>9. DOMAIN old' \in {1..s2, 1..N}
  <2>1. CASE DOMAIN old = 1..N
    BY <1>6, <1>7, <2>1
  <2>2. CASE DOMAIN old = 1..suffix /\ suffix < N
    BY <1>1, <1>6, <1>7, <2>2
  <2> QED
    BY <1>1, <2>1, <2>2
<1>10. /\ ends \in [0..N -> Nat] /\ ends[N] <= line /\ file = LinesFrom(ends[N], line)
       /\ \A k \in 1..N :
             ends[k-1] <= ends[k] /\ OldFile(InTurn(k)) = LinesFrom(ends[k-1], ends[k])
  BY <1>2 DEF Cuts, N
<1>11. PICK new : new = [k \in 0..N |-> IF k < N THEN ends[k+1] ELSE line]
  OBVIOUS
<1>12. new \in [0..N -> Nat] /\ new[N] = line /\ \A k \in 0..(N-1) : new[k] = ends[k+1]
  BY <1>1, <1>10, <1>11
<1>13. ASSUME NEW k \in 1..N
       PROVE  new[k-1] <= new[k] /\ OldFile(InTurn(k))' = LinesFrom(new[k-1], new[k])
  <2>1. k - 1 \in 0..(N-1) /\ (k - 1) + 1 = k
    BY <1>1
  <2>2. new[k-1] = ends[k]
    BY <1>12, <2>1
  <2>3. CASE k = N
    <3>1. OldFile(InTurn(k))' = file
      <4>1. OldFile(InTurn(k))' = IF InTurn(k)' \in DOMAIN old' THEN old'[InTurn(k)'] ELSE <<>>
        BY DEF OldFile
      <4> QED
        BY <1>6, <1>7, <2>3, <4>1
    <3>2. new[k] = line /\ ends[k] <= line /\ file = LinesFrom(ends[k], line)
      BY <1>10, <1>12, <2>3
    <3> QED
      BY <2>2, <3>1, <3>2
  <2>4. CASE k # N
    <3>1. k \in 1..(N-1) /\ k \in 0..(N-1) /\ k + 1 \in 1..N /\ (k + 1) - 1 = k
      BY <1>1, <2>4
    <3>2. new[k] = ends[k+1]
      BY <1>12, <3>1
    <3>3. ends[k] <= ends[k+1] /\ OldFile(InTurn(k+1)) = LinesFrom(ends[k], ends[k+1])
      BY <1>10, <3>1
    <3>4. OldFile(InTurn(k))' = OldFile(InTurn(k+1))
      <4>1. InTurn(k)' = InTurn(k+1) /\ InTurn(k+1) # s2
        BY <1>6, <3>1
      <4>2. OldFile(InTurn(k))' = IF InTurn(k)' \in DOMAIN old' THEN old'[InTurn(k)'] ELSE <<>>
        BY DEF OldFile
      <4>3. OldFile(InTurn(k+1)) = IF InTurn(k+1) \in DOMAIN old THEN old[InTurn(k+1)] ELSE <<>>
        BY DEF OldFile
      <4> QED
        BY <1>7, <4>1, <4>2, <4>3
    <3> QED
      BY <2>2, <3>2, <3>3, <3>4
  <2> QED
    BY <2>3, <2>4
<1>14. <<>> = LinesFrom(line, line)
  BY <1>1, LinesNone
<1>15. Cuts(new)'
  BY <1>1, <1>3, <1>12, <1>13, <1>14 DEF Cuts, N
<1> QED
  BY <1>3, <1>6, <1>9, <1>15 DEF Counted, N

\* A start finds the last suffix, unless all are in use.
LEMMA LastFound ==
    ASSUME Counted, MaxFileCount \notin DOMAIN old
    PROVE  LastSuffix = suffix
<1> DEFINE P(i) == /\ 1..i \subseteq DOMAIN old
                   /\ i < MaxFileCount => i + 1 \notin DOMAIN old
<1>1. MaxFileCount \in Nat \ {0} /\ suffix \in 0..MaxFileCount /\ DOMAIN old = 1..suffix
  BY LoggerAssumption DEF Counted
<1>2. P(suffix)
  BY <1>1
<1>3. ASSUME NEW i \in 0..MaxFileCount, P(i) PROVE i = suffix
  <2>1. CASE i < suffix
    BY <1>1, <1>3, <2>1
  <2>2. CASE i > suffix
    <3>1. suffix + 1 \in 1..i
      BY <1>1, <2>2
    <3> QED
      BY <1>1, <1>3, <3>1
  <2> QED
    BY <1>1, <2>1, <2>2
<1> QED
  BY <1>1, <1>2, <1>3 DEF LastSuffix

\* A line goes to the file.
LEMMA LinesMore ==
    ASSUME NEW a \in Nat, NEW b \in Nat, a <= b
    PROVE  Append(LinesFrom(a, b), b + 1) = LinesFrom(a, b + 1)
<1> DEFINE s == LinesFrom(a, b)
           u == LinesFrom(a, b + 1)
           w == Append(s, b + 1)
<1>1. s \in Seq(Nat) /\ Len(s) = b - a /\ \A i \in 1..(b - a) : s[i] = a + i
  BY LinesFields
<1>2. u \in Seq(Nat) /\ Len(u) = (b + 1) - a /\ \A i \in 1..((b + 1) - a) : u[i] = a + i
  BY LinesFields
<1> HIDE DEF s, u
<1>3. /\ w \in Seq(Nat) /\ Len(w) = Len(s) + 1 /\ w[Len(s) + 1] = b + 1
      /\ \A i \in 1..Len(s) : w[i] = s[i]
  BY <1>1
<1> HIDE DEF w
<1>4. ASSUME NEW i \in 1..((b + 1) - a) PROVE w[i] = u[i]
  <2>1. u[i] = a + i
    BY <1>2
  <2>2. CASE i \in 1..(b - a)
    BY <1>1, <1>3, <2>1, <2>2
  <2>3. CASE i = Len(s) + 1
    BY <1>1, <1>3, <2>1, <2>3
  <2> QED
    BY <1>1, <2>2, <2>3
<1>5. Len(w) = Len(u) /\ Len(w) = (b + 1) - a
  BY <1>1, <1>2, <1>3
<1>6. w = u
  BY <1>2, <1>3, <1>4, <1>5, SameLines
<1> QED
  BY <1>6 DEF s, u, w

LEMMA OldFilesSame ==
    ASSUME NEW ends, Cuts(ends), UNCHANGED <<old, suffix, dailyRolling>>,
           \/ line' = line /\ file' = file
           \/ line' = line + 1 /\ file' = Append(file, line + 1), line \in Nat
    PROVE  Cuts(ends)'
<1> DEFINE N == MaxFileCount
<1>1. N \in Nat /\ line \in Nat
  BY LoggerAssumption
<1>2. /\ ends \in [0..N -> Nat] /\ ends[N] <= line /\ file = LinesFrom(ends[N], line)
      /\ \A k \in 1..N :
            ends[k-1] <= ends[k] /\ OldFile(InTurn(k)) = LinesFrom(ends[k-1], ends[k])
  BY DEF Cuts
<1>3. \A k : OldFile(InTurn(k))' = OldFile(InTurn(k))
  BY DEF OldFile, InTurn
<1>4. ends[N] <= line' /\ file' = LinesFrom(ends[N], line')
  <2>1. CASE line' = line /\ file' = file
    BY <1>2, <2>1
  <2>2. CASE line' = line + 1 /\ file' = Append(file, line + 1)
    <3>1. ends[N] \in Nat
      BY <1>1, <1>2
    <3>2. Append(LinesFrom(ends[N], line), line + 1) = LinesFrom(ends[N], line + 1)
      BY <1>1, <1>2, <3>1, LinesMore
    <3>3. ends[N] <= line + 1
      BY <1>1, <1>2, <3>1
    <3> QED
      BY <1>2, <2>2, <3>2, <3>3
  <2> QED
    BY <2>1, <2>2
<1>5. \A k \in 1..N :
         ends[k-1] <= ends[k] /\ OldFile(InTurn(k))' = LinesFrom(ends[k-1], ends[k])
  BY <1>2, <1>3
<1> QED
  BY <1>2, <1>4, <1>5 DEF Cuts

LEMMA SizeStep ==
    ASSUME LoggerInv, ~dailyRolling, [LoggerNext]_logVars
    PROVE  SizeInv'
<1>1. /\ LoggerTypeOK /\ buf = <<>> /\ ~buffering /\ (~blind => Counted)
      /\ line \in Nat /\ blind \in BOOLEAN /\ buffering = FALSE
  BY DEF LoggerInv, SizeInv, LoggerTypeOK
\* A step that leaves the renamed files alone.
<1>2. ASSUME UNCHANGED <<old, suffix, dailyRolling, buf, buffering, blind>>,
             \/ line' = line /\ file' = file
             \/ line' = line + 1 /\ file' = Append(file, line + 1)
      PROVE  SizeInv'
  <2>1. ASSUME ~blind PROVE Counted'
    <3>1. PICK ends : Cuts(ends)
      BY <1>1, <2>1 DEF Counted
    <3>2. Cuts(ends)'
      BY <1>1, <1>2, <3>1, OldFilesSame
    <3> QED
      BY <1>1, <1>2, <2>1, <3>2 DEF Counted
  <2> QED
    BY <1>1, <1>2, <2>1 DEF SizeInv
<1>3. CASE SetRollingFile
  <2>1. blind' = (blind \/ (MaxFileCount \in DOMAIN old /\ LastSuffix # suffix))
        /\ line' = line /\ dailyRolling' = dailyRolling
    BY <1>3 DEF SetRollingFile
  <2>2. CASE MustRename
    <3>1. CoverNextOne(LastSuffix)
      BY <1>3, <2>2 DEF SetRollingFile
    <3>2. buf' = buf /\ buffering' = buffering
      BY <3>1 DEF CoverNextOne
    <3>3. ASSUME ~blind' PROVE Counted'
      <4>1. ~blind /\ LastSuffix = suffix
        BY <1>1, <2>1, <3>3, LastFound
      <4> QED
        BY <1>1, <2>1, <3>1, <4>1, RotateStep
    <3> QED
      BY <1>1, <3>2, <3>3 DEF SizeInv
  <2>3. CASE ~MustRename
    <3>1. suffix' = LastSuffix /\ UNCHANGED <<file, old, date, buf, buffering, gone>>
      BY <1>3, <2>3 DEF SetRollingFile
    <3>2. ASSUME ~blind' PROVE Counted'
      <4>1. ~blind /\ LastSuffix = suffix
        BY <1>1, <2>1, <3>2, LastFound
      <4>2. PICK ends : Cuts(ends)
        BY <1>1, <4>1 DEF Counted
      <4>3. Cuts(ends)'
        BY <1>1, <2>1, <3>1, <4>1, <4>2, OldFilesSame
      <4> QED
        BY <1>1, <3>1, <4>1, <4>3 DEF Counted
    <3> QED
      BY <1>1, <3>1, <3>2 DEF SizeInv
  <2> QED
    BY <2>2, <2>3
<1>4. CASE SetRollingDaily
  BY <1>4 DEF SetRollingDaily
<1>5. CASE Log
  <2>1. line' = line + 1 /\ file' = Append(file, line + 1) /\ buf' = buf
    BY <1>1, <1>5 DEF Log
  <2>2. UNCHANGED <<old, suffix, dailyRolling, buffering, blind>>
    BY <1>5 DEF Log
  <2> QED
    BY <1>2, <2>1, <2>2
<1>6. CASE BufferFull
  BY <1>1, <1>6 DEF BufferFull
<1>7. ASSUME NEW i \in DOMAIN monitors, FileCheck(i) PROVE SizeInv'
  BY <1>2, <1>7 DEF FileCheck
<1>8. ASSUME NEW i \in DOMAIN monitors, Rename(i) PROVE SizeInv'
  <2>1. CoverNextOne(suffix) /\ UNCHANGED <<dailyRolling, line, blind>>
    BY <1>8 DEF Rename
  <2>2. buf' = buf /\ buffering' = buffering
    BY <2>1 DEF CoverNextOne
  <2>3. ASSUME ~blind' PROVE Counted'
    BY <1>1, <2>1, <2>3, RotateStep
  <2> QED
    BY <1>1, <2>2, <2>3 DEF SizeInv
<1>9. CASE Midnight
  BY <1>9 DEF Midnight
<1>10. CASE Restart
  BY <1>1, <1>2, <1>10 DEF Restart
<1>11. CASE LogRest \/ UNCHANGED logVars
  BY <1>2, <1>11 DEF LogRest, logVars
<1> QED
  BY <1>3, <1>4, <1>5, <1>6, <1>7, <1>8, <1>9, <1>10, <1>11 DEF LoggerNext

(***************************************************************************)
(* Steps of the logger that rolls by day.                                  *)
(***************************************************************************)

\* The buffer is given up: its lines are gone.
LEMMA BufferLost ==
    ASSUME BufferInv, line \in Nat, line' = line, gone' = gone \cup ToSet(buf), buf' = <<>>,
           \A n : Stored(n)' <=> Stored(n)
    PROVE  BufferInv'
<1>1. PICK start \in Nat :
         /\ start <= line /\ buf = LinesFrom(start, line)
         /\ gone \subseteq 1..start
         /\ \A n : Stored(n) <=> n \in 1..start /\ n \notin gone
  BY DEF BufferInv
<1>2. ToSet(buf) = (start + 1)..line
  BY <1>1, LinesFields
<1>3. gone' \subseteq 1..line /\ \A n : Stored(n)' <=> n \in 1..line /\ n \notin gone'
  BY <1>1, <1>2
<1>4. buf' = LinesFrom(line, line)
  BY LinesNone
<1>5. PICK end : end = line
  OBVIOUS
<1>6. /\ end \in Nat /\ end <= line' /\ buf' = LinesFrom(end, line')
      /\ (~buffering' => end = line')
      /\ gone' \subseteq 1..end
      /\ \A n : Stored(n)' <=> n \in 1..end /\ n \notin gone'
  BY <1>3, <1>4, <1>5
<1> QED
  BY <1>6 DEF BufferInv

\* Lines that are newer than all stored ones go to the file.
LEMMA FileGrows ==
    ASSUME LoggerTypeOK, DaysInv, NEW start \in Nat, NEW end \in Nat, start <= end,
           gone \subseteq 1..start, \A n : Stored(n) <=> n \in 1..start /\ n \notin gone,
           file' = file \o LinesFrom(start, end), UNCHANGED <<old, date, today, gone>>
    PROVE  /\ DaysInv' /\ file' \in Seq(Nat)
           /\ \A n : Stored(n)' <=> n \in 1..end /\ n \notin gone'
<1> DEFINE t == LinesFrom(start, end)
<1>1. /\ t \in Seq(Nat) /\ ToSet(t) = (start + 1)..end /\ Len(t) = end - start
      /\ \A i \in 1..(end - start) : t[i] = start + i
  BY LinesFields
<1>2. file \in Seq(Nat) /\ file' = file \o t
  BY DEF LoggerTypeOK
<1> HIDE DEF t
<1>3. Rises(t)
  <2>1. DOMAIN t = 1..(end - start)
    BY <1>1
  <2> QED
    BY <1>1, <2>1 DEF Rises
<1>4. Below(file, t)
  <2>1. \A x \in ToSet(file) : x \in 1..start
    BY DEF Stored
  <2> QED
    BY <1>1, <2>1 DEF Below
<1>5. file' \in Seq(Nat) /\ Rises(file') /\ ToSet(file') = ToSet(file) \cup ToSet(t)
  BY <1>1, <1>2, <1>3, <1>4, JoinFields, JoinRises DEF DaysInv
<1>6. ASSUME NEW d \in DOMAIN old PROVE Below(old[d], file')
  <2>1. \A x \in ToSet(old[d]) : x \in 1..start
    BY DEF Stored
  <2>2. Below(old[d], t)
    BY <1>1, <2>1 DEF Below
  <2>3. Below(old[d], file)
    BY DEF DaysInv
  <2> QED
    BY <1>5, <2>2, <2>3 DEF Below
<1>7. DaysInv'
  BY <1>5, <1>6 DEF DaysInv
<1>8. \A n : Stored(n)' <=> Stored(n) \/ n \in ToSet(t)
  BY <1>5 DEF Stored
<1>9. \A n : Stored(n)' <=> n \in 1..end /\ n \notin gone'
  BY <1>1, <1>8
<1> QED
  BY <1>5, <1>7, <1>9

LEMMA DailyStep ==
    ASSUME LoggerInv, dailyRolling, [LoggerNext]_logVars
    PROVE  DaysInv' /\ BufferInv'
<1>1. LoggerTypeOK /\ DaysInv /\ BufferInv /\ line \in Nat /\ MaxDays \in Nat
  BY LoggerAssumption DEF LoggerInv, LoggerTypeOK
<1>2. /\ today \in 0..MaxDays /\ date \in 0..today
      /\ \A d \in DOMAIN old : d \in Nat /\ d < date
      /\ \A d \in DOMAIN old : Rises(old[d]) /\ Below(old[d], file)
      /\ \A d, e \in DOMAIN old : d < e => Below(old[d], old[e])
      /\ Rises(file)
  BY <1>1 DEF DaysInv
<1>3. PICK start \in Nat :
         /\ start <= line /\ buf = LinesFrom(start, line)
         /\ ~buffering => start = line
         /\ gone \subseteq 1..start
         /\ \A n : Stored(n) <=> n \in 1..start /\ n \notin gone
  BY <1>1 DEF BufferInv
\* A step that leaves the lines alone.
<1>4. ASSUME UNCHANGED <<file, old, date, buf, buffering, line, gone>>,
             today' = today \/ today' \in today..MaxDays
      PROVE  DaysInv' /\ BufferInv'
  <2>1. DaysInv'
    <3>1. today' \in 0..MaxDays /\ date \in 0..today'
      BY <1>1, <1>2, <1>4
    <3> QED
      BY <1>2, <1>4, <3>1 DEF DaysInv
  <2>2. BufferInv'
    BY <1>3, <1>4 DEF BufferInv, Stored
  <2> QED
    BY <2>1, <2>2
<1>5. CASE SetRollingFile
  BY <1>5 DEF SetRollingFile
<1>6. CASE SetRollingDaily
  <2>1. /\ date' = today /\ gone' = gone \cup ToSet(buf) /\ buf' = <<>>
        /\ UNCHANGED <<file, old, today, line>>
    BY <1>6 DEF SetRollingDaily
  <2>2. DaysInv'
    <3>1. date' \in 0..today /\ \A d \in DOMAIN old : d \in Nat /\ d < date'
      BY <1>2, <2>1
    <3> QED
      BY <1>2, <2>1, <3>1 DEF DaysInv
  <2>3. \A n : Stored(n)' <=> Stored(n)
    BY <2>1 DEF Stored
  <2> QED
    BY <1>1, <2>1, <2>2, <2>3, BufferLost
<1>7. CASE Log
  <2>1. line' = line + 1 /\ UNCHANGED <<old, date, today, buffering, gone>>
    BY <1>7 DEF Log
  <2>2. CASE buffering
    <3>1. buf' = Append(buf, line + 1) /\ file' = file
      BY <1>7, <2>2 DEF Log
    <3>2. buf' = LinesFrom(start, line + 1)
      BY <1>1, <1>3, <3>1, LinesMore
    <3>3. BufferInv'
      <4>1. start <= line' /\ buf' = LinesFrom(start, line')
        BY <1>1, <1>3, <2>1, <3>2
      <4>2. \A n : Stored(n)' <=> Stored(n)
        BY <2>1, <3>1 DEF Stored
      <4> QED
        BY <1>3, <2>1, <2>2, <4>1, <4>2 DEF BufferInv
    <3>4. DaysInv'
      BY <1>2, <2>1, <3>1 DEF DaysInv
    <3> QED
      BY <3>3, <3>4
  <2>3. CASE ~buffering
    <3>1. file' = Append(file, line + 1) /\ buf' = buf
      BY <1>7, <2>1, <2>3 DEF Log
    <3>2. start = line /\ buf' = LinesFrom(line, line)
      BY <1>3, <2>3, <3>1
    <3>3. file' = file \o LinesFrom(line, line + 1)
      <4>1. LinesFrom(line, line + 1) = Append(<<>>, line + 1)
        <5>1. Append(LinesFrom(line, line), line + 1) = LinesFrom(line, line + 1)
          <6>1. line <= line
            BY <1>1
          <6> QED
            BY <1>1, <6>1, LinesMore
        <5>2. LinesFrom(line, line) = <<>>
          BY <1>1, LinesNone
        <5> QED
          BY <5>1, <5>2
      <4>2. file \in Seq(Nat) /\ line + 1 \in Nat
        BY <1>1 DEF LoggerTypeOK
      <4>3. Append(file, line + 1) = file \o Append(<<>>, line + 1)
        BY <4>2
      <4> QED
        BY <3>1, <4>1, <4>3
    <3> PICK end : end = line + 1
      OBVIOUS
    <3>4. end \in Nat /\ start <= end /\ file' = file \o LinesFrom(start, end)
      BY <1>1, <3>2, <3>3
    <3>5. DaysInv' /\ \A n : Stored(n)' <=> n \in 1..end /\ n \notin gone'
      BY <1>1, <1>3, <2>1, <3>4, FileGrows
    <3>6. end <= line' /\ buf' = LinesFrom(end, line') /\ end = line'
      <4>1. LinesFrom(line, line) = <<>> /\ LinesFrom(end, end) = <<>>
        BY <1>1, <3>4, LinesNone
      <4> QED
        BY <1>1, <2>1, <3>2, <3>4, <4>1
    <3>7. gone' \subseteq 1..end
      BY <1>1, <1>3, <2>1, <3>4
    <3> QED
      BY <3>4, <3>5, <3>6, <3>7 DEF BufferInv
  <2> QED
    BY <2>2, <2>3
<1>8. CASE BufferFull
  <2>1. file' = file \o buf /\ buf' = <<>> /\ UNCHANGED <<old, date, today, buffering, line, gone>>
    BY <1>8 DEF BufferFull
  <2> PICK end : end = line
    OBVIOUS
  <2>2. end \in Nat /\ start <= end /\ file' = file \o LinesFrom(start, end)
    BY <1>1, <1>3, <2>1
  <2>3. DaysInv' /\ \A n : Stored(n)' <=> n \in 1..end /\ n \notin gone'
    BY <1>1, <1>3, <2>1, <2>2, FileGrows
  <2>4. end <= line' /\ buf' = LinesFrom(end, line') /\ end = line'
    BY <1>1, <2>1, <2>2, LinesNone
  <2>5. gone' \subseteq 1..end
    BY <1>1, <1>3, <2>1, <2>2
  <2> QED
    BY <2>2, <2>3, <2>4, <2>5 DEF BufferInv
<1>9. ASSUME NEW i \in DOMAIN monitors, FileCheck(i) PROVE DaysInv' /\ BufferInv'
  BY <1>4, <1>9 DEF FileCheck
<1>10. ASSUME NEW i \in DOMAIN monitors, Rename(i) PROVE DaysInv' /\ BufferInv'
  <2>1. RenameDaily /\ UNCHANGED <<today, line>>
    BY <1>10 DEF Rename
  <2>2. CASE MustRename /\ date \notin DOMAIN old
    <3>1. /\ old' = With(old, date, file) /\ file' = <<>> /\ date' = today
          /\ gone' = gone \cup ToSet(buf) /\ buf' = <<>>
      BY <2>1, <2>2 DEF RenameDaily
    <3>2. today > date
      BY <2>2 DEF MustRename
    <3>3. /\ DOMAIN old' = DOMAIN old \cup {date} /\ old'[date] = file
          /\ \A d \in DOMAIN old : d # date /\ old'[d] = old[d]
      BY <2>2, <3>1, WithFields
    <3>4. ToSet(file') = {} /\ Rises(file')
      BY <3>1 DEF ToSet, Rises
    <3>5. \A d \in DOMAIN old' : d \in Nat /\ d < date'
      BY <1>2, <3>1, <3>2, <3>3
    <3>6. \A d \in DOMAIN old' : Rises(old'[d]) /\ Below(old'[d], file')
      BY <1>2, <3>3, <3>4 DEF Below
    <3>7. ASSUME NEW d \in DOMAIN old', NEW e \in DOMAIN old', d < e
          PROVE  Below(old'[d], old'[e])
      <4>1. d \in DOMAIN old
        <5>1. CASE d = date
          <6>1. e < date \/ e = date
            BY <1>2, <3>3
          <6> QED
            BY <1>2, <3>3, <3>7, <5>1, <6>1
        <5> QED
          BY <3>3, <5>1
      <4>2. CASE e = date
        BY <1>2, <3>3, <4>1, <4>2
      <4>3. CASE e \in DOMAIN old
        BY <1>2, <3>3, <3>7, <4>1, <4>3
      <4> QED
        BY <3>3, <4>2, <4>3
    <3>8. DaysInv'
      <4>1. today' \in 0..MaxDays /\ date' \in 0..today'
        BY <1>2, <2>1, <3>1
      <4> QED
        BY <3>4, <3>5, <3>6, <3>7, <4>1 DEF DaysInv
    <3>9. \A n : Stored(n)' <=> Stored(n)
      BY <3>3, <3>4 DEF Stored
    <3> QED
      BY <1>1, <2>1, <3>1, <3>8, <3>9, BufferLost
  <2>3. CASE ~(MustRename /\ date \notin DOMAIN old)
    <3>1. UNCHANGED <<file, old, date, buf, buffering, gone>>
      BY <2>1, <2>3 DEF RenameDaily
    <3> QED
      BY <1>4, <2>1, <3>1
  <2> QED
    BY <2>2, <2>3
<1>11. CASE Midnight
  <2>1. today' = today + 1 /\ today < MaxDays
        /\ UNCHANGED <<file, old, date, buf, buffering, line, gone>>
    BY <1>11 DEF Midnight
  <2>2. today' \in today..MaxDays
    BY <1>1, <1>2, <2>1
  <2> QED
    BY <1>4, <2>1, <2>2
<1>12. CASE Restart
  <2>1. gone' = gone \cup ToSet(buf) /\ buf' = <<>> /\ UNCHANGED <<file, old, date, today, line>>
    BY <1>12 DEF Restart
  <2>2. DaysInv'
    BY <1>2, <2>1 DEF DaysInv
  <2>3. \A n : Stored(n)' <=> Stored(n)
    BY <2>1 DEF Stored
  <2> QED
    BY <1>1, <2>1, <2>2, <2>3, BufferLost
<1>13. CASE LogRest \/ UNCHANGED logVars
  <2>1. UNCHANGED <<file, old, date, buf, buffering, line, gone, today>>
    BY <1>13 DEF LogRest, logVars
  <2> QED
    BY <1>4, <2>1
<1> QED
  BY <1>5, <1>6, <1>7, <1>8, <1>9, <1>10, <1>11, <1>12, <1>13 DEF LoggerNext

LEMMA LoggerTypeStep ==
    ASSUME LoggerTypeOK, [LoggerNext]_logVars
    PROVE  LoggerTypeOK'
<1>1. /\ dailyRolling \in BOOLEAN /\ buffering \in BOOLEAN /\ blind \in BOOLEAN
      /\ file \in Seq(Nat) /\ buf \in Seq(Nat) /\ line \in Nat
      /\ \A k \in DOMAIN old : old[k] \in Seq(Nat)
      /\ <<>> \in Seq(Nat)
  BY DEF LoggerTypeOK
<1>2. ASSUME NEW k, old' = With(old, k, file) PROVE \A d \in DOMAIN old' : old'[d] \in Seq(Nat)
  <2>1. \A d \in DOMAIN old' : d = k \/ d \in DOMAIN old
    BY <1>2, WithFields
  <2> QED
    BY <1>1, <1>2, <2>1, WithFields
<1>3. ASSUME NEW s, CoverNextOne(s), UNCHANGED <<dailyRolling, line>>, blind' \in BOOLEAN
      PROVE  LoggerTypeOK'
  BY <1>1, <1>2, <1>3 DEF CoverNextOne, LoggerTypeOK
<1>4. CASE SetRollingFile
  <2>1. blind' \in BOOLEAN /\ UNCHANGED <<dailyRolling, line>>
    BY <1>1, <1>4 DEF SetRollingFile
  <2>2. CASE MustRename
    BY <1>3, <1>4, <2>1, <2>2 DEF SetRollingFile
  <2>3. CASE ~MustRename
    BY <1>1, <1>4, <2>1, <2>3 DEF SetRollingFile, LoggerTypeOK
  <2> QED
    BY <2>2, <2>3
<1>5. CASE SetRollingDaily
  BY <1>1, <1>5 DEF SetRollingDaily, LoggerTypeOK
<1>6. CASE Log
  <2>1. line + 1 \in Nat
    BY <1>1
  <2>2. Append(buf, line + 1) \in Seq(Nat) /\ Append(file, line + 1) \in Seq(Nat)
    BY <1>1, <2>1
  <2> QED
    BY <1>1, <1>6, <2>1, <2>2 DEF Log, LoggerTypeOK
<1>7. CASE BufferFull
  <2>1. file \o buf \in Seq(Nat)
    BY <1>1
  <2> QED
    BY <1>1, <1>7, <2>1 DEF BufferFull, LoggerTypeOK
<1>8. ASSUME NEW i \in DOMAIN monitors, FileCheck(i) PROVE LoggerTypeOK'
  BY <1>1, <1>8 DEF FileCheck, LoggerTypeOK
<1>9. ASSUME NEW i \in DOMAIN monitors, Rename(i) PROVE LoggerTypeOK'
  <2>1. UNCHANGED <<dailyRolling, line, blind>>
    BY <1>9 DEF Rename
  <2>2. CASE dailyRolling
    <3>1. RenameDaily
      BY <1>9, <2>2 DEF Rename
    <3>2. CASE MustRename /\ date \notin DOMAIN old
      BY <1>1, <1>2, <2>1, <3>1, <3>2 DEF RenameDaily, LoggerTypeOK
    <3>3. CASE ~(MustRename /\ date \notin DOMAIN old)
      BY <1>1, <2>1, <3>1, <3>3 DEF RenameDaily, LoggerTypeOK
    <3> QED
      BY <3>2, <3>3
  <2>3. CASE ~dailyRolling
    BY <1>1, <1>3, <1>9, <2>1, <2>3 DEF Rename
  <2> QED
    BY <2>2, <2>3
<1>10. CASE Midnight
  BY <1>1, <1>10 DEF Midnight, LoggerTypeOK
<1>11. CASE Restart
  BY <1>1, <1>11 DEF Restart, LoggerTypeOK
<1>12. CASE LogRest \/ UNCHANGED logVars
  BY <1>1, <1>12 DEF LogRest, logVars, LoggerTypeOK
<1> QED
  BY <1>4, <1>5, <1>6, <1>7, <1>8, <1>9, <1>10, <1>11, <1>12 DEF LoggerNext

LEMMA LoggerInitial == LoggerInit => LoggerInv
<1> SUFFICES ASSUME LoggerInit PROVE LoggerInv
  OBVIOUS
<1>1. /\ file = <<>> /\ old = <<>> /\ buf = <<>> /\ <<>> \in Seq(Nat) /\ DOMAIN old = {}
      /\ suffix = 0 /\ date = 0 /\ today = 0 /\ line = 0 /\ gone = {}
      /\ dailyRolling \in BOOLEAN /\ buffering = FALSE /\ blind = FALSE
  BY DEF LoggerInit
<1>2. MaxFileCount \in Nat /\ MaxDays \in Nat
  BY LoggerAssumption
<1>3. LoggerTypeOK
  BY <1>1 DEF LoggerTypeOK
<1>4. <<>> = LinesFrom(0, 0)
  BY LinesNone
<1>5. SizeInv
  <2> DEFINE ends == [k \in 0..MaxFileCount |-> 0]
  <2>1. Cuts(ends)
    BY <1>1, <1>2, <1>4 DEF Cuts, OldFile
  <2>2. suffix \in 0..MaxFileCount /\ DOMAIN old = 1..suffix
    BY <1>1, <1>2
  <2> QED
    BY <1>1, <2>1, <2>2 DEF SizeInv, Counted
<1>6. ToSet(file) = {} /\ Rises(file)
  BY <1>1 DEF ToSet, Rises
<1>7. DaysInv
  BY <1>1, <1>2, <1>6 DEF DaysInv
<1>8. BufferInv
  <2>1. \A n : ~Stored(n)
    BY <1>1, <1>6 DEF Stored
  <2>2. \A n : n \notin 1..0
    OBVIOUS
  <2> QED
    BY <1>1, <1>4, <2>1, <2>2 DEF BufferInv
<1> QED
  BY <1>3, <1>5, <1>7, <1>8 DEF LoggerInv

\* The log files lose and repeat no line: by size they hold the last lines without
\* a gap and in order, as long as no start has lost the count of the suffixes,
\* however the monitors rotate; by day, exactly the lines that were neither lost
\* with a buffer nor are in it still, in order (fileCheck, rename, coverNextOne).
THEOREM LogKeptCorrect == LoggerSpec => []LogKept
<1>1. LoggerInv /\ [LoggerNext]_logVars => LoggerInv'
  <2> SUFFICES ASSUME LoggerInv, [LoggerNext]_logVars PROVE LoggerInv'
    OBVIOUS
  <2>1. LoggerTypeOK'
    BY LoggerTypeStep DEF LoggerInv
  <2>2. dailyRolling' = dailyRolling
    BY DEF LoggerNext, logVars, SetRollingFile, SetRollingDaily, Log, BufferFull, FileCheck,
           Rename, Midnight, Restart, LogRest
  <2> QED
    BY <2>1, <2>2, SizeStep, DailyStep DEF LoggerInv
<1> QED
  BY <1>1, LoggerInitial, InvKept, PTL DEF LoggerSpec
=============================================================================
