---------------------------- MODULE CodecProofs -----------------------------
(* What reading back an integer that was written gives, for every value. *)
EXTENDS Codec, TLAPS

\* The bytes that Encode() makes, position by position.
LEMMA ByteBits ==
    ASSUME NEW v \in SUBSET Nat, NEW k \in Nat, NEW i \in Int
    PROVE  i \in ByteOf(v, k) <=> i \in 0..7 /\ 8 * k + i \in v
<1>1. i \in ByteOf(v, k) <=> i \in 0..7 /\ \E j \in v : j >= 8 * k /\ i = j - 8 * k
  BY DEF ByteOf, Truncate, ShiftRight
<1> QED
  BY <1>1

\* A byte shifted within an int keeps its bits.
LEMMA ShiftedBits ==
    ASSUME NEW b \in SUBSET (0..7), NEW n \in 0..24, NEW i \in Int
    PROVE  i \in ShiftInt(b, n) <=> i - n \in b
<1>1. i \in ShiftInt(b, n) <=> i \in 0..31 /\ \E j \in b : i = j + n
  BY DEF ShiftInt, Truncate, ShiftLeft
<1> QED
  BY <1>1

\* A byte is eight bits, and so fits into an int.
LEMMA ByteType == \A v, k : ByteOf(v, k) \in SUBSET (0..7)
BY DEF ByteOf, Truncate

\* A uint16 is read back as it was written.
THEOREM RoundTrip16 ==
    ASSUME NEW v \in Bits(16)
    PROVE  DecodeUInt16(Encode(v, 2)) = v
<1> DEFINE b0 == ByteOf(v, 0)
           b1 == ByteOf(v, 1)
           s1 == ShiftInt(b1, 8)
<1>1. v \in SUBSET Nat /\ v \subseteq 0..15
  BY DEF Bits
<1>2. ASSUME NEW i \in Int PROVE i \in b0 <=> i \in 0..7 /\ i \in v
  BY <1>1, ByteBits
<1>3. ASSUME NEW i \in Int PROVE i \in b1 <=> i \in 0..7 /\ 8 + i \in v
  BY <1>1, ByteBits
<1>4. ASSUME NEW i \in Int PROVE i \in s1 <=> i - 8 \in b1
  <2>1. b1 \in SUBSET (0..7) /\ 8 \in 0..24
    BY ByteType
  <2> QED
    BY <2>1, ShiftedBits
<1>5. Encode(v, 2)[1] = b0 /\ Encode(v, 2)[2] = b1
  BY DEF Encode
<1>6. DecodeUInt16(Encode(v, 2)) = (b0 \cup s1) \cap 0..15
  <2>1. DecodeUInt16(Encode(v, 2)) = (b0 \cup s1) \cap 0..16 - 1
    BY <1>5 DEF DecodeUInt16, Truncate
  <2> QED
    BY <2>1
<1> HIDE DEF b0, b1, s1
<1>7. ASSUME NEW i \in 0..15 PROVE i \in b0 \cup s1 <=> i \in v
  <2>1. i \in s1 <=> i - 8 \in 0..7 /\ 8 + (i - 8) \in v
    BY <1>3, <1>4
  <2>2. 8 + (i - 8) = i
    OBVIOUS
  <2> QED
    BY <1>2, <2>1, <2>2
<1> QED
  BY <1>1, <1>6, <1>7

\* A uint32 is read back as it was written, also when its highest bit is set.
THEOREM RoundTrip32 ==
    ASSUME NEW v \in Bits(32)
    PROVE  DecodeUInt32(Encode(v, 4)) = v
<1> DEFINE b0 == ByteOf(v, 0)
           b1 == ByteOf(v, 1)
           b2 == ByteOf(v, 2)
           b3 == ByteOf(v, 3)
           s1 == ShiftInt(b1, 8)
           s2 == ShiftInt(b2, 16)
           s3 == ShiftInt(b3, 24)
<1>1. v \in SUBSET Nat /\ v \subseteq 0..31
  BY DEF Bits
<1>2. ASSUME NEW i \in Int
      PROVE  /\ i \in b0 <=> i \in 0..7 /\ i \in v
             /\ i \in b1 <=> i \in 0..7 /\ 8 + i \in v
             /\ i \in b2 <=> i \in 0..7 /\ 16 + i \in v
             /\ i \in b3 <=> i \in 0..7 /\ 24 + i \in v
  <2>1. i \in b0 <=> i \in 0..7 /\ 8 * 0 + i \in v
    BY <1>1, ByteBits
  <2>2. i \in b1 <=> i \in 0..7 /\ 8 * 1 + i \in v
    BY <1>1, ByteBits
  <2>3. i \in b2 <=> i \in 0..7 /\ 8 * 2 + i \in v
    BY <1>1, ByteBits
  <2>4. i \in b3 <=> i \in 0..7 /\ 8 * 3 + i \in v
    BY <1>1, ByteBits
  <2> HIDE DEF b0, b1, b2, b3
  <2> QED
    BY <2>1, <2>2, <2>3, <2>4
<1>3. ASSUME NEW i \in Int
      PROVE  /\ i \in s1 <=> i - 8 \in b1
             /\ i \in s2 <=> i - 16 \in b2
             /\ i \in s3 <=> i - 24 \in b3
  <2>1. i \in s1 <=> i - 8 \in b1
    <3>1. b1 \in SUBSET (0..7) /\ 8 \in 0..24
      BY ByteType
    <3> QED
      BY <3>1, ShiftedBits
  <2>2. i \in s2 <=> i - 16 \in b2
    <3>1. b2 \in SUBSET (0..7) /\ 16 \in 0..24
      BY ByteType
    <3> QED
      BY <3>1, ShiftedBits
  <2>3. i \in s3 <=> i - 24 \in b3
    <3>1. b3 \in SUBSET (0..7) /\ 24 \in 0..24
      BY ByteType
    <3> QED
      BY <3>1, ShiftedBits
  <2> QED
    BY <2>1, <2>2, <2>3
<1>4. DecodeUInt32(Encode(v, 4)) = b0 \cup s1 \cup s2 \cup s3
  BY DEF DecodeUInt32, Encode
<1>5. \A j \in s1 \cup s2 \cup s3 : j \in Int
  BY ByteType DEF ShiftInt, Truncate
<1>6. \A j \in b0 : j \in Int
  BY ByteType
<1> HIDE DEF b0, b1, b2, b3, s1, s2, s3
<1>7. ASSUME NEW i \in Int PROVE i \in b0 \cup s1 \cup s2 \cup s3 <=> i \in v
  <2>1. i \in s1 <=> i \in 8..15 /\ i \in v
    BY <1>2, <1>3
  <2>2. i \in s2 <=> i \in 16..23 /\ i \in v
    BY <1>2, <1>3
  <2>3. i \in s3 <=> i \in 24..31 /\ i \in v
    BY <1>2, <1>3
  <2>4. i \in b0 <=> i \in 0..7 /\ i \in v
    BY <1>2
  <2>5. i \in v => i \in 0..7 \/ i \in 8..15 \/ i \in 16..23 \/ i \in 24..31
    BY <1>1
  <2> QED
    BY <2>1, <2>2, <2>3, <2>4, <2>5
<1>8. b0 \cup s1 \cup s2 \cup s3 \subseteq v
  BY <1>5, <1>6, <1>7
<1>9. v \subseteq b0 \cup s1 \cup s2 \cup s3
  <2>1. \A i \in v : i \in Int
    BY <1>1
  <2> QED
    BY <1>7, <2>1
<1> QED
  BY <1>4, <1>8, <1>9

\* The int that holds byte k of a value without bits 31 and above has no sign, and widens
\* to itself; the bytes above the fourth are 0 and stay so however they are shifted.
LEMMA SmallBytes ==
    ASSUME NEW v \in SUBSET (0..30)
    PROVE  /\ Widen(ShiftInt(ByteOf(v, 1), 8)) = ShiftInt(ByteOf(v, 1), 8)
           /\ Widen(ShiftInt(ByteOf(v, 2), 16)) = ShiftInt(ByteOf(v, 2), 16)
           /\ Widen(ShiftInt(ByteOf(v, 3), 24)) = ShiftInt(ByteOf(v, 3), 24)
           /\ \A k \in 4..7 : \A w : Widen(Overshift(ByteOf(v, k), 8 * k, w)) = {}
<1>1. v \in SUBSET Nat /\ v \subseteq 0..30
  OBVIOUS
<1>2. 31 \notin ShiftInt(ByteOf(v, 1), 8)
  <2>1. ByteOf(v, 1) \in SUBSET (0..7) /\ 8 \in 0..24
    BY ByteType
  <2>2. 31 - 8 \notin 0..7
    OBVIOUS
  <2> QED
    BY <2>1, <2>2, ShiftedBits
<1>3. 31 \notin ShiftInt(ByteOf(v, 2), 16)
  <2>1. ByteOf(v, 2) \in SUBSET (0..7) /\ 16 \in 0..24
    BY ByteType
  <2>2. 31 - 16 \notin 0..7
    OBVIOUS
  <2> QED
    BY <2>1, <2>2, ShiftedBits
<1>4. 31 \notin ShiftInt(ByteOf(v, 3), 24)
  <2>1. ByteOf(v, 3) \in SUBSET (0..7) /\ 24 \in 0..24
    BY ByteType
  <2>2. 7 \notin ByteOf(v, 3)
    <3>1. 7 \in ByteOf(v, 3) <=> 7 \in 0..7 /\ 8 * 3 + 7 \in v
      BY <1>1, ByteBits
    <3> QED
      BY <1>1, <3>1
  <2>3. 31 - 24 = 7 /\ 31 \in Int
    OBVIOUS
  <2> QED
    BY <2>1, <2>2, <2>3, ShiftedBits
<1>5. ASSUME NEW k \in 4..7, NEW w
      PROVE  Widen(Overshift(ByteOf(v, k), 8 * k, w)) = {}
  <2>1. ASSUME NEW i \in 0..7 PROVE i \notin ByteOf(v, k)
    <3>1. i \in ByteOf(v, k) <=> i \in 0..7 /\ 8 * k + i \in v
      BY <1>1, ByteBits
    <3>2. 8 * k + i > 30
      OBVIOUS
    <3> QED
      BY <1>1, <3>1, <3>2
  <2>2. ByteOf(v, k) = {}
    BY <2>1, ByteType
  <2>3. \A n : ShiftInt({}, n) = {}
    BY DEF ShiftInt, Truncate, ShiftLeft
  <2>4. Overshift({}, 8 * k, w) = {}
    BY <2>3 DEF Overshift
  <2> QED
    BY <2>2, <2>4 DEF Widen
<1> QED
  BY <1>2, <1>3, <1>4, <1>5 DEF Widen

\* A uint64 below 2^31 is read back as it was written, in every build.
THEOREM RoundTrip64 ==
    ASSUME NEW v \in SUBSET (0..30), NEW w
    PROVE  DecodeUInt64(Encode(v, 8), w) = v
<1> DEFINE e == Encode(v, 8)
<1>1. v \in Bits(32)
  BY DEF Bits
<1>2. /\ e[1] = ByteOf(v, 0) /\ e[2] = ByteOf(v, 1)
      /\ e[3] = ByteOf(v, 2) /\ e[4] = ByteOf(v, 3)
      /\ \A k \in 4..7 : e[k + 1] = ByteOf(v, k)
  BY DEF Encode
<1>3. /\ Encode(v, 4)[1] = ByteOf(v, 0) /\ Encode(v, 4)[2] = ByteOf(v, 1)
      /\ Encode(v, 4)[3] = ByteOf(v, 2) /\ Encode(v, 4)[4] = ByteOf(v, 3)
  BY DEF Encode
<1> HIDE DEF e
<1>4. UNION {Widen(Overshift(e[k + 1], 8 * k, w)) : k \in 4..7} = {}
  BY <1>2, SmallBytes
<1>5. DecodeUInt64(e, w) = DecodeUInt32(Encode(v, 4))
  BY <1>2, <1>3, <1>4, SmallBytes DEF DecodeUInt64, DecodeUInt32
<1> QED
  BY <1>1, <1>5, RoundTrip32 DEF e

\* A uint64 with bit 31 set and some higher bit clear is never read back as it was written:
\* the sign of the fourth byte covers the upper half.
THEOREM SignSmears64 ==
    ASSUME NEW v \in Bits(64), 31 \in v, NEW i \in 32..63, i \notin v, NEW w
    PROVE  DecodeUInt64(Encode(v, 8), w) # v
<1>1. v \in SUBSET Nat
  BY DEF Bits
<1>2. Encode(v, 8)[4] = ByteOf(v, 3)
  BY DEF Encode
<1>3. 7 \in ByteOf(v, 3)
  <2>1. 7 \in ByteOf(v, 3) <=> 7 \in 0..7 /\ 8 * 3 + 7 \in v
    BY <1>1, ByteBits
  <2> QED
    BY <2>1
<1>4. 31 \in ShiftInt(ByteOf(v, 3), 24)
  <2>1. ByteOf(v, 3) \in SUBSET (0..7) /\ 24 \in 0..24
    BY ByteType
  <2>2. 31 - 24 = 7 /\ 31 \in Int
    OBVIOUS
  <2> QED
    BY <1>3, <2>1, <2>2, ShiftedBits
<1>5. i \in Widen(ShiftInt(Encode(v, 8)[4], 24))
  BY <1>2, <1>4 DEF Widen
<1>6. i \in DecodeUInt64(Encode(v, 8), w)
  BY <1>5 DEF DecodeUInt64
<1> QED
  BY <1>6
=============================================================================
