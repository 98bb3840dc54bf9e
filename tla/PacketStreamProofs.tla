-------------------------- MODULE PacketStreamProofs --------------------------
(***************************************************************************)
(* Theorems about the packets of PacketStream, for messages with strings   *)
(* and lists of every length.  Sending: the size in a header is the number *)
(* of bytes written, and no write leaves the vector of the send buffer.    *)
(* Receiving: a whole packet is read as it was sent, nothing but the start *)
(* of a packet is handled, and of a packet that was cut nothing is read    *)
(* behind the receive buffer.                                              *)
(***************************************************************************)
EXTENDS PacketStream, Folding, CodecProofs

\* The powers of two of BitsOf().
LEMMA Powers ==
    /\ 2^0 = 1 /\ 2^1 = 2 /\ 2^2 = 4 /\ 2^3 = 8 /\ 2^4 = 16 /\ 2^5 = 32
    /\ 2^6 = 64 /\ 2^7 = 128 /\ 2^8 = 256 /\ 2^9 = 512 /\ 2^10 = 1024
OBVIOUS

\* A number below 2^7 has no bit from bit 7 on.
LEMMA SmallBits ==
    ASSUME NEW n \in 0..127
    PROVE  BitsOf(n) \in SUBSET (0..6)
<1> DEFINE Bit(i) == (n \div 2^i) % 2
<1> SUFFICES \A i \in 7..10 : Bit(i) # 1
  <2>1. BitsOf(n) = {i \in 0..10 : Bit(i) = 1}
    BY DEF BitsOf
  <2> HIDE DEF Bit
  <2>2. \A i \in 0..10 : i \in 0..6 \/ i \in 7..10
    OBVIOUS
  <2> QED
    BY <2>1, <2>2
<1> TAKE i \in 7..10
<1>1. n \div 128 = 0 /\ n \div 256 = 0 /\ n \div 512 = 0 /\ n \div 1024 = 0
  OBVIOUS
<1>2. i = 7 \/ i = 8 \/ i = 9 \/ i = 10
  OBVIOUS
<1>3. n \div 2^i = 0
  <2>1. CASE i = 7
    BY <1>1, <2>1, Powers
  <2>2. CASE i = 8
    BY <1>1, <2>2, Powers
  <2>3. CASE i = 9
    BY <1>1, <2>3, Powers
  <2>4. CASE i = 10
    BY <1>1, <2>4, Powers
  <2> QED
    BY <1>2, <2>1, <2>2, <2>3, <2>4
<1>4. 0 % 2 # 1
  OBVIOUS
<1> QED
  BY <1>3, <1>4

\* The highest bit of a value is one of its bits.
LEMMA HighestBitIn ==
    ASSUME NEW m \in Nat, NEW value \in SUBSET (0..m)
    PROVE  HighestBit(value) \in 0..m
<1>1. CASE value = {}
  BY <1>1 DEF HighestBit
<1>2. CASE value # {}
  <2>1. Max(value) \in value
    BY <1>2, MaxOfInterval
  <2> QED
    BY <1>2, <2>1 DEF HighestBit
<1> QED
  BY <1>1, <1>2

\* VarintSizeFromLog() computes a quotient by 7 with a multiplication and a shift, which is
\* right for every number of bits that an integer of 64 has.
LEMMA DivisionBySeven ==
    ASSUME NEW h \in 0..63
    PROVE  VarintSizeFromLog(h) = h \div 7 + 1
BY DEF VarintSizeFromLog

\* What UnsafeVarint() writes is as long as VarintSize64() says, for every value of 64 bits.
THEOREM VarintSizesAreExact ==
    ASSUME NEW value \in Bits(64)
    PROVE  /\ Varint(value) \in Seq(Byte)
           /\ Len(Varint(value)) = VarintSize(value)
<1>1. HighestBit(value) \in 0..63
  BY HighestBitIn DEF Bits
<1> DEFINE last == HighestBit(value) \div 7
           at(i) == Truncate(ShiftRight(value, 7 * (i - 1)), 7)
                                 \cup (IF i <= last THEN {7} ELSE {})
<1>2. last \in Nat
  BY <1>1
<1>3. \A i \in 1..last + 1 : at(i) \in Byte
  <2>1. \A v : Truncate(v, 7) \subseteq 0..7
    BY DEF Truncate
  <2> QED
    BY <2>1 DEF Byte, Bits
<1>4. Varint(value) = [i \in 1..last + 1 |-> at(i)]
  BY DEF Varint
<1> HIDE DEF at
<1>5. Varint(value) \in [1..last + 1 -> Byte]
  BY <1>3, <1>4
<1>6. last + 1 \in Nat
  BY <1>2
<1>7. Varint(value) \in Seq(Byte) /\ Len(Varint(value)) = last + 1
  <2> HIDE DEF last
  <2> QED
    BY <1>5, <1>6
<1>8. VarintSize(value) = last + 1
  BY <1>1, DivisionBySeven DEF VarintSize
<1> QED
  BY <1>7, <1>8

\* Lengths and tags are such values.
LEMMA BitsOfAreBits == ASSUME NEW n PROVE BitsOf(n) \in Bits(64)
BY DEF BitsOf, Bits

\* A value below 2^7 takes one byte, one below 2^21 at most three, any at most ten.
LEMMA VarintSizes ==
    ASSUME NEW value
    PROVE  /\ value \in Bits(7) => VarintSize(value) = 1
           /\ value \in Bits(21) => VarintSize(value) \in 1..3
           /\ value \in Bits(64) => VarintSize(value) \in 1..10
<1>1. ASSUME value \in Bits(7) PROVE VarintSize(value) = 1
  BY <1>1, HighestBitIn DEF Bits, VarintSize, VarintSizeFromLog
<1>2. ASSUME value \in Bits(21) PROVE VarintSize(value) \in 1..3
  BY <1>2, HighestBitIn DEF Bits, VarintSize, VarintSizeFromLog
<1>3. ASSUME value \in Bits(64) PROVE VarintSize(value) \in 1..10
  BY <1>3, HighestBitIn DEF Bits, VarintSize, VarintSizeFromLog
<1> QED
  BY <1>1, <1>2, <1>3

\* The size of one field: its tag is one byte, and its length is written like a number.
LEMMA WebFieldWritten ==
    ASSUME NEW number \in 1..3, NEW field, NEW value,
           \/ field.wire = 0 /\ value \in Bits(64)
           \/ field.wire = 2 /\ value \in Seq(Byte)
    PROVE  /\ WriteWebField(number, field, value) \in Seq(Byte)
           /\ Len(WriteWebField(number, field, value)) = FieldSize(field, value)
           /\ FieldSize(field, value) \in Nat
<1> DEFINE tag == Varint(Tag(number, field.wire))
           length == Varint(BitsOf(Len(value)))
<1>1. tag \in Seq(Byte) /\ Len(tag) = 1
  <2>0. field.wire \in {0, 2}
    OBVIOUS
  <2>1. \A w \in {0, 2} : 8 * number + w \in 0..127
    OBVIOUS
  <2>2. Tag(number, field.wire) \in Bits(7)
    BY <2>0, <2>1, SmallBits DEF Tag, Bits
  <2>3. Tag(number, field.wire) \in Bits(64)
    BY BitsOfAreBits DEF Tag
  <2> QED
    BY <2>2, <2>3, VarintSizesAreExact, VarintSizes
<1>2. /\ length \in Seq(Byte) /\ Len(length) = VarintSize(BitsOf(Len(value)))
      /\ VarintSize(BitsOf(Len(value))) \in Nat
  <2>1. BitsOf(Len(value)) \in Bits(64)
    BY BitsOfAreBits
  <2>2. VarintSize(BitsOf(Len(value))) \in 1..10
    BY <2>1, VarintSizes
  <2> QED
    BY <2>1, <2>2, VarintSizesAreExact
<1> HIDE DEF tag, length
<1>3. CASE field.wire = 0 /\ value \in Bits(64)
  <2>1. /\ Varint(value) \in Seq(Byte) /\ Len(Varint(value)) = VarintSize(value)
        /\ VarintSize(value) \in 1..10
    BY <1>3, VarintSizesAreExact, VarintSizes
  <2>2. WriteWebField(number, field, value) = tag \o Varint(value)
    BY <1>3 DEF WriteWebField, tag
  <2>3. /\ tag \o Varint(value) \in Seq(Byte)
        /\ Len(tag \o Varint(value)) = Len(tag) + Len(Varint(value))
    BY <1>1, <2>1, ConcatProperties
  <2>4. FieldSize(field, value) = 1 + VarintSize(value)
    BY <1>3, <2>1 DEF FieldSize
  <2> QED
    BY <1>1, <2>1, <2>2, <2>3, <2>4
<1>4. CASE field.wire = 2 /\ value \in Seq(Byte)
  <2>1. WriteWebField(number, field, value) = tag \o (length \o value)
    BY <1>4 DEF WriteWebField, tag, length
  <2>2. FieldSize(field, value) = 1 + (Len(length) + Len(value))
    BY <1>2, <1>4 DEF FieldSize
  <2>3. Len(value) \in Nat
    BY <1>4, LenProperties
  <2>4. length \o value \in Seq(Byte) /\ Len(length \o value) = Len(length) + Len(value)
    BY <1>2, <1>4, ConcatProperties
  <2>5. /\ tag \o (length \o value) \in Seq(Byte)
        /\ Len(tag \o (length \o value)) = Len(tag) + Len(length \o value)
    BY <1>1, <2>4, ConcatProperties
  <2> QED
    BY <1>1, <1>2, <2>1, <2>2, <2>3, <2>4, <2>5
<1> QED
  BY <1>3, <1>4

\* The values a field may have.
IsOfField(field, value) ==
    \/ field.wire = 0 /\ value \in Bits(64)
    \/ field.wire = 2 /\ value \in Seq(Byte)

\* ByteSizeLong() is the number of bytes that _InternalSerialize() writes: for a class of
\* two fields,
LEMMA TwoFieldsWritten ==
    ASSUME NEW f, NEW g, NEW msg, IsSet(f, msg), IsSet(g, msg),
           IsOfField(f, msg[f.name]), IsOfField(g, msg[g.name])
    PROVE  /\ SerializeWeb(<<f, g>>, msg) \in Seq(Byte)
           /\ Len(SerializeWeb(<<f, g>>, msg)) = ByteSize(<<f, g>>, msg)
           /\ ByteSize(<<f, g>>, msg)
                 = FieldSize(f, msg[f.name]) + FieldSize(g, msg[g.name])
           /\ SerializeWeb(<<f, g>>, msg)
                 = Joined(WriteWebField(1, f, msg[f.name]), WriteWebField(2, g, msg[g.name]))
<1> DEFINE F == WriteWebField(1, f, msg[f.name])
           G == WriteWebField(2, g, msg[g.name])
           sizes == [k \in {j \in DOMAIN <<f, g>> : IsSet(<<f, g>>[j], msg)} |->
                        FieldSize(<<f, g>>[k], msg[<<f, g>>[k].name])]
<1>1. /\ F \in Seq(Byte) /\ Len(F) = FieldSize(f, msg[f.name])
      /\ FieldSize(f, msg[f.name]) \in Nat
  BY WebFieldWritten DEF IsOfField
<1>2. /\ G \in Seq(Byte) /\ Len(G) = FieldSize(g, msg[g.name])
      /\ FieldSize(g, msg[g.name]) \in Nat
  BY WebFieldWritten DEF IsOfField
<1>3. SerializeWeb(<<f, g>>, msg) = FlattenSeq(<<F, G>>)
  BY DEF SerializeWeb
<1>4. /\ DOMAIN sizes = {1, 2}
      /\ sizes[1] = FieldSize(f, msg[f.name]) /\ sizes[2] = FieldSize(g, msg[g.name])
  OBVIOUS
<1>5. ByteSize(<<f, g>>, msg) = SumFunction(sizes)
  BY DEF ByteSize
<1> HIDE DEF F, G, sizes
<1>6. SumFunction(sizes) = sizes[1] + sizes[2]
  BY <1>1, <1>2, <1>4, SumTwo
<1>7. F \o G \in Seq(Byte) /\ Len(F \o G) = Len(F) + Len(G)
  BY <1>1, <1>2, ConcatProperties
<1>8. SerializeWeb(<<f, g>>, msg) = Joined(F, G)
  BY <1>3, FlattenTwo
<1>9. SerializeWeb(<<f, g>>, msg) = F \o G
  BY <1>8 DEF Joined
<1>10. /\ SerializeWeb(<<f, g>>, msg) \in Seq(Byte)
       /\ Len(SerializeWeb(<<f, g>>, msg)) = ByteSize(<<f, g>>, msg)
       /\ ByteSize(<<f, g>>, msg)
             = FieldSize(f, msg[f.name]) + FieldSize(g, msg[g.name])
  BY <1>1, <1>2, <1>4, <1>5, <1>6, <1>7, <1>9
<1> QED
  BY <1>8, <1>10 DEF F, G

\* for one of three,
LEMMA ThreeFieldsWritten ==
    ASSUME NEW f, NEW g, NEW h, NEW msg, IsSet(f, msg), IsSet(g, msg), IsSet(h, msg),
           IsOfField(f, msg[f.name]), IsOfField(g, msg[g.name]), IsOfField(h, msg[h.name])
    PROVE  /\ SerializeWeb(<<f, g, h>>, msg) \in Seq(Byte)
           /\ Len(SerializeWeb(<<f, g, h>>, msg)) = ByteSize(<<f, g, h>>, msg)
           /\ ByteSize(<<f, g, h>>, msg)
                 = FieldSize(f, msg[f.name]) + FieldSize(g, msg[g.name])
                      + FieldSize(h, msg[h.name])
           /\ SerializeWeb(<<f, g, h>>, msg)
                 = Joined(Joined(WriteWebField(1, f, msg[f.name]),
                                 WriteWebField(2, g, msg[g.name])),
                          WriteWebField(3, h, msg[h.name]))
<1> DEFINE F == WriteWebField(1, f, msg[f.name])
           G == WriteWebField(2, g, msg[g.name])
           H == WriteWebField(3, h, msg[h.name])
           sizes == [k \in {j \in DOMAIN <<f, g, h>> : IsSet(<<f, g, h>>[j], msg)} |->
                        FieldSize(<<f, g, h>>[k], msg[<<f, g, h>>[k].name])]
<1>1. /\ F \in Seq(Byte) /\ Len(F) = FieldSize(f, msg[f.name])
      /\ FieldSize(f, msg[f.name]) \in Nat
  BY WebFieldWritten DEF IsOfField
<1>2. /\ G \in Seq(Byte) /\ Len(G) = FieldSize(g, msg[g.name])
      /\ FieldSize(g, msg[g.name]) \in Nat
  BY WebFieldWritten DEF IsOfField
<1>3. /\ H \in Seq(Byte) /\ Len(H) = FieldSize(h, msg[h.name])
      /\ FieldSize(h, msg[h.name]) \in Nat
  BY WebFieldWritten DEF IsOfField
<1>4. SerializeWeb(<<f, g, h>>, msg) = FlattenSeq(<<F, G, H>>)
  BY DEF SerializeWeb
<1>5. /\ DOMAIN sizes = {1, 2, 3}
      /\ sizes[1] = FieldSize(f, msg[f.name]) /\ sizes[2] = FieldSize(g, msg[g.name])
      /\ sizes[3] = FieldSize(h, msg[h.name])
  OBVIOUS
<1>6. ByteSize(<<f, g, h>>, msg) = SumFunction(sizes)
  BY DEF ByteSize
<1> HIDE DEF F, G, H, sizes
<1>7. SumFunction(sizes) = sizes[1] + sizes[2] + sizes[3]
  BY <1>1, <1>2, <1>3, <1>5, SumThree
<1>8. F \o G \in Seq(Byte) /\ Len(F \o G) = Len(F) + Len(G)
  BY <1>1, <1>2, ConcatProperties
<1>9. (F \o G) \o H \in Seq(Byte) /\ Len((F \o G) \o H) = Len(F \o G) + Len(H)
  BY <1>3, <1>8, ConcatProperties
<1>10. SerializeWeb(<<f, g, h>>, msg) = Joined(Joined(F, G), H)
  BY <1>4, FlattenThree
<1>11. SerializeWeb(<<f, g, h>>, msg) = (F \o G) \o H
  BY <1>10 DEF Joined
<1>12. /\ SerializeWeb(<<f, g, h>>, msg) \in Seq(Byte)
       /\ Len(SerializeWeb(<<f, g, h>>, msg)) = ByteSize(<<f, g, h>>, msg)
       /\ ByteSize(<<f, g, h>>, msg)
             = FieldSize(f, msg[f.name]) + FieldSize(g, msg[g.name])
                  + FieldSize(h, msg[h.name])
  BY <1>1, <1>2, <1>3, <1>5, <1>6, <1>7, <1>8, <1>9, <1>11
<1> QED
  BY <1>10, <1>12 DEF F, G, H

\* and for one of three whose last field is never set: creationDate.
LEMMA TwoOfThreeWritten ==
    ASSUME NEW f, NEW g, NEW h, NEW msg, IsSet(f, msg), IsSet(g, msg), ~IsSet(h, msg),
           IsOfField(f, msg[f.name]), IsOfField(g, msg[g.name])
    PROVE  /\ SerializeWeb(<<f, g, h>>, msg) \in Seq(Byte)
           /\ Len(SerializeWeb(<<f, g, h>>, msg)) = ByteSize(<<f, g, h>>, msg)
           /\ ByteSize(<<f, g, h>>, msg)
                 = FieldSize(f, msg[f.name]) + FieldSize(g, msg[g.name])
           /\ SerializeWeb(<<f, g, h>>, msg)
                 = Joined(WriteWebField(1, f, msg[f.name]), WriteWebField(2, g, msg[g.name]))
<1> DEFINE F == WriteWebField(1, f, msg[f.name])
           G == WriteWebField(2, g, msg[g.name])
           sizes == [k \in {j \in DOMAIN <<f, g, h>> : IsSet(<<f, g, h>>[j], msg)} |->
                        FieldSize(<<f, g, h>>[k], msg[<<f, g, h>>[k].name])]
<1>1. /\ F \in Seq(Byte) /\ Len(F) = FieldSize(f, msg[f.name])
      /\ FieldSize(f, msg[f.name]) \in Nat
  BY WebFieldWritten DEF IsOfField
<1>2. /\ G \in Seq(Byte) /\ Len(G) = FieldSize(g, msg[g.name])
      /\ FieldSize(g, msg[g.name]) \in Nat
  BY WebFieldWritten DEF IsOfField
<1>3. SerializeWeb(<<f, g, h>>, msg) = FlattenSeq(<<F, G, <<>> >>)
  BY DEF SerializeWeb
<1>4. /\ DOMAIN sizes = {1, 2}
      /\ sizes[1] = FieldSize(f, msg[f.name]) /\ sizes[2] = FieldSize(g, msg[g.name])
  OBVIOUS
<1>5. ByteSize(<<f, g, h>>, msg) = SumFunction(sizes)
  BY DEF ByteSize
<1> HIDE DEF F, G, sizes
<1>6. SumFunction(sizes) = sizes[1] + sizes[2]
  BY <1>1, <1>2, <1>4, SumTwo
<1>7. F \o G \in Seq(Byte) /\ Len(F \o G) = Len(F) + Len(G)
  BY <1>1, <1>2, ConcatProperties
<1>8. (F \o G) \o <<>> = F \o G
  BY <1>7, ConcatEmptySeq
<1>9. SerializeWeb(<<f, g, h>>, msg) = (F \o G) \o <<>>
  <2>1. SerializeWeb(<<f, g, h>>, msg) = Joined(Joined(F, G), <<>>)
    BY <1>3, FlattenThree
  <2> QED
    BY <2>1 DEF Joined
<1>10. SerializeWeb(<<f, g, h>>, msg) = F \o G
  BY <1>8, <1>9
<1>11. SerializeWeb(<<f, g, h>>, msg) = Joined(F, G)
  BY <1>10 DEF Joined
<1>12. /\ SerializeWeb(<<f, g, h>>, msg) \in Seq(Byte)
       /\ Len(SerializeWeb(<<f, g, h>>, msg)) = ByteSize(<<f, g, h>>, msg)
       /\ ByteSize(<<f, g, h>>, msg)
             = FieldSize(f, msg[f.name]) + FieldSize(g, msg[g.name])
  BY <1>1, <1>2, <1>4, <1>5, <1>6, <1>7, <1>10
<1> QED
  BY <1>11, <1>12 DEF F, G
-----------------------------------------------------------------------------
(***************************************************************************)
(* Writing to the buffer.                                                  *)
(***************************************************************************)
\* A buffer between two writes.
Buffers == {b \in [data : Seq(Byte), writeIndex : Nat, readIndex : Nat, inside : BOOLEAN] :
               b.writeIndex <= Len(b.data)}

\* From one buffer to the next these bytes have been written behind what was there, and
\* none beyond the vector.
HasWritten(old, new, bytes) ==
    /\ new \in Buffers /\ bytes \in Seq(Byte)
    /\ new.writeIndex = old.writeIndex + Len(bytes)
    /\ Len(new.data) >= Len(old.data)
    /\ new.inside = old.inside
    /\ \A i \in 1..old.writeIndex : new.data[i] = old.data[i]
    /\ \A i \in 1..Len(bytes) : new.data[old.writeIndex + i] = bytes[i]

\* Storing bytes leaves the index and the size of the vector as they are.
LEMMA Stored ==
    ASSUME NEW buf \in Buffers, NEW bytes \in Seq(Byte)
    PROVE  /\ Store(buf, bytes) \in Buffers
           /\ Store(buf, bytes).writeIndex = buf.writeIndex
           /\ Len(Store(buf, bytes).data) = Len(buf.data)
           /\ Store(buf, bytes).inside
                 = (buf.inside /\ buf.writeIndex + Len(bytes) <= Len(buf.data))
           /\ \A i \in 1..buf.writeIndex : Store(buf, bytes).data[i] = buf.data[i]
           /\ \A i \in 1..Len(bytes) :
                 buf.writeIndex + i <= Len(buf.data)
                    => Store(buf, bytes).data[buf.writeIndex + i] = bytes[i]
<1> DEFINE at == buf.writeIndex
           n == Len(buf.data)
           byte(i) == IF i - at \in 1..Len(bytes) THEN bytes[i - at] ELSE buf.data[i]
           data == [i \in 1..n |-> byte(i)]
           fits == buf.inside /\ at + Len(bytes) <= n
<1>1. n \in Nat /\ DOMAIN buf.data = 1..n /\ \A i \in 1..n : buf.data[i] \in Byte
  <2>1. buf.data \in Seq(Byte)
    BY DEF Buffers
  <2> QED
    BY <2>1, LenProperties
<1>2. Len(bytes) \in Nat /\ \A i \in 1..Len(bytes) : bytes[i] \in Byte
  BY LenProperties
<1>3. \A i \in 1..n : byte(i) \in Byte
  BY <1>1, <1>2
<1>4. Store(buf, bytes) = [[buf EXCEPT !.data = data] EXCEPT !.inside = fits]
  BY DEF Store
<1>5. at \in Nat /\ at <= n /\ fits \in BOOLEAN
  BY DEF Buffers
<1>10. buf \in [data : Seq(Byte), writeIndex : Nat, readIndex : Nat, inside : BOOLEAN]
  BY DEF Buffers
<1>11. \A i \in 1..at : byte(i) = buf.data[i]
  BY <1>5
<1>12. \A i \in 1..Len(bytes) : byte(at + i) = bytes[i]
  <2> HIDE DEF at
  <2>1. \A i \in 1..Len(bytes) : (at + i) - at = i
    BY <1>2, <1>5
  <2> QED
    BY <2>1
<1> HIDE DEF byte, n, at, fits
<1>6. data \in Seq(Byte) /\ Len(data) = n
  <2>1. data \in [1..n -> Byte]
    BY <1>3
  <2> HIDE DEF data
  <2> QED
    BY <1>1, <2>1
<1>13. \A i \in 1..at : data[i] = buf.data[i]
  <2>1. \A i \in 1..at : i \in 1..n
    BY <1>1, <1>5
  <2> QED
    BY <1>11, <2>1
<1>14. \A i \in 1..Len(bytes) : at + i <= n => data[at + i] = bytes[i]
  <2>1. \A i \in 1..Len(bytes) : at + i <= n => at + i \in 1..n
    BY <1>1, <1>2, <1>5
  <2> QED
    BY <1>12, <2>1
<1> HIDE DEF data
<1>7. /\ Store(buf, bytes)
            \in [data : Seq(Byte), writeIndex : Nat, readIndex : Nat, inside : BOOLEAN]
      /\ Store(buf, bytes).data = data /\ Store(buf, bytes).inside = fits
      /\ Store(buf, bytes).writeIndex = buf.writeIndex
  BY <1>4, <1>5, <1>6, <1>10
<1>8. Store(buf, bytes) \in Buffers
  BY <1>5, <1>6, <1>7 DEF Buffers, at
<1> QED
  BY <1>6, <1>7, <1>8, <1>13, <1>14 DEF n, at, fits

\* Growing adds zeros at the end.
LEMMA GrownBy ==
    ASSUME NEW buf \in Buffers, NEW n \in Nat
    PROVE  /\ Grown(buf, n) \in Buffers
           /\ Grown(buf, n).writeIndex = buf.writeIndex
           /\ Len(Grown(buf, n).data) = Len(buf.data) + n
           /\ Grown(buf, n).inside = buf.inside
           /\ \A i \in 1..Len(buf.data) : Grown(buf, n).data[i] = buf.data[i]
<1> DEFINE data == Joined(buf.data, Zeros(n))
<1>1. Zeros(n) \in Seq(Byte) /\ Len(Zeros(n)) = n
  BY DEF Zeros, Byte, Bits
<1>2. buf.data \in Seq(Byte) /\ Len(buf.data) \in Nat
  BY LenProperties DEF Buffers
<1>3. /\ data \in Seq(Byte) /\ Len(data) = Len(buf.data) + Len(Zeros(n))
      /\ \A i \in 1..Len(buf.data) : data[i] = buf.data[i]
  BY <1>1, <1>2, JoinedAt
<1>4. Grown(buf, n) = [buf EXCEPT !.data = data]
  BY DEF Grown, Joined
<1> HIDE DEF data
<1>5. /\ buf.writeIndex \in Nat /\ buf.writeIndex <= Len(buf.data)
      /\ buf \in [data : Seq(Byte), writeIndex : Nat, readIndex : Nat, inside : BOOLEAN]
  BY DEF Buffers
<1>6. buf.writeIndex <= Len(data)
  BY <1>1, <1>2, <1>3, <1>5
<1>7. /\ Grown(buf, n)
            \in [data : Seq(Byte), writeIndex : Nat, readIndex : Nat, inside : BOOLEAN]
      /\ Grown(buf, n).data = data /\ Grown(buf, n).inside = buf.inside
      /\ Grown(buf, n).writeIndex = buf.writeIndex
  BY <1>3, <1>4, <1>5
<1>8. Grown(buf, n) \in Buffers
  BY <1>6, <1>7 DEF Buffers
<1> QED
  BY <1>1, <1>3, <1>7, <1>8

\* Storing where there is room, and moving the index on.
LEMMA StoredAndAdvanced ==
    ASSUME NEW buf \in Buffers, NEW room \in Buffers, NEW bytes \in Seq(Byte),
           room.writeIndex = buf.writeIndex, room.inside = buf.inside,
           Len(room.data) >= Len(buf.data),
           \A i \in 1..buf.writeIndex : room.data[i] = buf.data[i],
           buf.writeIndex + Len(bytes) <= Len(room.data)
    PROVE  HasWritten(buf, Advanced(Store(room, bytes), Len(bytes)), bytes)
<1> DEFINE b == Store(room, bytes)
           n == Len(bytes)
<1>1. n \in Nat
  BY LenProperties
<1>2. /\ b \in Buffers /\ b.writeIndex = room.writeIndex /\ Len(b.data) = Len(room.data)
      /\ b.inside = (room.inside /\ room.writeIndex + n <= Len(room.data))
      /\ \A i \in 1..room.writeIndex : b.data[i] = room.data[i]
      /\ \A i \in 1..n : room.writeIndex + i <= Len(room.data)
                            => b.data[room.writeIndex + i] = bytes[i]
  BY Stored
<1>11. buf.writeIndex \in Nat /\ Len(room.data) \in Nat
  BY LenProperties DEF Buffers
<1> HIDE DEF b, n
<1>3. b.inside = buf.inside
  BY <1>2 DEF n, Buffers
<1>4. Advanced(b, n) = [data |-> b.data, writeIndex |-> buf.writeIndex + n,
                        readIndex |-> b.readIndex, inside |-> b.inside]
  <2>1. /\ b \in [data : Seq(Byte), writeIndex : Nat, readIndex : Nat, inside : BOOLEAN]
        /\ b.writeIndex = buf.writeIndex
    BY <1>2 DEF Buffers
  <2> QED
    BY <2>1 DEF Advanced
<1>5. buf.writeIndex + n \in Nat /\ buf.writeIndex + n <= Len(b.data)
  BY <1>1, <1>2 DEF Buffers, n
<1>6. /\ b.data \in Seq(Byte) /\ b.readIndex \in Nat /\ b.inside \in BOOLEAN
  BY <1>2 DEF Buffers
<1>7. Advanced(b, n) \in Buffers
  BY <1>4, <1>5, <1>6 DEF Buffers
<1>9. \A i \in 1..buf.writeIndex : b.data[i] = buf.data[i]
  BY <1>2
<1>10. \A i \in 1..n : b.data[buf.writeIndex + i] = bytes[i]
  <2>1. \A i \in 1..n : buf.writeIndex + i <= Len(room.data)
    BY <1>1, <1>11 DEF n
  <2> QED
    BY <1>2, <2>1
<1>8. HasWritten(buf, Advanced(b, n), bytes)
  BY <1>2, <1>3, <1>4, <1>7, <1>9, <1>10 DEF HasWritten, n
<1> QED
  BY <1>8 DEF b, n

\* Bytes behind bytes.
LEMMA JoinedBytes ==
    ASSUME NEW p \in Seq(Byte), NEW q \in Seq(Byte)
    PROVE  /\ Joined(p, q) \in Seq(Byte)
           /\ Len(Joined(p, q)) = Len(p) + Len(q)
           /\ \A i \in 1..Len(p) : Joined(p, q)[i] = p[i]
           /\ \A i \in 1..Len(q) : Joined(p, q)[Len(p) + i] = q[i]
<1>1. Joined(p, q) \in Seq(Byte) /\ Len(Joined(p, q)) = Len(p) + Len(q)
  BY JoinedAt
<1>2. \A i \in 1..Len(p) : Joined(p, q)[i] = p[i]
  BY JoinedAt
<1>3. \A i \in 1..Len(q) : Joined(p, q)[Len(p) + i] = q[i]
  BY JoinedAt
<1> QED
  BY <1>1, <1>2, <1>3

\* Writes one after the other.
LEMMA WrittenBoth ==
    ASSUME NEW a \in Buffers, NEW b, NEW c, NEW p, NEW q,
           HasWritten(a, b, p), HasWritten(b, c, q)
    PROVE  HasWritten(a, c, Joined(p, q))
<1>1. a.writeIndex \in Nat /\ Len(a.data) \in Nat
  BY LenProperties DEF Buffers
<1>2. b \in Buffers /\ c \in Buffers /\ p \in Seq(Byte) /\ q \in Seq(Byte)
  BY DEF HasWritten
<1>3. Len(b.data) \in Nat /\ Len(c.data) \in Nat /\ Len(p) \in Nat /\ Len(q) \in Nat
  BY <1>2, LenProperties DEF Buffers
<1> DEFINE s == Joined(p, q)
<1>4. /\ s \in Seq(Byte) /\ Len(s) = Len(p) + Len(q)
      /\ \A i \in 1..Len(p) : s[i] = p[i]
      /\ \A i \in 1..Len(q) : s[Len(p) + i] = q[i]
  BY <1>2, JoinedBytes
<1> HIDE DEF s
<1>5. b.writeIndex = a.writeIndex + Len(p)
  BY DEF HasWritten
<1>6. \A i \in 1..a.writeIndex : c.data[i] = a.data[i]
  <2>1. \A i \in 1..a.writeIndex : i \in 1..b.writeIndex
    BY <1>1, <1>3, <1>5
  <2> QED
    BY <2>1 DEF HasWritten
<1>7. ASSUME NEW i \in 1..Len(s) PROVE c.data[a.writeIndex + i] = s[i]
  <2>1. CASE i <= Len(p)
    <3>1. i \in 1..Len(p) /\ a.writeIndex + i \in 1..b.writeIndex
      BY <1>1, <1>3, <1>4, <1>5, <2>1
    <3>2. c.data[a.writeIndex + i] = b.data[a.writeIndex + i]
      BY <3>1 DEF HasWritten
    <3> QED
      BY <1>4, <3>1, <3>2 DEF HasWritten
  <2>2. CASE ~(i <= Len(p))
    <3> DEFINE j == i - Len(p)
    <3>1. j \in 1..Len(q) /\ i = Len(p) + j /\ a.writeIndex + i = b.writeIndex + j
      BY <1>1, <1>3, <1>4, <1>5, <2>2
    <3> HIDE DEF j
    <3>2. c.data[b.writeIndex + j] = q[j]
      BY <3>1 DEF HasWritten
    <3> QED
      BY <1>4, <3>1, <3>2
  <2> QED
    BY <2>1, <2>2
<1>8. c.writeIndex = a.writeIndex + Len(s)
  BY <1>1, <1>3, <1>4, <1>5 DEF HasWritten
<1>9. Len(c.data) >= Len(a.data)
  BY <1>1, <1>3 DEF HasWritten
<1>10. HasWritten(a, c, s)
  BY <1>2, <1>4, <1>6, <1>7, <1>8, <1>9 DEF HasWritten
<1> QED
  BY <1>10 DEF s

\* Writing nothing.
LEMMA WrittenNothing == ASSUME NEW buf \in Buffers PROVE HasWritten(buf, buf, <<>>)
<1>1. buf.writeIndex \in Nat /\ Len(buf.data) \in Nat
  BY LenProperties DEF Buffers
<1>2. <<>> \in Seq(Byte) /\ Len(<<>>) = 0
  BY EmptySeq
<1> QED
  BY <1>1, <1>2 DEF HasWritten

\* An integer of so many bytes.
LEMMA Encoded ==
    ASSUME NEW value, NEW size \in Nat
    PROVE  Encode(value, size) \in Seq(Byte) /\ Len(Encode(value, size)) = size
<1>1. \A k : ByteOf(value, k) \in Byte
  BY DEF ByteOf, Truncate, Byte, Bits
<1>2. Encode(value, size) = [i \in 1..size |-> ByteOf(value, i - 1)]
  BY DEF Encode
<1> QED
  BY <1>1, <1>2

\* Up to eight bytes always fit: the vector grows by kGROW_SIZE if they do not.
LEMMA UIntWritten ==
    ASSUME NEW buf \in Buffers, NEW value, NEW size \in 1..8
    PROVE  HasWritten(buf, WriteUInt(buf, value, size), Encode(value, size))
<1> DEFINE bytes == Encode(value, size)
           room == IF buf.writeIndex + size > Len(buf.data) THEN Grown(buf, GrowSize) ELSE buf
<1>1. bytes \in Seq(Byte) /\ Len(bytes) = size
  BY Encoded
<1>2. WriteUInt(buf, value, size) = Advanced(Store(room, bytes), size)
  BY DEF WriteUInt
<1>3. buf.writeIndex \in Nat /\ Len(buf.data) \in Nat /\ buf.writeIndex <= Len(buf.data)
  BY LenProperties DEF Buffers
<1>4. GrowSize \in Nat /\ GrowSize >= 8
  BY GrowAssumption
<1>5. /\ room \in Buffers /\ room.writeIndex = buf.writeIndex /\ room.inside = buf.inside
      /\ Len(room.data) >= Len(buf.data) /\ buf.writeIndex + size <= Len(room.data)
      /\ \A i \in 1..buf.writeIndex : room.data[i] = buf.data[i]
  <2>1. CASE buf.writeIndex + size > Len(buf.data)
    <3>1. room = Grown(buf, GrowSize)
      BY <2>1
    <3> HIDE DEF room
    <3>2. /\ room \in Buffers /\ room.writeIndex = buf.writeIndex /\ room.inside = buf.inside
          /\ Len(room.data) = Len(buf.data) + GrowSize
          /\ \A i \in 1..Len(buf.data) : room.data[i] = buf.data[i]
      BY <1>4, <3>1, GrownBy
    <3> QED
      BY <1>3, <1>4, <3>2
  <2>2. CASE ~(buf.writeIndex + size > Len(buf.data))
    <3>1. room = buf
      BY <2>2
    <3> QED
      BY <1>3, <2>2, <3>1
  <2> QED
    BY <2>1, <2>2
<1> HIDE DEF bytes, room
<1>6. HasWritten(buf, Advanced(Store(room, bytes), Len(bytes)), bytes)
  BY <1>1, <1>5, StoredAndAdvanced
<1> QED
  BY <1>1, <1>2, <1>6 DEF bytes

\* As many steps as a string needs are enough.
LEMMA StepsAreEnough ==
    ASSUME NEW g \in Nat, NEW m \in Nat, g > 0
    PROVE  /\ (m + g - 1) \div g \in Nat
           /\ ((m + g - 1) \div g) * g \in Nat
           /\ ((m + g - 1) \div g) * g >= m
OBVIOUS

\* WriteString() grows the buffer until it holds the string, then stores all of it.
LEMMA StringWritten ==
    ASSUME NEW buf \in Buffers, NEW str \in Seq(Byte)
    PROVE  HasWritten(buf, WriteString(buf, str), str)
<1> DEFINE missing == buf.writeIndex + Len(str) - Len(buf.data)
           steps == IF missing > 0 THEN (missing + GrowSize - 1) \div GrowSize ELSE 0
           more == steps * GrowSize
           room == Grown(buf, more)
<1>1. /\ buf.writeIndex \in Nat /\ Len(buf.data) \in Nat /\ Len(str) \in Nat
      /\ GrowSize \in Nat /\ GrowSize > 0 /\ buf.writeIndex <= Len(buf.data)
  BY GrowAssumption, LenProperties DEF Buffers
<1>2. missing \in Int
  BY <1>1
<1>3. more \in Nat /\ more >= missing
  <2> HIDE DEF missing
  <2>1. CASE missing > 0
    <3>1. missing \in Nat
      BY <1>2, <2>1
    <3>2. more = ((missing + GrowSize - 1) \div GrowSize) * GrowSize
      BY <2>1
    <3> QED
      BY <1>1, <3>1, <3>2, StepsAreEnough
  <2>2. CASE ~(missing > 0)
    <3>1. more = 0
      BY <1>1, <2>2
    <3> QED
      BY <1>2, <2>2, <3>1
  <2> QED
    BY <2>1, <2>2
<1>4. WriteString(buf, str) = Advanced(Store(room, str), Len(str))
  BY DEF WriteString
<1> HIDE DEF more
<1>5. /\ room \in Buffers /\ room.writeIndex = buf.writeIndex /\ room.inside = buf.inside
      /\ Len(room.data) = Len(buf.data) + more
      /\ \A i \in 1..Len(buf.data) : room.data[i] = buf.data[i]
  BY <1>3, GrownBy
<1>6. /\ Len(room.data) >= Len(buf.data) /\ buf.writeIndex + Len(str) <= Len(room.data)
      /\ \A i \in 1..buf.writeIndex : room.data[i] = buf.data[i]
  <2> HIDE DEF room
  <2> QED
    BY <1>1, <1>3, <1>5
<1> HIDE DEF room
<1>7. HasWritten(buf, Advanced(Store(room, str), Len(str)), str)
  BY <1>5, <1>6, StoredAndAdvanced
<1> QED
  BY <1>4, <1>7

\* The bytes of a length,
LengthBytes(v) == Encode(BitsOf(Len(v)), 4)

\* and of the lengths of a list one after the other.
JoinLength(bytes, str) == Joined(bytes, LengthBytes(str))

\* The lengths of a list of strings, four bytes each.
LEMMA LengthsWritten ==
    ASSUME NEW buf \in Buffers, NEW list \in Seq(Seq(Byte))
    PROVE  /\ HasWritten(buf, FoldLeft(WriteLength, buf, list), FoldLeft(JoinLength, <<>>, list))
           /\ Len(FoldLeft(JoinLength, <<>>, list)) = 4 * Len(list)
<1> DEFINE T == {p \in Seq(Seq(Byte)) :
                   /\ HasWritten(buf, FoldLeft(WriteLength, buf, p), FoldLeft(JoinLength, <<>>, p))
                   /\ Len(FoldLeft(JoinLength, <<>>, p)) = 4 * Len(p)}
<1>1. <<>> \in T
  <2>1. FoldLeft(WriteLength, buf, <<>>) = buf
    BY FoldEmpty
  <2>2. FoldLeft(JoinLength, <<>>, <<>>) = <<>>
    BY FoldEmpty
  <2>3. <<>> \in Seq(Seq(Byte)) /\ Len(<<>>) = 4 * Len(<<>>)
    BY EmptySeq
  <2> QED
    BY <2>1, <2>2, <2>3, WrittenNothing
<1>2. ASSUME NEW q \in Seq(Seq(Byte)), NEW e \in Seq(Byte), q \in T
      PROVE  Append(q, e) \in T
  <2> DEFINE b == FoldLeft(WriteLength, buf, q)
             c == FoldLeft(WriteLength, buf, Append(q, e))
             s == FoldLeft(JoinLength, <<>>, q)
             t == FoldLeft(JoinLength, <<>>, Append(q, e))
             l == LengthBytes(e)
  <2>1. HasWritten(buf, b, s) /\ Len(s) = 4 * Len(q)
    BY <1>2
  <2>2. c = WriteLength(b, e)
    <3>1. c = Applied(WriteLength, b, e)
      BY FoldAppend
    <3> QED
      BY <3>1 DEF Applied
  <2>3. t = Joined(s, l)
    <3>1. t = Applied(JoinLength, s, e)
      BY FoldAppend
    <3> HIDE DEF s, t
    <3> QED
      BY <3>1 DEF Applied, JoinLength
  <2>4. l \in Seq(Byte) /\ Len(l) = 4
    BY Encoded DEF LengthBytes
  <2> HIDE DEF b, c, s, t
  <2>5. HasWritten(b, c, l)
    <3>1. b \in Buffers /\ 4 \in 1..8
      BY <2>1 DEF HasWritten
    <3> QED
      BY <2>2, <3>1, UIntWritten DEF WriteLength, LengthBytes
  <2> HIDE DEF l
  <2>6. HasWritten(buf, c, t)
    BY <2>1, <2>3, <2>5, WrittenBoth
  <2>7. Append(q, e) \in Seq(Seq(Byte)) /\ Len(Append(q, e)) = Len(q) + 1 /\ Len(q) \in Nat
    BY AppendProperties, LenProperties
  <2>8. Len(t) = Len(s) + Len(l)
    BY <2>1, <2>3, <2>4, JoinedAt DEF HasWritten
  <2>9. Len(t) = 4 * Len(Append(q, e))
    BY <2>1, <2>4, <2>7, <2>8
  <2> QED
    BY <2>6, <2>7, <2>9 DEF c, t
<1> HIDE DEF T
<1>3. Seq(Seq(Byte)) \subseteq T
  BY <1>1, <1>2, SeqSet
<1> QED
  BY <1>3 DEF T

\* What the constructors add up for the strings themselves.
LEMMA LengthsAdded ==
    ASSUME NEW list \in Seq(Seq(Byte))
    PROVE  FoldLeft(AddLength, 0, list) \in Nat
<1>1. \A sum \in Nat, str \in Seq(Byte) : Applied(AddLength, sum, str) \in Nat
  BY LenProperties DEF Applied, AddLength
<1> QED
  BY <1>1, FoldInvariant

\* The strings of a list, one after the other.
LEMMA StringsWritten ==
    ASSUME NEW buf \in Buffers, NEW list \in Seq(Seq(Byte))
    PROVE  /\ HasWritten(buf, FoldLeft(WriteString, buf, list), FoldLeft(Joined, <<>>, list))
           /\ Len(FoldLeft(Joined, <<>>, list)) = FoldLeft(AddLength, 0, list)
<1> DEFINE T == {p \in Seq(Seq(Byte)) :
                   /\ HasWritten(buf, FoldLeft(WriteString, buf, p), FoldLeft(Joined, <<>>, p))
                   /\ Len(FoldLeft(Joined, <<>>, p)) = FoldLeft(AddLength, 0, p)}
<1>1. <<>> \in T
  <2>1. FoldLeft(WriteString, buf, <<>>) = buf
    BY FoldEmpty
  <2>2. FoldLeft(AddLength, 0, <<>>) = 0
    BY FoldEmpty
  <2>3. FoldLeft(Joined, <<>>, <<>>) = <<>>
    BY FoldEmpty
  <2>4. <<>> \in Seq(Seq(Byte)) /\ Len(<<>>) = 0
    BY EmptySeq
  <2> QED
    BY <2>1, <2>2, <2>3, <2>4, WrittenNothing
<1>2. ASSUME NEW q \in Seq(Seq(Byte)), NEW e \in Seq(Byte), q \in T
      PROVE  Append(q, e) \in T
  <2> DEFINE b == FoldLeft(WriteString, buf, q)
             c == FoldLeft(WriteString, buf, Append(q, e))
             s == FoldLeft(Joined, <<>>, q)
             t == FoldLeft(Joined, <<>>, Append(q, e))
             m == FoldLeft(AddLength, 0, q)
             n == FoldLeft(AddLength, 0, Append(q, e))
  <2>1. HasWritten(buf, b, s) /\ Len(s) = m
    BY <1>2
  <2>2. c = WriteString(b, e)
    <3>1. c = Applied(WriteString, b, e)
      BY FoldAppend
    <3> QED
      BY <3>1 DEF Applied
  <2>3. n = m + Len(e)
    <3>1. n = Applied(AddLength, m, e)
      BY FoldAppend
    <3> HIDE DEF m, n
    <3> QED
      BY <3>1 DEF Applied, AddLength
  <2>4. t = Joined(s, e)
    <3>1. t = Applied(Joined, s, e)
      BY FoldAppend
    <3> HIDE DEF s, t
    <3> QED
      BY <3>1 DEF Applied
  <2> HIDE DEF b, c, s, t, m, n
  <2>5. HasWritten(b, c, e)
    <3>1. b \in Buffers
      BY <2>1 DEF HasWritten
    <3> QED
      BY <2>2, <3>1, StringWritten
  <2>6. HasWritten(buf, c, t)
    BY <2>1, <2>4, <2>5, WrittenBoth
  <2>7. Append(q, e) \in Seq(Seq(Byte))
    BY AppendProperties
  <2>8. Len(t) = Len(s) + Len(e)
    BY <2>1, <2>4, JoinedAt DEF HasWritten
  <2>9. Len(t) = n
    BY <2>1, <2>3, <2>8
  <2> QED
    BY <2>6, <2>7, <2>9 DEF c, t, n
<1> HIDE DEF T
<1>3. Seq(Seq(Byte)) \subseteq T
  BY <1>1, <1>2, SeqSet
<1> QED
  BY <1>3 DEF T
-----------------------------------------------------------------------------
(***************************************************************************)
(* Messages with fields.                                                   *)
(***************************************************************************)
\* The texts of the messages of fields.
Texts == Names \cup Passwords \cup RoomNames \cup Chats

\* Their lists; a room that does not exist is empty.
TextLists == UserLists \cup RoomLists \cup {<<>>}

\* The values a field of Message::Serialize() may have.
IsValueOf(name, value) ==
    /\ name \in Lists => value \in Seq(Seq(Byte)) /\ value \in TextLists
    /\ name \notin Lists /\ name \notin DOMAIN IntSize => value \in Seq(Byte) /\ value \in Texts
    /\ name = "status" => value \in {SUCCESS, FAILURE}
    /\ name = "reason" => value \in Reasons
    /\ name = "userId" => value \in UserIds

\* The bytes of a list: its length, the lengths of the strings, the strings.
ListBytes(list) ==
    Joined(Joined(LengthBytes(list), FoldLeft(JoinLength, <<>>, list)),
           FoldLeft(Joined, <<>>, list))

\* The bytes of a field.
FieldBytes(field) ==
    IF field.name \in DOMAIN IntSize THEN Encode(field.value, IntSize[field.name])
    ELSE IF field.name \in Lists THEN ListBytes(field.value)
    ELSE Joined(LengthBytes(field.value), field.value)

\* A field is written with as many bytes as the constructor has counted for it.
LEMMA FieldWritten ==
    ASSUME NEW buf \in Buffers, NEW field, IsValueOf(field.name, field.value)
    PROVE  /\ HasWritten(buf, WriteField(buf, field), FieldBytes(field))
           /\ Len(FieldBytes(field)) = SizeGiven(field.name, field.value)
           /\ SizeGiven(field.name, field.value) \in Nat
<1> DEFINE name == field.name
           value == field.value
           bytes == FieldBytes(field)
<1>1. CASE name \in DOMAIN IntSize
  <2>1. IntSize[name] \in 1..8
    BY <1>1 DEF IntSize
  <2>2. SizeGiven(name, value) = IntSize[name] /\ bytes = Encode(value, IntSize[name])
    BY <1>1 DEF SizeGiven, FieldBytes
  <2>3. WriteField(buf, field) = WriteUInt(buf, value, IntSize[name])
    BY <1>1 DEF WriteField
  <2> HIDE DEF name, value, bytes
  <2>4. HasWritten(buf, WriteField(buf, field), bytes)
    BY <2>1, <2>2, <2>3, UIntWritten
  <2>5. Len(bytes) = IntSize[name] /\ IntSize[name] \in Nat
    BY <2>1, <2>2, Encoded
  <2> QED
    BY <2>2, <2>4, <2>5 DEF name, value, bytes
<1>2. CASE name \notin DOMAIN IntSize /\ name \in Lists
  <2> DEFINE b == WriteLength(buf, value)
             c == FoldLeft(WriteLength, b, value)
             n == FoldLeft(AddLength, 0, value)
             first == LengthBytes(value)
             lengths == FoldLeft(JoinLength, <<>>, value)
             strings == FoldLeft(Joined, <<>>, value)
  <2>1. value \in Seq(Seq(Byte))
    BY <1>2 DEF IsValueOf
  <2>2. SizeGiven(name, value) = 4 + 4 * Len(value) + n
    BY <1>2 DEF SizeGiven
  <2>3. WriteField(buf, field) = FoldLeft(WriteString, c, value)
    BY <1>2 DEF WriteField
  <2>4. bytes = Joined(Joined(first, lengths), strings)
    BY <1>2 DEF FieldBytes, ListBytes
  <2>5. Len(value) \in Nat /\ n \in Nat
    BY <2>1, LengthsAdded, LenProperties
  <2>6. first \in Seq(Byte) /\ Len(first) = 4
    BY Encoded DEF LengthBytes
  <2> HIDE DEF name, value, n, bytes
  <2>7. HasWritten(buf, b, first)
    BY UIntWritten DEF WriteLength, LengthBytes
  <2>8. b \in Buffers
    BY <2>7 DEF HasWritten
  <2> HIDE DEF b, first
  <2>9. HasWritten(b, c, lengths) /\ Len(lengths) = 4 * Len(value)
    BY <2>1, <2>8, LengthsWritten
  <2>10. c \in Buffers /\ lengths \in Seq(Byte)
    BY <2>9 DEF HasWritten
  <2> HIDE DEF c, lengths
  <2>11. HasWritten(c, WriteField(buf, field), strings) /\ Len(strings) = n
    BY <2>1, <2>3, <2>10, StringsWritten DEF n
  <2> HIDE DEF strings
  <2>12. HasWritten(buf, c, Joined(first, lengths))
    BY <2>7, <2>9, WrittenBoth
  <2>13. HasWritten(buf, WriteField(buf, field), bytes)
    BY <2>4, <2>11, <2>12, WrittenBoth
  <2>14. /\ Joined(first, lengths) \in Seq(Byte)
         /\ Len(Joined(first, lengths)) = Len(first) + Len(lengths)
    BY <2>6, <2>10, JoinedBytes
  <2>15. strings \in Seq(Byte)
    BY <2>11 DEF HasWritten
  <2>16. Len(bytes) = Len(Joined(first, lengths)) + Len(strings)
    BY <2>4, <2>14, <2>15, JoinedBytes
  <2>17. Len(bytes) = 4 + 4 * Len(value) + n /\ 4 + 4 * Len(value) + n \in Nat
    BY <2>5, <2>6, <2>9, <2>11, <2>14, <2>16
  <2> QED
    BY <2>2, <2>13, <2>17 DEF name, value, bytes
<1>3. CASE name \notin DOMAIN IntSize /\ name \notin Lists
  <2> DEFINE b == WriteLength(buf, value)
             first == LengthBytes(value)
  <2>1. value \in Seq(Byte)
    BY <1>3 DEF IsValueOf
  <2>2. SizeGiven(name, value) = 4 + Len(value) /\ bytes = Joined(first, value)
    BY <1>3 DEF SizeGiven, FieldBytes
  <2>3. WriteField(buf, field) = WriteString(b, value)
    BY <1>3 DEF WriteField
  <2>4. Len(value) \in Nat
    BY <2>1, LenProperties
  <2>5. first \in Seq(Byte) /\ Len(first) = 4
    BY Encoded DEF LengthBytes
  <2> HIDE DEF name, value, bytes
  <2>6. HasWritten(buf, b, first)
    BY UIntWritten DEF WriteLength, LengthBytes
  <2>7. b \in Buffers
    BY <2>6 DEF HasWritten
  <2> HIDE DEF b, first
  <2>8. HasWritten(b, WriteField(buf, field), value)
    BY <2>1, <2>3, <2>7, StringWritten
  <2>9. HasWritten(buf, WriteField(buf, field), bytes)
    BY <2>2, <2>6, <2>8, WrittenBoth
  <2>10. Len(bytes) = Len(first) + Len(value)
    BY <2>1, <2>2, <2>5, JoinedBytes
  <2>11. 4 + Len(value) \in Nat
    BY <2>4
  <2> QED
    BY <2>2, <2>5, <2>9, <2>10, <2>11 DEF name, value, bytes
<1> QED
  BY <1>1, <1>2, <1>3

\* The bytes of the header, and of a packet: those of the fields, or of the payload, follow.
HeaderBytes(msg) ==
    Joined(Encode(BitsOf(PacketSize(msg)), 4), Encode(BitsOf(TypeNumber(msg.type)), 4))

\* One more field behind the bytes before it.
JoinField(bytes, field) == Joined(bytes, FieldBytes(field))

\* A packet: its header and its payload, or its fields in the order of Serialize().
PacketBytes(msg) ==
    IF IsWeb(msg.type)
    THEN Joined(HeaderBytes(msg), SerializeWeb(WebClass[msg.type], msg.values))
    ELSE FoldLeft(JoinField, HeaderBytes(msg), FieldsOf(msg))

\* The header takes eight bytes.
LEMMA HeaderSize ==
    ASSUME NEW msg
    PROVE  HeaderBytes(msg) \in Seq(Byte) /\ Len(HeaderBytes(msg)) = 8
<1> DEFINE size == Encode(BitsOf(PacketSize(msg)), 4)
           type == Encode(BitsOf(TypeNumber(msg.type)), 4)
<1>1. size \in Seq(Byte) /\ Len(size) = 4 /\ type \in Seq(Byte) /\ Len(type) = 4
  BY Encoded
<1>2. HeaderBytes(msg) = Joined(size, type)
  BY DEF HeaderBytes
<1> HIDE DEF size, type
<1>3. /\ Joined(size, type) \in Seq(Byte)
      /\ Len(Joined(size, type)) = Len(size) + Len(type)
  BY <1>1, JoinedBytes
<1> QED
  BY <1>1, <1>2, <1>3

\* Resetting keeps the size of the vector.
LEMMA HeaderWritten ==
    ASSUME NEW buf \in Buffers, NEW msg
    PROVE  /\ Reset(buf) \in Buffers /\ Reset(buf).writeIndex = 0 /\ Reset(buf).inside = TRUE
           /\ Len(Reset(buf).data) = Len(buf.data)
           /\ HasWritten(Reset(buf), WriteHeader(buf, msg), HeaderBytes(msg))
<1> DEFINE n == Len(buf.data)
           reset == Reset(buf)
           size == Encode(BitsOf(PacketSize(msg)), 4)
           type == Encode(BitsOf(TypeNumber(msg.type)), 4)
           half == WriteUInt(reset, BitsOf(PacketSize(msg)), 4)
           header == WriteHeader(buf, msg)
<1>1. n \in Nat
  BY LenProperties DEF Buffers
<1>2. reset = [data |-> Zeros(n), writeIndex |-> 0, readIndex |-> 0, inside |-> TRUE]
  BY DEF Reset, NewBuffer
<1> HIDE DEF n
<1>3. Zeros(n) \in Seq(Byte) /\ Len(Zeros(n)) = n
  BY <1>1 DEF Zeros, Byte, Bits
<1> HIDE DEF reset
<1>4. reset \in Buffers /\ reset.writeIndex = 0 /\ Len(reset.data) = n /\ reset.inside = TRUE
  BY <1>1, <1>2, <1>3 DEF Buffers
<1>5. HasWritten(reset, half, size)
  BY <1>4, UIntWritten
<1>6. half \in Buffers
  BY <1>5 DEF HasWritten
<1>7. HasWritten(half, header, type)
  <2>1. header = WriteUInt(half, BitsOf(TypeNumber(msg.type)), 4)
    BY DEF WriteHeader, reset
  <2> HIDE DEF half, header
  <2> QED
    BY <1>6, <2>1, UIntWritten
<1> HIDE DEF half, header
<1>8. HeaderBytes(msg) = Joined(size, type)
  BY DEF HeaderBytes
<1> HIDE DEF size, type
<1>9. HasWritten(reset, header, HeaderBytes(msg))
  BY <1>4, <1>5, <1>7, <1>8, WrittenBoth
<1> QED
  BY <1>4, <1>9 DEF header, n, reset

\* What is to be shown of a message.
IsRight(buf, msg) ==
    /\ Serialized(buf, msg) \in Buffers
    /\ Len(Serialized(buf, msg).data) >= Len(buf.data)
    /\ WrittenUpTo(Serialized(buf, msg), msg) = PacketSize(msg)
    /\ PacketBytes(msg) \in Seq(Byte) /\ Len(PacketBytes(msg)) = PacketSize(msg)
    /\ Serialized(buf, msg).inside =>
          \A i \in 1..PacketSize(msg) : Serialized(buf, msg).data[i] = PacketBytes(msg)[i]

\* It is when its bytes have been written from the start of the buffer.
LEMMA WrittenIsRight ==
    ASSUME NEW buf \in Buffers, NEW msg, ~IsWeb(msg.type),
           HasWritten(Reset(buf), Serialized(buf, msg), PacketBytes(msg)),
           Len(PacketBytes(msg)) = PacketSize(msg)
    PROVE  IsRight(buf, msg) /\ Serialized(buf, msg).inside
<1> DEFINE a == Reset(buf)
           c == Serialized(buf, msg)
           bytes == PacketBytes(msg)
<1>1. a.writeIndex = 0 /\ a.inside = TRUE /\ Len(a.data) = Len(buf.data)
  BY HeaderWritten
<1>2. WrittenUpTo(c, msg) = c.writeIndex
  BY DEF WrittenUpTo
<1> HIDE DEF a, c, bytes
<1>3. HasWritten(a, c, bytes) /\ Len(bytes) = PacketSize(msg)
  BY DEF a, c, bytes
<1>4. bytes \in Seq(Byte) /\ Len(bytes) \in Nat
  BY <1>3, LenProperties DEF HasWritten
<1>5. c \in Buffers /\ Len(c.data) >= Len(buf.data) /\ c.inside = TRUE
  BY <1>1, <1>3 DEF HasWritten
<1>6. c.writeIndex = Len(bytes)
  BY <1>1, <1>3, <1>4 DEF HasWritten
<1>7. \A i \in 1..Len(bytes) : c.data[i] = bytes[i]
  <2>1. \A i \in 1..Len(bytes) : a.writeIndex + i = i
    BY <1>1
  <2> QED
    BY <1>3, <2>1 DEF HasWritten
<1> QED
  BY <1>2, <1>3, <1>4, <1>5, <1>6, <1>7 DEF IsRight, a, c, bytes

\* A message whose Serialize() writes two fields, which are those its constructor counts.
HasTwo(msg, f, g) ==
    /\ ~IsWeb(msg.type) /\ WrittenFields[msg.type] = <<f, g>>
    /\ f # g /\ DOMAIN msg.values = {f, g} /\ "status" \notin {f, g}
    /\ IsValueOf(f, msg.values[f]) /\ IsValueOf(g, msg.values[g])

\* A field of a message by its name.
FieldOf(msg, f) == [name |-> f, value |-> msg.values[f]]

\* The bytes of such a packet.
LEMMA TwoBytes ==
    ASSUME NEW msg, NEW f, NEW g, HasTwo(msg, f, g)
    PROVE  PacketBytes(msg) = Joined(Joined(HeaderBytes(msg), FieldBytes(FieldOf(msg, f))),
                                     FieldBytes(FieldOf(msg, g)))
<1> DEFINE F == FieldOf(msg, f)
           G == FieldOf(msg, g)
           h == HeaderBytes(msg)
<1>1. FieldsOf(msg) = <<F, G>>
  BY DEF FieldsOf, FieldOf, HasTwo
<1>2. PacketBytes(msg) = FoldLeft(JoinField, h, FieldsOf(msg))
  BY DEF PacketBytes, HasTwo
<1> HIDE DEF F, G, h
<1>3. FoldLeft(JoinField, h, <<F, G>>) = Applied(JoinField, Applied(JoinField, h, F), G)
  BY FoldTwo
<1>4. FoldLeft(JoinField, h, <<F, G>>) = Joined(Joined(h, FieldBytes(F)), FieldBytes(G))
  BY <1>3 DEF Applied, JoinField
<1> QED
  BY <1>1, <1>2, <1>4 DEF F, G, h

\* A message of two fields: each write moves the index by what SizeGiven() says of it.
LEMMA TwoWritten ==
    ASSUME NEW buf \in Buffers, NEW msg, NEW f, NEW g, HasTwo(msg, f, g)
    PROVE  IsRight(buf, msg) /\ Serialized(buf, msg).inside
<1> DEFINE F == FieldOf(msg, f)
           G == FieldOf(msg, g)
           m == SizeGiven(f, msg.values[f])
           n == SizeGiven(g, msg.values[g])
           r == Reset(buf)
           a == WriteHeader(buf, msg)
           b == WriteField(a, F)
           c == WriteField(b, G)
           p == HeaderBytes(msg)
           sizes == [x \in DOMAIN msg.values |-> SizeGiven(x, msg.values[x])]
<1>1. FieldsOf(msg) = <<F, G>>
  BY DEF FieldsOf, FieldOf, HasTwo
<1>2. Serialized(buf, msg) = FoldLeft(WriteField, a, FieldsOf(msg))
  BY DEF Serialized, HasTwo
<1>3. FoldLeft(WriteField, a, <<F, G>>) = c
  <2>1. FoldLeft(WriteField, a, <<F, G>>) = Applied(WriteField, Applied(WriteField, a, F), G)
    BY FoldTwo
  <2> QED
    BY <2>1 DEF Applied
<1>4. F.name = f /\ F.value = msg.values[f] /\ G.name = g /\ G.value = msg.values[g]
  BY DEF FieldOf
<1>5. PacketSize(msg) = 8 + SumFunction(sizes)
  BY DEF PacketSize, HasTwo
<1>6. DOMAIN sizes = {f, g} /\ sizes[f] = m /\ sizes[g] = n /\ f # g
  BY DEF HasTwo
<1>7. PacketBytes(msg) = Joined(Joined(p, FieldBytes(F)), FieldBytes(G))
  BY TwoBytes
<1>8. r \in Buffers /\ HasWritten(r, a, p)
  BY HeaderWritten
<1>9. p \in Seq(Byte) /\ Len(p) = 8
  BY HeaderSize
<1>10. a \in Buffers
  BY <1>8 DEF HasWritten
<1> HIDE DEF F, G, m, n, r, a, p, sizes
<1>11. m \in Nat /\ HasWritten(a, b, FieldBytes(F)) /\ Len(FieldBytes(F)) = m
  BY <1>4, <1>10, FieldWritten DEF HasTwo, m
<1>12. b \in Buffers /\ FieldBytes(F) \in Seq(Byte)
  BY <1>11 DEF HasWritten
<1> HIDE DEF b
<1>13. n \in Nat /\ HasWritten(b, c, FieldBytes(G)) /\ Len(FieldBytes(G)) = n
  BY <1>4, <1>12, FieldWritten DEF HasTwo, n
<1>14. FieldBytes(G) \in Seq(Byte)
  BY <1>13 DEF HasWritten
<1> HIDE DEF c
<1> DEFINE pf == Joined(p, FieldBytes(F))
<1>15. HasWritten(r, b, pf)
  BY <1>8, <1>11, WrittenBoth
<1>16. pf \in Seq(Byte) /\ Len(pf) = 8 + m
  <2>1. pf \in Seq(Byte) /\ Len(pf) = Len(p) + Len(FieldBytes(F))
    BY <1>9, <1>12, JoinedBytes
  <2> QED
    BY <1>9, <1>11, <2>1
<1> HIDE DEF pf
<1>17. HasWritten(r, c, Joined(pf, FieldBytes(G)))
  BY <1>8, <1>13, <1>15, WrittenBoth
<1>18. Len(Joined(pf, FieldBytes(G))) = (8 + m) + n
  BY <1>13, <1>14, <1>16, JoinedBytes
<1>19. SumFunction(sizes) = m + n
  BY <1>6, <1>11, <1>13, SumTwo
<1>20. Len(PacketBytes(msg)) = PacketSize(msg)
  BY <1>5, <1>7, <1>11, <1>13, <1>18, <1>19 DEF pf
<1>21. HasWritten(r, Serialized(buf, msg), PacketBytes(msg))
  BY <1>1, <1>2, <1>3, <1>7, <1>17 DEF pf
<1> QED
  BY <1>20, <1>21, WrittenIsRight DEF r, HasTwo

\* The same for three fields.
HasThree(msg, f, g, h) ==
    /\ ~IsWeb(msg.type) /\ WrittenFields[msg.type] = <<f, g, h>>
    /\ f # g /\ g # h /\ f # h /\ DOMAIN msg.values = {f, g, h} /\ "status" \notin {g, h}
    /\ IsValueOf(f, msg.values[f]) /\ IsValueOf(g, msg.values[g])
    /\ IsValueOf(h, msg.values[h])

\* The bytes of such a packet.
LEMMA ThreeBytes ==
    ASSUME NEW msg, NEW f, NEW g, NEW h, HasThree(msg, f, g, h)
    PROVE  PacketBytes(msg)
              = Joined(Joined(Joined(HeaderBytes(msg), FieldBytes(FieldOf(msg, f))),
                              FieldBytes(FieldOf(msg, g))), FieldBytes(FieldOf(msg, h)))
<1> DEFINE F == FieldOf(msg, f)
           G == FieldOf(msg, g)
           H == FieldOf(msg, h)
           p == HeaderBytes(msg)
<1>1. FieldsOf(msg) = <<F, G, H>>
  BY DEF FieldsOf, FieldOf, HasThree
<1>2. PacketBytes(msg) = FoldLeft(JoinField, p, FieldsOf(msg))
  BY DEF PacketBytes, HasThree
<1> HIDE DEF F, G, H, p
<1>3. FoldLeft(JoinField, p, <<F, G, H>>)
         = Applied(JoinField, Applied(JoinField, Applied(JoinField, p, F), G), H)
  BY FoldThree
<1>4. FoldLeft(JoinField, p, <<F, G, H>>)
         = Joined(Joined(Joined(p, FieldBytes(F)), FieldBytes(G)), FieldBytes(H))
  BY <1>3 DEF Applied, JoinField
<1> QED
  BY <1>1, <1>2, <1>4 DEF F, G, H, p

\* A message of three fields.
LEMMA ThreeWritten ==
    ASSUME NEW buf \in Buffers, NEW msg, NEW f, NEW g, NEW h, HasThree(msg, f, g, h)
    PROVE  IsRight(buf, msg) /\ Serialized(buf, msg).inside
<1> DEFINE F == FieldOf(msg, f)
           G == FieldOf(msg, g)
           H == FieldOf(msg, h)
           m == SizeGiven(f, msg.values[f])
           n == SizeGiven(g, msg.values[g])
           l == SizeGiven(h, msg.values[h])
           r == Reset(buf)
           a == WriteHeader(buf, msg)
           b == WriteField(a, F)
           c == WriteField(b, G)
           d == WriteField(c, H)
           p == HeaderBytes(msg)
           sizes == [x \in DOMAIN msg.values |-> SizeGiven(x, msg.values[x])]
<1>1. FieldsOf(msg) = <<F, G, H>>
  BY DEF FieldsOf, FieldOf, HasThree
<1>2. Serialized(buf, msg) = FoldLeft(WriteField, a, FieldsOf(msg))
  BY DEF Serialized, HasThree
<1>3. FoldLeft(WriteField, a, <<F, G, H>>) = d
  <2>1. FoldLeft(WriteField, a, <<F, G, H>>)
          = Applied(WriteField, Applied(WriteField, Applied(WriteField, a, F), G), H)
    BY FoldThree
  <2> QED
    BY <2>1 DEF Applied
<1>4. /\ F.name = f /\ F.value = msg.values[f] /\ G.name = g /\ G.value = msg.values[g]
      /\ H.name = h /\ H.value = msg.values[h]
  BY DEF FieldOf
<1>5. PacketSize(msg) = 8 + SumFunction(sizes)
  BY DEF PacketSize, HasThree
<1>6. /\ DOMAIN sizes = {f, g, h} /\ sizes[f] = m /\ sizes[g] = n /\ sizes[h] = l
      /\ f # g /\ g # h /\ f # h
  BY DEF HasThree
<1>7. PacketBytes(msg) = Joined(Joined(Joined(p, FieldBytes(F)), FieldBytes(G)), FieldBytes(H))
  BY ThreeBytes
<1>8. r \in Buffers /\ HasWritten(r, a, p)
  BY HeaderWritten
<1>9. p \in Seq(Byte) /\ Len(p) = 8
  BY HeaderSize
<1>10. a \in Buffers
  BY <1>8 DEF HasWritten
<1> HIDE DEF F, G, H, m, n, l, r, a, p, sizes
<1>11. m \in Nat /\ HasWritten(a, b, FieldBytes(F)) /\ Len(FieldBytes(F)) = m
  BY <1>4, <1>10, FieldWritten DEF HasThree, m
<1>12. b \in Buffers /\ FieldBytes(F) \in Seq(Byte)
  BY <1>11 DEF HasWritten
<1> HIDE DEF b
<1>13. n \in Nat /\ HasWritten(b, c, FieldBytes(G)) /\ Len(FieldBytes(G)) = n
  BY <1>4, <1>12, FieldWritten DEF HasThree, n
<1>14. c \in Buffers /\ FieldBytes(G) \in Seq(Byte)
  BY <1>13 DEF HasWritten
<1> HIDE DEF c
<1>15. l \in Nat /\ HasWritten(c, d, FieldBytes(H)) /\ Len(FieldBytes(H)) = l
  BY <1>4, <1>14, FieldWritten DEF HasThree, l
<1>16. FieldBytes(H) \in Seq(Byte)
  BY <1>15 DEF HasWritten
<1> HIDE DEF d
<1> DEFINE pf == Joined(p, FieldBytes(F))
           pg == Joined(pf, FieldBytes(G))
<1>17. HasWritten(r, b, pf)
  BY <1>8, <1>11, WrittenBoth
<1>18. pf \in Seq(Byte) /\ Len(pf) = 8 + m
  <2>1. pf \in Seq(Byte) /\ Len(pf) = Len(p) + Len(FieldBytes(F))
    BY <1>9, <1>12, JoinedBytes
  <2> QED
    BY <1>9, <1>11, <2>1
<1> HIDE DEF pf
<1>19. HasWritten(r, c, pg)
  BY <1>8, <1>13, <1>17, WrittenBoth
<1>20. pg \in Seq(Byte) /\ Len(pg) = (8 + m) + n
  BY <1>13, <1>14, <1>18, JoinedBytes
<1> HIDE DEF pg
<1>21. HasWritten(r, d, Joined(pg, FieldBytes(H)))
  BY <1>8, <1>15, <1>19, WrittenBoth
<1>22. Len(Joined(pg, FieldBytes(H))) = ((8 + m) + n) + l
  BY <1>15, <1>16, <1>20, JoinedBytes
<1>23. SumFunction(sizes) = m + n + l
  BY <1>6, <1>11, <1>13, <1>15, SumThree
<1>24. Len(PacketBytes(msg)) = PacketSize(msg)
  BY <1>5, <1>7, <1>11, <1>13, <1>15, <1>22, <1>23 DEF pf, pg
<1>25. HasWritten(r, Serialized(buf, msg), PacketBytes(msg))
  BY <1>1, <1>2, <1>3, <1>7, <1>21 DEF pf, pg
<1> QED
  BY <1>24, <1>25, WrittenIsRight DEF r, HasThree

\* The values the constants give.
LEMMA ValueTypes ==
    /\ \A v \in Names : v \in Seq(Byte)
    /\ \A v \in Passwords : v \in Seq(Byte)
    /\ \A v \in RoomNames : v \in Seq(Byte)
    /\ \A v \in Chats : v \in Seq(Byte)
    /\ \A v \in UserLists : v \in Seq(Seq(Byte))
    /\ \A v \in RoomLists : v \in Seq(Seq(Byte))
    /\ <<>> \in Seq(Seq(Byte))
BY StreamAssumption, EmptySeq

\* A message of fields.
HasFields(msg) == (\E f, g : HasTwo(msg, f, g)) \/ (\E f, g, h : HasThree(msg, f, g, h))

\* Every request of a client is written in the order of its fields, each of them once.
LEMMA ClientMessagesHaveFields ==
    ASSUME NEW msg \in ClientMessages
    PROVE  HasFields(msg)
<1>1. CASE msg \in Msg({"CREATE_ACCOUNT_REQ", "AUTHENTICATE_ACCOUNT_REQ"},
                       [name : Names, password : Passwords])
  <2>1. HasTwo(msg, "name", "password")
    BY <1>1, ValueTypes
       DEF Msg, HasTwo, IsWeb, WebClass, WrittenFields, IsValueOf, Texts, TextLists,
           Lists, IntSize
  <2> QED
    BY <2>1 DEF HasFields
<1>2. CASE msg \in Msg({"JOIN_ROOM_REQ", "LEAVE_ROOM_REQ"}, [name : Names, room : RoomNames])
  <2>1. HasTwo(msg, "name", "room") \/ HasTwo(msg, "room", "name")
    BY <1>2, ValueTypes
       DEF Msg, HasTwo, IsWeb, WebClass, WrittenFields, IsValueOf, Texts, TextLists,
           Lists, IntSize
  <2> QED
    BY <2>1 DEF HasFields
<1>3. CASE msg \in Msg({"CHAT_IN_ROOM_REQ"}, [room : RoomNames, name : Names, chat : Chats])
  <2>1. HasThree(msg, "room", "name", "chat")
    BY <1>3, ValueTypes
       DEF Msg, HasThree, IsWeb, WebClass, WrittenFields, IsValueOf, Texts, TextLists,
           Lists, IntSize
  <2> QED
    BY <2>1 DEF HasFields
<1> QED
  BY <1>1, <1>2, <1>3 DEF ClientMessages

\* So is every answer and notification of the chat server.
LEMMA ServerMessagesHaveFields ==
    ASSUME NEW msg \in ServerMessages
    PROVE  HasFields(msg)
<1>1. CASE msg \in Msg({"CREATE_ACCOUNT_SUCCESS_ACK"}, [name : Names, userId : UserIds])
  <2>1. HasTwo(msg, "name", "userId")
    BY <1>1, ValueTypes
       DEF Msg, HasTwo, IsWeb, WebClass, WrittenFields, IsValueOf, Texts, TextLists,
           Lists, IntSize
  <2> QED
    BY <2>1 DEF HasFields
<1>2. CASE msg \in Msg({"CREATE_ACCOUNT_FAILURE_ACK", "AUTHENTICATE_ACCOUNT_FAILURE_ACK"},
                       [reason : Reasons, name : Names])
  <2>1. HasTwo(msg, "reason", "name")
    BY <1>2, ValueTypes
       DEF Msg, HasTwo, IsWeb, WebClass, WrittenFields, IsValueOf, Texts, TextLists,
           Lists, IntSize
  <2> QED
    BY <2>1 DEF HasFields
<1>3. CASE msg \in Msg({"AUTHENTICATE_ACCOUNT_SUCCESS_ACK"}, [name : Names, rooms : RoomLists])
  <2>1. HasTwo(msg, "name", "rooms")
    BY <1>3, ValueTypes
       DEF Msg, HasTwo, IsWeb, WebClass, WrittenFields, IsValueOf, Texts, TextLists,
           Lists, IntSize
  <2> QED
    BY <2>1 DEF HasFields
<1>4. CASE msg \in Msg({"JOIN_ROOM_ACK"},
                       [status : {SUCCESS}, room : RoomNames, users : UserLists])
  <2>1. HasThree(msg, "status", "room", "users")
    BY <1>4, ValueTypes
       DEF Msg, HasThree, IsWeb, WebClass, WrittenFields, IsValueOf, Texts, TextLists,
           Lists, IntSize
  <2> QED
    BY <2>1 DEF HasFields
<1>5. CASE msg \in Msg({"JOIN_ROOM_ACK"},
                       [status : {FAILURE}, room : RoomNames, users : {<<>>}])
  <2> DEFINE none == {<<>>}
  <2>1. \A v \in none : v \in Seq(Seq(Byte)) /\ v \in TextLists
    BY EmptySeq DEF TextLists
  <2> HIDE DEF none
  <2>2. msg \in Msg({"JOIN_ROOM_ACK"}, [status : {FAILURE}, room : RoomNames, users : none])
    BY <1>5 DEF none
  <2>3. HasThree(msg, "status", "room", "users")
    BY <2>1, <2>2, ValueTypes
       DEF Msg, HasThree, IsWeb, WebClass, WrittenFields, IsValueOf, Texts, TextLists,
           Lists, IntSize
  <2> QED
    BY <2>3 DEF HasFields
<1>6. CASE msg \in Msg({"LEAVE_ROOM_ACK"},
                       [status : {SUCCESS, FAILURE}, room : RoomNames, name : Names])
  <2>1. HasThree(msg, "status", "room", "name")
    BY <1>6, ValueTypes
       DEF Msg, HasThree, IsWeb, WebClass, WrittenFields, IsValueOf, Texts, TextLists,
           Lists, IntSize
  <2> QED
    BY <2>1 DEF HasFields
<1>7. CASE msg \in Msg({"CHAT_IN_ROOM_ACK"},
                       [status : {SUCCESS}, room : RoomNames, name : Names])
  <2>1. HasThree(msg, "status", "room", "name")
    BY <1>7, ValueTypes
       DEF Msg, HasThree, IsWeb, WebClass, WrittenFields, IsValueOf, Texts, TextLists,
           Lists, IntSize
  <2> QED
    BY <2>1 DEF HasFields
<1>8. CASE msg \in Msg({"JOIN_ROOM_NTF", "LEAVE_ROOM_NTF"}, [room : RoomNames, name : Names])
  <2>1. HasTwo(msg, "room", "name")
    BY <1>8, ValueTypes
       DEF Msg, HasTwo, IsWeb, WebClass, WrittenFields, IsValueOf, Texts, TextLists,
           Lists, IntSize
  <2> QED
    BY <2>1 DEF HasFields
<1>9. CASE msg \in Msg({"CHAT_IN_ROOM_NTF"}, [room : RoomNames, name : Names, chat : Chats])
  <2>1. HasThree(msg, "room", "name", "chat")
    BY <1>9, ValueTypes
       DEF Msg, HasThree, IsWeb, WebClass, WrittenFields, IsValueOf, Texts, TextLists,
           Lists, IntSize
  <2> QED
    BY <2>1 DEF HasFields
<1> QED
  BY <1>1, <1>2, <1>3, <1>4, <1>5, <1>6, <1>7, <1>8, <1>9 DEF ServerMessages

\* So they are written right.
LEMMA FieldsWritten ==
    ASSUME NEW buf \in Buffers, NEW msg \in ClientMessages \cup ServerMessages
    PROVE  IsRight(buf, msg) /\ Serialized(buf, msg).inside
<1>1. HasFields(msg)
  BY ClientMessagesHaveFields, ServerMessagesHaveFields
<1> QED
  BY <1>1, TwoWritten, ThreeWritten DEF HasFields
-----------------------------------------------------------------------------
(***************************************************************************)
(* Messages between the servers.                                           *)
(***************************************************************************)
\* The payload of a message is written behind the header, into the vector as it is.
LEMMA PayloadWritten ==
    ASSUME NEW buf \in Buffers, NEW msg, IsWeb(msg.type),
           SerializeWeb(WebClass[msg.type], msg.values) \in Seq(Byte),
           Len(SerializeWeb(WebClass[msg.type], msg.values))
              = ByteSize(WebClass[msg.type], msg.values)
    PROVE  /\ IsRight(buf, msg)
           /\ PacketSize(msg) <= Len(buf.data) => Serialized(buf, msg).inside
<1> DEFINE bytes == SerializeWeb(WebClass[msg.type], msg.values)
           header == HeaderBytes(msg)
           packet == PacketBytes(msg)
           r == Reset(buf)
           a == WriteHeader(buf, msg)
           b == Serialized(buf, msg)
<1>1. b = Store(a, bytes)
  BY DEF Serialized, WritePayload
<1>2. PacketSize(msg) = 8 + Len(bytes) /\ WrittenUpTo(b, msg) = 8 + Len(bytes)
  BY DEF PacketSize, WrittenUpTo
<1>3. bytes \in Seq(Byte) /\ Len(bytes) \in Nat
  BY LenProperties
<1>4. packet = Joined(header, bytes)
  BY DEF PacketBytes
<1>5. /\ HasWritten(r, a, header)
      /\ r.writeIndex = 0 /\ r.inside = TRUE /\ Len(r.data) = Len(buf.data)
  BY HeaderWritten
<1>6. header \in Seq(Byte) /\ Len(header) = 8
  BY HeaderSize
<1> HIDE DEF r, a, b, bytes, header, packet
<1>7. /\ a \in Buffers /\ a.writeIndex = 8 /\ a.inside = TRUE
      /\ Len(a.data) >= Len(buf.data)
  BY <1>5, <1>6 DEF HasWritten
<1>8. \A i \in 1..8 : a.data[i] = header[i]
  <2>1. \A i \in 1..8 : r.writeIndex + i = i
    BY <1>5
  <2> QED
    BY <1>5, <1>6, <2>1 DEF HasWritten
<1>9. /\ b \in Buffers /\ Len(b.data) = Len(a.data)
      /\ b.inside = (a.inside /\ 8 + Len(bytes) <= Len(a.data))
      /\ \A i \in 1..8 : b.data[i] = a.data[i]
      /\ \A i \in 1..Len(bytes) : 8 + i <= Len(a.data) => b.data[8 + i] = bytes[i]
  <2>0. bytes \in Seq(Byte) /\ a \in Buffers
    BY <1>3, <1>7
  <2>1. /\ b \in Buffers /\ Len(b.data) = Len(a.data)
        /\ b.inside = (a.inside /\ a.writeIndex + Len(bytes) <= Len(a.data))
        /\ \A i \in 1..a.writeIndex : b.data[i] = a.data[i]
        /\ \A i \in 1..Len(bytes) :
              a.writeIndex + i <= Len(a.data) => b.data[a.writeIndex + i] = bytes[i]
    BY ONLY <1>1, <2>0, Stored
  <2>2. a.writeIndex = 8
    BY <1>7
  <2> QED
    BY ONLY <2>1, <2>2, Zenon
<1>10. Len(a.data) \in Nat /\ Len(buf.data) \in Nat
  BY <1>7, LenProperties DEF Buffers
<1>11. ASSUME 8 + Len(bytes) <= Len(buf.data) PROVE b.inside
  <2>1. 8 + Len(bytes) <= Len(a.data)
    BY <1>3, <1>7, <1>10, <1>11
  <2> QED
    BY <1>7, <1>9, <2>1, Zenon
<1>12. /\ packet \in Seq(Byte) /\ Len(packet) = 8 + Len(bytes)
       /\ \A i \in 1..8 : packet[i] = header[i]
       /\ \A i \in 1..Len(bytes) : packet[8 + i] = bytes[i]
  <2>1. /\ packet \in Seq(Byte) /\ Len(packet) = Len(header) + Len(bytes)
        /\ \A i \in 1..Len(header) : packet[i] = header[i]
        /\ \A i \in 1..Len(bytes) : packet[Len(header) + i] = bytes[i]
    BY <1>3, <1>4, <1>6, JoinedBytes
  <2>2. Len(header) = 8
    BY <1>6
  <2> QED
    BY ONLY <2>1, <2>2, Zenon
<1>13. ASSUME b.inside, NEW i \in 1..8 + Len(bytes) PROVE b.data[i] = packet[i]
  <2>1. 8 + Len(bytes) <= Len(a.data)
    BY <1>9, <1>13, Zenon
  <2>2. CASE i \in 1..8
    BY <1>8, <1>9, <1>12, <2>2
  <2>3. CASE i \notin 1..8
    <3> DEFINE j == i - 8
    <3>1. j \in 1..Len(bytes) /\ i = 8 + j /\ 8 + j <= Len(a.data)
      BY <1>3, <1>10, <2>1, <2>3
    <3> HIDE DEF j
    <3> QED
      BY <1>9, <1>12, <3>1
  <2> QED
    BY <2>2, <2>3
<1> QED
  BY <1>2, <1>7, <1>9, <1>11, <1>12, <1>13 DEF IsRight, b, packet

\* The size of a request, and that its payload is written as ByteSizeLong() says.
LEMMA WebRequestWritten ==
    ASSUME NEW msg \in WebRequests
    PROVE  /\ IsWeb(msg.type)
           /\ SerializeWeb(WebClass[msg.type], msg.values) \in Seq(Byte)
           /\ Len(SerializeWeb(WebClass[msg.type], msg.values))
                 = ByteSize(WebClass[msg.type], msg.values)
           /\ PacketSize(msg)
                 = 8 + ((1 + VarintSize(msg.values.requestId))
                        + (1 + (VarintSize(BitsOf(Len(msg.values.email)))
                                  + Len(msg.values.email)))
                        + (1 + (VarintSize(BitsOf(Len(msg.values.plaintextPassword)))
                                  + Len(msg.values.plaintextPassword))))
           /\ SerializeWeb(WebClass[msg.type], msg.values)
                 = Joined(Joined(WriteWebField(1, VarintField("requestId"), msg.values.requestId),
                                 WriteWebField(2, StringField("email"), msg.values.email)),
                          WriteWebField(3, StringField("plaintextPassword"),
                                        msg.values.plaintextPassword))
<1> DEFINE f == VarintField("requestId")
           g == StringField("email")
           h == StringField("plaintextPassword")
           values == msg.values
<1>1. /\ msg.type \in {"CREATE_ACCOUNT_WEB_REQ", "AUTHENTICATE_ACCOUNT_WEB_REQ"}
      /\ values \in [requestId : SocketValues, email : Names, plaintextPassword : Passwords]
  BY DEF WebRequests, Msg
<1>2. IsWeb(msg.type) /\ WebClass[msg.type] = <<f, g, h>>
  BY <1>1 DEF IsWeb, WebClass, CreateAccountWeb, AuthenticateWeb
<1>3. /\ f.name = "requestId" /\ f.wire = 0 /\ g.name = "email" /\ g.wire = 2
      /\ h.name = "plaintextPassword" /\ h.wire = 2
  BY DEF VarintField, StringField
<1>4. /\ values["requestId"] = values.requestId /\ values["email"] = values.email
      /\ values["plaintextPassword"] = values.plaintextPassword
  OBVIOUS
<1>5. /\ values.requestId \in Bits(64) /\ values.email \in Seq(Byte)
      /\ values.plaintextPassword \in Seq(Byte)
  BY <1>1, ValueTypes, StreamAssumption
<1> HIDE DEF f, g, h, values
<1>6. /\ IsSet(f, values) /\ IsSet(g, values) /\ IsSet(h, values)
      /\ IsOfField(f, values[f.name]) /\ IsOfField(g, values[g.name])
      /\ IsOfField(h, values[h.name])
  BY <1>1, <1>3, <1>4, <1>5 DEF IsSet, IsOfField
<1>7. /\ SerializeWeb(<<f, g, h>>, values) \in Seq(Byte)
      /\ Len(SerializeWeb(<<f, g, h>>, values)) = ByteSize(<<f, g, h>>, values)
      /\ ByteSize(<<f, g, h>>, values)
            = FieldSize(f, values[f.name]) + FieldSize(g, values[g.name])
                 + FieldSize(h, values[h.name])
  BY <1>6, ThreeFieldsWritten
<1>8. /\ FieldSize(f, values[f.name]) = 1 + VarintSize(values.requestId)
      /\ FieldSize(g, values[g.name])
            = 1 + (VarintSize(BitsOf(Len(values.email))) + Len(values.email))
      /\ FieldSize(h, values[h.name])
            = 1 + (VarintSize(BitsOf(Len(values.plaintextPassword)))
                     + Len(values.plaintextPassword))
  BY <1>3, <1>4 DEF FieldSize
<1>9. PacketSize(msg) = 8 + ByteSize(<<f, g, h>>, values)
  BY <1>2 DEF PacketSize, values
<1>10. SerializeWeb(<<f, g, h>>, values)
          = Joined(Joined(WriteWebField(1, f, values[f.name]), WriteWebField(2, g, values[g.name])),
                   WriteWebField(3, h, values[h.name]))
  BY <1>6, ThreeFieldsWritten
<1>11. SerializeWeb(<<f, g, h>>, values)
          = Joined(Joined(WriteWebField(1, f, values.requestId), WriteWebField(2, g, values.email)),
                   WriteWebField(3, h, values.plaintextPassword))
  BY <1>3, <1>4, <1>10
<1> QED
  BY <1>2, <1>7, <1>8, <1>9, <1>11 DEF values, f, g, h

\* The same for an answer of the AuthServer.
LEMMA WebAnswerWritten ==
    ASSUME NEW msg \in WebAnswers
    PROVE  /\ IsWeb(msg.type)
           /\ SerializeWeb(WebClass[msg.type], msg.values) \in Seq(Byte)
           /\ Len(SerializeWeb(WebClass[msg.type], msg.values))
                 = ByteSize(WebClass[msg.type], msg.values)
           /\ \E value \in Bits(64) :
                 PacketSize(msg)
                    = 8 + ((1 + VarintSize(msg.values.requestId)) + (1 + VarintSize(value)))
           /\ \E value \in Bits(64) : \E g :
                 /\ g.wire = 0
                 /\ SerializeWeb(WebClass[msg.type], msg.values)
                       = Joined(WriteWebField(1, VarintField("requestId"), msg.values.requestId),
                                WriteWebField(2, g, value))
<1> DEFINE f == VarintField("requestId")
           values == msg.values
           Sized(value) ==
              /\ SerializeWeb(WebClass[msg.type], values) \in Seq(Byte)
              /\ Len(SerializeWeb(WebClass[msg.type], values))
                    = ByteSize(WebClass[msg.type], values)
              /\ ByteSize(WebClass[msg.type], values)
                    = (1 + VarintSize(values.requestId)) + (1 + VarintSize(value))
           Holding(g, value) ==
              SerializeWeb(WebClass[msg.type], values)
                 = Joined(WriteWebField(1, f, values.requestId), WriteWebField(2, g, value))
<1>1. f.name = "requestId" /\ f.wire = 0
  BY DEF VarintField
<1>2. CASE msg \in Msg({"CREATE_ACCOUNT_WEB_SUCCESS_ACK", "AUTHENTICATE_ACCOUNT_WEB_SUCCESS_ACK"},
                       [requestId : SocketValues, userId : UserIds])
  <2> DEFINE g == VarintField("userId")
             h == StringField("creationDate")
  <2>1. /\ msg.type \in {"CREATE_ACCOUNT_WEB_SUCCESS_ACK",
                           "AUTHENTICATE_ACCOUNT_WEB_SUCCESS_ACK"}
        /\ values \in [requestId : SocketValues, userId : UserIds]
    BY <1>2 DEF Msg
  <2>2. /\ IsWeb(msg.type)
        /\ WebClass[msg.type] = <<f, g>> \/ WebClass[msg.type] = <<f, g, h>>
    BY <2>1 DEF IsWeb, WebClass, CreateAccountWebSuccess, AuthenticateWebSuccess
  <2>3. g.name = "userId" /\ g.wire = 0 /\ h.name = "creationDate"
    BY DEF VarintField, StringField
  <2>4. values["requestId"] = values.requestId /\ values["userId"] = values.userId
    OBVIOUS
  <2>5. values.requestId \in Bits(64) /\ values.userId \in Bits(64)
    BY <2>1, StreamAssumption
  <2> HIDE DEF f, g, h, values
  <2>6. /\ IsSet(f, values) /\ IsSet(g, values) /\ ~IsSet(h, values)
        /\ IsOfField(f, values[f.name]) /\ IsOfField(g, values[g.name])
    BY <1>1, <2>1, <2>3, <2>4, <2>5 DEF IsSet, IsOfField
  <2>7. /\ FieldSize(f, values[f.name]) = 1 + VarintSize(values.requestId)
        /\ FieldSize(g, values[g.name]) = 1 + VarintSize(values.userId)
    BY <1>1, <2>3, <2>4 DEF FieldSize
  <2>8. Sized(values.userId)
    <3>1. CASE WebClass[msg.type] = <<f, g>>
      BY <2>6, <2>7, <3>1, TwoFieldsWritten
    <3>2. CASE WebClass[msg.type] = <<f, g, h>>
      BY <2>6, <2>7, <3>2, TwoOfThreeWritten
    <3> QED
      BY <2>2, <3>1, <3>2
  <2>9. PacketSize(msg) = 8 + ByteSize(WebClass[msg.type], values)
    BY <2>2 DEF PacketSize, values
  <2>10. Holding(g, values.userId)
    <3>1. values[f.name] = values.requestId /\ values[g.name] = values.userId
      BY <1>1, <2>3, <2>4
    <3>2. SerializeWeb(WebClass[msg.type], values)
             = Joined(WriteWebField(1, f, values[f.name]), WriteWebField(2, g, values[g.name]))
      <4>1. CASE WebClass[msg.type] = <<f, g>>
        BY <2>6, <4>1, TwoFieldsWritten
      <4>2. CASE WebClass[msg.type] = <<f, g, h>>
        BY <2>6, <4>2, TwoOfThreeWritten
      <4> QED
        BY <2>2, <4>1, <4>2
    <3> QED
      BY <3>1, <3>2
  <2> QED
    BY <2>2, <2>3, <2>5, <2>8, <2>9, <2>10 DEF values, f
<1>3. CASE msg \in Msg({"CREATE_ACCOUNT_WEB_FAILURE_ACK", "AUTHENTICATE_ACCOUNT_WEB_FAILURE_ACK"},
                       [requestId : SocketValues, reason : Reasons])
  <2> DEFINE g == IF msg.type = "CREATE_ACCOUNT_WEB_FAILURE_ACK" THEN EnumField("reason", 3)
                  ELSE EnumField("reason", 2)
  <2>1. /\ msg.type \in {"CREATE_ACCOUNT_WEB_FAILURE_ACK",
                           "AUTHENTICATE_ACCOUNT_WEB_FAILURE_ACK"}
        /\ values \in [requestId : SocketValues, reason : Reasons]
    BY <1>3 DEF Msg
  <2>2. IsWeb(msg.type) /\ WebClass[msg.type] = <<f, g>>
    BY <2>1 DEF IsWeb, WebClass, CreateAccountWebFailure, AuthenticateWebFailure
  <2>3. g.name = "reason" /\ g.wire = 0
    BY DEF EnumField
  <2>4. values["requestId"] = values.requestId /\ values["reason"] = values.reason
    OBVIOUS
  <2>5. values.requestId \in Bits(64) /\ values.reason \in Bits(64)
    <3>1. Bits(16) \subseteq Bits(64)
      BY DEF Bits
    <3> QED
      BY <2>1, <3>1, StreamAssumption
  <2> HIDE DEF f, g, values
  <2>6. /\ IsSet(f, values) /\ IsSet(g, values)
        /\ IsOfField(f, values[f.name]) /\ IsOfField(g, values[g.name])
    BY <1>1, <2>1, <2>3, <2>4, <2>5 DEF IsSet, IsOfField
  <2>7. /\ FieldSize(f, values[f.name]) = 1 + VarintSize(values.requestId)
        /\ FieldSize(g, values[g.name]) = 1 + VarintSize(values.reason)
    BY <1>1, <2>3, <2>4 DEF FieldSize
  <2>8. Sized(values.reason)
    BY <2>2, <2>6, <2>7, TwoFieldsWritten
  <2>9. PacketSize(msg) = 8 + ByteSize(WebClass[msg.type], values)
    BY <2>2 DEF PacketSize, values
  <2>10. Holding(g, values.reason)
    <3>1. values[f.name] = values.requestId /\ values[g.name] = values.reason
      BY <1>1, <2>3, <2>4
    <3>2. SerializeWeb(WebClass[msg.type], values)
             = Joined(WriteWebField(1, f, values[f.name]), WriteWebField(2, g, values[g.name]))
      BY <2>2, <2>6, TwoFieldsWritten
    <3> QED
      BY <3>1, <3>2
  <2> QED
    BY <2>2, <2>3, <2>5, <2>8, <2>9, <2>10 DEF values, f
<1> QED
  BY <1>2, <1>3 DEF WebAnswers

\* Whatever a process of some kind sends is written as its size says.
LEMMA MessagesRight ==
    ASSUME NEW buf \in Buffers, NEW kind \in Links, NEW msg \in Messages(kind)
    PROVE  IsRight(buf, msg)
<1>1. kind \in {"C2S", "S2C", "S2A", "A2S"}
  BY StreamAssumption
<1>2. CASE msg \in ClientMessages \/ msg \in ServerMessages
  BY <1>2, FieldsWritten
<1>3. CASE msg \in WebRequests
  BY <1>3, WebRequestWritten, PayloadWritten
<1>4. CASE msg \in WebAnswers
  BY <1>4, WebAnswerWritten, PayloadWritten
<1> QED
  BY <1>1, <1>2, <1>3, <1>4 DEF Messages

\* What the messages between the servers need, whose payload is written into the vector as
\* it is: strings whose length is one byte as a varint, SOCKETs that take at most three.
PayloadsFit ==
    /\ RecvSize >= 23
    /\ SocketValues \subseteq Bits(21)
    /\ \A str \in Names \cup Passwords : Len(str) < 128

\* Then a request is at most as long as the packet of the client it was made of, which
\* had two lengths of four bytes in place of a SOCKET, three tags and two shorter lengths.
LEMMA PayloadSizes ==
    ASSUME PayloadsFit, NEW msg \in WebRequests \cup WebAnswers
    PROVE  PacketSize(msg) <= RecvSize
<1>1. RecvSize \in Nat /\ RecvSize >= 23
  BY StreamAssumption DEF PayloadsFit
<1>2. CASE msg \in WebRequests
  <2> DEFINE id == msg.values.requestId
             m == Len(msg.values.email)
             n == Len(msg.values.plaintextPassword)
             vId == VarintSize(id)
             vM == VarintSize(BitsOf(m))
             vN == VarintSize(BitsOf(n))
  <2>1. /\ id \in SocketValues /\ msg.values.email \in Names
        /\ msg.values.plaintextPassword \in Passwords /\ 16 + m + n <= RecvSize
    <3>1. /\ msg \in Msg({"CREATE_ACCOUNT_WEB_REQ", "AUTHENTICATE_ACCOUNT_WEB_REQ"},
                 [requestId : SocketValues, email : Names, plaintextPassword : Passwords])
          /\ 16 + m + n <= RecvSize
      BY <1>2 DEF WebRequests
    <3> HIDE DEF m, n
    <3> QED
      BY <3>1 DEF Msg
  <2>2. m \in 0..127 /\ n \in 0..127
    <3>1. m \in Nat /\ n \in Nat
      BY <2>1, ValueTypes, LenProperties
    <3>2. m < 128 /\ n < 128
      BY <2>1 DEF PayloadsFit
    <3> HIDE DEF m, n
    <3> QED
      BY <3>1, <3>2
  <2>3. PacketSize(msg) = 8 + ((1 + vId) + (1 + (vM + m)) + (1 + (vN + n)))
    BY <1>2, WebRequestWritten
  <2> HIDE DEF id, m, n
  <2>4. vId \in 1..3
    BY <2>1, VarintSizes DEF PayloadsFit
  <2>5. vM = 1 /\ vN = 1
    BY <2>2, SmallBits, VarintSizes DEF Bits
  <2> HIDE DEF vId, vM, vN
  <2> QED
    BY <1>1, <2>1, <2>2, <2>3, <2>4, <2>5
<1>3. CASE msg \in WebAnswers
  <2> DEFINE id == msg.values.requestId
  <2>1. id \in SocketValues
    BY <1>3 DEF WebAnswers, Msg
  <2>2. PICK value \in Bits(64) :
          PacketSize(msg) = 8 + ((1 + VarintSize(id)) + (1 + VarintSize(value)))
    BY <1>3, WebAnswerWritten
  <2> HIDE DEF id
  <2>3. VarintSize(id) \in 1..3
    BY <2>1, VarintSizes DEF PayloadsFit
  <2>4. VarintSize(value) \in 1..10
    BY <2>2, VarintSizes
  <2> QED
    BY <1>1, <2>2, <2>3, <2>4
<1> QED
  BY <1>2, <1>3

\* Where the buffer grows it needs nothing.
WritesFit == Links \subseteq {"C2S", "S2C"} \/ PayloadsFit

\* So no write of any message leaves the vector.
LEMMA MessagesInside ==
    ASSUME WritesFit, NEW buf \in Buffers, NEW kind \in Links, NEW msg \in Messages(kind),
           Len(buf.data) >= RecvSize
    PROVE  Serialized(buf, msg).inside
<1>1. kind \in {"C2S", "S2C", "S2A", "A2S"}
  BY StreamAssumption
<1>2. CASE msg \in ClientMessages \/ msg \in ServerMessages
  BY <1>2, FieldsWritten
<1>3. CASE PayloadsFit /\ msg \in WebRequests \cup WebAnswers
  <2>1. PacketSize(msg) <= RecvSize
    BY <1>3, PayloadSizes
  <2>2. /\ IsWeb(msg.type)
        /\ SerializeWeb(WebClass[msg.type], msg.values) \in Seq(Byte)
        /\ Len(SerializeWeb(WebClass[msg.type], msg.values))
              = ByteSize(WebClass[msg.type], msg.values)
    BY <1>3, WebRequestWritten, WebAnswerWritten
  <2>3. PacketSize(msg) <= Len(buf.data) => Serialized(buf, msg).inside
    BY <2>2, PayloadWritten
  <2>4. PacketSize(msg) = 8 + Len(SerializeWeb(WebClass[msg.type], msg.values))
    BY <2>2 DEF PacketSize
  <2>5. /\ Len(SerializeWeb(WebClass[msg.type], msg.values)) \in Nat
        /\ Len(buf.data) \in Nat /\ RecvSize \in Nat
    BY <2>2, StreamAssumption, LenProperties DEF Buffers
  <2> QED
    BY <2>1, <2>3, <2>4, <2>5
<1> QED
  BY <1>1, <1>2, <1>3 DEF Messages, WritesFit
-----------------------------------------------------------------------------
(***************************************************************************)
(* The invariant: the vector never gets smaller than it was made.          *)
(***************************************************************************)
BufferInv ==
    /\ link \in Links
    /\ sendBuf \in Buffers
    /\ Len(sendBuf.data) >= RecvSize

\* A new buffer is a buffer.
LEMMA BufferStart ==
    ASSUME Init
    PROVE  BufferInv /\ PacketSizesAreExact /\ WritesStayInside
<1>1. RecvSize \in Nat
  BY StreamAssumption
<1>2. Zeros(RecvSize) \in Seq(Byte) /\ Len(Zeros(RecvSize)) = RecvSize
  BY <1>1 DEF Zeros, Byte, Bits
<1>3. sendBuf = [data |-> Zeros(RecvSize), writeIndex |-> 0, readIndex |-> 0, inside |-> TRUE]
  BY DEF Init, NewBuffer
<1>4. sendBuf \in Buffers /\ Len(sendBuf.data) = RecvSize /\ sendBuf.inside = TRUE
  BY <1>1, <1>2, <1>3 DEF Buffers
<1> QED
  BY <1>1, <1>4 DEF Init, BufferInv, PacketSizesAreExact, WritesStayInside

\* Only Send() writes to the buffer.
LEMMA BufferStep ==
    ASSUME BufferInv, [Next]_vars
    PROVE  /\ BufferInv'
           /\ PacketSizesAreExact => PacketSizesAreExact'
           /\ WritesFit /\ WritesStayInside => WritesStayInside'
<1>1. ASSUME NEW msg \in Messages(link), Send(msg)
      PROVE  /\ BufferInv' /\ PacketSizesAreExact'
             /\ WritesFit => WritesStayInside'
  <2>1. link \in Links /\ sendBuf \in Buffers /\ Len(sendBuf.data) >= RecvSize
    BY DEF BufferInv
  <2>2. sendBuf' = Serialized(sendBuf, msg) /\ sent' = msg /\ link' = link
    BY <1>1 DEF Send
  <2>3. IsRight(sendBuf, msg)
    BY <2>1, MessagesRight
  <2>4. sendBuf' \in Buffers
    BY <2>2, <2>3 DEF IsRight
  <2>5. Len(sendBuf'.data) >= RecvSize
    <3>1. /\ Len(sendBuf'.data) \in Nat /\ Len(sendBuf.data) \in Nat /\ RecvSize \in Nat
      BY <2>1, <2>4, StreamAssumption, LenProperties DEF Buffers
    <3>2. Len(sendBuf'.data) >= Len(sendBuf.data)
      BY <2>2, <2>3 DEF IsRight
    <3> QED
      BY <2>1, <3>1, <3>2
  <2>6. WrittenUpTo(sendBuf', msg) = PacketSize(msg)
    BY <2>2, <2>3 DEF IsRight
  <2>7. ASSUME WritesFit PROVE sendBuf'.inside
    BY <2>1, <2>2, <2>7, MessagesInside
  <2> QED
    BY <2>1, <2>2, <2>4, <2>5, <2>6, <2>7
       DEF BufferInv, PacketSizesAreExact, WritesStayInside
<1>2. ASSUME NEW n \in 1..RecvSize, Recv(n)
      PROVE  /\ BufferInv' /\ PacketSizesAreExact'
             /\ WritesStayInside => WritesStayInside'
  BY <1>2 DEF Recv, BufferInv, PacketSizesAreExact, WritesStayInside
<1>3. ASSUME UNCHANGED vars
      PROVE  /\ BufferInv'
             /\ PacketSizesAreExact => PacketSizesAreExact'
             /\ WritesStayInside => WritesStayInside'
  BY <1>3 DEF vars, BufferInv, PacketSizesAreExact, WritesStayInside
<1>4. CASE \E msg \in Messages(link) : Send(msg)
  BY <1>1, <1>4
<1>5. CASE \E n \in 1..RecvSize : Recv(n)
  BY <1>2, <1>5
<1>6. CASE UNCHANGED vars
  BY <1>3, <1>6
<1>7. Next \/ UNCHANGED vars
  OBVIOUS
<1> QED
  BY <1>4, <1>5, <1>6, <1>7 DEF Next

\* The size in the header of every message, which its constructor adds up field by field in
\* message.h, or ByteSizeLong() computes before the payload is written, is the number of
\* bytes that Serialize() writes: for strings and lists of every length.
\* What is compared are the sums; that BitsOf() keeps eleven bits of a sum changes neither.
THEOREM SizesAreExact == Spec => []PacketSizesAreExact
<1>1. Init => BufferInv /\ PacketSizesAreExact
  BY BufferStart
<1>2. /\ BufferInv /\ PacketSizesAreExact /\ [Next]_vars
      => (BufferInv /\ PacketSizesAreExact)'
  BY BufferStep
<1> QED
  BY <1>1, <1>2, PTL DEF Spec

\* No write leaves the vector.  The integers and strings of Buffer make it grow; the payload
\* of a message between the servers does not, and relies on strings and SOCKETs that are
\* short enough.
THEOREM NoWriteOutside ==
    ASSUME WritesFit
    PROVE  Spec => []WritesStayInside
<1>1. Init => BufferInv /\ WritesStayInside
  BY BufferStart
<1>2. /\ BufferInv /\ WritesStayInside /\ [Next]_vars => (BufferInv /\ WritesStayInside)'
  <2>1. SUFFICES ASSUME BufferInv, WritesStayInside, [Next]_vars
                 PROVE  (BufferInv /\ WritesStayInside)'
    OBVIOUS
  <2>2. BufferInv' /\ (WritesFit /\ WritesStayInside => WritesStayInside')
    BY <2>1, BufferStep
  <2> QED
    BY <2>1, <2>2
<1> QED
  BY <1>1, <1>2, PTL DEF Spec
-----------------------------------------------------------------------------
(***************************************************************************)
(* The stream: the bytes in flight are those of the packets sent, one      *)
(* packet behind the other.                                                *)
(***************************************************************************)
\* A byte at its place in the packet of its message.
Parts(kind) ==
    {e \in [msg : Messages(kind), at : Nat, byte : Byte] :
        e.at \in 1..PacketSize(e.msg) /\ e.byte = PacketBytes(e.msg)[e.at]}

\* The last byte of a packet.
EndsPacket(e) == e.at = PacketSize(e.msg)

\* The byte behind another one: the next of its packet, or the first of the next packet.
Follows(d, e) ==
    \/ e.msg = d.msg /\ e.at = d.at + 1
    \/ EndsPacket(d) /\ e.at = 1

\* What is on its way: bytes of packets one behind the other, the last one complete.
InFlight(kind, stream) ==
    /\ stream \in Seq(Parts(kind))
    /\ \A i \in 1..Len(stream) : i # Len(stream) => Follows(stream[i], stream[i + 1])
    /\ \A i \in 1..Len(stream) : i = Len(stream) => EndsPacket(stream[i])

\* A whole packet is such a stream.
LEMMA PacketInFlight ==
    ASSUME NEW kind \in Links, NEW msg \in Messages(kind), NEW data,
           PacketBytes(msg) \in Seq(Byte), Len(PacketBytes(msg)) = PacketSize(msg),
           \A i \in 1..PacketSize(msg) : data[i] = PacketBytes(msg)[i]
    PROVE  InFlight(kind, [i \in 1..PacketSize(msg) |->
                              [msg |-> msg, at |-> i, byte |-> data[i]]])
<1> DEFINE n == PacketSize(msg)
           bytes == PacketBytes(msg)
           part(i) == [msg |-> msg, at |-> i, byte |-> data[i]]
           stream == [i \in 1..n |-> part(i)]
<1>1. n \in Nat /\ \A i \in 1..n : bytes[i] \in Byte
  BY LenProperties
<1>2. \A i : part(i).msg = msg /\ part(i).at = i /\ part(i).byte = data[i]
  OBVIOUS
<1>3. \A i \in 1..n : part(i) \in [msg : Messages(kind), at : Nat, byte : Byte]
  <2> TAKE i \in 1..n
  <2>1. data[i] \in Byte /\ i \in Nat
    BY <1>1
  <2> QED
    BY <2>1
<1>4. \A i \in 1..n : data[i] = bytes[i]
  OBVIOUS
<1> HIDE DEF part, n, bytes
<1>5. \A i \in 1..n : part(i) \in Parts(kind)
  BY <1>2, <1>3, <1>4 DEF Parts, n, bytes
<1>6. stream \in Seq(Parts(kind)) /\ Len(stream) = n /\ \A i \in 1..n : stream[i] = part(i)
  BY <1>1, <1>5
<1> HIDE DEF stream
<1>7. ASSUME NEW i \in 1..n, i # n PROVE Follows(stream[i], stream[i + 1])
  <2>1. i + 1 \in 1..n
    BY <1>1, <1>7
  <2>2. stream[i] = part(i) /\ stream[i + 1] = part(i + 1)
    BY <1>6, <2>1
  <2> QED
    BY <1>2, <2>2 DEF Follows
<1>8. ASSUME NEW i \in 1..n, i = n PROVE EndsPacket(stream[i])
  BY <1>2, <1>6, <1>8 DEF EndsPacket, n
<1>9. InFlight(kind, stream)
  BY <1>6, <1>7, <1>8 DEF InFlight
<1> QED
  BY <1>9 DEF stream, part, n

\* A packet may follow any stream.
LEMMA PacketFollows ==
    ASSUME NEW kind, NEW p, NEW q, InFlight(kind, p), InFlight(kind, q),
           Len(q) # 0, q[1].at = 1
    PROVE  InFlight(kind, p \o q)
<1> DEFINE S == Parts(kind)
           m == Len(p)
           n == Len(q)
           s == Joined(p, q)
<1>1. p \in Seq(S) /\ q \in Seq(S)
  BY DEF InFlight
<1> HIDE DEF S
<1>2. m \in Nat /\ n \in Nat
  BY <1>1, LenProperties
<1>3. s \in Seq(S)
  BY <1>1, JoinedAt
<1>4. Len(s) = m + n
  BY <1>1, JoinedAt
<1>5. \A i \in 1..m : s[i] = p[i]
  BY <1>1, JoinedAt
<1>6. \A i \in 1..n : s[m + i] = q[i]
  BY <1>1, JoinedAt
<1>7. /\ \A i \in 1..m : i # m => Follows(p[i], p[i + 1])
      /\ \A i \in 1..m : i = m => EndsPacket(p[i])
      /\ \A i \in 1..n : i # n => Follows(q[i], q[i + 1])
      /\ \A i \in 1..n : i = n => EndsPacket(q[i])
      /\ n # 0 /\ q[1].at = 1
  BY DEF InFlight
<1> HIDE DEF s, m, n
<1>8. ASSUME NEW i \in 1..m + n, i # m + n PROVE Follows(s[i], s[i + 1])
  <2>1. CASE i < m
    <3>1. i \in 1..m /\ i + 1 \in 1..m /\ i # m
      BY <1>2, <2>1
    <3> QED
      BY <1>5, <1>7, <3>1
  <2>2. CASE i = m
    <3>1. i \in 1..m /\ 1 \in 1..n
      BY <1>2, <1>7, <2>2
    <3>2. s[i] = p[i] /\ s[i + 1] = q[1]
      BY <1>5, <1>6, <2>2, <3>1
    <3> QED
      BY <1>7, <2>2, <3>1, <3>2 DEF Follows
  <2>3. CASE i > m
    <3> DEFINE j == i - m
    <3>1. j \in 1..n /\ j + 1 \in 1..n /\ j # n /\ i = m + j /\ i + 1 = m + (j + 1)
      BY <1>2, <1>8, <2>3
    <3> HIDE DEF j
    <3> QED
      BY <1>6, <1>7, <3>1
  <2>4. i < m \/ i = m \/ i > m
    BY <1>2
  <2> QED
    BY <2>1, <2>2, <2>3, <2>4
<1>9. ASSUME NEW i \in 1..m + n, i = m + n PROVE EndsPacket(s[i])
  <2>1. n \in 1..n
    BY <1>2, <1>7
  <2> QED
    BY <1>6, <1>7, <1>9, <2>1
<1>10. InFlight(kind, s)
  BY <1>3, <1>4, <1>8, <1>9 DEF InFlight, S
<1> QED
  BY <1>10 DEF s, Joined

\* What is left of a stream.
LEMMA RestInFlight ==
    ASSUME NEW kind, NEW p, InFlight(kind, p), NEW n \in 1..Len(p)
    PROVE  InFlight(kind, SubSeq(p, n + 1, Len(p)))
<1> DEFINE S == Parts(kind)
           m == Len(p)
           s == SubSeq(p, n + 1, m)
<1>1. p \in Seq(S)
  BY DEF InFlight
<1> HIDE DEF S
<1>2. m \in Nat /\ n \in Nat /\ n <= m /\ \A i \in 1..m : p[i] \in S
  BY <1>1, LenProperties
<1>3. /\ \A i \in 1..m : i # m => Follows(p[i], p[i + 1])
      /\ \A i \in 1..m : i = m => EndsPacket(p[i])
  BY DEF InFlight
<1> HIDE DEF m
<1>4. n + 1 \in Int /\ m \in Int /\ \A i \in (n + 1)..m : p[i] \in S
  BY <1>2
<1>5. /\ s \in Seq(S)
      /\ Len(s) = IF n + 1 <= m THEN m - (n + 1) + 1 ELSE 0
      /\ \A i \in 1..m - (n + 1) + 1 : s[i] = p[(n + 1) + i - 1]
  BY <1>4, SubSeqProperties
<1> HIDE DEF s
<1>6. Len(s) = m - n
  BY <1>2, <1>5
<1>7. \A i \in 1..m - n : s[i] = p[n + i]
  <2>1. \A i \in 1..m - n : i \in 1..m - (n + 1) + 1 /\ (n + 1) + i - 1 = n + i
    BY <1>2
  <2> QED
    BY <1>5, <2>1
<1>8. ASSUME NEW i \in 1..m - n, i # m - n PROVE Follows(s[i], s[i + 1])
  <2>1. /\ i + 1 \in 1..m - n /\ n + i \in 1..m /\ n + i # m /\ n + (i + 1) = (n + i) + 1
    BY <1>2, <1>8
  <2> QED
    BY <1>3, <1>7, <2>1
<1>9. ASSUME NEW i \in 1..m - n, i = m - n PROVE EndsPacket(s[i])
  <2>1. n + i \in 1..m /\ n + i = m
    BY <1>2, <1>9
  <2> QED
    BY <1>3, <1>7, <2>1
<1>10. InFlight(kind, s)
  BY <1>5, <1>6, <1>8, <1>9 DEF InFlight, S
<1> QED
  BY <1>10 DEF s, m

-----------------------------------------------------------------------------
(***************************************************************************)
(* Numbers.                                                                *)
(***************************************************************************)
\* The binary digit of a number that counts for so much.
Digit(n, weight) == (n \div weight) % 2

\* A number is twice its half and its lowest digit, ten times over.
LEMMA TenHalves ==
    ASSUME NEW n \in 0..1023
    PROVE  n = Digit(n, 1) + 2 * Digit(n, 2) + 4 * Digit(n, 4) + 8 * Digit(n, 8)
                 + 16 * Digit(n, 16) + 32 * Digit(n, 32) + 64 * Digit(n, 64)
                 + 128 * Digit(n, 128) + 256 * Digit(n, 256) + 512 * Digit(n, 512)
<1>1. n \in Nat
  OBVIOUS
<1>2. n \div 2 \in Nat /\ n = 2 * (n \div 2) + (n % 2)
  OBVIOUS
<1>3. n \div 4 \in Nat /\ n \div 2 = 2 * (n \div 4) + ((n \div 2) % 2)
  OBVIOUS
<1>4. n \div 8 \in Nat /\ n \div 4 = 2 * (n \div 8) + ((n \div 4) % 2)
  OBVIOUS
<1>5. n \div 16 \in Nat /\ n \div 8 = 2 * (n \div 16) + ((n \div 8) % 2)
  OBVIOUS
<1>6. n \div 32 \in Nat /\ n \div 16 = 2 * (n \div 32) + ((n \div 16) % 2)
  OBVIOUS
<1>7. n \div 64 \in Nat /\ n \div 32 = 2 * (n \div 64) + ((n \div 32) % 2)
  OBVIOUS
<1>8. n \div 128 \in Nat /\ n \div 64 = 2 * (n \div 128) + ((n \div 64) % 2)
  OBVIOUS
<1>9. n \div 256 \in Nat /\ n \div 128 = 2 * (n \div 256) + ((n \div 128) % 2)
  OBVIOUS
<1>10. n \div 512 \in {0, 1} /\ n \div 256 = 2 * (n \div 512) + ((n \div 256) % 2)
  OBVIOUS
<1>11. (n \div 512) % 2 = n \div 512
  BY <1>10
<1>12. n \div 1 = n
  OBVIOUS
<1> DEFINE d1 == n \div 2
           d2 == n \div 4
           d3 == n \div 8
           d4 == n \div 16
           d5 == n \div 32
           d6 == n \div 64
           d7 == n \div 128
           d8 == n \div 256
           d9 == n \div 512
           b0 == n % 2
           b1 == d1 % 2
           b2 == d2 % 2
           b3 == d3 % 2
           b4 == d4 % 2
           b5 == d5 % 2
           b6 == d6 % 2
           b7 == d7 % 2
           b8 == d8 % 2
           b9 == d9 % 2
<1>13. /\ b0 \in Int /\ b1 \in Int /\ b2 \in Int /\ b3 \in Int /\ b4 \in Int
       /\ b5 \in Int /\ b6 \in Int /\ b7 \in Int /\ b8 \in Int /\ b9 \in Int
  BY <1>1, <1>2, <1>3, <1>4, <1>5, <1>6, <1>7, <1>8, <1>9, <1>10
<1>14. /\ n = 2 * d1 + b0 /\ d1 = 2 * d2 + b1 /\ d2 = 2 * d3 + b2 /\ d3 = 2 * d4 + b3
       /\ d4 = 2 * d5 + b4 /\ d5 = 2 * d6 + b5 /\ d6 = 2 * d7 + b6 /\ d7 = 2 * d8 + b7
       /\ d8 = 2 * d9 + b8 /\ d9 = b9
  BY <1>2, <1>3, <1>4, <1>5, <1>6, <1>7, <1>8, <1>9, <1>10, <1>11
<1>15. /\ d1 \in Int /\ d2 \in Int /\ d3 \in Int /\ d4 \in Int /\ d5 \in Int /\ d6 \in Int
       /\ d7 \in Int /\ d8 \in Int /\ d9 \in Int
  BY <1>2, <1>3, <1>4, <1>5, <1>6, <1>7, <1>8, <1>9, <1>10
<1> HIDE DEF d1, d2, d3, d4, d5, d6, d7, d8, d9, b0, b1, b2, b3, b4, b5, b6, b7, b8, b9
<1>16. n = b0 + 2 * b1 + 4 * b2 + 8 * b3 + 16 * b4 + 32 * b5 + 64 * b6 + 128 * b7
             + 256 * b8 + 512 * b9
  BY <1>13, <1>14, <1>15
<1>17. /\ Digit(n, 1) = b0 /\ Digit(n, 2) = b1 /\ Digit(n, 4) = b2 /\ Digit(n, 8) = b3
       /\ Digit(n, 16) = b4 /\ Digit(n, 32) = b5 /\ Digit(n, 64) = b6
       /\ Digit(n, 128) = b7 /\ Digit(n, 256) = b8 /\ Digit(n, 512) = b9
  BY <1>12 DEF Digit, b0, b1, b2, b3, b4, b5, b6, b7, b8, b9, d1, d2, d3, d4, d5, d6, d7, d8, d9
<1> QED
  BY <1>16, <1>17

\* Number() reads what BitsOf() makes of a number, as far as it goes.
LEMMA NumberOfBits ==
    ASSUME NEW n \in 0..1023
    PROVE  Number(BitsOf(n)) = n /\ BitsOf(n) \in Bits(32)
<1> DEFINE Bit(i) == (n \div 2^i) % 2
           v == BitsOf(n)
<1>1. v = {i \in 0..10 : Bit(i) = 1}
  BY DEF BitsOf
<1>2. /\ Bit(0) = Digit(n, 1) /\ Bit(1) = Digit(n, 2) /\ Bit(2) = Digit(n, 4)
      /\ Bit(3) = Digit(n, 8) /\ Bit(4) = Digit(n, 16) /\ Bit(5) = Digit(n, 32)
      /\ Bit(6) = Digit(n, 64) /\ Bit(7) = Digit(n, 128) /\ Bit(8) = Digit(n, 256)
      /\ Bit(9) = Digit(n, 512) /\ Bit(10) = Digit(n, 1024)
  BY Powers DEF Digit
<1>3. /\ Bit(0) \in {0, 1} /\ Bit(1) \in {0, 1} /\ Bit(2) \in {0, 1} /\ Bit(3) \in {0, 1}
      /\ Bit(4) \in {0, 1} /\ Bit(5) \in {0, 1} /\ Bit(6) \in {0, 1} /\ Bit(7) \in {0, 1}
      /\ Bit(8) \in {0, 1} /\ Bit(9) \in {0, 1} /\ Bit(10) = 0
  <2>1. \A m \in 1..512 : Digit(n, m) \in {0, 1}
    <3>1. \A m \in Nat : m % 2 \in {0, 1}
      OBVIOUS
    <3>2. \A m \in 1..512 : n \div m \in Nat
      OBVIOUS
    <3> QED
      BY <3>1, <3>2 DEF Digit
  <2>2. Digit(n, 1024) = 0
    <3>1. n \div 1024 = 0
      OBVIOUS
    <3> QED
      BY <3>1 DEF Digit
  <2> HIDE DEF Bit
  <2> QED
    BY <1>2, <2>1, <2>2
<1>4. n = Bit(0) + 2 * Bit(1) + 4 * Bit(2) + 8 * Bit(3) + 16 * Bit(4) + 32 * Bit(5)
            + 64 * Bit(6) + 128 * Bit(7) + 256 * Bit(8) + 512 * Bit(9)
  <2> HIDE DEF Bit
  <2> QED
    BY <1>2, TenHalves
<1> HIDE DEF Bit, v
<1>5. v \subseteq 0..9
  BY <1>1, <1>3
<1>6. /\ Weight(v, 0) = Bit(0) /\ Weight(v, 1) = 2 * Bit(1) /\ Weight(v, 2) = 4 * Bit(2)
      /\ Weight(v, 3) = 8 * Bit(3) /\ Weight(v, 4) = 16 * Bit(4)
  BY <1>1, <1>3, Powers DEF Weight
<1>7. /\ Weight(v, 5) = 32 * Bit(5) /\ Weight(v, 6) = 64 * Bit(6)
      /\ Weight(v, 7) = 128 * Bit(7) /\ Weight(v, 8) = 256 * Bit(8)
      /\ Weight(v, 9) = 512 * Bit(9)
  BY <1>1, <1>3, Powers DEF Weight
<1>8. Number(v) = Weight(v, 0) + Weight(v, 1) + Weight(v, 2) + Weight(v, 3) + Weight(v, 4)
                    + Weight(v, 5) + Weight(v, 6) + Weight(v, 7) + Weight(v, 8) + Weight(v, 9)
  BY <1>5 DEF Number
<1>9. Number(v) = n
  BY <1>3, <1>4, <1>6, <1>7, <1>8
<1>10. v \in Bits(32)
  BY <1>5 DEF Bits
<1> QED
  BY <1>9, <1>10 DEF v
-----------------------------------------------------------------------------
(***************************************************************************)
(* Reading from the buffer.                                                *)
(***************************************************************************)
\* A buffer of these bytes, read so far.
At(raw, k) == [data |-> raw, writeIndex |-> Len(raw), readIndex |-> k, inside |-> TRUE]

\* The buffer after Set(), and after reading from it.
LEMMA LoadedAt == ASSUME NEW raw PROVE Loaded(raw) = At(raw, 0)
BY DEF Loaded, At

\* Skipping moves the place that is read next.
LEMMA SkippedAt == ASSUME NEW raw, NEW k, NEW n PROVE Skip(At(raw, k), n) = At(raw, k + n)
<1> DEFINE m == k + n
<1>1. Skip(At(raw, k), n) = [At(raw, k) EXCEPT !.readIndex = m]
  BY DEF Skip, At
<1> HIDE DEF m
<1> DEFINE a == At(raw, k)
           R == [data : {raw}, writeIndex : {Len(raw)}, readIndex : {k, m}, inside : {TRUE}]
<1>2. a \in R
  BY DEF At
<1>3. At(raw, m) \in R /\ At(raw, m).readIndex = m
  BY DEF At
<1> HIDE DEF a
<1>4. [a EXCEPT !.readIndex = m] \in R /\ [a EXCEPT !.readIndex = m].readIndex = m
  BY <1>2
<1>5. [a EXCEPT !.readIndex = m] = At(raw, m)
  BY <1>3, <1>4
<1> QED
  BY <1>1, <1>5 DEF m, a

\* These bytes are at this place.
Holds(raw, k, bytes) ==
    /\ k + Len(bytes) <= Len(raw)
    /\ \A i \in 1..Len(bytes) : raw[k + i] = bytes[i]

\* Bytes behind bytes are at places behind each other.
LEMMA HoldsBoth ==
    ASSUME NEW raw, NEW k \in Nat, NEW p \in Seq(Byte), NEW q \in Seq(Byte),
           Len(raw) \in Nat, Holds(raw, k, Joined(p, q))
    PROVE  Holds(raw, k, p) /\ Holds(raw, k + Len(p), q)
<1> DEFINE s == Joined(p, q)
           m == Len(p)
           n == Len(q)
<1>1. Len(s) = m + n
  BY JoinedBytes
<1>2. \A i \in 1..m : s[i] = p[i]
  BY JoinedBytes
<1>3. \A i \in 1..n : s[m + i] = q[i]
  BY JoinedBytes
<1>4. m \in Nat /\ n \in Nat
  BY LenProperties
<1>5. k + Len(s) <= Len(raw) /\ \A i \in 1..Len(s) : raw[k + i] = s[i]
  BY DEF Holds
<1> HIDE DEF s, m, n
<1>6. k + m <= Len(raw) /\ (k + m) + n <= Len(raw)
  BY <1>1, <1>4, <1>5
<1>7. \A i \in 1..m : raw[k + i] = p[i]
  <2>1. \A i \in 1..m : i \in 1..m + n
    BY <1>4
  <2> QED
    BY <1>1, <1>2, <1>5, <2>1
<1>8. ASSUME NEW i \in 1..n PROVE raw[(k + m) + i] = q[i]
  <2>1. m + i \in 1..m + n /\ (k + m) + i = k + (m + i)
    BY <1>4
  <2>2. raw[k + (m + i)] = s[m + i]
    BY <1>1, <1>5, <2>1
  <2> QED
    BY <1>3, <2>1, <2>2
<1> QED
  BY <1>6, <1>7, <1>8 DEF Holds, m, n

\* What is unread is what is there.
LEMMA UnreadHeld ==
    ASSUME NEW raw, NEW k \in Nat, NEW bytes \in Seq(Byte), Len(raw) \in Nat,
           Holds(raw, k, bytes)
    PROVE  Unread(At(raw, k), Len(bytes)) = bytes
<1> DEFINE n == Len(bytes)
           u == Unread(At(raw, k), n)
<1>1. n \in Nat /\ \A i \in 1..n : bytes[i] \in Byte
  BY LenProperties
<1>2. u = [i \in 1..n |-> IF k + i <= Len(raw) THEN raw[k + i] ELSE {}]
  BY DEF Unread, At
<1>3. k + n <= Len(raw) /\ \A i \in 1..n : raw[k + i] = bytes[i]
  BY DEF Holds
<1> HIDE DEF n, u
<1>4. \A i \in 1..n : k + i <= Len(raw)
  BY <1>1, <1>3
<1>5. \A i \in 1..n : u[i] = bytes[i]
  BY <1>2, <1>3, <1>4
<1>6. u \in [1..n -> Byte]
  BY <1>1, <1>2, <1>3, <1>4
<1>7. u \in Seq(Byte) /\ Len(u) = n
  BY <1>1, <1>6
<1>8. u = bytes
  BY <1>5, <1>7, SeqEqual DEF n
<1> QED
  BY <1>8 DEF u, n

\* An integer below 1024 is read as it was written.
LEMMA NumberRead ==
    ASSUME NEW raw, NEW k \in Nat, NEW n \in Nat, n <= 1023, Len(raw) \in Nat,
           Holds(raw, k, Encode(BitsOf(n), 4))
    PROVE  LengthAt(At(raw, k)) = n
<1> DEFINE bytes == Encode(BitsOf(n), 4)
<1>1. bytes \in Seq(Byte) /\ Len(bytes) = 4
  BY Encoded
<1> HIDE DEF bytes
<1>2. Unread(At(raw, k), Len(bytes)) = bytes
  BY <1>1, UnreadHeld DEF bytes
<1>3. LengthAt(At(raw, k)) = Number(DecodeUInt32(bytes))
  BY <1>1, <1>2 DEF LengthAt
<1>4. Number(BitsOf(n)) = n /\ BitsOf(n) \in Bits(32)
  <2>1. n \in 0..1023
    OBVIOUS
  <2> QED
    BY <2>1, NumberOfBits
<1>5. DecodeUInt32(bytes) = BitsOf(n)
  BY <1>4, RoundTrip32 DEF bytes
<1> QED
  BY <1>3, <1>4, <1>5

\* A buffer without room.
LEMMA NoRoom == [data |-> <<>>, writeIndex |-> 0, readIndex |-> 0, inside |-> TRUE] \in Buffers
<1>1. <<>> \in Seq(Byte) /\ Len(<<>>) = 0
  BY EmptySeq
<1> QED
  BY <1>1 DEF Buffers

\* The bytes of the lengths and of the strings of a list, and of a field.
LEMMA ListTypes ==
    ASSUME NEW list \in Seq(Seq(Byte))
    PROVE  /\ FoldLeft(JoinLength, <<>>, list) \in Seq(Byte)
           /\ Len(FoldLeft(JoinLength, <<>>, list)) = 4 * Len(list)
           /\ FoldLeft(Joined, <<>>, list) \in Seq(Byte)
<1>1. PICK buf \in Buffers : TRUE
  BY NoRoom
<1> QED
  BY LengthsWritten, StringsWritten DEF HasWritten

\* The bytes of a field are as many as its message was made for.
LEMMA FieldTypes ==
    ASSUME NEW field, IsValueOf(field.name, field.value)
    PROVE  /\ FieldBytes(field) \in Seq(Byte)
           /\ Len(FieldBytes(field)) = SizeGiven(field.name, field.value)
           /\ Len(FieldBytes(field)) \in Nat
<1>1. PICK buf \in Buffers : TRUE
  BY NoRoom
<1> QED
  BY FieldWritten DEF HasWritten

\* Every length of a list is at its place.
LEMMA LengthsHeld ==
    ASSUME NEW raw, NEW k \in Nat, NEW list \in Seq(Seq(Byte)), Len(raw) \in Nat,
           Holds(raw, k, FoldLeft(JoinLength, <<>>, list))
    PROVE  \A i \in 1..Len(list) : Holds(raw, k + 4 * (i - 1), LengthBytes(list[i]))
<1> DEFINE T == {p \in Seq(Seq(Byte)) :
                   Holds(raw, k, FoldLeft(JoinLength, <<>>, p)) =>
                      \A i \in 1..Len(p) : Holds(raw, k + 4 * (i - 1), LengthBytes(p[i]))}
<1>1. <<>> \in T
  <2>1. <<>> \in Seq(Seq(Byte)) /\ Len(<<>>) = 0
    BY EmptySeq
  <2> QED
    BY <2>1
<1>2. ASSUME NEW q \in Seq(Seq(Byte)), NEW e \in Seq(Byte), q \in T
      PROVE  Append(q, e) \in T
  <2> DEFINE r == Append(q, e)
             s == FoldLeft(JoinLength, <<>>, q)
             t == FoldLeft(JoinLength, <<>>, r)
             l == LengthBytes(e)
  <2>1. t = Joined(s, l)
    <3>1. t = Applied(JoinLength, s, e)
      BY FoldAppend
    <3> HIDE DEF s, t
    <3> QED
      BY <3>1 DEF Applied, JoinLength
  <2>2. s \in Seq(Byte) /\ Len(s) = 4 * Len(q)
    BY ListTypes
  <2>3. l \in Seq(Byte)
    BY Encoded DEF LengthBytes
  <2>4. /\ r \in Seq(Seq(Byte)) /\ Len(r) = Len(q) + 1 /\ Len(q) \in Nat
        /\ r[Len(q) + 1] = e /\ \A i \in 1..Len(q) : r[i] = q[i]
    BY AppendProperties, LenProperties
  <2>5. Holds(raw, k, s) => \A i \in 1..Len(q) : Holds(raw, k + 4 * (i - 1), LengthBytes(q[i]))
    BY <1>2
  <2> HIDE DEF r, s, t
  <2>6. ASSUME Holds(raw, k, t), NEW i \in 1..Len(r)
        PROVE  Holds(raw, k + 4 * (i - 1), LengthBytes(r[i]))
    <3>1. Holds(raw, k, s) /\ Holds(raw, k + Len(s), l)
      BY <2>1, <2>2, <2>3, <2>6, HoldsBoth
    <3>2. CASE i \in 1..Len(q)
      BY <2>4, <2>5, <3>1, <3>2
    <3>3. CASE i \notin 1..Len(q)
      <4>1. i = Len(q) + 1
        BY <2>4, <3>3
      <4>2. i - 1 = Len(q)
        BY <2>4, <4>1
      <4>3. 4 * (i - 1) = Len(s)
        BY <2>2, <4>2
      <4> QED
        BY <2>4, <3>1, <4>1, <4>3
    <3> QED
      BY <3>2, <3>3
  <2> QED
    BY <2>4, <2>6 DEF r, t
<1> HIDE DEF T
<1>3. Seq(Seq(Byte)) \subseteq T
  BY <1>1, <1>2, SeqSet
<1> QED
  BY <1>3 DEF T

\* The lengths of the strings of a list.
LengthsOf(list) == [i \in 1..Len(list) |-> Len(list[i])]

\* A longer list has one more of them.
LEMMA LengthsOfAppend ==
    ASSUME NEW list \in Seq(Seq(Byte)), NEW str \in Seq(Byte)
    PROVE  /\ LengthsOf(list) \in Seq(Nat)
           /\ LengthsOf(Append(list, str)) = Append(LengthsOf(list), Len(str))
<1> DEFINE n == Len(list)
           r == Append(list, str)
           p == LengthsOf(list)
           q == LengthsOf(r)
           e == Len(str)
<1>1. /\ n \in Nat /\ Len(r) = n + 1 /\ r[n + 1] = str /\ \A i \in 1..n : r[i] = list[i]
  BY AppendProperties, LenProperties
<1>2. \A i \in 1..n : Len(list[i]) \in Nat
  <2>1. \A i \in 1..n : list[i] \in Seq(Byte)
    BY LenProperties
  <2> QED
    BY <2>1, LenProperties
<1>3. e \in Nat
  BY LenProperties
<1>4. p = [i \in 1..n |-> Len(list[i])] /\ q = [i \in 1..n + 1 |-> Len(r[i])]
  BY <1>1 DEF LengthsOf
<1> HIDE DEF n, r, p, q, e
<1>5. p \in [1..n -> Nat] /\ \A i \in 1..n : p[i] = Len(list[i])
  BY <1>2, <1>4
<1>6. p \in Seq(Nat) /\ Len(p) = n
  BY <1>1, <1>5
<1>7. \A i \in 1..n : q[i] = p[i]
  <2>1. \A i \in 1..n : i \in 1..n + 1
    BY <1>1
  <2> QED
    BY <1>1, <1>4, <1>5, <2>1
<1>8. q[n + 1] = e
  <2>1. n + 1 \in 1..n + 1
    BY <1>1
  <2> QED
    BY <1>1, <1>4, <2>1 DEF e
<1>9. q \in [1..n + 1 -> Nat]
  <2>1. \A i \in 1..n + 1 : i \in 1..n \/ i = n + 1
    BY <1>1
  <2> QED
    BY <1>3, <1>4, <1>5, <1>7, <1>8, <2>1
<1>10. q \in Seq(Nat) /\ Len(q) = n + 1
  BY <1>1, <1>9
<1> DEFINE t == Append(p, e)
<1>11. /\ t \in Seq(Nat) /\ Len(t) = Len(p) + 1 /\ t[Len(p) + 1] = e
       /\ \A i \in 1..Len(p) : t[i] = p[i]
  BY <1>3, <1>6, AppendProperties
<1> HIDE DEF t
<1>12. \A i \in 1..n + 1 : q[i] = t[i]
  <2>1. \A i \in 1..n + 1 : i \in 1..n \/ i = n + 1
    BY <1>1
  <2> QED
    BY <1>6, <1>7, <1>8, <1>11, <2>1
<1>13. q = t
  <2>1. Len(q) = Len(t)
    BY <1>6, <1>10, <1>11
  <2>2. \A i \in 1..Len(q) : q[i] = t[i]
    BY <1>10, <1>12
  <2> QED
    BY <1>10, <1>11, <2>1, <2>2, SeqEqual
<1> QED
  BY <1>6, <1>13 DEF p, q, r, e, t

\* The strings of a list are read as they were written.
LEMMA StringsRead ==
    ASSUME NEW raw, NEW k \in Nat, NEW list \in Seq(Seq(Byte)), Len(raw) \in Nat,
           Holds(raw, k, FoldLeft(Joined, <<>>, list))
    PROVE  /\ FoldLeft(ReadNext, [value |-> <<>>, buf |-> At(raw, k)], LengthsOf(list))
                 = [value |-> list, buf |-> At(raw, k + Len(FoldLeft(Joined, <<>>, list)))]
           /\ \A i \in 1..Len(list) : Len(list[i]) <= Len(raw)
<1> DEFINE start == [value |-> <<>>, buf |-> At(raw, k)]
           bytes(p) == FoldLeft(Joined, <<>>, p)
           T == {p \in Seq(Seq(Byte)) :
                   Holds(raw, k, bytes(p)) =>
                      /\ FoldLeft(ReadNext, start, LengthsOf(p))
                            = [value |-> p, buf |-> At(raw, k + Len(bytes(p)))]
                      /\ \A i \in 1..Len(p) : Len(p[i]) <= Len(raw)}
<1>1. <<>> \in T
  <2>1. <<>> \in Seq(Seq(Byte)) /\ Len(<<>>) = 0
    BY EmptySeq
  <2>2. LengthsOf(<<>>) = <<>>
    BY <2>1 DEF LengthsOf
  <2>3. FoldLeft(ReadNext, start, <<>>) = start
    BY FoldEmpty
  <2>4. bytes(<<>>) = <<>>
    BY FoldEmpty
  <2>5. k + Len(<<>>) = k
    BY <2>1
  <2>6. FoldLeft(ReadNext, start, LengthsOf(<<>>))
           = [value |-> <<>>, buf |-> At(raw, k + Len(bytes(<<>>)))]
    BY <2>2, <2>3, <2>4, <2>5
  <2> QED
    BY <2>1, <2>6
<1>2. ASSUME NEW q \in Seq(Seq(Byte)), NEW e \in Seq(Byte), q \in T
      PROVE  Append(q, e) \in T
  <2> DEFINE r == Append(q, e)
             s == bytes(q)
             t == bytes(r)
             l == Len(e)
  <2>1. t = Joined(s, e)
    <3>1. t = Applied(Joined, s, e)
      BY FoldAppend
    <3> HIDE DEF s, t
    <3> QED
      BY <3>1 DEF Applied
  <2>2. s \in Seq(Byte) /\ Len(s) \in Nat /\ l \in Nat
    BY ListTypes, LenProperties
  <2>3. /\ r \in Seq(Seq(Byte)) /\ Len(r) = Len(q) + 1 /\ Len(q) \in Nat
        /\ r[Len(q) + 1] = e /\ \A i \in 1..Len(q) : r[i] = q[i]
    BY AppendProperties, LenProperties
  <2>4. Holds(raw, k, s) =>
           /\ FoldLeft(ReadNext, start, LengthsOf(q))
                 = [value |-> q, buf |-> At(raw, k + Len(s))]
           /\ \A i \in 1..Len(q) : Len(q[i]) <= Len(raw)
    BY <1>2
  <2>5. FoldLeft(ReadNext, start, LengthsOf(r))
           = Applied(ReadNext, FoldLeft(ReadNext, start, LengthsOf(q)), l)
    <3>1. LengthsOf(q) \in Seq(Nat) /\ LengthsOf(r) = Append(LengthsOf(q), l)
      BY LengthsOfAppend
    <3> HIDE DEF start, r, l
    <3> QED
      BY <2>2, <3>1, FoldAppend
  <2> HIDE DEF bytes, start, r, s, t
  <2>6. ASSUME Holds(raw, k, t)
        PROVE  /\ FoldLeft(ReadNext, start, LengthsOf(r))
                     = [value |-> r, buf |-> At(raw, k + Len(t))]
               /\ \A i \in 1..Len(r) : Len(r[i]) <= Len(raw)
    <3>1. Holds(raw, k, s) /\ Holds(raw, k + Len(s), e)
      BY <2>1, <2>2, <2>6, HoldsBoth
    <3>2. Len(t) = Len(s) + Len(e)
      BY <2>1, <2>2, JoinedBytes
    <3> DEFINE here == At(raw, k + Len(s))
               before == [value |-> q, buf |-> here]
    <3>3. Applied(ReadNext, before, l)
             = [value |-> Append(q, StringAt(here, l)), buf |-> Skip(here, l)]
      <4>1. before.value = q /\ before.buf = here
        OBVIOUS
      <4> HIDE DEF before, here
      <4> QED
        BY <4>1 DEF Applied, ReadNext
    <3>4. StringAt(here, l) = e
      <4>1. k + Len(s) \in Nat
        BY <2>2
      <4> QED
        BY <3>1, <4>1, UnreadHeld DEF StringAt
    <3>5. Skip(here, l) = At(raw, k + Len(t))
      <4>1. Skip(here, l) = At(raw, (k + Len(s)) + l)
        BY SkippedAt
      <4>2. (k + Len(s)) + l = k + Len(t)
        BY <2>2, <3>2
      <4> QED
        BY <4>1, <4>2
    <3>6. FoldLeft(ReadNext, start, LengthsOf(r))
             = [value |-> r, buf |-> At(raw, k + Len(t))]
      BY <2>4, <2>5, <3>1, <3>3, <3>4, <3>5 DEF r
    <3>7. l <= Len(raw)
      <4>1. (k + Len(s)) + l <= Len(raw)
        BY <3>1 DEF Holds
      <4> QED
        BY <2>2, <4>1
    <3>8. ASSUME NEW i \in 1..Len(r) PROVE Len(r[i]) <= Len(raw)
      <4>1. i \in 1..Len(q) \/ i = Len(q) + 1
        BY <2>3
      <4> QED
        BY <2>3, <2>4, <3>1, <3>7, <4>1
    <3> QED
      BY <3>6, <3>8
  <2> QED
    BY <2>3, <2>6 DEF r, t
<1> HIDE DEF T
<1>3. Seq(Seq(Byte)) \subseteq T
  BY <1>1, <1>2, SeqSet
<1> QED
  BY <1>3 DEF T

\* A decoder of 64 bits smears bit 31 over the upper half, see SignSmears64; the ids of the
\* users have to be smaller.
SmallUserIds == UserIds \subseteq SUBSET (0..30)

\* A field is read as it was written, and the index moves behind it.
LEMMA FieldRead ==
    ASSUME NEW raw, NEW k \in Nat, NEW field, IsValueOf(field.name, field.value), SmallUserIds,
           Len(raw) \in Nat, Len(raw) <= 1023, Holds(raw, k, FieldBytes(field))
    PROVE  ReadField(At(raw, k), field.name)
              = {[value |-> field.value, buf |-> At(raw, k + Len(FieldBytes(field)))]}
<1> DEFINE name == field.name
           value == field.value
           bytes == FieldBytes(field)
           Right == {[value |-> value, buf |-> At(raw, k + Len(bytes))]}
<1>1. Len(raw) \in Nat /\ Len(raw) <= 1023
  OBVIOUS
<1>2. CASE name \in DOMAIN IntSize
  <2> DEFINE size == IntSize[name]
  <2>1. /\ name \in {"status", "reason", "userId"}
        /\ name = "status" => size = 2
        /\ name = "reason" => size = 2
        /\ name = "userId" => size = 8
    BY <1>2 DEF IntSize
  <2>2. size \in {2, 8}
    BY <2>1
  <2>3. bytes = Encode(value, size)
    BY <1>2 DEF FieldBytes
  <2>4. ReadField(At(raw, k), name) = ReadInt(At(raw, k), size)
    BY <1>2 DEF ReadField
  <2>5. /\ size = 2 => value \in Bits(16)
        /\ size = 8 => value \in SUBSET (0..30)
    <3>1. SUCCESS \in Bits(16) /\ FAILURE \in Bits(16)
      BY DEF SUCCESS, FAILURE, BitsOf, Bits
    <3>2. Reasons \subseteq Bits(16)
      BY StreamAssumption
    <3>3. /\ name = "status" => value \in {SUCCESS, FAILURE}
          /\ name = "reason" => value \in Reasons
          /\ name = "userId" => value \in UserIds
      BY DEF IsValueOf
    <3>4. UserIds \subseteq SUBSET (0..30)
      BY DEF SmallUserIds
    <3> HIDE DEF name, value, size
    <3>5. CASE name = "status"
      BY <2>1, <3>1, <3>3, <3>5
    <3>6. CASE name = "reason"
      BY <2>1, <3>2, <3>3, <3>6
    <3>7. CASE name = "userId"
      <4>1. size = 8 /\ ~(size = 2)
        BY <2>1, <3>7
      <4>2. value \in SUBSET (0..30)
        BY ONLY <3>3, <3>4, <3>7
      <4> QED
        BY ONLY <4>1, <4>2, Zenon
    <3> QED
      BY <2>1, <3>5, <3>6, <3>7
  <2> HIDE DEF name, value, size, bytes
  <2>6. size \in Nat
    BY <2>2
  <2>7. bytes \in Seq(Byte) /\ Len(bytes) = size
    BY <2>3, <2>6, Encoded
  <2>8. Unread(At(raw, k), size) = bytes
    <3>1. Unread(At(raw, k), Len(bytes)) = bytes
      BY <1>1, <2>7, UnreadHeld DEF bytes
    <3> QED
      BY <2>7, <3>1
  <2>9. UIntsAt(At(raw, k), size) = {value}
    <3>1. UIntsAt(At(raw, k), size) = Decodings(bytes, size)
      BY <2>8 DEF UIntsAt
    <3>2. CASE size = 2
      <4>1. DecodeUInt16(bytes) = value
        BY <2>3, <2>5, <3>2, RoundTrip16
      <4> QED
        BY <3>1, <3>2, <4>1 DEF Decodings
    <3>3. CASE size = 8
      <4>1. \A w \in BOOLEAN : DecodeUInt64(bytes, w) = value
        BY <2>3, <2>5, <3>3, RoundTrip64
      <4>2. Decodings(bytes, size) = {DecodeUInt64(bytes, w) : w \in BOOLEAN}
        BY <3>3 DEF Decodings
      <4> QED
        BY <3>1, <4>1, <4>2
    <3> QED
      BY <2>2, <3>2, <3>3
  <2>10. ReadInt(At(raw, k), size) = {[value |-> value, buf |-> Skip(At(raw, k), size)]}
    BY <2>9 DEF ReadInt
  <2>11. Skip(At(raw, k), size) = At(raw, k + Len(bytes))
    BY <2>7, SkippedAt
  <2> QED
    BY <2>4, <2>10, <2>11 DEF name, value, bytes
<1>3. CASE name \notin DOMAIN IntSize /\ name \in Lists
  <2> DEFINE first == LengthBytes(value)
             lengths == FoldLeft(JoinLength, <<>>, value)
             strings == FoldLeft(Joined, <<>>, value)
             m == Len(value)
             at == k + 4
             behind == at + 4 * m
  <2>1. value \in Seq(Seq(Byte))
    BY <1>3 DEF IsValueOf
  <2>2. bytes = Joined(Joined(first, lengths), strings)
    BY <1>3 DEF FieldBytes, ListBytes
  <2>3. ReadField(At(raw, k), name) = {ReadList(At(raw, k))}
    BY <1>3 DEF ReadField
  <2>4. first \in Seq(Byte) /\ Len(first) = 4
    BY Encoded DEF LengthBytes
  <2>5. Holds(raw, k, bytes)
    OBVIOUS
  <2> HIDE DEF name, value, bytes, first
  <2>6. lengths \in Seq(Byte) /\ Len(lengths) = 4 * m /\ strings \in Seq(Byte)
    BY <2>1, ListTypes
  <2>7. m \in Nat /\ Len(strings) \in Nat
    BY <2>1, <2>6, LenProperties
  <2> HIDE DEF lengths, strings, m
  <2> DEFINE both == Joined(first, lengths)
  <2>8. both \in Seq(Byte) /\ Len(both) = Len(first) + Len(lengths)
    BY <2>4, <2>6, JoinedBytes
  <2> HIDE DEF both
  <2>9. Holds(raw, k, both) /\ Holds(raw, k + Len(both), strings)
    BY <1>1, <2>2, <2>5, <2>6, <2>8, HoldsBoth DEF both
  <2>10. Holds(raw, k, first) /\ Holds(raw, k + Len(first), lengths)
    BY <1>1, <2>4, <2>6, <2>9, HoldsBoth DEF both
  <2>11. k + Len(both) = behind /\ k + Len(first) = at
    BY <2>4, <2>6, <2>7, <2>8
  <2>12. Len(bytes) = Len(both) + Len(strings)
    BY <2>2, <2>6, <2>8, JoinedBytes DEF both
  <2>13. m <= 1023
    <3>1. at + Len(lengths) <= Len(raw)
      BY <2>10, <2>11 DEF Holds
    <3> QED
      BY <1>1, <2>6, <2>7, <3>1
  <2>14. LengthAt(At(raw, k)) = m
    BY <1>1, <2>7, <2>10, <2>13, NumberRead DEF first, LengthBytes, m
  <2>15. behind \in Nat /\ at \in Nat
    BY <2>7
  <2> HIDE DEF behind
  <2>16. /\ FoldLeft(ReadNext, [value |-> <<>>, buf |-> At(raw, behind)], LengthsOf(value))
               = [value |-> value, buf |-> At(raw, behind + Len(strings))]
         /\ \A i \in 1..m : Len(value[i]) <= Len(raw)
    BY <1>1, <2>1, <2>9, <2>11, <2>15, StringsRead DEF strings, m
  <2>17. \A i \in 1..m : Holds(raw, at + 4 * (i - 1), LengthBytes(value[i]))
    BY <1>1, <2>1, <2>10, <2>11, <2>15, LengthsHeld DEF lengths, m
  <2>18. \A i \in 1..m : LengthAt(Skip(At(raw, k), 4 * i)) = Len(value[i])
    <3> SUFFICES ASSUME NEW i \in 1..m
                 PROVE  LengthAt(Skip(At(raw, k), 4 * i)) = Len(value[i])
      OBVIOUS
    <3> DEFINE here == at + 4 * (i - 1)
               n == Len(value[i])
    <3>1. Skip(At(raw, k), 4 * i) = At(raw, k + 4 * i)
      BY SkippedAt
    <3>2. k + 4 * i = here /\ here \in Nat
      BY <2>7
    <3>3. n \in Nat /\ n <= 1023
      <4>1. value[i] \in Seq(Byte)
        BY <2>1, LenProperties DEF m
      <4>2. n \in Nat
        BY <4>1, LenProperties
      <4>3. n <= Len(raw)
        BY <2>16
      <4> HIDE DEF n
      <4> QED
        BY <1>1, <4>2, <4>3
    <3>4. Holds(raw, here, Encode(BitsOf(n), 4))
      BY <2>17 DEF LengthBytes
    <3> HIDE DEF here, n, at
    <3>5. LengthAt(At(raw, here)) = n
      BY <1>1, <3>2, <3>3, <3>4, NumberRead
    <3> QED
      BY <3>1, <3>2, <3>5 DEF n
  <2>19. [i \in 1..m |-> LengthAt(Skip(At(raw, k), 4 * i))] = LengthsOf(value)
    BY <2>18 DEF LengthsOf, m
  <2>20. Skip(At(raw, k), 4 * (m + 1)) = At(raw, behind)
    <3>1. Skip(At(raw, k), 4 * (m + 1)) = At(raw, k + 4 * (m + 1))
      BY SkippedAt
    <3>2. k + 4 * (m + 1) = behind
      BY <2>7 DEF behind
    <3> QED
      BY <3>1, <3>2
  <2>21. ReadList(At(raw, k)) = [value |-> value, buf |-> At(raw, behind + Len(strings))]
    <3>1. ReadList(At(raw, k))
             = FoldLeft(ReadNext,
                        [value |-> <<>>, buf |-> Skip(At(raw, k), 4 * (m + 1))],
                        [i \in 1..m |-> LengthAt(Skip(At(raw, k), 4 * i))])
      BY <2>14 DEF ReadList
    <3> QED
      BY <2>16, <2>19, <2>20, <3>1
  <2>22. behind + Len(strings) = k + Len(bytes)
    BY <2>7, <2>4, <2>6, <2>8, <2>12 DEF behind
  <2> QED
    BY <2>3, <2>21, <2>22 DEF name, value, bytes
<1>4. CASE name \notin DOMAIN IntSize /\ name \notin Lists
  <2> DEFINE first == LengthBytes(value)
             n == Len(value)
  <2>1. value \in Seq(Byte)
    BY <1>4 DEF IsValueOf
  <2>2. bytes = Joined(first, value)
    BY <1>4 DEF FieldBytes
  <2>3. ReadField(At(raw, k), name) = {ReadText(At(raw, k))}
    BY <1>4 DEF ReadField
  <2>4. first \in Seq(Byte) /\ Len(first) = 4
    BY Encoded DEF LengthBytes
  <2>5. Holds(raw, k, bytes)
    OBVIOUS
  <2> HIDE DEF name, value, bytes, first
  <2>6. n \in Nat
    BY <2>1, LenProperties
  <2>7. Holds(raw, k, first) /\ Holds(raw, k + Len(first), value)
    BY <1>1, <2>1, <2>2, <2>4, <2>5, HoldsBoth
  <2>8. Len(bytes) = Len(first) + n
    BY <2>1, <2>2, <2>4, JoinedBytes
  <2> HIDE DEF n
  <2>9. Holds(raw, k + 4, value) /\ k + 4 \in Nat
    BY <2>4, <2>7
  <2>10. n <= 1023
    <3>1. (k + 4) + n <= Len(raw)
      BY <2>9 DEF Holds, n
    <3> QED
      BY <1>1, <2>6, <3>1
  <2>11. LengthAt(At(raw, k)) = n
    BY <1>1, <2>6, <2>7, <2>10, NumberRead DEF first, LengthBytes, n
  <2>12. Skip(At(raw, k), 4) = At(raw, k + 4)
    BY SkippedAt
  <2>13. StringAt(At(raw, k + 4), n) = value
    BY <1>1, <2>1, <2>9, UnreadHeld DEF StringAt, n
  <2>14. Skip(At(raw, k + 4), n) = At(raw, k + Len(bytes))
    <3>1. Skip(At(raw, k + 4), n) = At(raw, (k + 4) + n)
      BY SkippedAt
    <3>2. (k + 4) + n = k + Len(bytes)
      BY <2>4, <2>6, <2>8
    <3> QED
      BY <3>1, <3>2
  <2>15. ReadText(At(raw, k)) = [value |-> value, buf |-> At(raw, k + Len(bytes))]
    BY <2>11, <2>12, <2>13, <2>14 DEF ReadText
  <2> QED
    BY <2>3, <2>15 DEF name, value, bytes
<1> QED
  BY <1>2, <1>3, <1>4
-----------------------------------------------------------------------------
(***************************************************************************)
(* Handling a whole packet.                                                *)
(***************************************************************************)
\* What has been read: these fields of the message, up to this place.
HasRead(r, msg, names, raw, k) ==
    /\ DOMAIN r.values = names
    /\ \A f \in names : r.values[f] = msg.values[f]
    /\ r.buf = At(raw, k)

\* One field more.
LEMMA OneMoreRead ==
    ASSUME NEW raw, NEW k \in Nat, NEW msg, NEW names, NEW f, NEW r,
           HasRead(r, msg, names, raw, k), GoesOn(r), IsValueOf(f, msg.values[f]),
           Holds(raw, k, FieldBytes(FieldOf(msg, f))),
           SmallUserIds, Len(raw) \in Nat, Len(raw) <= 1023
    PROVE  \E s : /\ ReadFurther({r}, f) = {s}
                  /\ HasRead(s, msg, names \cup {f}, raw, k + Len(FieldBytes(FieldOf(msg, f))))
<1> DEFINE F == FieldOf(msg, f)
           v == msg.values[f]
           b == At(raw, k + Len(FieldBytes(F)))
           known == WithField(r.values, f, v)
           s == [values |-> known, buf |-> b]
           read == [value |-> v, buf |-> b]
<1>1. F.name = f /\ F.value = v
  BY DEF FieldOf
<1> HIDE DEF F, v
<1>2. ReadField(r.buf, f) = {read}
  <2>1. ReadField(At(raw, k), f) = {read}
    BY <1>1, FieldRead DEF v, F
  <2> QED
    BY <2>1 DEF HasRead
<1> HIDE DEF b
<1>3. read.value = v /\ read.buf = b
  OBVIOUS
<1> HIDE DEF read
<1>4. ReadFurther({r}, f) = {[values |-> WithField(r.values, f, read.value), buf |-> read.buf]}
  BY <1>2 DEF ReadFurther
<1>5. ReadFurther({r}, f) = {s}
  BY <1>3, <1>4
<1>6. /\ DOMAIN known = names \cup {f}
      /\ \A x \in names \cup {f} : known[x] = msg.values[x]
  BY DEF HasRead, v, WithField
<1>7. s.values = known /\ s.buf = b
  OBVIOUS
<1> HIDE DEF known, s
<1>8. HasRead(s, msg, names \cup {f}, raw, k + Len(FieldBytes(F)))
  BY <1>6, <1>7 DEF HasRead, b
<1> QED
  BY <1>5, <1>8 DEF F

\* What is left unread, after a failure.
LEMMA NoMoreRead ==
    ASSUME NEW r, NEW f, ~GoesOn(r)
    PROVE  ReadFurther({r}, f) = {r}
BY DEF ReadFurther

\* What is read of a message is what was sent.
ReadsRight(r, msg) ==
    \A f \in DOMAIN msg.values :
       IF f \in DOMAIN r.values THEN r.values[f] = msg.values[f]
       ELSE msg.values.status = FAILURE

\* A packet of two fields.
LEMMA TwoRead ==
    ASSUME NEW raw, NEW msg, NEW f, NEW g, HasTwo(msg, f, g), Holds(raw, 0, PacketBytes(msg)),
           SmallUserIds, Len(raw) \in Nat, Len(raw) <= 1023,
           NEW r \in ReadFields(At(raw, 8), <<f, g>>)
    PROVE  ReadsRight(r, msg)
<1> DEFINE h == HeaderBytes(msg)
           F == FieldBytes(FieldOf(msg, f))
           G == FieldBytes(FieldOf(msg, g))
           start == [values |-> <<>>, buf |-> At(raw, 8)]
<1>1. h \in Seq(Byte) /\ Len(h) = 8
  BY HeaderSize
<1>2. F \in Seq(Byte) /\ G \in Seq(Byte) /\ Len(F) \in Nat /\ Len(G) \in Nat
  BY FieldTypes DEF HasTwo, FieldOf
<1>3. IsValueOf(f, msg.values[f]) /\ IsValueOf(g, msg.values[g]) /\ DOMAIN msg.values = {f, g}
      /\ "status" \notin {f, g}
  BY DEF HasTwo
<1>4. PacketBytes(msg) = Joined(Joined(h, F), G)
  BY TwoBytes
<1> HIDE DEF h, F, G
<1>5. Joined(h, F) \in Seq(Byte) /\ Len(Joined(h, F)) = Len(h) + Len(F)
  BY <1>1, <1>2, JoinedBytes
<1>6. 0 + Len(Joined(h, F)) = 8 + Len(F) /\ 0 + Len(h) = 8 /\ 8 + Len(F) \in Nat
  BY <1>1, <1>2, <1>5
<1>7. Holds(raw, 0, Joined(h, F)) /\ Holds(raw, 0 + Len(Joined(h, F)), G)
  BY <1>2, <1>4, <1>5, HoldsBoth
<1>8. Holds(raw, 0 + Len(h), F)
  BY <1>1, <1>2, <1>7, HoldsBoth
<1>9. Holds(raw, 8, F) /\ Holds(raw, 8 + Len(F), G)
  BY <1>6, <1>7, <1>8
<1>10. HasRead(start, msg, {}, raw, 8) /\ GoesOn(start)
  <2>1. DOMAIN <<>> = {}
    OBVIOUS
  <2> QED
    BY <2>1 DEF HasRead, GoesOn
<1> HIDE DEF start
<1>11. PICK s : ReadFurther({start}, f) = {s} /\ HasRead(s, msg, {} \cup {f}, raw, 8 + Len(F))
  BY <1>3, <1>9, <1>10, OneMoreRead DEF F
<1>12. GoesOn(s)
  BY <1>3, <1>11 DEF GoesOn, HasRead
<1>13. PICK t : /\ ReadFurther({s}, g) = {t}
                /\ HasRead(t, msg, ({} \cup {f}) \cup {g}, raw, (8 + Len(F)) + Len(G))
  BY <1>3, <1>6, <1>9, <1>11, <1>12, OneMoreRead DEF G
<1>14. ReadFields(At(raw, 8), <<f, g>>) = ReadFurther(ReadFurther({start}, f), g)
  <2>1. ReadFields(At(raw, 8), <<f, g>>) = FoldLeft(ReadFurther, {start}, <<f, g>>)
    BY DEF ReadFields, start
  <2>2. FoldLeft(ReadFurther, {start}, <<f, g>>)
           = Applied(ReadFurther, Applied(ReadFurther, {start}, f), g)
    BY FoldTwo
  <2> QED
    BY <2>1, <2>2 DEF Applied
<1>15. r = t
  BY <1>11, <1>13, <1>14
<1> QED
  BY <1>3, <1>13, <1>15 DEF ReadsRight, HasRead

\* A packet of three fields, of which the first may be a status.
LEMMA ThreeRead ==
    ASSUME NEW raw, NEW msg, NEW f, NEW g, NEW h, HasThree(msg, f, g, h),
           Holds(raw, 0, PacketBytes(msg)),
           SmallUserIds, Len(raw) \in Nat, Len(raw) <= 1023,
           NEW r \in ReadFields(At(raw, 8), <<f, g, h>>)
    PROVE  ReadsRight(r, msg)
<1> DEFINE header == HeaderBytes(msg)
           F == FieldBytes(FieldOf(msg, f))
           G == FieldBytes(FieldOf(msg, g))
           H == FieldBytes(FieldOf(msg, h))
           start == [values |-> <<>>, buf |-> At(raw, 8)]
           n == 8 + Len(F)
           m == n + Len(G)
<1>1. header \in Seq(Byte) /\ Len(header) = 8
  BY HeaderSize
<1>2. /\ F \in Seq(Byte) /\ G \in Seq(Byte) /\ H \in Seq(Byte)
      /\ Len(F) \in Nat /\ Len(G) \in Nat /\ Len(H) \in Nat
  BY FieldTypes DEF HasThree, FieldOf
<1>3. /\ IsValueOf(f, msg.values[f]) /\ IsValueOf(g, msg.values[g])
      /\ IsValueOf(h, msg.values[h]) /\ DOMAIN msg.values = {f, g, h}
      /\ "status" \notin {g, h}
  BY DEF HasThree
<1>4. PacketBytes(msg) = Joined(Joined(Joined(header, F), G), H)
  BY ThreeBytes
<1> HIDE DEF header, F, G, H
<1> DEFINE p == Joined(header, F)
           q == Joined(p, G)
<1>5. p \in Seq(Byte) /\ Len(p) = Len(header) + Len(F)
  BY <1>1, <1>2, JoinedBytes
<1> HIDE DEF p
<1>6. q \in Seq(Byte) /\ Len(q) = Len(p) + Len(G)
  BY <1>2, <1>5, JoinedBytes
<1> HIDE DEF q
<1>7. 0 + Len(q) = m /\ 0 + Len(p) = n /\ 0 + Len(header) = 8 /\ n \in Nat /\ m \in Nat
  BY <1>1, <1>2, <1>5, <1>6
<1>8. Holds(raw, 0, q) /\ Holds(raw, 0 + Len(q), H)
  BY <1>2, <1>4, <1>6, HoldsBoth DEF p, q
<1>9. Holds(raw, 0, p) /\ Holds(raw, 0 + Len(p), G)
  BY <1>2, <1>5, <1>8, HoldsBoth DEF q
<1>10. Holds(raw, 0 + Len(header), F)
  BY <1>1, <1>2, <1>9, HoldsBoth DEF p
<1>11. Holds(raw, 8, F) /\ Holds(raw, n, G) /\ Holds(raw, m, H)
  BY <1>7, <1>8, <1>9, <1>10
<1> HIDE DEF m, n
<1>12. HasRead(start, msg, {}, raw, 8) /\ GoesOn(start)
  <2>1. DOMAIN <<>> = {}
    OBVIOUS
  <2> QED
    BY <2>1 DEF HasRead, GoesOn
<1> HIDE DEF start
<1>13. PICK s : ReadFurther({start}, f) = {s} /\ HasRead(s, msg, {} \cup {f}, raw, n)
  BY <1>3, <1>11, <1>12, OneMoreRead DEF F, n
<1>14. ReadFields(At(raw, 8), <<f, g, h>>)
          = ReadFurther(ReadFurther(ReadFurther({start}, f), g), h)
  <2>1. ReadFields(At(raw, 8), <<f, g, h>>) = FoldLeft(ReadFurther, {start}, <<f, g, h>>)
    BY DEF ReadFields, start
  <2>2. FoldLeft(ReadFurther, {start}, <<f, g, h>>)
           = Applied(ReadFurther, Applied(ReadFurther, Applied(ReadFurther, {start}, f), g), h)
    BY FoldThree
  <2> QED
    BY <2>1, <2>2 DEF Applied
<1>15. CASE GoesOn(s)
  <2>1. PICK t : ReadFurther({s}, g) = {t} /\ HasRead(t, msg, ({} \cup {f}) \cup {g}, raw, m)
    BY <1>3, <1>7, <1>11, <1>13, <1>15, OneMoreRead DEF G, m
  <2>2. GoesOn(t)
    BY <1>3, <1>13, <1>15, <2>1 DEF GoesOn, HasRead
  <2>3. PICK u : /\ ReadFurther({t}, h) = {u}
                 /\ HasRead(u, msg, (({} \cup {f}) \cup {g}) \cup {h}, raw, m + Len(H))
    BY <1>3, <1>7, <1>11, <2>1, <2>2, OneMoreRead DEF H
  <2>4. r = u
    BY <1>13, <1>14, <2>1, <2>3
  <2> QED
    BY <1>3, <2>3, <2>4 DEF ReadsRight, HasRead
<1>16. CASE ~GoesOn(s)
  <2>1. r = s
    BY <1>13, <1>14, <1>16, NoMoreRead
  <2>2. f = "status" /\ msg.values.status = FAILURE
    <3>1. "status" \in {f} /\ s.values.status # SUCCESS
      BY <1>13, <1>16 DEF GoesOn, HasRead
    <3>2. s.values[f] = msg.values[f]
      BY <1>13 DEF HasRead
    <3>3. msg.values[f] \in {SUCCESS, FAILURE}
      BY <1>3, <3>1 DEF IsValueOf
    <3> QED
      BY <3>1, <3>2, <3>3
  <2> QED
    BY <1>13, <2>1, <2>2 DEF ReadsRight, HasRead
<1> QED
  BY <1>15, <1>16
-----------------------------------------------------------------------------
(***************************************************************************)
(* The stream under the steps of the link.                                 *)
(***************************************************************************)
\* A packet begins with its header.
LEMMA HeaderFirst ==
    ASSUME NEW kind \in Links, NEW msg \in Messages(kind)
    PROVE  /\ PacketBytes(msg) \in Seq(Byte) /\ Len(PacketBytes(msg)) = PacketSize(msg)
           /\ PacketSize(msg) \in Nat /\ PacketSize(msg) >= 8
           /\ \A i \in 1..8 : PacketBytes(msg)[i] = HeaderBytes(msg)[i]
<1> DEFINE h == HeaderBytes(msg)
           b == PacketBytes(msg)
<1>1. h \in Seq(Byte) /\ Len(h) = 8
  BY HeaderSize
<1>2. b \in Seq(Byte) /\ Len(b) = PacketSize(msg)
  <2>1. PICK buf \in Buffers : TRUE
    BY NoRoom
  <2> QED
    BY <2>1, MessagesRight DEF IsRight
<1>3. \E p \in Seq(Byte), q \in Seq(Byte), r \in Seq(Byte) :
         b = Joined(Joined(Joined(h, p), q), r)
  <2>1. kind \in {"C2S", "S2C", "S2A", "A2S"}
    BY StreamAssumption
  <2>2. <<>> \in Seq(Byte) /\ \A s \in Seq(Byte) : Joined(s, <<>>) = s
    BY DEF Joined
  <2>3. CASE msg \in ClientMessages \/ msg \in ServerMessages
    <3>1. HasFields(msg)
      BY <2>3, ClientMessagesHaveFields, ServerMessagesHaveFields
    <3>2. ASSUME NEW f, NEW g, HasTwo(msg, f, g)
          PROVE  \E p \in Seq(Byte), q \in Seq(Byte) : b = Joined(Joined(h, p), q)
      <4>1. FieldBytes(FieldOf(msg, f)) \in Seq(Byte) /\ FieldBytes(FieldOf(msg, g)) \in Seq(Byte)
        BY <3>2, FieldTypes DEF HasTwo, FieldOf
      <4> QED
        BY <3>2, <4>1, TwoBytes
    <3>3. ASSUME NEW f, NEW g, NEW k, HasThree(msg, f, g, k)
          PROVE  \E p \in Seq(Byte), q \in Seq(Byte), r \in Seq(Byte) :
                    b = Joined(Joined(Joined(h, p), q), r)
      <4>1. /\ FieldBytes(FieldOf(msg, f)) \in Seq(Byte)
            /\ FieldBytes(FieldOf(msg, g)) \in Seq(Byte)
            /\ FieldBytes(FieldOf(msg, k)) \in Seq(Byte)
        BY <3>3, FieldTypes DEF HasThree, FieldOf
      <4> QED
        BY <3>3, <4>1, ThreeBytes
    <3> HIDE DEF h, b
    <3>4. ASSUME NEW p \in Seq(Byte), NEW q \in Seq(Byte), b = Joined(Joined(h, p), q)
          PROVE  \E u \in Seq(Byte), v \in Seq(Byte), w \in Seq(Byte) :
                    b = Joined(Joined(Joined(h, u), v), w)
      <4>1. b = Joined(Joined(Joined(h, p), q), <<>>)
        BY <1>2, <2>2, <3>4
      <4> QED
        BY <2>2, <4>1
    <3> QED
      BY <3>1, <3>2, <3>3, <3>4 DEF HasFields
  <2>4. CASE msg \in WebRequests \/ msg \in WebAnswers
    <3> DEFINE s == SerializeWeb(WebClass[msg.type], msg.values)
    <3>1. IsWeb(msg.type) /\ s \in Seq(Byte)
      BY <2>4, WebRequestWritten, WebAnswerWritten
    <3>2. b = Joined(h, s)
      BY <3>1 DEF PacketBytes
    <3> HIDE DEF h, b, s
    <3>3. b = Joined(Joined(Joined(h, s), <<>>), <<>>)
      BY <1>2, <2>2, <3>2
    <3> QED
      BY <2>2, <3>1, <3>3
  <2> QED
    BY <2>1, <2>3, <2>4 DEF Messages
<1> HIDE DEF h, b
<1>4. PICK p \in Seq(Byte), q \in Seq(Byte), r \in Seq(Byte) :
         b = Joined(Joined(Joined(h, p), q), r)
  BY <1>3
<1> DEFINE s == Joined(h, p)
           t == Joined(s, q)
<1>5. /\ s \in Seq(Byte) /\ Len(s) = Len(h) + Len(p)
      /\ \A i \in 1..Len(h) : s[i] = h[i]
  BY <1>1, JoinedBytes
<1> HIDE DEF s
<1>6. /\ t \in Seq(Byte) /\ Len(t) = Len(s) + Len(q)
      /\ \A i \in 1..Len(s) : t[i] = s[i]
  BY <1>5, JoinedBytes
<1>7. b = Joined(t, r)
  BY <1>4 DEF s
<1> HIDE DEF t
<1>8. /\ Len(b) = Len(t) + Len(r)
      /\ \A i \in 1..Len(t) : b[i] = t[i]
  BY <1>6, <1>7, JoinedBytes
<1>9. Len(p) \in Nat /\ Len(q) \in Nat /\ Len(r) \in Nat
  OBVIOUS
<1>10. /\ Len(b) \in Nat /\ Len(b) >= 8
       /\ \A i \in 1..8 : i \in 1..Len(h) /\ i \in 1..Len(s) /\ i \in 1..Len(t)
  <2> DEFINE lh == Len(h)
             ls == Len(s)
             lt == Len(t)
             lb == Len(b)
             lp == Len(p)
             lq == Len(q)
             lr == Len(r)
  <2>1. lh = 8 /\ ls = lh + lp /\ lt = ls + lq /\ lb = lt + lr
    BY <1>1, <1>5, <1>6, <1>8
  <2>2. lp \in Nat /\ lq \in Nat /\ lr \in Nat
    BY <1>9
  <2> HIDE DEF lh, ls, lt, lb, lp, lq, lr
  <2>3. /\ lb \in Nat /\ lb >= 8
        /\ \A i \in 1..8 : i \in 1..lh /\ i \in 1..ls /\ i \in 1..lt
    BY <2>1, <2>2
  <2> QED
    BY <2>3 DEF lh, ls, lt, lb
<1>11. \A i \in 1..8 : b[i] = h[i]
  BY <1>5, <1>6, <1>8, <1>10
<1> QED
  BY <1>2, <1>10, <1>11 DEF b, h

\* The bytes that were sent and not received are those of whole packets, but for the first.
FlightInv == InFlight(link, flight)

\* Nothing is in flight at first.
LEMMA FlightStart == ASSUME Init PROVE FlightInv
<1>1. flight = <<>>
  BY DEF Init
<1>2. <<>> \in Seq(Parts(link)) /\ Len(<<>>) = 0
  OBVIOUS
<1> QED
  BY <1>1, <1>2 DEF FlightInv, InFlight

\* Send() adds a packet behind the others, recv() takes bytes from the front.
LEMMA FlightStep ==
    ASSUME BufferInv, FlightInv, WritesFit, [Next]_vars
    PROVE  FlightInv'
<1>1. ASSUME NEW msg \in Messages(link), Send(msg) PROVE FlightInv'
  <2> DEFINE n == PacketSize(msg)
             p == [i \in 1..n |-> [msg |-> msg, at |-> i, byte |-> sendBuf'.data[i]]]
  <2>1. link \in Links /\ sendBuf \in Buffers /\ Len(sendBuf.data) >= RecvSize
    BY DEF BufferInv
  <2>2. sendBuf' = Serialized(sendBuf, msg) /\ flight' = Joined(flight, p) /\ link' = link
    BY <1>1 DEF Send, Joined
  <2>3. IsRight(sendBuf, msg) /\ Serialized(sendBuf, msg).inside
    BY <2>1, MessagesRight, MessagesInside
  <2>4. \A i \in 1..n : sendBuf'.data[i] = PacketBytes(msg)[i]
    BY <2>2, <2>3 DEF IsRight
  <2>5. PacketBytes(msg) \in Seq(Byte) /\ Len(PacketBytes(msg)) = n /\ n \in Nat /\ n >= 8
    BY <2>1, HeaderFirst
  <2>6. InFlight(link, p)
    BY <2>1, <2>4, <2>5, PacketInFlight
  <2>7. Len(p) = n /\ p[1].at = 1
    BY <2>5
  <2> HIDE DEF n, p
  <2>8. InFlight(link, flight \o p)
    BY <2>5, <2>6, <2>7, PacketFollows DEF FlightInv
  <2> QED
    BY <2>2, <2>8 DEF FlightInv, Joined
<1>2. ASSUME NEW n \in 1..RecvSize, Recv(n) PROVE FlightInv'
  <2>1. flight' = SubSeq(flight, n + 1, Len(flight)) /\ n <= Len(flight) /\ link' = link
    BY <1>2 DEF Recv
  <2>2. Len(flight) \in Nat
    BY DEF FlightInv, InFlight
  <2>3. n \in 1..Len(flight)
    BY <2>1, <2>2
  <2>4. InFlight(link, SubSeq(flight, n + 1, Len(flight)))
    BY <2>3, RestInFlight DEF FlightInv
  <2> QED
    BY <2>1, <2>4 DEF FlightInv
<1>3. CASE \E msg \in Messages(link) : Send(msg)
  BY <1>1, <1>3
<1>4. CASE \E n \in 1..RecvSize : Recv(n)
  BY <1>2, <1>4
<1>5. CASE UNCHANGED vars
  BY <1>5 DEF vars, FlightInv
<1> QED
  BY <1>3, <1>4, <1>5 DEF Next
-----------------------------------------------------------------------------
(***************************************************************************)
(* A recv() that returns a whole packet.                                   *)
(***************************************************************************)
\* What is known of a byte in flight.
LEMMA PartFacts ==
    ASSUME NEW kind \in Links, NEW e \in Parts(kind)
    PROVE  /\ e.msg \in Messages(kind) /\ PacketSize(e.msg) \in Nat
           /\ e.at \in Nat /\ e.at >= 1 /\ e.at <= PacketSize(e.msg)
           /\ e.byte = PacketBytes(e.msg)[e.at]
<1>1. /\ e.msg \in Messages(kind) /\ e.at \in Nat /\ e.at \in 1..PacketSize(e.msg)
      /\ e.byte = PacketBytes(e.msg)[e.at]
  BY DEF Parts
<1>2. PacketSize(e.msg) \in Nat
  BY <1>1, HeaderFirst
<1> QED
  BY <1>1, <1>2

\* Behind the first byte in flight is the rest of its packet.
LEMMA PacketAhead ==
    ASSUME NEW kind \in Links, NEW s, InFlight(kind, s), Len(s) # 0, NEW i \in Nat,
           s[1].at + i <= PacketSize(s[1].msg)
    PROVE  i + 1 <= Len(s) /\ s[i + 1].msg = s[1].msg /\ s[i + 1].at = s[1].at + i
<1> DEFINE S == Parts(kind)
           msg == s[1].msg
           size == PacketSize(msg)
           first == s[1].at
           m == Len(s)
           P(j) == first + j <= size => j + 1 <= m /\ s[j + 1].msg = msg /\ s[j + 1].at = first + j
           T == {j \in Nat : P(j)}
<1>1. /\ s \in Seq(S)
      /\ \A j \in 1..m : j # m => Follows(s[j], s[j + 1])
      /\ \A j \in 1..m : j = m => EndsPacket(s[j])
  BY DEF InFlight
<1> HIDE DEF S
<1>2. m \in Nat /\ m # 0 /\ \A j \in 1..m : s[j] \in S
  BY <1>1
<1> HIDE DEF m
<1>3. first \in Nat /\ size \in Nat
  BY <1>2, PartFacts DEF S
<1> HIDE DEF first
<1>4. P(0)
  <2>1. 0 + 1 = 1 /\ 1 <= m /\ first + 0 = first
    BY <1>2, <1>3
  <2> QED
    BY <2>1 DEF first
<1> HIDE DEF size, msg
<1>5. ASSUME NEW j \in Nat, P(j), first + (j + 1) <= size
      PROVE  /\ (j + 1) + 1 <= m /\ s[(j + 1) + 1].msg = msg
             /\ s[(j + 1) + 1].at = first + (j + 1)
  <2> DEFINE l == j + 1
  <2>1. l \in 1..m /\ s[l].msg = msg /\ s[l].at = first + j /\ first + j # size
    BY <1>2, <1>3, <1>5
  <2>2. ~EndsPacket(s[l])
    BY <2>1 DEF EndsPacket, size
  <2>3. l # m
    BY <1>1, <2>1, <2>2
  <2>4. Follows(s[l], s[l + 1])
    BY <1>1, <2>1, <2>3
  <2>5. s[l + 1].msg = msg /\ s[l + 1].at = (first + j) + 1
    BY <2>1, <2>2, <2>4 DEF Follows
  <2>6. l + 1 <= m /\ (first + j) + 1 = first + (j + 1)
    BY <1>2, <1>3, <2>1, <2>3
  <2> QED
    BY <2>5, <2>6
<1>6. Nat \subseteq T
  <2>1. 0 \in T /\ \A j \in Nat : j \in T => j + 1 \in T
    BY <1>4, <1>5
  <2> HIDE DEF T
  <2> QED
    BY <2>1, NatSet
<1>7. P(i)
  BY <1>6
<1> QED
  BY <1>7 DEF m, size, msg, first

\* The bytes of a packet that is whole are all in the buffer, from its start.
LEMMA WholeHeld ==
    ASSUME NEW kind \in Links, InFlight(kind, flight), NEW n \in 1..RecvSize,
           n <= Len(flight), flight[1].at = 1, flight[1].at + n > PacketSize(flight[1].msg)
    PROVE  /\ Holds(Received(n), 0, PacketBytes(flight[1].msg))
           /\ Len(Received(n)) = RecvSize
           /\ flight[1].msg \in Messages(kind)
           /\ PacketSize(flight[1].msg) \in Nat /\ PacketSize(flight[1].msg) <= RecvSize
<1> DEFINE msg == flight[1].msg
           size == PacketSize(msg)
           raw == Received(n)
           bytes == PacketBytes(msg)
<1>1. RecvSize \in Nat /\ n \in Nat /\ n >= 1 /\ n <= RecvSize
  BY StreamAssumption
<1>2. flight \in Seq(Parts(kind))
  BY DEF InFlight
<1>3. Len(flight) \in Nat /\ \A i \in 1..Len(flight) : flight[i] \in Parts(kind)
  BY <1>2
<1>4. Len(flight) # 0 /\ 1 \in 1..Len(flight)
  BY <1>1, <1>3
<1>5. msg \in Messages(kind) /\ size \in Nat
  BY <1>3, <1>4, PartFacts
<1>6. Len(bytes) = size
  BY <1>5, HeaderFirst
<1>7. Len(raw) = RecvSize /\ \A i \in 1..RecvSize : i <= n => raw[i] = flight[i].byte
  BY <1>1 DEF Received
<1>8. size <= n
  BY <1>1, <1>5
<1>9. ASSUME NEW i \in 1..size PROVE raw[i] = bytes[i]
  <2>1. i - 1 \in Nat /\ (i - 1) + 1 = i /\ 1 + (i - 1) = i /\ i \in 1..RecvSize /\ i <= n
    BY <1>1, <1>5, <1>8
  <2>2. 1 + (i - 1) <= size
    BY <1>5, <2>1
  <2>3. i <= Len(flight) /\ flight[i].msg = msg /\ flight[i].at = i
    <3> DEFINE j == i - 1
    <3>1. j \in Nat /\ flight[1].at + j <= PacketSize(flight[1].msg)
      BY <2>1, <2>2
    <3> HIDE DEF j
    <3>2. /\ j + 1 <= Len(flight) /\ flight[j + 1].msg = flight[1].msg
          /\ flight[j + 1].at = flight[1].at + j
      BY <1>4, <3>1, PacketAhead
    <3>3. j + 1 = i /\ flight[1].at + j = i
      BY <2>1 DEF j
    <3> QED
      BY <3>2, <3>3
  <2>4. flight[i].byte = bytes[i]
    <3>1. i \in 1..Len(flight)
      BY <1>3, <2>1, <2>3
    <3>2. flight[i] \in Parts(kind)
      BY <1>3, <3>1
    <3> QED
      BY <2>3, <3>2, PartFacts
  <2> QED
    BY <1>7, <2>1, <2>4
<1> HIDE DEF raw, bytes, size
<1>10. 0 + Len(bytes) <= Len(raw)
  BY <1>1, <1>5, <1>6, <1>7, <1>8
<1>11. \A i \in 1..Len(bytes) : raw[0 + i] = bytes[i]
  <2>1. \A i \in 1..size : 0 + i = i
    BY <1>5
  <2> QED
    BY <1>6, <1>9, <2>1
<1>12. Holds(raw, 0, bytes)
  BY <1>10, <1>11 DEF Holds
<1>13. size <= RecvSize
  BY <1>1, <1>5, <1>8
<1> QED
  BY <1>5, <1>7, <1>12, <1>13 DEF raw, bytes, size

\* The numbers of the types.
LEMMA TypeNumbers ==
    ASSUME NEW type, \E i \in 1..21 : type = MessageTypes[i]
    PROVE  /\ TypeNumber(type) \in 1001..1021
           /\ TypeOf(TypeNumber(type)) = type
<1> DEFINE j == CHOOSE k \in DOMAIN MessageTypes : MessageTypes[k] = type
<1>1. DOMAIN MessageTypes = 1..21
  BY DEF MessageTypes
<1> HIDE DEF MessageTypes
<1>2. j \in 1..21 /\ MessageTypes[j] = type
  BY <1>1
<1>3. TypeNumber(type) = FirstType - 1 + j
  BY DEF TypeNumber
<1> HIDE DEF j
<1>4. TypeNumber(type) = 1000 + j
  BY <1>2, <1>3 DEF FirstType
<1>5. TypeNumber(type) - FirstType + 1 = j
  BY <1>2, <1>4 DEF FirstType
<1> HIDE DEF TypeNumber
<1>6. TypeOf(TypeNumber(type)) = MessageTypes[j]
  BY <1>1, <1>2, <1>5 DEF TypeOf
<1> QED
  BY <1>2, <1>4, <1>6

\* Between a client and the chat server, the receiver has a case for every message, in
\* which it reads the fields in the order they were written.
LEMMA ReadAsWritten ==
    ASSUME NEW kind \in {"C2S", "S2C"}, NEW msg \in Messages(kind)
    PROVE  /\ msg.type \in Cases(kind) /\ ~IsWeb(msg.type)
           /\ (IF kind = "S2C" THEN ClientReads[msg.type] ELSE ServerReads[msg.type])
                 = WrittenFields[msg.type]
           /\ \E i \in 1..21 : msg.type = MessageTypes[i]
           /\ HasFields(msg)
<1>1. CASE kind = "C2S"
  <2>1. msg \in ClientMessages
    BY <1>1 DEF Messages
  <2>2. msg.type \in {"CREATE_ACCOUNT_REQ", "AUTHENTICATE_ACCOUNT_REQ", "JOIN_ROOM_REQ",
                        "LEAVE_ROOM_REQ", "CHAT_IN_ROOM_REQ"}
    BY <2>1 DEF ClientMessages, Msg
  <2>3. HasFields(msg)
    BY <2>1, ClientMessagesHaveFields
  <2>4. msg.type \in Cases(kind) /\ ~IsWeb(msg.type)
    BY <1>1, <2>2 DEF Cases, ServerReads, IsWeb, WebClass
  <2>5. ServerReads[msg.type] = WrittenFields[msg.type]
    BY <2>2 DEF ServerReads, WrittenFields
  <2>6. \E i \in 1..21 : msg.type = MessageTypes[i]
    <3>1. /\ MessageTypes[1] = "CREATE_ACCOUNT_REQ"
          /\ MessageTypes[7] = "AUTHENTICATE_ACCOUNT_REQ"
          /\ MessageTypes[13] = "JOIN_ROOM_REQ" /\ MessageTypes[16] = "LEAVE_ROOM_REQ"
          /\ MessageTypes[19] = "CHAT_IN_ROOM_REQ"
      BY DEF MessageTypes
    <3>2. 1 \in 1..21 /\ 7 \in 1..21 /\ 13 \in 1..21 /\ 16 \in 1..21 /\ 19 \in 1..21
      OBVIOUS
    <3> QED
      BY <2>2, <3>1, <3>2
  <2> QED
    BY <1>1, <2>3, <2>4, <2>5, <2>6
<1>2. CASE kind = "S2C"
  <2>1. msg \in ServerMessages
    BY <1>2 DEF Messages
  <2>2. msg.type \in {"CREATE_ACCOUNT_SUCCESS_ACK", "CREATE_ACCOUNT_FAILURE_ACK",
                        "AUTHENTICATE_ACCOUNT_SUCCESS_ACK", "AUTHENTICATE_ACCOUNT_FAILURE_ACK",
                        "JOIN_ROOM_ACK", "LEAVE_ROOM_ACK", "CHAT_IN_ROOM_ACK",
                        "JOIN_ROOM_NTF", "LEAVE_ROOM_NTF", "CHAT_IN_ROOM_NTF"}
    BY <2>1 DEF ServerMessages, Msg
  <2>3. HasFields(msg)
    BY <2>1, ServerMessagesHaveFields
  <2>4. msg.type \in Cases(kind) /\ ~IsWeb(msg.type)
    BY <1>2, <2>2 DEF Cases, ClientReads, IsWeb, WebClass
  <2>5. ClientReads[msg.type] = WrittenFields[msg.type]
    BY <2>2 DEF ClientReads, WrittenFields
  <2>6. \E i \in 1..21 : msg.type = MessageTypes[i]
    <3>1. /\ MessageTypes[2] = "CREATE_ACCOUNT_SUCCESS_ACK"
          /\ MessageTypes[3] = "CREATE_ACCOUNT_FAILURE_ACK"
          /\ MessageTypes[8] = "AUTHENTICATE_ACCOUNT_SUCCESS_ACK"
          /\ MessageTypes[9] = "AUTHENTICATE_ACCOUNT_FAILURE_ACK"
          /\ MessageTypes[14] = "JOIN_ROOM_ACK" /\ MessageTypes[15] = "JOIN_ROOM_NTF"
          /\ MessageTypes[17] = "LEAVE_ROOM_ACK" /\ MessageTypes[18] = "LEAVE_ROOM_NTF"
          /\ MessageTypes[20] = "CHAT_IN_ROOM_ACK" /\ MessageTypes[21] = "CHAT_IN_ROOM_NTF"
      BY DEF MessageTypes
    <3>2. /\ 2 \in 1..21 /\ 3 \in 1..21 /\ 8 \in 1..21 /\ 9 \in 1..21 /\ 14 \in 1..21
          /\ 15 \in 1..21 /\ 17 \in 1..21 /\ 18 \in 1..21 /\ 20 \in 1..21 /\ 21 \in 1..21
      OBVIOUS
    <3> QED
      BY <2>2, <3>1, <3>2
  <2> QED
    BY <1>2, <2>3, <2>4, <2>5, <2>6
<1> QED
  BY <1>1, <1>2

\* The header of a packet is read as it was written.
LEMMA HeaderRead ==
    ASSUME NEW raw, NEW kind \in Links, NEW msg \in Messages(kind), Len(raw) \in Nat,
           Holds(raw, 0, HeaderBytes(msg)), PacketSize(msg) <= 1023,
           \E i \in 1..21 : msg.type = MessageTypes[i]
    PROVE  /\ LengthAt(At(raw, 0)) = PacketSize(msg)
           /\ TypeOf(LengthAt(At(raw, 4))) = msg.type
<1> DEFINE size == Encode(BitsOf(PacketSize(msg)), 4)
           number == TypeNumber(msg.type)
           word == Encode(BitsOf(number), 4)
<1>1. size \in Seq(Byte) /\ Len(size) = 4 /\ word \in Seq(Byte) /\ Len(word) = 4
  BY Encoded
<1>2. HeaderBytes(msg) = Joined(size, word)
  BY DEF HeaderBytes
<1>3. number \in 1001..1021 /\ TypeOf(number) = msg.type
  <2>1. \E i \in 1..21 : msg.type = MessageTypes[i]
    OBVIOUS
  <2>2. number \in 1001..1021
    BY ONLY <2>1, TypeNumbers
  <2>3. TypeOf(number) = msg.type
    BY ONLY <2>1, TypeNumbers
  <2> QED
    BY <2>2, <2>3
<1>4. PacketSize(msg) \in Nat
  BY HeaderFirst
<1> HIDE DEF number
<1>5. Holds(raw, 0, size) /\ Holds(raw, 0 + Len(size), word)
  <2> HIDE DEF size, word
  <2> QED
    BY <1>1, <1>2, HoldsBoth
<1>6. Holds(raw, 4, word)
  <2>1. 0 + Len(size) = 4
    BY <1>1
  <2> QED
    BY <1>5, <2>1
<1>7. LengthAt(At(raw, 0)) = PacketSize(msg)
  BY <1>4, <1>5, NumberRead
<1>8. LengthAt(At(raw, 4)) = number
  <2>1. number \in Nat /\ number <= 1023
    BY <1>3
  <2> QED
    BY <1>6, <2>1, NumberRead
<1> QED
  BY <1>3, <1>7, <1>8

\* What a handler makes of a packet of fields that it has a case for.
LEMMA FieldsHandled ==
    ASSUME NEW kind \in {"C2S", "S2C"}, NEW raw, NEW type, NEW size \in Nat,
           LengthAt(At(raw, 0)) = size, size <= RecvSize,
           TypeOf(LengthAt(At(raw, 4))) = type, type \in Cases(kind), ~IsWeb(type),
           NEW fields,
           fields = IF kind = "S2C" THEN ClientReads[type] ELSE ServerReads[type],
           NEW result \in Dispatched(kind, raw)
    PROVE  \E r \in ReadFields(At(raw, 8), fields) :
              /\ result.type = type /\ result.values = r.values
              /\ result.inside = (r.buf.readIndex <= Len(r.buf.data))
<1>1. Loaded(raw) = At(raw, 0)
  BY LoadedAt
<1>2. Skip(At(raw, 0), 4) = At(raw, 4) /\ Skip(At(raw, 0), 8) = At(raw, 8)
  <2>1. 0 + 4 = 4 /\ 0 + 8 = 8
    OBVIOUS
  <2>2. Skip(At(raw, 0), 4) = At(raw, 0 + 4) /\ Skip(At(raw, 0), 8) = At(raw, 0 + 8)
    BY SkippedAt
  <2> QED
    BY <2>1, <2>2
<1>3. Dispatched(kind, raw) = Handling(kind, At(raw, 0), size, type)
  BY <1>1, <1>2 DEF Dispatched
<1>4. Handling(kind, At(raw, 0), size, type)
         = {[type |-> type, values |-> r.values,
             inside |-> r.buf.readIndex <= Len(r.buf.data)] : r \in ReadFields(At(raw, 8), fields)}
  BY <1>2 DEF Handling
<1>5. PICK r \in ReadFields(At(raw, 8), fields) :
         result = [type |-> type, values |-> r.values,
                   inside |-> r.buf.readIndex <= Len(r.buf.data)]
  BY <1>3, <1>4
<1> QED
  BY <1>5

\* A whole packet is handled with its values.
LEMMA WholeHandled ==
    ASSUME NEW kind \in Links, kind \in {"C2S", "S2C"}, NEW msg \in Messages(kind), NEW raw,
           SmallUserIds, RecvSize <= 1023, Len(raw) = RecvSize, PacketSize(msg) <= RecvSize,
           Holds(raw, 0, PacketBytes(msg)), NEW result \in Dispatched(kind, raw)
    PROVE  result.type = msg.type /\ ReadsRight(result, msg)
<1> DEFINE type == msg.type
           size == PacketSize(msg)
           fields == WrittenFields[type]
<1>1. Len(raw) \in Nat /\ Len(raw) <= 1023 /\ RecvSize \in Nat
  BY StreamAssumption
<1>2. /\ type \in Cases(kind) /\ ~IsWeb(type)
      /\ (IF kind = "S2C" THEN ClientReads[type] ELSE ServerReads[type]) = fields
      /\ \E i \in 1..21 : type = MessageTypes[i]
      /\ HasFields(msg)
  BY ReadAsWritten
<1>3. /\ PacketBytes(msg) \in Seq(Byte) /\ Len(PacketBytes(msg)) = size /\ size \in Nat
      /\ size >= 8 /\ \A i \in 1..8 : PacketBytes(msg)[i] = HeaderBytes(msg)[i]
  BY HeaderFirst
<1>4. Holds(raw, 0, HeaderBytes(msg))
  <2>1. Len(HeaderBytes(msg)) = 8
    BY HeaderSize
  <2>2. 0 + 8 <= Len(raw)
    BY <1>1, <1>3
  <2>3. \A i \in 1..size : raw[0 + i] = PacketBytes(msg)[i]
    BY <1>3 DEF Holds
  <2>4. \A i \in 1..8 : i \in 1..size
    BY <1>3
  <2>5. \A i \in 1..8 : raw[0 + i] = HeaderBytes(msg)[i]
    BY <1>3, <2>3, <2>4
  <2> QED
    BY <2>1, <2>2, <2>5 DEF Holds
<1>5. size <= 1023
  BY <1>1, <1>3
<1>6. LengthAt(At(raw, 0)) = size /\ TypeOf(LengthAt(At(raw, 4))) = type
  BY <1>1, <1>2, <1>4, <1>5, HeaderRead
<1> HIDE DEF type, size, fields
<1>7. PICK r \in ReadFields(At(raw, 8), fields) :
         /\ result.type = type /\ result.values = r.values
         /\ result.inside = (r.buf.readIndex <= Len(r.buf.data))
  BY <1>2, <1>3, <1>6, FieldsHandled DEF size
<1>8. ReadsRight(r, msg)
  <2>1. ASSUME NEW f, NEW g, HasTwo(msg, f, g) PROVE ReadsRight(r, msg)
    <3>1. fields = <<f, g>>
      BY <2>1 DEF HasTwo, fields, type
    <3> QED
      BY <1>1, <1>7, <2>1, <3>1, TwoRead
  <2>2. ASSUME NEW f, NEW g, NEW h, HasThree(msg, f, g, h) PROVE ReadsRight(r, msg)
    <3>1. fields = <<f, g, h>>
      BY <2>2 DEF HasThree, fields, type
    <3> QED
      BY <1>1, <1>7, <2>2, <3>1, ThreeRead
  <2> QED
    BY <1>2, <2>1, <2>2 DEF HasFields
<1> QED
  BY <1>7, <1>8 DEF ReadsRight, type

-----------------------------------------------------------------------------
(***************************************************************************)
(* Bytes that cannot be taken for the type of a message.  The number of a  *)
(* type has the bits 5 to 9 and none above: its lowest byte has bits 5, 6  *)
(* and 7, its second is 3, and the highest byte of the size before it is 0 *)
(* for a size that passes the check.                                       *)
(***************************************************************************)
\* What a bit counts for.
LEMMA Weights ==
    ASSUME NEW bits
    PROVE  /\ Weight(bits, 0) \in {0, 1} /\ Weight(bits, 1) \in {0, 2}
           /\ Weight(bits, 2) \in {0, 4} /\ Weight(bits, 3) \in {0, 8}
           /\ Weight(bits, 4) \in {0, 16}
           /\ Weight(bits, 5) = (IF 5 \in bits THEN 32 ELSE 0)
           /\ Weight(bits, 6) = (IF 6 \in bits THEN 64 ELSE 0)
           /\ Weight(bits, 7) = (IF 7 \in bits THEN 128 ELSE 0)
           /\ Weight(bits, 8) = (IF 8 \in bits THEN 256 ELSE 0)
           /\ Weight(bits, 9) = (IF 9 \in bits THEN 512 ELSE 0)
BY Powers DEF Weight

\* A number is at least 992 when it has the bits 5 to 9, and only then.
LEMMA HighBits ==
    ASSUME NEW bits
    PROVE  /\ bits \subseteq 0..9 => (Number(bits) >= 992 <=> {5, 6, 7, 8, 9} \subseteq bits)
           /\ Number(bits) <= 1023 => bits \subseteq 0..9
<1> DEFINE w0 == Weight(bits, 0)
           w1 == Weight(bits, 1)
           w2 == Weight(bits, 2)
           w3 == Weight(bits, 3)
           w4 == Weight(bits, 4)
           w5 == Weight(bits, 5)
           w6 == Weight(bits, 6)
           w7 == Weight(bits, 7)
           w8 == Weight(bits, 8)
           w9 == Weight(bits, 9)
           low == w0 + w1 + w2 + w3 + w4
<1>1. bits \subseteq 0..9 => Number(bits) = w0 + w1 + w2 + w3 + w4 + w5 + w6 + w7 + w8 + w9
  BY DEF Number
<1>2. ~(bits \subseteq 0..9) => Number(bits) = 1024
  BY Powers DEF Number
<1>3. /\ w0 \in {0, 1} /\ w1 \in {0, 2} /\ w2 \in {0, 4} /\ w3 \in {0, 8} /\ w4 \in {0, 16}
      /\ w5 = (IF 5 \in bits THEN 32 ELSE 0) /\ w6 = (IF 6 \in bits THEN 64 ELSE 0)
      /\ w7 = (IF 7 \in bits THEN 128 ELSE 0) /\ w8 = (IF 8 \in bits THEN 256 ELSE 0)
      /\ w9 = (IF 9 \in bits THEN 512 ELSE 0)
  BY Weights
<1> HIDE DEF w0, w1, w2, w3, w4, w5, w6, w7, w8, w9
<1>4. low \in 0..31
  BY <1>3
<1>5. bits \subseteq 0..9 => Number(bits) = low + w5 + w6 + w7 + w8 + w9
  BY <1>1
<1> HIDE DEF low
<1>6. low + w5 + w6 + w7 + w8 + w9 >= 992 <=>
         5 \in bits /\ 6 \in bits /\ 7 \in bits /\ 8 \in bits /\ 9 \in bits
  BY <1>3, <1>4
<1>7. ASSUME bits \subseteq 0..9
      PROVE  Number(bits) >= 992 <=> {5, 6, 7, 8, 9} \subseteq bits
  BY <1>5, <1>6, <1>7
<1>8. Number(bits) <= 1023 => bits \subseteq 0..9
  BY <1>2
<1> QED
  BY <1>7, <1>8

\* The bits of an integer of four bytes.
LEMMA DecodedBits ==
    ASSUME NEW bytes, bytes[1] \in Byte, bytes[2] \in Byte, bytes[3] \in Byte, bytes[4] \in Byte,
           NEW i \in Nat
    PROVE  i \in DecodeUInt32(bytes) <=>
              i \in bytes[1] \/ i - 8 \in bytes[2] \/ i - 16 \in bytes[3] \/ i - 24 \in bytes[4]
<1>1. /\ bytes[1] \in SUBSET (0..7) /\ bytes[2] \in SUBSET (0..7)
      /\ bytes[3] \in SUBSET (0..7) /\ bytes[4] \in SUBSET (0..7)
  BY DEF Byte, Bits
<1>2. /\ i \in ShiftInt(bytes[2], 8) <=> i - 8 \in bytes[2]
      /\ i \in ShiftInt(bytes[3], 16) <=> i - 16 \in bytes[3]
      /\ i \in ShiftInt(bytes[4], 24) <=> i - 24 \in bytes[4]
  BY <1>1, ShiftedBits
<1> QED
  BY <1>2 DEF DecodeUInt32

\* What is read of four bytes.
LEMMA UnreadFour ==
    ASSUME NEW raw, NEW k \in Nat, Len(raw) \in Nat, k + 4 <= Len(raw)
    PROVE  /\ Unread(At(raw, k), 4)[1] = raw[k + 1] /\ Unread(At(raw, k), 4)[2] = raw[k + 2]
           /\ Unread(At(raw, k), 4)[3] = raw[k + 3] /\ Unread(At(raw, k), 4)[4] = raw[k + 4]
<1> DEFINE u == Unread(At(raw, k), 4)
<1>1. u = [i \in 1..4 |-> IF k + i <= Len(raw) THEN raw[k + i] ELSE {}]
  BY DEF At, Unread
<1>2. \A i \in 1..4 : k + i <= Len(raw)
  OBVIOUS
<1> HIDE DEF u
<1>3. \A i \in 1..4 : u[i] = raw[k + i]
  BY <1>1, <1>2
<1> QED
  BY <1>3 DEF u

\* The highest byte of a size that is small enough.
LEMMA SmallSize ==
    ASSUME NEW raw \in Seq(Byte), Len(raw) >= 8, LengthAt(At(raw, 0)) <= 1023
    PROVE  raw[4] = {}
<1> DEFINE u == Unread(At(raw, 0), 4)
           v == DecodeUInt32(u)
<1>1. Len(raw) \in Nat /\ \A i \in 1..4 : raw[i] \in Byte
  BY LenProperties
<1>2. u[1] = raw[1] /\ u[2] = raw[2] /\ u[3] = raw[3] /\ u[4] = raw[4]
  <2>1. 0 \in Nat /\ 0 + 4 <= Len(raw)
    BY <1>1
  <2>2. u[1] = raw[0 + 1] /\ u[2] = raw[0 + 2] /\ u[3] = raw[0 + 3] /\ u[4] = raw[0 + 4]
    BY <1>1, <2>1, UnreadFour
  <2> QED
    BY <2>2
<1>3. Number(v) <= 1023
  BY DEF LengthAt
<1> HIDE DEF u
<1>4. \A i \in Nat : i - 24 \in u[4] => i \in v
  BY <1>1, <1>2, DecodedBits
<1> HIDE DEF v
<1>5. v \subseteq 0..9
  BY <1>3, HighBits
<1>6. ASSUME NEW j \in raw[4] PROVE FALSE
  <2>1. j \in 0..7
    BY <1>1, <1>6 DEF Byte, Bits
  <2>2. j + 24 \in Nat /\ (j + 24) - 24 = j
    BY <2>1
  <2>3. j + 24 \in v
    BY <1>2, <1>4, <1>6, <2>2
  <2> QED
    BY <1>5, <2>1, <2>3
<1> QED
  BY <1>6

\* The first two bytes of a type.
LEMMA TypeBytes ==
    ASSUME NEW raw \in Seq(Byte), Len(raw) >= 8,
           LengthAt(At(raw, 4)) >= 992, LengthAt(At(raw, 4)) <= 1023
    PROVE  {5, 6, 7} \subseteq raw[5] /\ raw[6] = {0, 1}
<1> DEFINE u == Unread(At(raw, 4), 4)
           v == DecodeUInt32(u)
<1>1. Len(raw) \in Nat /\ \A i \in 5..8 : raw[i] \in Byte
  BY LenProperties
<1>2. u[1] = raw[5] /\ u[2] = raw[6] /\ u[3] = raw[7] /\ u[4] = raw[8]
  <2>1. 4 \in Nat /\ 4 + 4 <= Len(raw)
    BY <1>1
  <2>2. u[1] = raw[4 + 1] /\ u[2] = raw[4 + 2] /\ u[3] = raw[4 + 3] /\ u[4] = raw[4 + 4]
    BY <1>1, <2>1, UnreadFour
  <2> QED
    BY <2>2
<1>3. Number(v) <= 1023 /\ Number(v) >= 992
  BY DEF LengthAt
<1> HIDE DEF u
<1>4. \A i \in Nat : i \in v <=> i \in u[1] \/ i - 8 \in u[2] \/ i - 16 \in u[3] \/ i - 24 \in u[4]
  BY <1>1, <1>2, DecodedBits
<1> HIDE DEF v
<1>5. v \subseteq 0..9 /\ {5, 6, 7, 8, 9} \subseteq v
  BY <1>3, HighBits
<1>6. u[1] \subseteq 0..7 /\ u[2] \subseteq 0..7 /\ u[3] \subseteq 0..7 /\ u[4] \subseteq 0..7
  BY <1>1, <1>2 DEF Byte, Bits
<1>7. ASSUME NEW i \in {5, 6, 7} PROVE i \in u[1]
  <2>1. i \in Nat /\ i \in v
    BY <1>5
  <2>2. i - 8 \notin 0..7 /\ i - 16 \notin 0..7 /\ i - 24 \notin 0..7
    OBVIOUS
  <2>3. ~(i - 8 \in u[2]) /\ ~(i - 16 \in u[3]) /\ ~(i - 24 \in u[4])
    BY <1>6, <2>2
  <2> QED
    BY <1>4, <2>1, <2>3
<1>8. 0 \in u[2] /\ 1 \in u[2]
  <2>1. 8 \in v /\ 9 \in v
    BY <1>5
  <2>2. ~(8 \in u[1]) /\ ~(9 \in u[1])
    BY <1>6
  <2>3. ~(8 - 16 \in u[3]) /\ ~(9 - 16 \in u[3]) /\ ~(8 - 24 \in u[4]) /\ ~(9 - 24 \in u[4])
    BY <1>6
  <2>4. 8 - 8 = 0 /\ 9 - 8 = 1
    OBVIOUS
  <2> QED
    BY <1>4, <2>1, <2>2, <2>3, <2>4
<1>9. \A j \in u[2] : j \in {0, 1}
  <2> SUFFICES ASSUME NEW j \in u[2] PROVE j \in {0, 1}
    OBVIOUS
  <2>1. j \in 0..7
    BY <1>6
  <2>2. j + 8 \in Nat /\ (j + 8) - 8 = j
    BY <2>1
  <2>3. j + 8 \in v
    BY <1>4, <2>2
  <2> QED
    BY <1>5, <2>1, <2>3
<1>10. u[2] = {0, 1}
  BY <1>8, <1>9
<1> QED
  BY <1>2, <1>7, <1>10

\* A byte of a sequence that cannot be taken for the first byte of a type, since the byte
\* behind it is not 3 or the one before it is not 0.
Harmless(s, i) ==
    {5, 6, 7} \subseteq s[i] =>
       \/ i + 1 <= Len(s) /\ s[i + 1] # {0, 1}
       \/ i - 1 >= 1 /\ s[i - 1] # {}

\* A sequence without such a place.
Tame(s) == \A i \in 1..Len(s) : Harmless(s, i)

\* A byte is harmless whatever follows or precedes its sequence.
LEMMA HarmlessJoined ==
    ASSUME NEW p \in Seq(Byte), NEW q \in Seq(Byte)
    PROVE  /\ \A i \in 1..Len(p) : Harmless(p, i) => Harmless(Joined(p, q), i)
           /\ \A i \in 1..Len(q) : Harmless(q, i) => Harmless(Joined(p, q), Len(p) + i)
<1> DEFINE s == Joined(p, q)
           m == Len(p)
           n == Len(q)
<1>1. /\ Len(s) = m + n /\ m \in Nat /\ n \in Nat
      /\ \A i \in 1..m : s[i] = p[i]
      /\ \A i \in 1..n : s[m + i] = q[i]
  BY JoinedBytes, LenProperties
<1> HIDE DEF s
<1>2. ASSUME NEW i \in 1..m, Harmless(p, i) PROVE Harmless(s, i)
  <2> SUFFICES ASSUME {5, 6, 7} \subseteq s[i]
               PROVE  \/ i + 1 <= Len(s) /\ s[i + 1] # {0, 1}
                      \/ i - 1 >= 1 /\ s[i - 1] # {}
    BY DEF Harmless
  <2>1. {5, 6, 7} \subseteq p[i]
    BY <1>1
  <2>2. CASE i + 1 <= m /\ p[i + 1] # {0, 1}
    <3>1. i + 1 \in 1..m /\ i + 1 <= m + n
      BY <1>1, <2>2
    <3> QED
      BY <1>1, <2>2, <3>1
  <2>3. CASE i - 1 >= 1 /\ p[i - 1] # {}
    <3>1. i - 1 \in 1..m
      BY <1>1, <2>3
    <3> QED
      BY <1>1, <2>3, <3>1
  <2> QED
    BY <1>2, <2>1, <2>2, <2>3 DEF Harmless
<1>3. ASSUME NEW i \in 1..n, Harmless(q, i) PROVE Harmless(s, m + i)
  <2> DEFINE k == m + i
  <2> SUFFICES ASSUME {5, 6, 7} \subseteq s[k]
               PROVE  \/ k + 1 <= Len(s) /\ s[k + 1] # {0, 1}
                      \/ k - 1 >= 1 /\ s[k - 1] # {}
    BY DEF Harmless
  <2>1. {5, 6, 7} \subseteq q[i]
    BY <1>1
  <2>2. CASE i + 1 <= n /\ q[i + 1] # {0, 1}
    <3>1. i + 1 \in 1..n /\ k + 1 <= m + n /\ k + 1 = m + (i + 1)
      BY <1>1, <2>2
    <3>2. s[m + (i + 1)] = q[i + 1]
      BY <1>1, <3>1
    <3> QED
      BY <1>1, <2>2, <3>1, <3>2
  <2>3. CASE i - 1 >= 1 /\ q[i - 1] # {}
    <3>1. i - 1 \in 1..n /\ k - 1 >= 1 /\ k - 1 = m + (i - 1)
      BY <1>1, <2>3
    <3>2. s[m + (i - 1)] = q[i - 1]
      BY <1>1, <3>1
    <3> QED
      BY <2>3, <3>1, <3>2
  <2> QED
    BY <1>3, <2>1, <2>2, <2>3 DEF Harmless
<1> QED
  BY <1>2, <1>3 DEF s

\* Every byte of a packet but the first of its type.
TameButType(s) == \A i \in 1..Len(s) : i = 5 \/ Harmless(s, i)

\* Tame bytes behind tame bytes are tame, and so are they behind a header.
LEMMA TameJoined ==
    ASSUME NEW p \in Seq(Byte), NEW q \in Seq(Byte), Tame(q)
    PROVE  /\ Tame(p) => Tame(Joined(p, q))
           /\ TameButType(p) => TameButType(Joined(p, q))
<1> DEFINE s == Joined(p, q)
           m == Len(p)
           n == Len(q)
<1>1. Len(s) = m + n /\ m \in Nat /\ n \in Nat
  BY JoinedBytes, LenProperties
<1>2. /\ \A i \in 1..m : Harmless(p, i) => Harmless(s, i)
      /\ \A i \in 1..n : Harmless(q, i) => Harmless(s, m + i)
  BY HarmlessJoined
<1>3. \A i \in 1..n : Harmless(q, i)
  BY DEF Tame
<1> HIDE DEF s, n
<1>4. ASSUME NEW i \in 1..m + n PROVE i \in 1..m \/ Harmless(s, i)
  <2>1. CASE i \notin 1..m
    <3>1. i - m \in 1..n /\ m + (i - m) = i
      BY <1>1, <2>1
    <3>2. Harmless(s, m + (i - m))
      BY <1>2, <1>3, <3>1
    <3> QED
      BY <3>1, <3>2
  <2> QED
    BY <2>1
<1>5. Tame(p) => Tame(s)
  BY <1>1, <1>2, <1>4 DEF Tame
<1>6. TameButType(p) => TameButType(s)
  BY <1>1, <1>2, <1>4 DEF TameButType
<1> QED
  BY <1>5, <1>6 DEF s

\* Characters of seven bits.
LEMMA TextTame ==
    ASSUME NEW str \in Seq(Bits(7))
    PROVE  Tame(str) /\ str \in Seq(Byte)
<1>1. \A i \in 1..Len(str) : str[i] \in Bits(7)
  OBVIOUS
<1>2. \A i \in 1..Len(str) : ~({5, 6, 7} \subseteq str[i])
  <2>1. \A v \in Bits(7) : 7 \notin v
    BY DEF Bits
  <2> QED
    BY <1>1, <2>1
<1>3. str \in Seq(Byte)
  <2>1. Bits(7) \subseteq Byte
    BY DEF Bits, Byte
  <2> QED
    BY <2>1
<1> QED
  BY <1>2, <1>3 DEF Tame, Harmless

\* The bits of a small number.
LEMMA EncodedBits ==
    ASSUME NEW n \in 0..1023, NEW size \in Nat, NEW k \in 1..size, NEW i \in Int
    PROVE  i \in Encode(BitsOf(n), size)[k] <=>
              i \in 0..7 /\ 8 * (k - 1) + i \in BitsOf(n) /\ 8 * (k - 1) + i <= 9
<1>1. Encode(BitsOf(n), size)[k] = ByteOf(BitsOf(n), k - 1)
  BY DEF Encode
<1>2. Number(BitsOf(n)) = n /\ BitsOf(n) \in Bits(32)
  BY NumberOfBits
<1>3. BitsOf(n) \subseteq 0..9
  BY <1>2, HighBits
<1>4. BitsOf(n) \in SUBSET Nat /\ k - 1 \in Nat
  BY <1>3
<1>5. i \in ByteOf(BitsOf(n), k - 1) <=> i \in 0..7 /\ 8 * (k - 1) + i \in BitsOf(n)
  BY <1>4, ByteBits
<1> QED
  BY <1>1, <1>3, <1>5

\* The bytes of a number below 992, and of the number of a type.
LEMMA NumberTame ==
    ASSUME NEW n \in 0..1023
    PROVE  /\ n < 992 => Tame(Encode(BitsOf(n), 4))
           /\ \A i \in 2..4 : ~({5, 6, 7} \subseteq Encode(BitsOf(n), 4)[i])
           /\ Encode(BitsOf(n), 4)[3] = {} /\ Encode(BitsOf(n), 4)[4] = {}
<1> DEFINE e == Encode(BitsOf(n), 4)
           v == BitsOf(n)
<1>1. e \in Seq(Byte) /\ Len(e) = 4
  BY Encoded
<1>2. \A k \in 1..4 : \A i \in Int :
         i \in e[k] <=> i \in 0..7 /\ 8 * (k - 1) + i \in v /\ 8 * (k - 1) + i <= 9
  BY EncodedBits
<1>3. Number(v) = n
  BY NumberOfBits
<1>4. v \subseteq 0..9
  BY <1>3, HighBits
<1>5. \A k \in 1..4 : e[k] \in SUBSET Int
  BY <1>1, LenProperties DEF Byte, Bits
<1> HIDE DEF e, v
<1>6. \A k \in 2..4 : 7 \notin e[k]
  <2>1. \A k \in 2..4 : k \in 1..4 /\ ~(8 * (k - 1) + 7 <= 9)
    OBVIOUS
  <2> QED
    BY <1>2, <2>1
<1>7. e[3] = {} /\ e[4] = {}
  <2>1. ASSUME NEW k \in 3..4, NEW i \in e[k] PROVE FALSE
    <3>1. k \in 1..4 /\ i \in Int
      BY <1>5, <2>1
    <3>2. i \in 0..7 /\ 8 * (k - 1) + i <= 9
      BY <1>2, <2>1, <3>1
    <3> QED
      BY <3>2
  <2> QED
    BY <2>1
<1>8. ASSUME n < 992, {5, 6, 7} \subseteq e[1] PROVE e[2] # {0, 1}
  <2> SUFFICES ASSUME e[2] = {0, 1} PROVE FALSE
    OBVIOUS
  <2>1. 5 \in v /\ 6 \in v /\ 7 \in v
    <3>1. \A i \in {5, 6, 7} : i \in e[1] /\ 8 * (1 - 1) + i = i
      BY <1>8
    <3> QED
      BY <1>2, <3>1
  <2>2. 8 \in v /\ 9 \in v
    <3>1. 0 \in e[2] /\ 1 \in e[2] /\ 8 * (2 - 1) + 0 = 8 /\ 8 * (2 - 1) + 1 = 9
      OBVIOUS
    <3> QED
      BY <1>2, <3>1
  <2>3. {5, 6, 7, 8, 9} \subseteq v
    BY <2>1, <2>2
  <2>4. Number(v) >= 992
    BY <1>4, <2>3, HighBits
  <2> QED
    BY <1>3, <1>8, <2>4
<1>9. ASSUME n < 992, NEW i \in 1..4 PROVE Harmless(e, i)
  <2>1. CASE i = 1
    <3>1. 1 + 1 = 2 /\ 2 <= Len(e)
      BY <1>1
    <3> QED
      BY <1>8, <1>9, <2>1, <3>1 DEF Harmless
  <2>2. CASE i # 1
    <3>1. i \in 2..4
      BY <2>2
    <3> QED
      BY <1>6, <3>1 DEF Harmless
  <2> QED
    BY <2>1, <2>2
<1>10. n < 992 => Tame(e)
  BY <1>1, <1>9 DEF Tame
<1> QED
  BY <1>6, <1>7, <1>10 DEF e

\* Of the bytes of a varint all but the last have bit 7.
LEMMA VarintBytes ==
    ASSUME NEW value \in Bits(64)
    PROVE  /\ Varint(value) \in Seq(Byte) /\ Len(Varint(value)) \in Nat
           /\ Len(Varint(value)) >= 1
           /\ \A i \in 1..Len(Varint(value)) :
                 i < Len(Varint(value)) => 7 \in Varint(value)[i]
<1>1. HighestBit(value) \in 0..63
  BY HighestBitIn DEF Bits
<1> DEFINE last == HighestBit(value) \div 7
           low(i) == Truncate(ShiftRight(value, 7 * (i - 1)), 7)
<1>2. last \in Nat
  BY <1>1
<1>3. Varint(value) = [i \in 1..last + 1 |-> low(i) \cup (IF i <= last THEN {7} ELSE {})]
  BY DEF Varint
<1>4. Varint(value) \in Seq(Byte) /\ Len(Varint(value)) \in Nat
  BY VarintSizesAreExact, LenProperties
<1> HIDE DEF last, low
<1>5. Len(Varint(value)) = last + 1
  <2>1. DOMAIN Varint(value) = 1..last + 1
    BY <1>3
  <2>2. DOMAIN Varint(value) = 1..Len(Varint(value))
    BY <1>4, LenProperties
  <2> QED
    BY <1>2, <1>4, <2>1, <2>2
<1>6. ASSUME NEW i \in 1..last + 1, i < last + 1 PROVE 7 \in Varint(value)[i]
  <2>1. i <= last
    BY <1>2, <1>6
  <2> QED
    BY <1>3, <2>1
<1> QED
  BY <1>2, <1>4, <1>5, <1>6

\* The tag of a field is one byte, which is not 0 and has no bit 7.
LEMMA TagByte ==
    ASSUME NEW number \in 1..3, NEW wire \in {0, 2}
    PROVE  /\ Varint(Tag(number, wire)) \in Seq(Byte) /\ Len(Varint(Tag(number, wire))) = 1
           /\ Varint(Tag(number, wire))[1] # {}
           /\ Tame(Varint(Tag(number, wire)))
<1> DEFINE tag == Tag(number, wire)
           bytes == Varint(tag)
<1>1. tag \in Bits(7) /\ tag \in Bits(64)
  <2>1. \A w \in {0, 2} : 8 * number + w \in 0..127
    OBVIOUS
  <2>2. tag \in Bits(7)
    BY <2>1, SmallBits DEF Tag, Bits
  <2> QED
    BY <2>2, BitsOfAreBits DEF Tag
<1>2. 3 \in tag \/ 4 \in tag
  <2>1. number = 1 \/ number = 2 \/ number = 3
    OBVIOUS
  <2>2. 8 * number + wire \in {8, 10, 16, 18, 24, 26}
    BY <2>1
  <2> DEFINE n == 8 * number + wire
  <2>3. (n \div 8) % 2 = 1 \/ (n \div 16) % 2 = 1
    <3> HIDE DEF n
    <3>1. n \in {8, 10, 16, 18, 24, 26}
      BY <2>2 DEF n
    <3> QED
      BY <3>1
  <2>4. 2^3 = 8 /\ 2^4 = 16
    BY Powers
  <2> QED
    BY <2>3, <2>4 DEF Tag, BitsOf
<1>3. HighestBit(tag) \in 0..6
  BY <1>1, HighestBitIn DEF Bits
<1> HIDE DEF tag
<1>4. bytes = [i \in 1..1 |-> Truncate(ShiftRight(tag, 7 * (i - 1)), 7)]
  <2> DEFINE last == HighestBit(tag) \div 7
  <2>1. last = 0
    BY <1>3
  <2>2. bytes = [i \in 1..last + 1 |-> Truncate(ShiftRight(tag, 7 * (i - 1)), 7)
                                         \cup (IF i <= last THEN {7} ELSE {})]
    BY DEF Varint
  <2> HIDE DEF last, bytes
  <2>3. \A i \in 1..1 : ~(i <= last)
    BY <2>1
  <2>4. 1..last + 1 = 1..1
    BY <2>1
  <2> QED
    BY <2>2, <2>3, <2>4
<1>5. bytes \in Seq(Byte) /\ Len(bytes) = 1
  BY <1>1, VarintSizesAreExact, VarintSizes
<1> HIDE DEF bytes
<1>6. bytes[1] = Truncate(ShiftRight(tag, 0), 7)
  BY <1>4
<1>7. bytes[1] # {}
  <2>1. \A i \in {3, 4} : i \in tag => i \in bytes[1]
    <3> SUFFICES ASSUME NEW i \in {3, 4}, i \in tag PROVE i \in bytes[1]
      OBVIOUS
    <3>1. i \in ShiftRight(tag, 0)
      <4>1. i >= 0 /\ i - 0 = i
        OBVIOUS
      <4> QED
        BY <4>1 DEF ShiftRight
    <3> QED
      BY <1>6, <3>1 DEF Truncate
  <2> QED
    BY <1>2, <2>1
<1>8. 7 \notin bytes[1]
  BY <1>6 DEF Truncate
<1>9. Tame(bytes)
  <2>1. \A i \in 1..Len(bytes) : i = 1
    BY <1>5
  <2> QED
    BY <1>8, <2>1 DEF Tame, Harmless
<1> QED
  BY <1>5, <1>7, <1>9 DEF bytes, tag

\* A varint behind a byte that is not 0: what is behind a byte with bit 7 is harmless.
LEMMA VarintTame ==
    ASSUME NEW p \in Seq(Byte), NEW value \in Bits(64), Tame(p), Len(p) = 1, p[1] # {}
    PROVE  Joined(p, Varint(value)) \in Seq(Byte) /\ Tame(Joined(p, Varint(value)))
<1> DEFINE q == Varint(value)
           n == Len(q)
           s == Joined(p, q)
<1>1. q \in Seq(Byte) /\ n \in Nat /\ \A i \in 1..n : i < n => 7 \in q[i]
  BY VarintBytes
<1> HIDE DEF q
<1>2. /\ s \in Seq(Byte) /\ Len(s) = 1 + n /\ s[1] = p[1]
      /\ \A i \in 1..n : s[1 + i] = q[i]
  <2>1. /\ s \in Seq(Byte) /\ Len(s) = Len(p) + Len(q)
        /\ \A i \in 1..Len(p) : s[i] = p[i]
        /\ \A i \in 1..Len(q) : s[Len(p) + i] = q[i]
    BY <1>1, JoinedBytes
  <2> HIDE DEF s
  <2> QED
    BY <2>1
<1>3. Harmless(p, 1) => Harmless(s, 1)
  <2>1. \A i \in 1..Len(p) : Harmless(p, i) => Harmless(s, i)
    BY <1>1, HarmlessJoined
  <2>2. 1 \in 1..Len(p)
    OBVIOUS
  <2> QED
    BY <2>1, <2>2
<1>4. Harmless(p, 1)
  <2>1. 1 \in 1..Len(p)
    OBVIOUS
  <2> QED
    BY <2>1 DEF Tame
<1> HIDE DEF s, n
<1>5. ASSUME NEW i \in 2..n + 1 PROVE s[i - 1] # {} /\ i - 1 >= 1
  <2>1. i - 1 >= 1
    BY <1>1
  <2>2. CASE i = 2
    <3>1. i - 1 = 1
      BY <2>2
    <3> QED
      BY <1>2, <2>1, <3>1
  <2>3. CASE i # 2
    <3> DEFINE j == i - 2
    <3>1. j \in 1..n /\ j < n /\ 1 + j = i - 1
      BY <1>1, <2>3
    <3> HIDE DEF j
    <3>2. s[1 + j] = q[j] /\ 7 \in q[j]
      BY <1>1, <1>2, <3>1
    <3>3. s[1 + j] # {}
      BY <3>2
    <3> QED
      BY <2>1, <3>1, <3>3
  <2> QED
    BY <2>2, <2>3
<1>6. ASSUME NEW i \in 1..Len(s) PROVE Harmless(s, i)
  <2>1. CASE i = 1
    BY <1>3, <1>4, <2>1
  <2>2. CASE i # 1
    <3>1. i \in 2..n + 1
      BY <1>1, <1>2, <2>2
    <3> QED
      BY <1>5, <3>1 DEF Harmless
  <2> QED
    BY <2>1, <2>2
<1> QED
  BY <1>2, <1>6 DEF Tame, s, q

\* A text in ASCII that fits into a packet shorter than 992 bytes.
PlainText == {str \in Seq(Bits(7)) : Len(str) < 992}

\* No value in a packet looks like a type: texts are in ASCII, packets so short that the low
\* byte of a length has not all of the bits 5 to 7, reasons small, ids as Tame wants them.
TypesStandOut ==
    /\ Texts \subseteq PlainText
    /\ TextLists \subseteq {list \in Seq(PlainText) : Len(list) < 992}
    /\ Reasons \subseteq Bits(7)
    /\ \A id \in UserIds : Tame(Encode(id, 8))
    /\ \A kind \in Links : \A msg \in Messages(kind) : PacketSize(msg) < 992

\* A plain text behind its length.
LEMMA PlainTame ==
    ASSUME NEW str \in PlainText
    PROVE  /\ str \in Seq(Byte) /\ Tame(str)
           /\ LengthBytes(str) \in Seq(Byte) /\ Tame(LengthBytes(str))
<1>1. str \in Seq(Bits(7)) /\ Len(str) < 992
  BY DEF PlainText
<1>2. Len(str) \in 0..1023
  <2> DEFINE n == Len(str)
  <2>1. n \in Nat /\ n < 992
    BY <1>1
  <2> HIDE DEF n
  <2>2. n \in 0..1023
    BY <2>1
  <2> QED
    BY <2>2 DEF n
<1>3. Tame(LengthBytes(str))
  BY <1>1, <1>2, NumberTame DEF LengthBytes
<1>4. LengthBytes(str) \in Seq(Byte)
  BY Encoded DEF LengthBytes
<1> QED
  BY <1>1, <1>3, <1>4, TextTame

\* A list of plain texts.
LEMMA ListTame ==
    ASSUME NEW list \in Seq(PlainText), Len(list) < 992
    PROVE  Tame(ListBytes(list))
<1> DEFINE V == {s \in Seq(Byte) : Tame(s)}
           first == LengthBytes(list)
           lengths == FoldLeft(JoinLength, <<>>, list)
           strings == FoldLeft(Joined, <<>>, list)
<1>1. <<>> \in V
  <2>1. <<>> \in Seq(Byte) /\ Len(<<>>) = 0
    OBVIOUS
  <2> QED
    BY <2>1 DEF Tame
<1>2. \A p, q \in V : Joined(p, q) \in V
  <2> TAKE p, q \in V
  <2>1. Joined(p, q) \in Seq(Byte)
    BY JoinedBytes
  <2>2. Tame(Joined(p, q))
    BY TameJoined
  <2> QED
    BY <2>1, <2>2
<1>3. first \in V
  <2>1. Len(list) \in 0..1023
    <3> DEFINE n == Len(list)
    <3>1. n \in Nat /\ n < 992
      OBVIOUS
    <3> HIDE DEF n
    <3>2. n \in 0..1023
      BY <3>1
    <3> QED
      BY <3>2 DEF n
  <2>2. Tame(Encode(BitsOf(Len(list)), 4))
    BY <2>1, NumberTame
  <2>3. first \in Seq(Byte)
    BY Encoded DEF LengthBytes
  <2> QED
    BY <2>2, <2>3 DEF LengthBytes
<1>4. \A str \in PlainText : str \in V /\ LengthBytes(str) \in V
  BY PlainTame
<1> HIDE DEF V
<1>5. lengths \in V
  <2>1. \A x \in V, str \in PlainText : Applied(JoinLength, x, str) \in V
    BY <1>2, <1>4 DEF Applied, JoinLength
  <2> QED
    BY <1>1, <2>1, FoldInvariant
<1>6. strings \in V
  <2>1. \A x \in V, str \in PlainText : Applied(Joined, x, str) \in V
    BY <1>2, <1>4 DEF Applied
  <2> QED
    BY <1>1, <2>1, FoldInvariant
<1>7. ListBytes(list) \in V
  BY <1>2, <1>3, <1>5, <1>6 DEF ListBytes
<1> QED
  BY <1>7 DEF V

\* The integers of two bytes, neither of which has the bits 5, 6 and 7.
LEMMA ShortTame ==
    ASSUME NEW v \in SUBSET (0..10), 5 \notin v
    PROVE  Tame(Encode(v, 2))
<1> DEFINE e == Encode(v, 2)
<1>1. Len(e) = 2 /\ \A k \in 1..2 : e[k] = ByteOf(v, k - 1)
  BY DEF Encode
<1>2. v \in SUBSET Nat
  OBVIOUS
<1> HIDE DEF e
<1>3. 5 \notin e[1]
  <2>1. 0 \in Nat /\ 5 \in Int /\ 8 * 0 + 5 = 5 /\ 1 - 1 = 0 /\ 1 \in 1..2
    OBVIOUS
  <2>2. 5 \in ByteOf(v, 0) <=> 5 \in 0..7 /\ 8 * 0 + 5 \in v
    BY <1>2, <2>1, ByteBits
  <2> QED
    BY <1>1, <2>1, <2>2
<1>4. 5 \notin e[2]
  <2>1. 1 \in Nat /\ 5 \in Int /\ 8 * 1 + 5 = 13 /\ 13 \notin v /\ 2 - 1 = 1 /\ 2 \in 1..2
    OBVIOUS
  <2>2. 5 \in ByteOf(v, 1) <=> 5 \in 0..7 /\ 8 * 1 + 5 \in v
    BY <1>2, <2>1, ByteBits
  <2> QED
    BY <1>1, <2>1, <2>2
<1>5. \A i \in 1..Len(e) : i = 1 \/ i = 2
  BY <1>1
<1> QED
  BY <1>3, <1>4, <1>5 DEF Tame, Harmless, e

\* A reason has no bit 7.
LEMMA ReasonTame ==
    ASSUME NEW v \in Bits(7)
    PROVE  Tame(Encode(v, 2))
<1> DEFINE e == Encode(v, 2)
<1>1. Len(e) = 2 /\ \A k \in 1..2 : e[k] = ByteOf(v, k - 1)
  BY DEF Encode
<1>2. v \in SUBSET Nat /\ v \subseteq 0..6
  BY DEF Bits
<1> HIDE DEF e
<1>3. ASSUME NEW i \in 1..2 PROVE 7 \notin e[i]
  <2>1. i - 1 \in Nat /\ 7 \in Int /\ 8 * (i - 1) + 7 \notin 0..6
    OBVIOUS
  <2>2. 7 \in ByteOf(v, i - 1) <=> 7 \in 0..7 /\ 8 * (i - 1) + 7 \in v
    BY <1>2, <2>1, ByteBits
  <2> QED
    BY <1>1, <1>2, <2>1, <2>2
<1> QED
  BY <1>1, <1>3 DEF Tame, Harmless, e

\* The bits of a status.
LEMMA StatusBits ==
    /\ SUCCESS \in SUBSET (0..10) /\ 5 \notin SUCCESS
    /\ FAILURE \in SUBSET (0..10) /\ 5 \notin FAILURE
<1>1. 200 \div 32 = 6 /\ 6 % 2 = 0 /\ 400 \div 32 = 12 /\ 12 % 2 = 0
  OBVIOUS
<1>2. 2^5 = 32
  BY Powers
<1> QED
  BY <1>1, <1>2 DEF SUCCESS, FAILURE, BitsOf

\* Every field is tame.
LEMMA FieldTame ==
    ASSUME TypesStandOut, NEW field, IsValueOf(field.name, field.value)
    PROVE  Tame(FieldBytes(field)) /\ FieldBytes(field) \in Seq(Byte)
<1> DEFINE name == field.name
           value == field.value
           bytes == FieldBytes(field)
<1>1. bytes \in Seq(Byte)
  BY FieldTypes
<1>2. /\ name \in Lists => value \in TextLists
      /\ name \notin Lists /\ name \notin DOMAIN IntSize => value \in Texts
      /\ name = "status" => value \in {SUCCESS, FAILURE}
      /\ name = "reason" => value \in Reasons
      /\ name = "userId" => value \in UserIds
  BY DEF IsValueOf
<1>3. /\ Texts \subseteq PlainText
      /\ TextLists \subseteq {list \in Seq(PlainText) : Len(list) < 992}
      /\ Reasons \subseteq Bits(7)
      /\ \A id \in UserIds : Tame(Encode(id, 8))
  BY DEF TypesStandOut
<1>4. CASE name \in DOMAIN IntSize
  <2>1. /\ name \in {"status", "reason", "userId"}
        /\ name = "status" => IntSize[name] = 2
        /\ name = "reason" => IntSize[name] = 2
        /\ name = "userId" => IntSize[name] = 8
    BY <1>4 DEF IntSize
  <2>2. bytes = Encode(value, IntSize[name])
    BY <1>4 DEF FieldBytes
  <2> HIDE DEF name, value, bytes
  <2>3. CASE name = "status"
    <3>1. Tame(Encode(value, 2))
      BY <1>2, <2>3, StatusBits, ShortTame
    <3> QED
      BY <1>1, <2>1, <2>2, <2>3, <3>1 DEF bytes
  <2>4. CASE name = "reason"
    <3>1. Tame(Encode(value, 2))
      BY <1>2, <1>3, <2>4, ReasonTame
    <3> QED
      BY <1>1, <2>1, <2>2, <2>4, <3>1 DEF bytes
  <2>5. CASE name = "userId"
    <3>1. Tame(Encode(value, 8))
      BY <1>2, <1>3, <2>5
    <3> QED
      BY <1>1, <2>1, <2>2, <2>5, <3>1 DEF bytes
  <2> QED
    BY <2>1, <2>3, <2>4, <2>5
<1>5. CASE name \notin DOMAIN IntSize /\ name \in Lists
  <2>1. bytes = ListBytes(value)
    BY <1>5 DEF FieldBytes
  <2> HIDE DEF name, value, bytes
  <2>2. value \in Seq(PlainText) /\ Len(value) < 992
    BY <1>2, <1>3, <1>5
  <2>3. Tame(bytes)
    BY <2>1, <2>2, ListTame
  <2> QED
    BY <1>1, <2>3 DEF bytes
<1>6. CASE name \notin DOMAIN IntSize /\ name \notin Lists
  <2>1. bytes = Joined(LengthBytes(value), value)
    BY <1>6 DEF FieldBytes
  <2> HIDE DEF name, value, bytes
  <2>2. value \in PlainText
    BY <1>2, <1>3, <1>6
  <2>3. /\ value \in Seq(Byte) /\ Tame(value)
        /\ LengthBytes(value) \in Seq(Byte) /\ Tame(LengthBytes(value))
    BY <2>2, PlainTame
  <2>4. Tame(Joined(LengthBytes(value), value))
    BY <2>3, TameJoined
  <2> QED
    BY <1>1, <2>1, <2>4 DEF bytes
<1> QED
  BY <1>4, <1>5, <1>6

\* So are the fields of the messages between the servers,
LEMMA WebFieldTame ==
    ASSUME NEW number \in 1..3, NEW field, NEW value,
           \/ field.wire = 0 /\ value \in Bits(64)
           \/ field.wire = 2 /\ value \in PlainText
    PROVE  /\ WriteWebField(number, field, value) \in Seq(Byte)
           /\ Tame(WriteWebField(number, field, value))
<1> DEFINE tag == Varint(Tag(number, field.wire))
           length == Varint(BitsOf(Len(value)))
           written == WriteWebField(number, field, value)
<1>1. field.wire \in {0, 2}
  OBVIOUS
<1>2. tag \in Seq(Byte) /\ Len(tag) = 1 /\ tag[1] # {} /\ Tame(tag)
  BY <1>1, TagByte
<1>3. CASE field.wire = 0 /\ value \in Bits(64)
  <2>1. written = Joined(tag, Varint(value))
    BY <1>3 DEF WriteWebField, Joined
  <2> HIDE DEF tag, written
  <2>2. Joined(tag, Varint(value)) \in Seq(Byte) /\ Tame(Joined(tag, Varint(value)))
    BY <1>2, <1>3, VarintTame
  <2> QED
    BY <2>1, <2>2 DEF written
<1>4. CASE field.wire = 2 /\ value \in PlainText
  <2>1. value \in Seq(Byte) /\ Tame(value)
    BY <1>4, PlainTame
  <2>2. length \in Seq(Byte) /\ BitsOf(Len(value)) \in Bits(64)
    BY BitsOfAreBits, VarintBytes
  <2>3. written = tag \o (length \o value)
    BY <1>4 DEF WriteWebField
  <2> HIDE DEF tag, written
  <2>4. Joined(tag, length) \in Seq(Byte) /\ Tame(Joined(tag, length))
    BY <1>2, <2>2, VarintTame
  <2> HIDE DEF length
  <2>5. tag \o (length \o value) = (tag \o length) \o value
    BY <1>2, <2>1, <2>2, ConcatAssociative
  <2>6. written = Joined(Joined(tag, length), value)
    BY ONLY <2>3, <2>5 DEF Joined
  <2>7. /\ Joined(Joined(tag, length), value) \in Seq(Byte)
        /\ Tame(Joined(Joined(tag, length), value))
    BY <2>1, <2>4, JoinedBytes, TameJoined
  <2> QED
    BY <2>6, <2>7 DEF written
<1> QED
  BY <1>3, <1>4

\* and their payloads.
LEMMA PayloadTame ==
    ASSUME TypesStandOut, NEW kind \in Links, NEW msg \in Messages(kind), kind \in {"S2A", "A2S"}
    PROVE  /\ IsWeb(msg.type)
           /\ SerializeWeb(WebClass[msg.type], msg.values) \in Seq(Byte)
           /\ Tame(SerializeWeb(WebClass[msg.type], msg.values))
<1> DEFINE payload == SerializeWeb(WebClass[msg.type], msg.values)
           id == VarintField("requestId")
           F == WriteWebField(1, id, msg.values.requestId)
<1>1. \A p, q \in Seq(Byte) : Tame(p) /\ Tame(q) =>
         Joined(p, q) \in Seq(Byte) /\ Tame(Joined(p, q))
  BY JoinedBytes, TameJoined
<1>2. msg.values.requestId \in SocketValues => F \in Seq(Byte) /\ Tame(F)
  <2> SUFFICES ASSUME msg.values.requestId \in SocketValues PROVE F \in Seq(Byte) /\ Tame(F)
    OBVIOUS
  <2>1. id.wire = 0
    BY DEF VarintField
  <2>2. msg.values.requestId \in Bits(64) /\ 1 \in 1..3
    BY StreamAssumption
  <2> HIDE DEF id
  <2> QED
    BY <2>1, <2>2, WebFieldTame
<1>3. CASE kind = "S2A"
  <2> DEFINE g == StringField("email")
             h == StringField("plaintextPassword")
             G == WriteWebField(2, g, msg.values.email)
             H == WriteWebField(3, h, msg.values.plaintextPassword)
  <2>1. msg \in WebRequests
    BY <1>3 DEF Messages
  <2>2. msg.values \in [requestId : SocketValues, email : Names, plaintextPassword : Passwords]
    BY <2>1 DEF WebRequests, Msg
  <2>3. g.wire = 2 /\ h.wire = 2 /\ 2 \in 1..3 /\ 3 \in 1..3
    BY DEF StringField
  <2>4. msg.values.email \in PlainText /\ msg.values.plaintextPassword \in PlainText
    BY <2>2 DEF TypesStandOut, Texts
  <2> HIDE DEF g, h
  <2>5. G \in Seq(Byte) /\ Tame(G) /\ H \in Seq(Byte) /\ Tame(H)
    BY <2>3, <2>4, WebFieldTame
  <2>6. F \in Seq(Byte) /\ Tame(F)
    BY <1>2, <2>2
  <2>7. IsWeb(msg.type) /\ payload = Joined(Joined(F, G), H)
    BY <2>1, WebRequestWritten DEF g, h
  <2> HIDE DEF F, G, H, payload
  <2>8. Joined(F, G) \in Seq(Byte) /\ Tame(Joined(F, G))
    BY <1>1, <2>5, <2>6
  <2>9. payload \in Seq(Byte) /\ Tame(payload)
    BY <1>1, <2>5, <2>7, <2>8
  <2> QED
    BY <2>7, <2>9 DEF payload
<1>4. CASE kind = "A2S"
  <2>1. msg \in WebAnswers
    BY <1>4 DEF Messages
  <2>2. msg.values.requestId \in SocketValues
    BY <2>1 DEF WebAnswers, Msg
  <2>3. IsWeb(msg.type)
    BY <2>1, WebAnswerWritten
  <2>4. PICK value \in Bits(64) : \E g :
           g.wire = 0 /\ payload = Joined(F, WriteWebField(2, g, value))
    BY <2>1, WebAnswerWritten
  <2>5. PICK g : g.wire = 0 /\ payload = Joined(F, WriteWebField(2, g, value))
    BY <2>4
  <2> DEFINE G == WriteWebField(2, g, value)
  <2>6. G \in Seq(Byte) /\ Tame(G)
    <3>1. 2 \in 1..3 /\ g.wire = 0
      BY <2>5
    <3> QED
      BY <3>1, WebFieldTame
  <2>7. F \in Seq(Byte) /\ Tame(F)
    BY <1>2, <2>2
  <2>8. payload = Joined(F, G)
    BY <2>5
  <2> HIDE DEF F, G, payload
  <2>9. payload \in Seq(Byte) /\ Tame(payload)
    BY <1>1, <2>6, <2>7, <2>8
  <2> QED
    BY <2>3, <2>9 DEF payload
<1> QED
  BY <1>3, <1>4

\* A header is tame but for its type.
LEMMA HeaderTame ==
    ASSUME NEW msg, PacketSize(msg) \in Nat, PacketSize(msg) < 992,
           \E i \in 1..21 : msg.type = MessageTypes[i]
    PROVE  /\ TameButType(HeaderBytes(msg))
           /\ HeaderBytes(msg)[7] = {} /\ HeaderBytes(msg)[8] = {}
           /\ \A j \in 1..4 : HeaderBytes(msg)[4 + j] = Encode(BitsOf(TypeNumber(msg.type)), 4)[j]
<1> DEFINE size == Encode(BitsOf(PacketSize(msg)), 4)
           word == Encode(BitsOf(TypeNumber(msg.type)), 4)
           h == HeaderBytes(msg)
<1>1. size \in Seq(Byte) /\ Len(size) = 4 /\ word \in Seq(Byte) /\ Len(word) = 4
  BY Encoded
<1>2. h = Joined(size, word)
  BY DEF HeaderBytes
<1>3. Tame(size)
  <2> DEFINE n == PacketSize(msg)
  <2>1. n \in 0..1023 /\ n < 992
    OBVIOUS
  <2> HIDE DEF n
  <2>2. Tame(Encode(BitsOf(n), 4))
    BY <2>1, NumberTame
  <2> QED
    BY <2>2 DEF n
<1>4. /\ \A i \in 2..4 : ~({5, 6, 7} \subseteq word[i])
      /\ word[3] = {} /\ word[4] = {}
  <2> DEFINE n == TypeNumber(msg.type)
  <2>1. \E i \in 1..21 : msg.type = MessageTypes[i]
    OBVIOUS
  <2>2. n \in 1001..1021
    BY ONLY <2>1, TypeNumbers
  <2> HIDE DEF n
  <2>3. n \in 0..1023
    BY <2>2
  <2>4. /\ \A i \in 2..4 : ~({5, 6, 7} \subseteq Encode(BitsOf(n), 4)[i])
        /\ Encode(BitsOf(n), 4)[3] = {} /\ Encode(BitsOf(n), 4)[4] = {}
    BY <2>3, NumberTame
  <2> QED
    BY <2>4 DEF n
<1> HIDE DEF size, word, h
<1>5. /\ \A i \in 1..Len(size) : Harmless(size, i) => Harmless(h, i)
      /\ \A i \in 1..Len(word) : Harmless(word, i) => Harmless(h, Len(size) + i)
  BY <1>1, <1>2, HarmlessJoined
<1>6. Len(h) = 8
  BY HeaderSize DEF h
<1>7. ASSUME NEW i \in 1..8, i # 5 PROVE Harmless(h, i)
  <2>1. CASE i \in 1..4
    BY <1>1, <1>3, <1>5, <2>1 DEF Tame
  <2>2. CASE i \in 6..8
    <3> DEFINE j == i - 4
    <3>1. j \in 2..4 /\ j \in 1..4 /\ 4 + j = i
      BY <2>2
    <3> HIDE DEF j
    <3>2. Harmless(word, j)
      BY <1>4, <3>1 DEF Harmless
    <3>3. Harmless(h, 4 + j)
      BY <1>1, <1>5, <3>1, <3>2
    <3> QED
      BY <3>1, <3>3
  <2>3. i \in 1..4 \/ i \in 6..8
    BY <1>7
  <2> QED
    BY <2>1, <2>2, <2>3
<1>8. TameButType(h)
  BY <1>6, <1>7 DEF TameButType
<1>9. \A j \in 1..4 : h[4 + j] = word[j]
  <2>1. \A i \in 1..Len(word) : h[Len(size) + i] = word[i]
    BY <1>1, <1>2, JoinedBytes
  <2> QED
    BY <1>1, <2>1
<1>10. h[7] = {} /\ h[8] = {}
  <2>1. 3 \in 1..4 /\ 4 \in 1..4 /\ 4 + 3 = 7 /\ 4 + 4 = 8
    OBVIOUS
  <2> QED
    BY <1>4, <1>9, <2>1
<1> QED
  BY <1>8, <1>9, <1>10 DEF h, word

\* Every message has a number.
LEMMA HasType ==
    ASSUME NEW kind \in Links, NEW msg \in Messages(kind)
    PROVE  \E i \in 1..21 : msg.type = MessageTypes[i]
<1>1. kind \in {"C2S", "S2C", "S2A", "A2S"}
  BY StreamAssumption
<1>2. CASE kind \in {"C2S", "S2C"}
  BY <1>2, ReadAsWritten
<1>3. CASE kind \in {"S2A", "A2S"}
  <2>1. msg \in WebRequests \/ msg \in WebAnswers
    BY <1>3 DEF Messages
  <2>2. msg.type \in {"CREATE_ACCOUNT_WEB_REQ", "CREATE_ACCOUNT_WEB_SUCCESS_ACK",
                        "CREATE_ACCOUNT_WEB_FAILURE_ACK", "AUTHENTICATE_ACCOUNT_WEB_REQ",
                        "AUTHENTICATE_ACCOUNT_WEB_SUCCESS_ACK",
                        "AUTHENTICATE_ACCOUNT_WEB_FAILURE_ACK"}
    <3>1. msg \in WebRequests =>
             msg.type \in {"CREATE_ACCOUNT_WEB_REQ", "AUTHENTICATE_ACCOUNT_WEB_REQ"}
      BY DEF WebRequests, Msg
    <3>2. msg \in WebAnswers =>
             msg.type \in {"CREATE_ACCOUNT_WEB_SUCCESS_ACK", "CREATE_ACCOUNT_WEB_FAILURE_ACK",
                           "AUTHENTICATE_ACCOUNT_WEB_SUCCESS_ACK",
                           "AUTHENTICATE_ACCOUNT_WEB_FAILURE_ACK"}
      BY DEF WebAnswers, Msg
    <3> QED
      BY <2>1, <3>1, <3>2
  <2>3. /\ MessageTypes[4] = "CREATE_ACCOUNT_WEB_REQ"
        /\ MessageTypes[5] = "CREATE_ACCOUNT_WEB_SUCCESS_ACK"
        /\ MessageTypes[6] = "CREATE_ACCOUNT_WEB_FAILURE_ACK"
        /\ MessageTypes[10] = "AUTHENTICATE_ACCOUNT_WEB_REQ"
        /\ MessageTypes[11] = "AUTHENTICATE_ACCOUNT_WEB_SUCCESS_ACK"
        /\ MessageTypes[12] = "AUTHENTICATE_ACCOUNT_WEB_FAILURE_ACK"
    BY DEF MessageTypes
  <2>4. 4 \in 1..21 /\ 5 \in 1..21 /\ 6 \in 1..21 /\ 10 \in 1..21 /\ 11 \in 1..21 /\ 12 \in 1..21
    OBVIOUS
  <2> QED
    BY <2>2, <2>3, <2>4
<1> QED
  BY <1>1, <1>2, <1>3

\* Every packet is tame but for its type.
LEMMA PacketTame ==
    ASSUME TypesStandOut, NEW kind \in Links, NEW msg \in Messages(kind)
    PROVE  TameButType(PacketBytes(msg))
<1> DEFINE h == HeaderBytes(msg)
<1>1. \E i \in 1..21 : msg.type = MessageTypes[i]
  BY HasType
<1>2. PacketSize(msg) \in Nat /\ PacketSize(msg) < 992
  BY HeaderFirst DEF TypesStandOut
<1>3. h \in Seq(Byte) /\ TameButType(h)
  BY <1>1, <1>2, HeaderTame, HeaderSize
<1> HIDE DEF h
<1>4. \A p, q \in Seq(Byte) : TameButType(p) /\ Tame(q) =>
         Joined(p, q) \in Seq(Byte) /\ TameButType(Joined(p, q))
  BY JoinedBytes, TameJoined
<1>5. \A f : IsValueOf(f, msg.values[f]) =>
         Tame(FieldBytes(FieldOf(msg, f))) /\ FieldBytes(FieldOf(msg, f)) \in Seq(Byte)
  <2> TAKE f
  <2> DEFINE F == FieldOf(msg, f)
  <2>1. F.name = f /\ F.value = msg.values[f]
    BY DEF FieldOf
  <2> HIDE DEF F
  <2>2. IsValueOf(F.name, F.value) => Tame(FieldBytes(F)) /\ FieldBytes(F) \in Seq(Byte)
    BY FieldTame
  <2> QED
    BY <2>1, <2>2 DEF F
<1>6. ASSUME NEW f, NEW g, HasTwo(msg, f, g) PROVE TameButType(PacketBytes(msg))
  <2> DEFINE F == FieldBytes(FieldOf(msg, f))
             G == FieldBytes(FieldOf(msg, g))
  <2>1. Tame(F) /\ F \in Seq(Byte) /\ Tame(G) /\ G \in Seq(Byte)
    BY <1>5, <1>6 DEF HasTwo
  <2>2. PacketBytes(msg) = Joined(Joined(h, F), G)
    BY <1>6, TwoBytes DEF h
  <2> HIDE DEF F, G
  <2>3. Joined(h, F) \in Seq(Byte) /\ TameButType(Joined(h, F))
    BY <1>3, <1>4, <2>1
  <2> QED
    BY <1>4, <2>1, <2>2, <2>3
<1>7. ASSUME NEW f, NEW g, NEW k, HasThree(msg, f, g, k) PROVE TameButType(PacketBytes(msg))
  <2> DEFINE F == FieldBytes(FieldOf(msg, f))
             G == FieldBytes(FieldOf(msg, g))
             K == FieldBytes(FieldOf(msg, k))
  <2>1. /\ Tame(F) /\ F \in Seq(Byte) /\ Tame(G) /\ G \in Seq(Byte)
        /\ Tame(K) /\ K \in Seq(Byte)
    BY <1>5, <1>7 DEF HasThree
  <2>2. PacketBytes(msg) = Joined(Joined(Joined(h, F), G), K)
    BY <1>7, ThreeBytes DEF h
  <2> HIDE DEF F, G, K
  <2>3. Joined(h, F) \in Seq(Byte) /\ TameButType(Joined(h, F))
    BY <1>3, <1>4, <2>1
  <2>4. Joined(Joined(h, F), G) \in Seq(Byte) /\ TameButType(Joined(Joined(h, F), G))
    BY <1>4, <2>1, <2>3
  <2> QED
    BY <1>4, <2>1, <2>2, <2>4
<1>8. CASE kind \in {"C2S", "S2C"}
  <2>1. HasFields(msg)
    BY <1>8, ReadAsWritten
  <2> QED
    BY <1>6, <1>7, <2>1 DEF HasFields
<1>9. CASE kind \in {"S2A", "A2S"}
  <2> DEFINE payload == SerializeWeb(WebClass[msg.type], msg.values)
  <2>1. IsWeb(msg.type) /\ payload \in Seq(Byte) /\ Tame(payload)
    BY <1>9, PayloadTame
  <2>2. PacketBytes(msg) = Joined(h, payload)
    BY <2>1 DEF PacketBytes, h
  <2> HIDE DEF payload
  <2> QED
    BY <1>3, <1>4, <2>1, <2>2
<1> QED
  BY <1>8, <1>9, StreamAssumption

\* A number is a number.
LEMMA NumberType == ASSUME NEW bits PROVE Number(bits) \in Int
BY Weights, Powers DEF Number

\* What a receiver has a case for has the number of a type.
LEMMA CasesHaveTypes ==
    ASSUME NEW kind, NEW number \in Int, TypeOf(number) \in Cases(kind)
    PROVE  number \in 1001..1021
<1>1. "unknown" \notin Cases(kind)
  BY DEF Cases, ClientReads, ServerReads, WebClass, WebRequestTypes
<1>2. DOMAIN MessageTypes = 1..21
  BY DEF MessageTypes
<1> HIDE DEF MessageTypes
<1>3. number - FirstType + 1 \in 1..21
  BY <1>1, <1>2 DEF TypeOf
<1> QED
  BY <1>3 DEF FirstType
-----------------------------------------------------------------------------
(***************************************************************************)
(* A recv() that does not begin at the start of a packet.                  *)
(***************************************************************************)
\* Inside a packet the bytes before and behind a byte are of the same packet.
LEMMA Neighbours ==
    ASSUME NEW kind \in Links, NEW s, InFlight(kind, s), NEW i \in 1..Len(s)
    PROVE  /\ s[i].at < PacketSize(s[i].msg) =>
                 i + 1 <= Len(s) /\ s[i + 1].msg = s[i].msg /\ s[i + 1].at = s[i].at + 1
           /\ s[i].at > 1 /\ i > 1 =>
                 s[i - 1].msg = s[i].msg /\ s[i - 1].at = s[i].at - 1
<1> DEFINE S == Parts(kind)
           m == Len(s)
<1>1. /\ s \in Seq(S)
      /\ \A j \in 1..m : j # m => Follows(s[j], s[j + 1])
      /\ \A j \in 1..m : j = m => EndsPacket(s[j])
  BY DEF InFlight
<1> HIDE DEF S
<1>2. m \in Nat /\ \A j \in 1..m : s[j] \in S
  BY <1>1
<1>3. \A j \in 1..m : s[j].at \in Nat /\ s[j].at >= 1 /\ PacketSize(s[j].msg) \in Nat
  BY <1>2, PartFacts DEF S
<1> HIDE DEF m
<1>4. ASSUME s[i].at < PacketSize(s[i].msg)
      PROVE  i + 1 <= m /\ s[i + 1].msg = s[i].msg /\ s[i + 1].at = s[i].at + 1
  <2>1. i \in 1..m
    BY DEF m
  <2>2. ~EndsPacket(s[i])
    BY <1>3, <1>4, <2>1 DEF EndsPacket
  <2>3. i # m /\ Follows(s[i], s[i + 1])
    BY <1>1, <2>1, <2>2
  <2> QED
    BY <1>2, <2>1, <2>2, <2>3 DEF Follows
<1>5. ASSUME s[i].at > 1, i > 1
      PROVE  s[i - 1].msg = s[i].msg /\ s[i - 1].at = s[i].at - 1
  <2> DEFINE j == i - 1
  <2>1. i \in 1..m
    BY DEF m
  <2>2. j \in 1..m /\ j # m /\ j + 1 = i
    BY <1>2, <1>5, <2>1
  <2> HIDE DEF j
  <2>3. Follows(s[j], s[i])
    BY <1>1, <2>2
  <2>4. s[i].msg = s[j].msg /\ s[i].at = s[j].at + 1
    BY <1>3, <1>5, <2>1, <2>3 DEF Follows
  <2>5. s[j].at \in Nat
    BY <1>3, <2>2
  <2> QED
    BY <2>4, <2>5 DEF j
<1> QED
  BY <1>4, <1>5 DEF m

\* A receive buffer is a sequence of bytes.
LEMMA ReceivedBytes ==
    ASSUME NEW kind \in Links, InFlight(kind, flight), NEW n \in 1..RecvSize, n <= Len(flight)
    PROVE  /\ Received(n) \in Seq(Byte) /\ Len(Received(n)) = RecvSize /\ RecvSize \in Nat
           /\ \A i \in 1..RecvSize :
                 Received(n)[i] = IF i <= n THEN flight[i].byte ELSE {}
<1>1. RecvSize \in Nat
  BY StreamAssumption
<1>2. Len(flight) \in Nat /\ \A i \in 1..Len(flight) : flight[i] \in Parts(kind)
  BY DEF InFlight
<1>3. \A i \in 1..Len(flight) : flight[i].byte \in Byte
  BY <1>2 DEF Parts
<1>4. {} \in Byte
  BY DEF Byte, Bits
<1>5. \A i \in 1..RecvSize : i <= n => i \in 1..Len(flight)
  BY <1>1, <1>2
<1>6. \A i \in 1..RecvSize : (IF i <= n THEN flight[i].byte ELSE {}) \in Byte
  BY <1>3, <1>4, <1>5
<1> QED
  BY <1>1, <1>6 DEF Received

\* What looks like a type is the type of a packet, when the byte before it is 0.
LEMMA TypeInPlace ==
    ASSUME NEW kind \in Links, InFlight(kind, flight), NEW n \in 1..RecvSize,
           n <= Len(flight), \A msg \in Messages(kind) : TameButType(PacketBytes(msg)),
           Received(n)[4] = {}, {5, 6, 7} \subseteq Received(n)[5], Received(n)[6] = {0, 1}
    PROVE  n >= 6 /\ flight[5].at = 5
<1> DEFINE e == flight[5]
           P == PacketBytes(e.msg)
<1>1. RecvSize \in Nat /\ RecvSize >= 8
  BY StreamAssumption
<1>2. \A i \in 1..RecvSize : Received(n)[i] = IF i <= n THEN flight[i].byte ELSE {}
  BY ReceivedBytes
<1>3. n >= 6
  <2>1. 6 \in 1..RecvSize
    BY <1>1
  <2>2. Received(n)[6] # {}
    OBVIOUS
  <2> QED
    BY <1>2, <2>1, <2>2
<1>4. /\ Received(n)[4] = flight[4].byte /\ Received(n)[5] = e.byte
      /\ Received(n)[6] = flight[6].byte
  <2>1. 4 \in 1..RecvSize /\ 5 \in 1..RecvSize /\ 6 \in 1..RecvSize /\ 4 <= n /\ 5 <= n /\ 6 <= n
    BY <1>1, <1>3
  <2> QED
    BY <1>2, <2>1
<1>5. flight[4].byte = {} /\ {5, 6, 7} \subseteq e.byte /\ flight[6].byte = {0, 1}
  BY <1>4
<1>6. /\ Len(flight) \in Nat /\ \A i \in 1..Len(flight) : flight[i] \in Parts(kind)
      /\ 4 \in 1..Len(flight) /\ 5 \in 1..Len(flight) /\ 6 \in 1..Len(flight)
  <2>1. Len(flight) \in Nat /\ \A i \in 1..Len(flight) : flight[i] \in Parts(kind)
    BY DEF InFlight
  <2> QED
    BY <1>3, <2>1
<1>7. \A i \in {4, 5, 6} :
         /\ flight[i].msg \in Messages(kind) /\ flight[i].at \in Nat /\ flight[i].at >= 1
         /\ PacketSize(flight[i].msg) \in Nat /\ flight[i].at <= PacketSize(flight[i].msg)
         /\ flight[i].byte = PacketBytes(flight[i].msg)[flight[i].at]
  BY <1>6, PartFacts
<1>8. /\ e.msg \in Messages(kind) /\ e.at \in Nat /\ e.at >= 1 /\ e.at <= PacketSize(e.msg)
      /\ PacketSize(e.msg) \in Nat /\ e.byte = P[e.at]
  BY <1>7
<1>9. Len(P) = PacketSize(e.msg)
  BY <1>8, HeaderFirst
<1>10. /\ e.at < PacketSize(e.msg) => flight[6].msg = e.msg /\ flight[6].at = e.at + 1
       /\ e.at > 1 => flight[4].msg = e.msg /\ flight[4].at = e.at - 1
  <2>1. /\ flight[5].at < PacketSize(flight[5].msg) =>
              flight[5 + 1].msg = flight[5].msg /\ flight[5 + 1].at = flight[5].at + 1
        /\ flight[5].at > 1 /\ 5 > 1 =>
              flight[5 - 1].msg = flight[5].msg /\ flight[5 - 1].at = flight[5].at - 1
    BY <1>6, Neighbours
  <2>2. 5 + 1 = 6 /\ 5 - 1 = 4
    OBVIOUS
  <2> QED
    BY <2>1, <2>2
<1>11. ASSUME e.at # 5 PROVE FALSE
  <2>1. TameButType(P)
    BY <1>8
  <2>2. Harmless(P, e.at)
    <3>1. e.at \in 1..Len(P)
      BY <1>8, <1>9
    <3> QED
      BY <1>11, <2>1, <3>1 DEF TameButType
  <2>3. \/ e.at + 1 <= Len(P) /\ P[e.at + 1] # {0, 1}
        \/ e.at - 1 >= 1 /\ P[e.at - 1] # {}
    BY <1>5, <1>8, <2>2 DEF Harmless
  <2>4. CASE e.at + 1 <= Len(P) /\ P[e.at + 1] # {0, 1}
    <3>1. e.at < PacketSize(e.msg)
      BY <1>8, <1>9, <2>4
    <3>2. flight[6].msg = e.msg /\ flight[6].at = e.at + 1
      BY <1>10, <3>1
    <3>3. flight[6].byte = P[e.at + 1]
      BY <1>7, <3>2
    <3> QED
      BY <1>5, <2>4, <3>3
  <2>5. CASE e.at - 1 >= 1 /\ P[e.at - 1] # {}
    <3>1. e.at > 1
      BY <1>8, <2>5
    <3>2. flight[4].msg = e.msg /\ flight[4].at = e.at - 1
      BY <1>10, <3>1
    <3>3. flight[4].byte = P[e.at - 1]
      BY <1>7, <3>2
    <3> QED
      BY <1>5, <2>5, <3>3
  <2> QED
    BY <2>3, <2>4, <2>5
<1> QED
  BY <1>3, <1>11

\* Then the recv() has begun at the start of that packet.
LEMMA StartInPlace ==
    ASSUME NEW kind \in Links, NEW s, InFlight(kind, s), Len(s) >= 5, s[5].at = 5
    PROVE  s[1].at = 1 /\ s[1].msg = s[5].msg
<1>1. Len(s) \in Nat
  BY DEF InFlight
<1>2. ASSUME NEW i \in 2..5, s[i].at = i
      PROVE  s[i - 1].at = i - 1 /\ s[i - 1].msg = s[i].msg
  <2>1. i \in 1..Len(s) /\ s[i].at > 1 /\ i > 1
    BY <1>1, <1>2
  <2> QED
    BY <1>2, <2>1, Neighbours
<1>3. s[4].at = 4 /\ s[4].msg = s[5].msg
  <2>1. 5 \in 2..5 /\ 5 - 1 = 4
    OBVIOUS
  <2> QED
    BY <1>2, <2>1
<1>4. s[3].at = 3 /\ s[3].msg = s[4].msg
  <2>1. 4 \in 2..5 /\ 4 - 1 = 3
    OBVIOUS
  <2> QED
    BY <1>2, <1>3, <2>1
<1>5. s[2].at = 2 /\ s[2].msg = s[3].msg
  <2>1. 3 \in 2..5 /\ 3 - 1 = 2
    OBVIOUS
  <2> QED
    BY <1>2, <1>4, <2>1
<1>6. s[1].at = 1 /\ s[1].msg = s[2].msg
  <2>1. 2 \in 2..5 /\ 2 - 1 = 1
    OBVIOUS
  <2> QED
    BY <1>2, <1>5, <2>1
<1> QED
  BY <1>3, <1>4, <1>5, <1>6

\* The number behind the size is that of the packet, even if it was cut after its sixth byte.
LEMMA TypeReceived ==
    ASSUME NEW kind \in Links, InFlight(kind, flight),
           NEW n \in 6..RecvSize, n <= Len(flight), flight[1].at = 1, TypesStandOut
    PROVE  TypeOf(LengthAt(At(Received(n), 4))) = flight[1].msg.type
<1> DEFINE msg == flight[1].msg
           raw == Received(n)
           P == PacketBytes(msg)
           h == HeaderBytes(msg)
           word == Encode(BitsOf(TypeNumber(msg.type)), 4)
<1>1. RecvSize \in Nat /\ RecvSize >= 8
  BY StreamAssumption
<1>2. Len(flight) \in Nat /\ \A i \in 1..Len(flight) : flight[i] \in Parts(kind)
  BY DEF InFlight
<1>3. Len(flight) # 0 /\ 1 \in 1..Len(flight)
  BY <1>1, <1>2
<1>4. msg \in Messages(kind)
  BY <1>2, <1>3, PartFacts
<1>5. /\ PacketSize(msg) \in Nat /\ PacketSize(msg) >= 8 /\ \A i \in 1..8 : P[i] = h[i]
  BY <1>4, HeaderFirst
<1>6. \E i \in 1..21 : msg.type = MessageTypes[i]
  BY <1>4, HasType
<1>7. PacketSize(msg) < 992
  BY <1>4 DEF TypesStandOut
<1>8. h[7] = {} /\ h[8] = {} /\ \A j \in 1..4 : h[4 + j] = word[j]
  BY <1>5, <1>6, <1>7, HeaderTame
<1>9. /\ raw \in Seq(Byte) /\ Len(raw) = RecvSize
      /\ \A i \in 1..RecvSize : raw[i] = IF i <= n THEN flight[i].byte ELSE {}
  <2>1. n \in 1..RecvSize
    BY <1>1
  <2> QED
    BY <2>1, ReceivedBytes
<1>10. ASSUME NEW i \in 1..8, i <= n PROVE flight[i].byte = P[i]
  <2> DEFINE j == i - 1
  <2>1. j \in Nat /\ flight[1].at + j <= PacketSize(flight[1].msg) /\ j + 1 = i /\ 1 + j = i
    BY <1>5
  <2> HIDE DEF j
  <2>2. /\ j + 1 <= Len(flight) /\ flight[j + 1].msg = flight[1].msg
        /\ flight[j + 1].at = flight[1].at + j
    BY <1>3, <2>1, PacketAhead
  <2>3. i \in 1..Len(flight) /\ flight[i].msg = msg /\ flight[i].at = i
    BY <1>2, <2>1, <2>2
  <2> QED
    BY <1>2, <2>3, PartFacts
<1> HIDE DEF msg, raw, P, h, word
<1>11. raw[5] = h[5] /\ raw[6] = h[6]
  <2>1. /\ 5 \in 1..8 /\ 6 \in 1..8 /\ 5 <= n /\ 6 <= n
        /\ 5 \in 1..RecvSize /\ 6 \in 1..RecvSize
    BY <1>1
  <2> QED
    BY <1>5, <1>9, <1>10, <2>1
<1>12. ASSUME NEW i \in 7..8 PROVE raw[i] = h[i]
  <2>1. i \in 1..8 /\ i \in 1..RecvSize /\ h[i] = {}
    BY <1>1, <1>8
  <2>2. CASE i <= n
    BY <1>5, <1>9, <1>10, <2>1, <2>2
  <2>3. CASE ~(i <= n)
    BY <1>9, <2>1, <2>3
  <2> QED
    BY <2>2, <2>3
<1>13. ASSUME NEW j \in 1..4 PROVE raw[4 + j] = word[j]
  <2>1. 4 + j = 5 \/ 4 + j = 6 \/ 4 + j \in 7..8
    OBVIOUS
  <2>2. raw[4 + j] = h[4 + j]
    BY <1>11, <1>12, <2>1
  <2> QED
    BY <1>8, <2>2
<1>14. Len(word) = 4
  BY Encoded DEF word
<1>15. Holds(raw, 4, word)
  <2>1. 4 + Len(word) <= Len(raw)
    BY <1>1, <1>9, <1>14
  <2> QED
    BY <1>13, <1>14, <2>1 DEF Holds
<1> DEFINE number == TypeNumber(msg.type)
<1>16. number \in 1001..1021 /\ TypeOf(number) = msg.type
  <2>1. \E i \in 1..21 : msg.type = MessageTypes[i]
    BY <1>6
  <2>2. number \in 1001..1021
    BY ONLY <2>1, TypeNumbers
  <2>3. TypeOf(number) = msg.type
    BY ONLY <2>1, TypeNumbers
  <2> QED
    BY <2>2, <2>3
<1>17. Holds(raw, 4, Encode(BitsOf(number), 4))
  BY <1>15 DEF word
<1> HIDE DEF number
<1>18. LengthAt(At(raw, 4)) = number
  <2>1. number \in Nat /\ number <= 1023 /\ Len(raw) \in Nat
    BY <1>1, <1>9, <1>16
  <2> QED
    BY <1>17, <2>1, NumberRead
<1> QED
  BY <1>16, <1>18 DEF msg, raw

\* What is handled begins at the start of a packet, and has its type.
LEMMA StartsHandled ==
    ASSUME NEW kind \in Links, InFlight(kind, flight), TypesStandOut,
           RecvSize <= 1023, NEW n \in 1..RecvSize, n <= Len(flight),
           NEW result \in Dispatched(kind, Received(n)), result.type # "none"
    PROVE  /\ n >= 6 /\ flight[1].at = 1 /\ result.type = flight[1].msg.type
           /\ LengthAt(At(Received(n), 0)) <= RecvSize
<1> DEFINE raw == Received(n)
           size == LengthAt(At(raw, 0))
           number == LengthAt(At(raw, 4))
           type == TypeOf(number)
<1>1. /\ raw \in Seq(Byte) /\ Len(raw) = RecvSize /\ RecvSize \in Nat /\ RecvSize >= 8
  BY ReceivedBytes, StreamAssumption
<1>2. Loaded(raw) = At(raw, 0)
  BY LoadedAt
<1>3. Skip(At(raw, 0), 4) = At(raw, 4)
  <2>1. 0 + 4 = 4
    OBVIOUS
  <2>2. Skip(At(raw, 0), 4) = At(raw, 0 + 4)
    BY SkippedAt
  <2> QED
    BY <2>1, <2>2
<1>4. Dispatched(kind, raw)
         = IF size <= RecvSize /\ type \in Cases(kind)
           THEN Handling(kind, At(raw, 0), size, type) ELSE {Nothing}
  BY <1>2, <1>3 DEF Dispatched
<1>5. size \in Int /\ number \in Int
  BY NumberType DEF LengthAt
<1>6. result \in Dispatched(kind, raw) /\ result.type # "none"
  OBVIOUS
<1> HIDE DEF raw, size, number, type
<1>7. size <= RecvSize /\ type \in Cases(kind)
  <2>1. Nothing.type = "none"
    BY DEF Nothing
  <2> QED
    BY <1>4, <1>6, <2>1
<1>8. result.type = type
  BY <1>4, <1>6, <1>7 DEF Handling
<1>9. number \in 1001..1021
  BY <1>5, <1>7, CasesHaveTypes DEF type
<1>10. raw[4] = {}
  <2>1. LengthAt(At(raw, 0)) <= 1023 /\ Len(raw) >= 8
    BY <1>1, <1>5, <1>7 DEF size
  <2> QED
    BY <1>1, <2>1, SmallSize
<1>11. {5, 6, 7} \subseteq raw[5] /\ raw[6] = {0, 1}
  <2>1. number >= 992 /\ number <= 1023 /\ Len(raw) >= 8
    BY <1>1, <1>9
  <2> QED
    BY <1>1, <2>1, TypeBytes DEF number
<1>12. \A msg \in Messages(kind) : TameButType(PacketBytes(msg))
  BY PacketTame
<1>13. n >= 6 /\ flight[5].at = 5
  BY <1>10, <1>11, <1>12, TypeInPlace DEF raw
<1>14. flight[1].at = 1
  <2>1. Len(flight) >= 5
    <3>1. Len(flight) \in Nat
      BY DEF InFlight
    <3> QED
      BY <3>1, <1>13
  <2> QED
    BY <1>13, <2>1, StartInPlace
<1>15. type = flight[1].msg.type
  <2>1. n \in 6..RecvSize
    BY <1>1, <1>13
  <2> QED
    BY <1>14, <2>1, TypeReceived DEF type, number, raw
<1> QED
  BY <1>7, <1>8, <1>13, <1>14, <1>15 DEF size, raw

\* A step handles nothing but the start of a packet.
LEMMA StartsStep ==
    ASSUME BufferInv, FlightInv, TypesStandOut, RecvSize <= 1023,
           OnlyPacketStartsAreHandled, [Next]_vars
    PROVE  OnlyPacketStartsAreHandled'
<1>1. ASSUME NEW n \in 1..RecvSize, Recv(n) PROVE OnlyPacketStartsAreHandled'
  <2> SUFFICES ASSUME handled'.type # "none"
               PROVE  chunk'.atStart /\ handled'.type = chunk'.packet.type
    BY DEF OnlyPacketStartsAreHandled
  <2>1. /\ chunk'.packet = flight[1].msg /\ chunk'.atStart = (flight[1].at = 1)
        /\ n <= Len(flight) /\ handled' \in Dispatched(link, Received(n))
    BY <1>1 DEF Recv
  <2>2. link \in Links
    BY DEF BufferInv
  <2>3. flight[1].at = 1 /\ handled'.type = flight[1].msg.type
    BY <2>1, <2>2, StartsHandled DEF FlightInv
  <2> QED
    BY <2>1, <2>3
<1>2. ASSUME NEW msg \in Messages(link), Send(msg) PROVE OnlyPacketStartsAreHandled'
  BY <1>2 DEF Send, OnlyPacketStartsAreHandled, Nothing
<1>3. ASSUME UNCHANGED vars PROVE OnlyPacketStartsAreHandled'
  BY <1>3 DEF vars, OnlyPacketStartsAreHandled
<1> QED
  BY <1>1, <1>2, <1>3 DEF Next

\* RunLoop() and RecvResponse() take whatever they get for the start of a packet.  The size
\* check and the values of MessageType are enough to ignore the rest of a packet that was
\* cut, wherever it was cut: no place in an ASCII text, behind a length or a number below
\* 992 looks like a small size with a type behind it.
THEOREM OnlyStartsHandled ==
    ASSUME WritesFit, TypesStandOut, RecvSize <= 1023
    PROVE  Spec => []OnlyPacketStartsAreHandled
<1>1. Init => BufferInv /\ FlightInv /\ OnlyPacketStartsAreHandled
  <2>1. Init => OnlyPacketStartsAreHandled
    BY DEF Init, OnlyPacketStartsAreHandled, Nothing
  <2> QED
    BY <2>1, BufferStart, FlightStart
<1>2. /\ BufferInv /\ FlightInv /\ OnlyPacketStartsAreHandled /\ [Next]_vars
      => (BufferInv /\ FlightInv /\ OnlyPacketStartsAreHandled)'
  <2>1. SUFFICES ASSUME BufferInv, FlightInv, OnlyPacketStartsAreHandled, [Next]_vars
                 PROVE  (BufferInv /\ FlightInv /\ OnlyPacketStartsAreHandled)'
    OBVIOUS
  <2>2. BufferInv' /\ FlightInv' /\ OnlyPacketStartsAreHandled'
    BY <2>1, BufferStep, FlightStep, StartsStep
  <2> QED
    BY <2>2
<1> QED
  BY <1>1, <1>2, PTL DEF Spec
-----------------------------------------------------------------------------
(***************************************************************************)
(* Handling a packet that was cut.  What is missing of it is zeros, and so *)
(* every length that is read is part of the one that was written: the      *)
(* index of the reader stays at or before the place it should have.        *)
(***************************************************************************)
\* Behind this place there are only zeros.
OnlyZeros(raw, k) == \A i \in Nat : k < i /\ i <= Len(raw) => raw[i] = {}

\* The first of these bytes are at this place, and if some are missing, only zeros follow.
HoldsStart(raw, k, bytes) ==
    /\ k + Len(bytes) <= Len(raw)
    /\ \E c \in Nat :
          /\ c <= Len(bytes)
          /\ \A i \in 1..c : raw[k + i] = bytes[i]
          /\ c = Len(bytes) \/ OnlyZeros(raw, k + c)

\* The start of bytes behind bytes.
LEMMA StartOfBoth ==
    ASSUME NEW raw, NEW k \in Nat, NEW p \in Seq(Byte), NEW q \in Seq(Byte),
           Len(raw) \in Nat, HoldsStart(raw, k, Joined(p, q))
    PROVE  HoldsStart(raw, k, p) /\ HoldsStart(raw, k + Len(p), q)
<1> DEFINE s == Joined(p, q)
           m == Len(p)
           n == Len(q)
<1>1. Len(s) = m + n
  BY JoinedBytes
<1>2. \A i \in 1..m : s[i] = p[i]
  BY JoinedBytes
<1>3. \A i \in 1..n : s[m + i] = q[i]
  BY JoinedBytes
<1>4. m \in Nat /\ n \in Nat
  BY LenProperties
<1>5. PICK c \in Nat : /\ k + Len(s) <= Len(raw) /\ c <= Len(s)
                       /\ \A i \in 1..c : raw[k + i] = s[i]
                       /\ c = Len(s) \/ OnlyZeros(raw, k + c)
  BY DEF HoldsStart
<1> HIDE DEF s, m, n
<1>6. k + m <= Len(raw) /\ (k + m) + n <= Len(raw)
  BY <1>1, <1>4, <1>5
<1>7. CASE c <= m
  <2>1. \A i \in 1..c : raw[k + i] = p[i]
    <3>1. \A i \in 1..c : i \in 1..m
      BY <1>4, <1>7
    <3> QED
      BY <1>2, <1>5, <3>1
  <2>2. c = m \/ OnlyZeros(raw, k + c)
    BY <1>1, <1>4, <1>5, <1>7
  <2>3. HoldsStart(raw, k, p)
    BY <1>6, <1>7, <2>1, <2>2 DEF HoldsStart, m
  <2>4. 0 = n \/ OnlyZeros(raw, (k + m) + 0)
    <3>1. CASE c = Len(s)
      BY <1>1, <1>4, <1>7, <3>1
    <3>2. CASE OnlyZeros(raw, k + c)
      BY <1>4, <1>7, <3>2 DEF OnlyZeros
    <3> QED
      BY <1>5, <3>1, <3>2
  <2>5. HoldsStart(raw, k + m, q)
    <3>1. 0 \in Nat /\ 0 <= n /\ \A i \in 1..0 : raw[(k + m) + i] = q[i]
      BY <1>4
    <3> QED
      BY <1>6, <2>4, <3>1 DEF HoldsStart, n
  <2> QED
    BY <2>3, <2>5 DEF m
<1>8. CASE ~(c <= m)
  <2> DEFINE d == c - m
  <2>1. d \in Nat /\ d <= n /\ (k + m) + d = k + c /\ (c = Len(s) => d = n)
    BY <1>1, <1>4, <1>5, <1>8
  <2>2. \A i \in 1..m : raw[k + i] = p[i]
    <3>1. \A i \in 1..m : i \in 1..c
      BY <1>4, <1>8
    <3> QED
      BY <1>2, <1>5, <3>1
  <2>3. HoldsStart(raw, k, p)
    <3>1. m <= m
      BY <1>4
    <3> QED
      BY <1>4, <1>6, <2>2, <3>1 DEF HoldsStart, m
  <2>4. ASSUME NEW i \in 1..d PROVE raw[(k + m) + i] = q[i]
    <3>1. m + i \in 1..c /\ (k + m) + i = k + (m + i) /\ i \in 1..n
      BY <1>1, <1>4, <1>5, <1>8
    <3>2. raw[k + (m + i)] = s[m + i]
      BY <1>5, <3>1
    <3> QED
      BY <1>3, <3>1, <3>2
  <2> HIDE DEF d
  <2>5. d = n \/ OnlyZeros(raw, (k + m) + d)
    BY <1>5, <2>1
  <2>6. HoldsStart(raw, k + m, q)
    BY <1>6, <2>1, <2>4, <2>5 DEF HoldsStart, n
  <2> QED
    BY <2>3, <2>6 DEF m
<1> QED
  BY <1>7, <1>8

\* Zeros are the number 0.
LEMMA ZeroRead ==
    ASSUME NEW raw, NEW k \in Nat, Len(raw) \in Nat, OnlyZeros(raw, k)
    PROVE  LengthAt(At(raw, k)) = 0
<1> DEFINE u == Unread(At(raw, k), 4)
<1>1. u = [i \in 1..4 |-> IF k + i <= Len(raw) THEN raw[k + i] ELSE {}]
  BY DEF Unread, At
<1>2. \A i \in 1..4 : (IF k + i <= Len(raw) THEN raw[k + i] ELSE {}) = {}
  <2>1. \A i \in 1..4 : k + i \in Nat /\ k < k + i
    OBVIOUS
  <2> QED
    BY <2>1 DEF OnlyZeros
<1> HIDE DEF u
<1>3. u[1] = {} /\ u[2] = {} /\ u[3] = {} /\ u[4] = {}
  BY <1>1, <1>2
<1>4. \A n : ShiftInt({}, n) = {}
  BY DEF ShiftInt, Truncate, ShiftLeft
<1>5. DecodeUInt32(u) = {}
  BY <1>3, <1>4 DEF DecodeUInt32
<1>6. Number({}) = 0
  <2>1. \A i \in 0..9 : Weight({}, i) = 0
    BY DEF Weight
  <2> QED
    BY <2>1 DEF Number
<1> QED
  BY <1>5, <1>6 DEF LengthAt, u

\* Fewer bits make a number that is not larger.
LEMMA FewerBits ==
    ASSUME NEW b, b \subseteq 0..9, NEW a, a \subseteq b
    PROVE  Number(a) \in Nat /\ Number(a) <= Number(b)
<1> DEFINE a0 == Weight(a, 0)
           a1 == Weight(a, 1)
           a2 == Weight(a, 2)
           a3 == Weight(a, 3)
           a4 == Weight(a, 4)
           a5 == Weight(a, 5)
           a6 == Weight(a, 6)
           a7 == Weight(a, 7)
           a8 == Weight(a, 8)
           a9 == Weight(a, 9)
           b0 == Weight(b, 0)
           b1 == Weight(b, 1)
           b2 == Weight(b, 2)
           b3 == Weight(b, 3)
           b4 == Weight(b, 4)
           b5 == Weight(b, 5)
           b6 == Weight(b, 6)
           b7 == Weight(b, 7)
           b8 == Weight(b, 8)
           b9 == Weight(b, 9)
<1>1. /\ Number(a) = a0 + a1 + a2 + a3 + a4 + a5 + a6 + a7 + a8 + a9
      /\ Number(b) = b0 + b1 + b2 + b3 + b4 + b5 + b6 + b7 + b8 + b9
  BY DEF Number
<1>2. \A w \in {1, 2, 4, 8, 16, 32, 64, 128, 256, 512} : w \in Nat
  OBVIOUS
<1>3. \A i \in 0..9 : i \in a => i \in b
  OBVIOUS
<1>4. /\ a0 \in Nat /\ b0 \in Nat /\ a0 <= b0 /\ a1 \in Nat /\ b1 \in Nat /\ a1 <= b1
      /\ a2 \in Nat /\ b2 \in Nat /\ a2 <= b2 /\ a3 \in Nat /\ b3 \in Nat /\ a3 <= b3
      /\ a4 \in Nat /\ b4 \in Nat /\ a4 <= b4
  BY <1>3, Powers DEF Weight
<1>5. /\ a5 \in Nat /\ b5 \in Nat /\ a5 <= b5 /\ a6 \in Nat /\ b6 \in Nat /\ a6 <= b6
      /\ a7 \in Nat /\ b7 \in Nat /\ a7 <= b7 /\ a8 \in Nat /\ b8 \in Nat /\ a8 <= b8
      /\ a9 \in Nat /\ b9 \in Nat /\ a9 <= b9
  BY <1>3, Powers DEF Weight
<1> HIDE DEF a0, a1, a2, a3, a4, a5, a6, a7, a8, a9, b0, b1, b2, b3, b4, b5, b6, b7, b8, b9
<1> QED
  BY <1>1, <1>4, <1>5

\* A length that was cut is part of the one that was written, with only zeros behind it.
LEMMA NumberCut ==
    ASSUME NEW raw, NEW k \in Nat, NEW n \in Nat, n <= 1023, Len(raw) \in Nat,
           HoldsStart(raw, k, Encode(BitsOf(n), 4))
    PROVE  /\ LengthAt(At(raw, k)) \in Nat /\ LengthAt(At(raw, k)) <= n
           /\ LengthAt(At(raw, k)) = n \/ OnlyZeros(raw, k + 4)
<1> DEFINE word == Encode(BitsOf(n), 4)
           u == Unread(At(raw, k), 4)
<1>1. word \in Seq(Byte) /\ Len(word) = 4
  BY Encoded
<1>2. PICK c \in Nat : /\ k + 4 <= Len(raw) /\ c <= 4
                       /\ \A i \in 1..c : raw[k + i] = word[i]
                       /\ c = 4 \/ OnlyZeros(raw, k + c)
  BY <1>1 DEF HoldsStart
<1>3. CASE c = 4
  <2>1. Holds(raw, k, word)
    BY <1>1, <1>2, <1>3 DEF Holds
  <2> QED
    BY <2>1, NumberRead
<1>4. CASE c # 4
  <2>1. OnlyZeros(raw, k + c)
    BY <1>2, <1>4
  <2>2. OnlyZeros(raw, k + 4)
    BY <1>2, <2>1 DEF OnlyZeros
  <2>3. u = [i \in 1..4 |-> IF k + i <= Len(raw) THEN raw[k + i] ELSE {}]
    BY DEF Unread, At
  <2>4. \A i \in 1..4 : u[i] = raw[k + i]
    <3>1. \A i \in 1..4 : k + i <= Len(raw)
      BY <1>2
    <3> HIDE DEF u
    <3> QED
      BY <2>3, <3>1
  <2>5. BitsOf(n) \in Bits(32) /\ Number(BitsOf(n)) = n
    <3>1. n \in 0..1023
      OBVIOUS
    <3> QED
      BY <3>1, NumberOfBits
  <2>6. DecodeUInt32(word) = BitsOf(n)
    BY <2>5, RoundTrip32
  <2> HIDE DEF u, word
  <2>7. ASSUME NEW i \in 1..4 PROVE u[i] \subseteq word[i]
    <3>1. CASE i <= c
      BY <1>2, <2>4, <3>1
    <3>2. CASE ~(i <= c)
      <4>1. k + i \in Nat /\ k + c < k + i /\ k + i <= Len(raw)
        BY <1>2, <3>2
      <4>2. raw[k + i] = {}
        BY <2>1, <4>1 DEF OnlyZeros
      <4> QED
        BY <2>4, <4>2
    <3> QED
      BY <3>1, <3>2
  <2>8. u[1] \subseteq word[1] /\ u[2] \subseteq word[2] /\ u[3] \subseteq word[3] /\ u[4] \subseteq word[4]
    BY <2>7
  <2>9. DecodeUInt32(u) \subseteq DecodeUInt32(word)
    <3>1. \A a, b, j : a \subseteq b => ShiftInt(a, j) \subseteq ShiftInt(b, j)
      BY DEF ShiftInt, Truncate, ShiftLeft
    <3> QED
      BY <2>8, <3>1 DEF DecodeUInt32
  <2>10. BitsOf(n) \subseteq 0..9
    BY <2>5, HighBits
  <2>11. Number(DecodeUInt32(u)) \in Nat /\ Number(DecodeUInt32(u)) <= n
    BY <2>5, <2>6, <2>9, <2>10, FewerBits
  <2> QED
    BY <2>2, <2>11 DEF LengthAt, u
<1> QED
  BY <1>3, <1>4

\* Strings of which no length is there are empty.
LEMMA EmptyStringsRead ==
    ASSUME NEW raw, NEW k \in Nat, NEW lengths \in Seq({0})
    PROVE  FoldLeft(ReadNext, [value |-> <<>>, buf |-> At(raw, k)], lengths).buf = At(raw, k)
<1> DEFINE start == [value |-> <<>>, buf |-> At(raw, k)]
           T == {p \in Seq({0}) : FoldLeft(ReadNext, start, p).buf = At(raw, k)}
<1>1. <<>> \in T
  <2>1. FoldLeft(ReadNext, start, <<>>) = start /\ <<>> \in Seq({0})
    BY FoldEmpty, EmptySeq
  <2> QED
    BY <2>1
<1>2. ASSUME NEW q \in Seq({0}), NEW e \in {0}, q \in T PROVE Append(q, e) \in T
  <2> DEFINE before == FoldLeft(ReadNext, start, q)
             after == FoldLeft(ReadNext, start, Append(q, e))
  <2>1. after = Applied(ReadNext, before, e)
    <3> HIDE DEF start
    <3> QED
      BY FoldAppend
  <2>2. before.buf = At(raw, k) /\ Append(q, e) \in Seq({0})
    BY <1>2
  <2> HIDE DEF before, after
  <2>3. after.buf = Skip(before.buf, e)
    BY <2>1 DEF Applied, ReadNext
  <2>4. Skip(At(raw, k), 0) = At(raw, k)
    <3>1. Skip(At(raw, k), 0) = At(raw, k + 0) /\ k + 0 = k
      BY SkippedAt
    <3> QED
      BY <3>1
  <2>5. after.buf = At(raw, k)
    BY <2>2, <2>3, <2>4
  <2> QED
    BY <2>2, <2>5 DEF after
<1> HIDE DEF T
<1>3. Seq({0}) \subseteq T
  BY <1>1, <1>2, SeqSet
<1> QED
  BY <1>3 DEF T

\* A sequence of numbers without its last.
LEMMA WithoutLast ==
    ASSUME NEW n \in Nat, NEW s \in Seq(Nat), Len(s) = n + 1
    PROVE  \E t \in Seq(Nat) : /\ Len(t) = n /\ s[n + 1] \in Nat /\ s = Append(t, s[n + 1])
                               /\ \A i \in 1..n : t[i] = s[i]
<1> DEFINE t == [i \in 1..n |-> s[i]]
           e == s[n + 1]
           r == Append(t, e)
<1>1. \A i \in 1..n + 1 : s[i] \in Nat
  BY LenProperties
<1>2. \A i \in 1..n : i \in 1..n + 1
  OBVIOUS
<1>3. t \in Seq(Nat) /\ Len(t) = n /\ \A i \in 1..n : t[i] = s[i]
  BY <1>1, <1>2
<1>4. e \in Nat
  <2>1. n + 1 \in 1..n + 1
    OBVIOUS
  <2> QED
    BY <1>1, <2>1
<1> HIDE DEF t, e
<1>5. r \in Seq(Nat) /\ Len(r) = n + 1 /\ r[n + 1] = e /\ \A i \in 1..n : r[i] = t[i]
  BY <1>3, <1>4, AppendProperties
<1> HIDE DEF r
<1>6. \A i \in 1..Len(s) : s[i] = r[i]
  <2>1. \A i \in 1..n + 1 : i \in 1..n \/ i = n + 1
    OBVIOUS
  <2> QED
    BY <1>3, <1>5, <2>1 DEF e
<1>7. s = r
  BY <1>5, <1>6, SeqEqual
<1> QED
  BY <1>3, <1>4, <1>7 DEF r, e

\* Strings of which the lengths were cut end at or before the place where they should.
LEMMA StringsCut ==
    ASSUME NEW raw, NEW k \in Nat, NEW list \in Seq(Seq(Byte)), NEW lengths \in Seq(Nat),
           Len(lengths) = Len(list), \A i \in 1..Len(list) : lengths[i] <= Len(list[i])
    PROVE  \E j \in Nat :
              /\ FoldLeft(ReadNext, [value |-> <<>>, buf |-> At(raw, k)], lengths).buf = At(raw, j)
              /\ k <= j /\ j <= k + Len(FoldLeft(Joined, <<>>, list))
              /\ (\A i \in 1..Len(list) : lengths[i] = Len(list[i])) =>
                    j = k + Len(FoldLeft(Joined, <<>>, list))
<1> DEFINE start == [value |-> <<>>, buf |-> At(raw, k)]
           bytes(p) == FoldLeft(Joined, <<>>, p)
           T == {p \in Seq(Seq(Byte)) : \A l \in Seq(Nat) :
                   Len(l) = Len(p) /\ (\A i \in 1..Len(p) : l[i] <= Len(p[i])) =>
                      \E j \in Nat :
                         /\ FoldLeft(ReadNext, start, l).buf = At(raw, j)
                         /\ k <= j /\ j <= k + Len(bytes(p))
                         /\ (\A i \in 1..Len(p) : l[i] = Len(p[i])) => j = k + Len(bytes(p))}
<1>1. <<>> \in T
  <2>1. <<>> \in Seq(Seq(Byte)) /\ Len(<<>>) = 0
    BY EmptySeq
  <2>2. \A l \in Seq(Nat) : Len(l) = 0 => l = <<>>
    BY EmptySeq
  <2>3. FoldLeft(ReadNext, start, <<>>).buf = At(raw, k)
    <3>1. FoldLeft(ReadNext, start, <<>>) = start
      BY FoldEmpty
    <3> QED
      BY <3>1
  <2>4. bytes(<<>>) = <<>>
    BY FoldEmpty
  <2> HIDE DEF start, bytes
  <2>5. k + Len(bytes(<<>>)) = k
    BY <2>1, <2>4
  <2>6. k <= k
    OBVIOUS
  <2> QED
    BY <2>1, <2>2, <2>3, <2>5, <2>6
<1>2. ASSUME NEW q \in Seq(Seq(Byte)), NEW e \in Seq(Byte), q \in T
      PROVE  Append(q, e) \in T
  <2> DEFINE r == Append(q, e)
             s == bytes(q)
             t == bytes(r)
             n == Len(q)
  <2>1. t = Joined(s, e)
    <3>1. t = Applied(Joined, s, e)
      BY FoldAppend
    <3> HIDE DEF s, t
    <3> QED
      BY <3>1 DEF Applied
  <2>2. s \in Seq(Byte) /\ Len(s) \in Nat /\ Len(e) \in Nat
    BY ListTypes, LenProperties
  <2>3. /\ r \in Seq(Seq(Byte)) /\ Len(r) = n + 1 /\ n \in Nat
        /\ r[n + 1] = e /\ \A i \in 1..n : r[i] = q[i]
    BY AppendProperties, LenProperties
  <2>4. \A l \in Seq(Nat) :
           Len(l) = n /\ (\A i \in 1..n : l[i] <= Len(q[i])) =>
              \E j \in Nat :
                 /\ FoldLeft(ReadNext, start, l).buf = At(raw, j)
                 /\ k <= j /\ j <= k + Len(s)
                 /\ (\A i \in 1..n : l[i] = Len(q[i])) => j = k + Len(s)
    BY <1>2
  <2>5. Len(t) = Len(s) + Len(e)
    <3> HIDE DEF s, t
    <3> QED
      BY <2>1, <2>2, JoinedBytes
  <2> HIDE DEF bytes, start, r, s, t, n
  <2>6. ASSUME NEW l \in Seq(Nat), Len(l) = Len(r), \A i \in 1..Len(r) : l[i] <= Len(r[i])
        PROVE  \E j \in Nat :
                  /\ FoldLeft(ReadNext, start, l).buf = At(raw, j)
                  /\ k <= j /\ j <= k + Len(t)
                  /\ (\A i \in 1..Len(r) : l[i] = Len(r[i])) => j = k + Len(t)
    <3> DEFINE x == l[n + 1]
    <3>1. PICK m \in Seq(Nat) : /\ Len(m) = n /\ x \in Nat /\ l = Append(m, x)
                                /\ \A i \in 1..n : m[i] = l[i]
      BY <2>3, <2>6, WithoutLast
    <3>2. /\ \A i \in 1..n : i \in 1..Len(r)
          /\ n + 1 \in 1..Len(r)
      BY <2>3
    <3>3. \A i \in 1..n : m[i] <= Len(q[i])
      BY <2>3, <2>6, <3>1, <3>2
    <3>4. x <= Len(e)
      BY <2>3, <2>6, <3>2
    <3>5. PICK j \in Nat : /\ FoldLeft(ReadNext, start, m).buf = At(raw, j)
                           /\ k <= j /\ j <= k + Len(s)
                           /\ (\A i \in 1..n : m[i] = Len(q[i])) => j = k + Len(s)
      BY <2>4, <3>1, <3>3
    <3> DEFINE before == FoldLeft(ReadNext, start, m)
               after == FoldLeft(ReadNext, start, l)
    <3>6. after = Applied(ReadNext, before, x)
      <4>1. x \in Nat /\ l = Append(m, x)
        BY <3>1
      <4> HIDE DEF x
      <4> QED
        BY <4>1, FoldAppend
    <3>7. before.buf = At(raw, j)
      BY <3>5
    <3> HIDE DEF before, after
    <3>8. after.buf = Skip(before.buf, x)
      <4> HIDE DEF x
      <4> QED
        BY <3>6 DEF Applied, ReadNext
    <3>9. Skip(At(raw, j), x) = At(raw, j + x)
      BY SkippedAt
    <3>10. (\A i \in 1..Len(r) : l[i] = Len(r[i])) => j = k + Len(s) /\ x = Len(e)
      <4> SUFFICES ASSUME \A i \in 1..Len(r) : l[i] = Len(r[i])
                   PROVE  j = k + Len(s) /\ x = Len(e)
        OBVIOUS
      <4>1. \A i \in 1..n : m[i] = Len(q[i])
        BY <2>3, <3>1, <3>2
      <4>2. x = Len(e)
        BY <2>3, <3>2
      <4> QED
        BY <3>5, <4>1, <4>2
    <3>11. x \in Nat
      BY <3>1
    <3> HIDE DEF x
    <3>12. j + x \in Nat /\ k <= j + x /\ j + x <= k + Len(t)
      BY <2>2, <2>5, <3>4, <3>5, <3>11
    <3>13. (\A i \in 1..Len(r) : l[i] = Len(r[i])) => j + x = k + Len(t)
      BY <2>2, <2>5, <3>10
    <3>14. FoldLeft(ReadNext, start, l).buf = At(raw, j + x)
      BY <3>7, <3>8, <3>9 DEF after
    <3> QED
      BY <3>12, <3>13, <3>14
  <2> QED
    BY <2>3, <2>6 DEF r, t
<1> HIDE DEF T
<1>3. Seq(Seq(Byte)) \subseteq T
  BY <1>1, <1>2, SeqSet
<1> QED
  BY <1>3 DEF T

\* No string of a list is longer than all of them.
LEMMA StringInAll ==
    ASSUME NEW list \in Seq(Seq(Byte))
    PROVE  \A i \in 1..Len(list) : Len(list[i]) <= Len(FoldLeft(Joined, <<>>, list))
<1> DEFINE bytes(p) == FoldLeft(Joined, <<>>, p)
           T == {p \in Seq(Seq(Byte)) : \A i \in 1..Len(p) : Len(p[i]) <= Len(bytes(p))}
<1>1. <<>> \in T
  <2>1. <<>> \in Seq(Seq(Byte)) /\ Len(<<>>) = 0
    BY EmptySeq
  <2> QED
    BY <2>1
<1>2. ASSUME NEW q \in Seq(Seq(Byte)), NEW e \in Seq(Byte), q \in T
      PROVE  Append(q, e) \in T
  <2> DEFINE r == Append(q, e)
             s == bytes(q)
             t == bytes(r)
             n == Len(q)
  <2>1. t = Joined(s, e)
    <3>1. t = Applied(Joined, s, e)
      BY FoldAppend
    <3> HIDE DEF s, t
    <3> QED
      BY <3>1 DEF Applied
  <2>2. s \in Seq(Byte) /\ Len(s) \in Nat /\ Len(e) \in Nat
    BY ListTypes, LenProperties
  <2>3. /\ r \in Seq(Seq(Byte)) /\ Len(r) = n + 1 /\ n \in Nat
        /\ r[n + 1] = e /\ \A i \in 1..n : r[i] = q[i]
    BY AppendProperties, LenProperties
  <2>4. \A i \in 1..n : Len(q[i]) <= Len(s) /\ Len(q[i]) \in Nat
    <3>1. \A i \in 1..n : q[i] \in Seq(Byte)
      BY LenProperties
    <3>2. \A i \in 1..n : Len(q[i]) \in Nat
      BY <3>1, LenProperties
    <3>3. \A i \in 1..n : Len(q[i]) <= Len(s)
      BY <1>2
    <3> QED
      BY <3>2, <3>3
  <2> HIDE DEF bytes, r, s, t, n
  <2>5. Len(t) = Len(s) + Len(e)
    BY <2>1, <2>2, JoinedBytes
  <2>6. ASSUME NEW i \in 1..Len(r) PROVE Len(r[i]) <= Len(t)
    <3>1. CASE i \in 1..n
      <4>1. r[i] = q[i] /\ Len(q[i]) <= Len(s) /\ Len(q[i]) \in Nat
        BY <2>3, <2>4, <3>1
      <4> QED
        BY <2>2, <2>5, <4>1
    <3>2. CASE i \notin 1..n
      <4>1. i = n + 1
        BY <2>3, <3>2
      <4>2. r[i] = e
        BY <2>3, <4>1
      <4> QED
        BY <2>2, <2>5, <4>2
    <3> QED
      BY <3>1, <3>2
  <2> QED
    BY <2>3, <2>6 DEF r, t
<1> HIDE DEF T
<1>3. Seq(Seq(Byte)) \subseteq T
  BY <1>1, <1>2, SeqSet
<1> QED
  BY <1>3 DEF T

\* The start of the lengths of a list.
LEMMA StartOfLengths ==
    ASSUME NEW raw, NEW k \in Nat, NEW list \in Seq(Seq(Byte)), Len(raw) \in Nat,
           HoldsStart(raw, k, FoldLeft(JoinLength, <<>>, list))
    PROVE  \A i \in 1..Len(list) : HoldsStart(raw, k + 4 * (i - 1), LengthBytes(list[i]))
<1> DEFINE T == {p \in Seq(Seq(Byte)) :
                   HoldsStart(raw, k, FoldLeft(JoinLength, <<>>, p)) =>
                      \A i \in 1..Len(p) : HoldsStart(raw, k + 4 * (i - 1), LengthBytes(p[i]))}
<1>1. <<>> \in T
  <2>1. <<>> \in Seq(Seq(Byte)) /\ Len(<<>>) = 0
    BY EmptySeq
  <2> QED
    BY <2>1
<1>2. ASSUME NEW q \in Seq(Seq(Byte)), NEW e \in Seq(Byte), q \in T
      PROVE  Append(q, e) \in T
  <2> DEFINE r == Append(q, e)
             s == FoldLeft(JoinLength, <<>>, q)
             t == FoldLeft(JoinLength, <<>>, r)
             l == LengthBytes(e)
  <2>1. t = Joined(s, l)
    <3>1. t = Applied(JoinLength, s, e)
      BY FoldAppend
    <3> HIDE DEF s, t
    <3> QED
      BY <3>1 DEF Applied, JoinLength
  <2>2. s \in Seq(Byte) /\ Len(s) = 4 * Len(q)
    BY ListTypes
  <2>3. l \in Seq(Byte)
    BY Encoded DEF LengthBytes
  <2>4. /\ r \in Seq(Seq(Byte)) /\ Len(r) = Len(q) + 1 /\ Len(q) \in Nat
        /\ r[Len(q) + 1] = e /\ \A i \in 1..Len(q) : r[i] = q[i]
    BY AppendProperties, LenProperties
  <2>5. HoldsStart(raw, k, s) =>
           \A i \in 1..Len(q) : HoldsStart(raw, k + 4 * (i - 1), LengthBytes(q[i]))
    BY <1>2
  <2> HIDE DEF r, s, t
  <2>6. ASSUME HoldsStart(raw, k, t), NEW i \in 1..Len(r)
        PROVE  HoldsStart(raw, k + 4 * (i - 1), LengthBytes(r[i]))
    <3>1. HoldsStart(raw, k, s) /\ HoldsStart(raw, k + Len(s), l)
      BY <2>1, <2>2, <2>3, <2>6, StartOfBoth
    <3>2. CASE i \in 1..Len(q)
      BY <2>4, <2>5, <3>1, <3>2
    <3>3. CASE i \notin 1..Len(q)
      <4>1. i = Len(q) + 1
        BY <2>4, <3>3
      <4>2. i - 1 = Len(q)
        BY <2>4, <4>1
      <4>3. 4 * (i - 1) = Len(s)
        BY <2>2, <4>2
      <4> QED
        BY <2>4, <3>1, <4>1, <4>3
    <3> QED
      BY <3>2, <3>3
  <2> QED
    BY <2>4, <2>6 DEF r, t
<1> HIDE DEF T
<1>3. Seq(Seq(Byte)) \subseteq T
  BY <1>1, <1>2, SeqSet
<1> QED
  BY <1>3 DEF T

\* The reader of this buffer is at this place, or before it with only zeros ahead.
IsNear(buf, raw, k) ==
    \E j \in Nat : buf = At(raw, j) /\ j <= k /\ (j = k \/ OnlyZeros(raw, j))

\* Among zeros, a field is no longer than it was written.
LEMMA ZerosSkipped ==
    ASSUME NEW raw, NEW k \in Nat, NEW j \in Nat, NEW field, NEW v,
           IsValueOf(field.name, field.value), Len(raw) \in Nat, j <= k, OnlyZeros(raw, j),
           v \in ReadField(At(raw, j), field.name)
    PROVE  IsNear(v.buf, raw, k + Len(FieldBytes(field)))
<1> DEFINE name == field.name
           value == field.value
           bytes == FieldBytes(field)
           size == IntSize[name]
<1>1. v \in ReadField(At(raw, j), name) /\ LengthAt(At(raw, j)) = 0
  BY ZeroRead
<1>2. Len(bytes) = SizeGiven(name, value) /\ Len(bytes) \in Nat
  BY FieldTypes
<1>3. \A n : Skip(At(raw, j), n) = At(raw, j + n)
  BY SkippedAt
<1>4. CASE name \in DOMAIN IntSize
  <2>1. name \in {"status", "reason", "userId"} /\ size \in {2, 8}
    BY <1>4 DEF IntSize
  <2>2. Len(bytes) = size
    BY <1>2, <1>4 DEF SizeGiven
  <2>3. v.buf = Skip(At(raw, j), size)
    BY <1>1, <1>4 DEF ReadField, ReadInt
  <2> HIDE DEF name, value, bytes, size
  <2>4. v.buf = At(raw, j + size) /\ j + size \in Nat /\ j + size <= k + Len(bytes)
    BY <1>3, <2>1, <2>2, <2>3
  <2>5. OnlyZeros(raw, j + size)
    BY <2>1 DEF OnlyZeros
  <2> QED
    BY <2>4, <2>5 DEF IsNear, bytes
<1>5. CASE name \notin DOMAIN IntSize
  <2>1. Len(bytes) >= 4
    <3>1. CASE name \in Lists
      <4>1. value \in Seq(Seq(Byte))
        BY <3>1 DEF IsValueOf
      <4>2. bytes = ListBytes(value)
        BY <1>5, <3>1 DEF FieldBytes
      <4> DEFINE first == LengthBytes(value)
                 lengths == FoldLeft(JoinLength, <<>>, value)
                 strings == FoldLeft(Joined, <<>>, value)
      <4>3. first \in Seq(Byte) /\ Len(first) = 4
        BY Encoded DEF LengthBytes
      <4>4. lengths \in Seq(Byte) /\ strings \in Seq(Byte)
        BY <4>1, ListTypes
      <4>5. bytes = Joined(Joined(first, lengths), strings)
        BY <4>2 DEF ListBytes
      <4> HIDE DEF first, lengths, strings, bytes
      <4> DEFINE both == Joined(first, lengths)
      <4>6. both \in Seq(Byte) /\ Len(both) = Len(first) + Len(lengths)
        BY <4>3, <4>4, JoinedBytes
      <4> HIDE DEF both
      <4>7. Len(bytes) = Len(both) + Len(strings)
        BY <4>4, <4>5, <4>6, JoinedBytes DEF both
      <4>8. Len(lengths) \in Nat /\ Len(strings) \in Nat
        BY <4>4, LenProperties
      <4> QED
        BY <4>3, <4>6, <4>7, <4>8
    <3>2. CASE name \notin Lists
      <4>1. value \in Seq(Byte)
        BY <1>5, <3>2 DEF IsValueOf
      <4>2. Len(bytes) = 4 + Len(value)
        BY <1>2, <1>5, <3>2 DEF SizeGiven
      <4>3. Len(value) \in Nat
        BY <4>1, LenProperties
      <4> QED
        BY <4>2, <4>3
    <3> QED
      BY <3>1, <3>2
  <2>2. v.buf = At(raw, j + 4)
    <3>1. CASE name \in Lists
      <4> DEFINE start == At(raw, j + 4)
                 none == [i \in 1..0 |-> LengthAt(Skip(At(raw, j), 4 * i))]
      <4>1. v = ReadList(At(raw, j))
        BY <1>1, <1>5, <3>1 DEF ReadField
      <4>2. 4 * (0 + 1) = 4
        OBVIOUS
      <4>3. v = FoldLeft(ReadNext, [value |-> <<>>, buf |-> start], none)
        BY <1>1, <1>3, <4>1, <4>2 DEF ReadList
      <4>4. none \in Seq({0})
        <5>1. none = <<>> /\ <<>> \in Seq({0})
          BY EmptySeq
        <5> QED
          BY <5>1
      <4>5. j + 4 \in Nat
        OBVIOUS
      <4> HIDE DEF none
      <4>6. FoldLeft(ReadNext, [value |-> <<>>, buf |-> start], none).buf = start
        BY <4>4, <4>5, EmptyStringsRead
      <4> QED
        BY <4>3, <4>6
    <3>2. CASE name \notin Lists
      <4>1. v = ReadText(At(raw, j))
        BY <1>1, <1>5, <3>2 DEF ReadField
      <4>2. v.buf = Skip(Skip(At(raw, j), 4), 0)
        BY <1>1, <4>1 DEF ReadText
      <4>3. Skip(At(raw, j + 4), 0) = At(raw, (j + 4) + 0) /\ (j + 4) + 0 = j + 4
        BY SkippedAt
      <4> QED
        BY <1>3, <4>2, <4>3
    <3> QED
      BY <3>1, <3>2
  <2> HIDE DEF name, value, bytes, size
  <2>3. j + 4 \in Nat /\ j + 4 <= k + Len(bytes)
    BY <1>2, <2>1
  <2>4. OnlyZeros(raw, j + 4)
    BY DEF OnlyZeros
  <2> QED
    BY <2>2, <2>3, <2>4 DEF IsNear, bytes
<1> QED
  BY <1>4, <1>5

\* A list that was cut.
LEMMA ListCut ==
    ASSUME NEW raw, NEW k \in Nat, NEW list \in Seq(Seq(Byte)),
           Len(raw) \in Nat, Len(raw) <= 1023, HoldsStart(raw, k, ListBytes(list))
    PROVE  IsNear(ReadList(At(raw, k)).buf, raw, k + Len(ListBytes(list)))
<1> DEFINE first == LengthBytes(list)
           lengths == FoldLeft(JoinLength, <<>>, list)
           strings == FoldLeft(Joined, <<>>, list)
           m == Len(list)
           both == Joined(first, lengths)
           at == k + 4
           behind == at + 4 * m
           count == LengthAt(At(raw, k))
           read == [i \in 1..count |-> LengthAt(Skip(At(raw, k), 4 * i))]
           result == ReadList(At(raw, k))
           end == k + Len(ListBytes(list))
<1>1. Len(raw) \in Nat /\ Len(raw) <= 1023 /\ k \in Nat /\ HoldsStart(raw, k, Joined(both, strings))
  BY DEF ListBytes
<1>2. first \in Seq(Byte) /\ Len(first) = 4
  BY Encoded DEF LengthBytes
<1>3. /\ lengths \in Seq(Byte) /\ Len(lengths) = 4 * m /\ strings \in Seq(Byte)
      /\ m \in Nat /\ Len(strings) \in Nat
  BY ListTypes, LenProperties
<1>4. Len(ListBytes(list)) = Len(Joined(both, strings))
  BY DEF ListBytes
<1> HIDE DEF first, lengths, strings, both, result
<1>5. both \in Seq(Byte) /\ Len(both) = 4 + 4 * m
  <2>1. both \in Seq(Byte) /\ Len(both) = Len(first) + Len(lengths)
    BY <1>2, <1>3, JoinedBytes DEF both
  <2> HIDE DEF m
  <2> QED
    BY <1>2, <1>3, <2>1
<1>6. HoldsStart(raw, k, both) /\ HoldsStart(raw, k + Len(both), strings)
  BY <1>1, <1>3, <1>5, StartOfBoth
<1>7. HoldsStart(raw, k, first) /\ HoldsStart(raw, at, lengths)
  <2>1. HoldsStart(raw, k, first) /\ HoldsStart(raw, k + Len(first), lengths)
    BY <1>1, <1>2, <1>3, <1>6, StartOfBoth DEF both
  <2> QED
    BY <1>2, <2>1
<1>8. end = behind + Len(strings)
  <2>1. Len(Joined(both, strings)) = Len(both) + Len(strings)
    BY <1>3, <1>5, JoinedBytes
  <2> HIDE DEF m
  <2> QED
    BY <1>3, <1>4, <1>5, <2>1
<1>9. m <= 1023 /\ behind + Len(strings) <= Len(raw)
  <2>1. k + Len(both) + Len(strings) <= Len(raw)
    <3>1. (k + Len(both)) + Len(strings) <= Len(raw)
      BY <1>6 DEF HoldsStart
    <3> QED
      BY <3>1
  <2> HIDE DEF m
  <2> QED
    BY <1>1, <1>3, <1>5, <2>1
<1>10. count \in Nat /\ count <= m /\ (count = m \/ OnlyZeros(raw, at))
  <2>1. HoldsStart(raw, k, Encode(BitsOf(m), 4))
    BY <1>7 DEF first, LengthBytes
  <2> HIDE DEF m
  <2> QED
    BY <1>1, <1>3, <1>9, <2>1, NumberCut
<1>11. \A n : Skip(At(raw, k), n) = At(raw, k + n)
  BY SkippedAt
<1>12. result = FoldLeft(ReadNext, [value |-> <<>>, buf |-> At(raw, k + 4 * (count + 1))], read)
  BY <1>11 DEF ReadList, result
<1> HIDE DEF count, end
<1>13. \A i \in 1..count : read[i] = LengthAt(At(raw, at + 4 * (i - 1)))
  <2>1. \A i \in 1..count : k + 4 * i = at + 4 * (i - 1)
    BY <1>10
  <2> QED
    BY <1>11, <2>1
<1>14. at \in Nat /\ behind \in Nat /\ at <= behind
  <2> HIDE DEF m
  <2> QED
    BY <1>3
<1>15. CASE count = m
  <2>1. \A i \in 1..m : HoldsStart(raw, at + 4 * (i - 1), LengthBytes(list[i]))
    BY <1>1, <1>7, <1>14, StartOfLengths DEF lengths
  <2>2. ASSUME NEW i \in 1..m
        PROVE  /\ read[i] \in Nat /\ read[i] <= Len(list[i])
               /\ read[i] = Len(list[i]) \/ OnlyZeros(raw, behind)
    <3> DEFINE here == at + 4 * (i - 1)
               n == Len(list[i])
    <3>1. here \in Nat
      BY <1>3
    <3>2. n \in Nat
      <4>1. list[i] \in Seq(Byte)
        BY LenProperties
      <4> QED
        BY <4>1, LenProperties
    <3>3. n <= Len(strings)
      BY StringInAll DEF strings
    <3>4. HoldsStart(raw, here, Encode(BitsOf(n), 4))
      BY <2>1 DEF LengthBytes
    <3>5. here + 4 <= behind
      <4> HIDE DEF m
      <4> QED
        BY <1>3
    <3>6. read[i] = LengthAt(At(raw, here))
      BY <1>13, <1>15
    <3> HIDE DEF n, here, read, behind
    <3>7. n <= 1023
      BY <1>1, <1>3, <1>9, <1>14, <3>2, <3>3
    <3>8. /\ LengthAt(At(raw, here)) \in Nat /\ LengthAt(At(raw, here)) <= n
          /\ LengthAt(At(raw, here)) = n \/ OnlyZeros(raw, here + 4)
      BY <1>1, <3>1, <3>2, <3>4, <3>7, NumberCut
    <3>9. OnlyZeros(raw, here + 4) => OnlyZeros(raw, behind)
      BY <1>14, <3>1, <3>5 DEF OnlyZeros
    <3> QED
      BY <3>6, <3>8, <3>9 DEF n
  <2>3. read \in Seq(Nat) /\ Len(read) = m
    <3>1. read \in [1..m -> Nat]
      BY <1>15, <2>2
    <3> HIDE DEF read, m
    <3> QED
      BY <1>3, <3>1
  <2>4. k + 4 * (count + 1) = behind
    <3> HIDE DEF m
    <3> QED
      BY <1>3, <1>15
  <2> HIDE DEF read, behind
  <2>5. \A i \in 1..Len(list) : read[i] <= Len(list[i])
    BY <2>2
  <2>6. PICK j \in Nat :
           /\ FoldLeft(ReadNext, [value |-> <<>>, buf |-> At(raw, behind)], read).buf = At(raw, j)
           /\ behind <= j /\ j <= behind + Len(strings)
           /\ (\A i \in 1..Len(list) : read[i] = Len(list[i])) => j = behind + Len(strings)
    BY <1>14, <2>3, <2>5, StringsCut DEF strings
  <2>7. result.buf = At(raw, j)
    BY <1>12, <2>4, <2>6
  <2>8. CASE \A i \in 1..m : read[i] = Len(list[i])
    <3>1. j = end
      BY <1>8, <2>6, <2>8
    <3> QED
      BY <1>8, <2>6, <2>7, <3>1 DEF IsNear, result, end
  <2>9. CASE ~(\A i \in 1..m : read[i] = Len(list[i]))
    <3>1. OnlyZeros(raw, behind)
      BY <2>2, <2>9
    <3>2. OnlyZeros(raw, j)
      BY <1>14, <2>6, <3>1 DEF OnlyZeros
    <3> QED
      BY <1>8, <2>6, <2>7, <3>2 DEF IsNear, result, end
  <2> QED
    BY <2>8, <2>9
<1>16. CASE count # m
  <2>1. OnlyZeros(raw, at)
    BY <1>10, <1>16
  <2>2. ASSUME NEW i \in 1..count PROVE read[i] = 0
    <3> DEFINE here == at + 4 * (i - 1)
    <3>1. here \in Nat /\ at <= here
      BY <1>10
    <3> HIDE DEF here
    <3>2. OnlyZeros(raw, here)
      BY <1>14, <2>1, <3>1 DEF OnlyZeros
    <3> QED
      BY <1>1, <1>13, <3>1, <3>2, ZeroRead DEF here
  <2>3. read \in Seq({0})
    <3>1. read \in [1..count -> {0}]
      BY <2>2
    <3> HIDE DEF read
    <3> QED
      BY <1>10, <3>1
  <2> DEFINE j == k + 4 * (count + 1)
  <2>4. j \in Nat /\ at <= j /\ j <= behind + Len(strings)
    <3> HIDE DEF m
    <3> QED
      BY <1>3, <1>10
  <2> HIDE DEF read, j, behind
  <2>5. result.buf = At(raw, j)
    BY <1>12, <2>3, <2>4, EmptyStringsRead DEF j
  <2>6. OnlyZeros(raw, j)
    BY <1>14, <2>1, <2>4 DEF OnlyZeros
  <2> QED
    BY <1>8, <2>4, <2>5, <2>6 DEF IsNear, result, end
<1> QED
  BY <1>15, <1>16

\* A text that was cut.
LEMMA TextCut ==
    ASSUME NEW raw, NEW k \in Nat, NEW str \in Seq(Byte), Len(raw) \in Nat, Len(raw) <= 1023,
           HoldsStart(raw, k, Joined(LengthBytes(str), str))
    PROVE  IsNear(ReadText(At(raw, k)).buf, raw, k + Len(Joined(LengthBytes(str), str)))
<1> DEFINE first == LengthBytes(str)
           bytes == Joined(first, str)
           n == Len(str)
           l == LengthAt(At(raw, k))
           result == ReadText(At(raw, k))
<1>1. first \in Seq(Byte) /\ Len(first) = 4 /\ n \in Nat
  BY Encoded, LenProperties DEF LengthBytes
<1>2. HoldsStart(raw, k, first)
  <2>1. HoldsStart(raw, k, bytes)
    OBVIOUS
  <2> HIDE DEF first
  <2> QED
    BY <1>1, <2>1, StartOfBoth
<1>3. Len(bytes) = 4 + n
  <2> HIDE DEF first
  <2>1. Len(bytes) = Len(first) + Len(str)
    BY <1>1, JoinedBytes
  <2> QED
    BY <1>1, <2>1
<1>4. k + Len(bytes) <= Len(raw)
  BY DEF HoldsStart
<1>5. \A j, i : Skip(At(raw, j), i) = At(raw, j + i)
  BY SkippedAt
<1>6. result.buf = At(raw, (k + 4) + l)
  BY <1>5 DEF ReadText
<1>7. HoldsStart(raw, k, Encode(BitsOf(n), 4))
  BY <1>2 DEF LengthBytes
<1> HIDE DEF first, bytes, n, l, result
<1>8. n <= 1023
  BY <1>1, <1>3, <1>4
<1>9. l \in Nat /\ l <= n /\ (l = n \/ OnlyZeros(raw, k + 4))
  BY <1>1, <1>7, <1>8, NumberCut DEF l
<1> DEFINE j == (k + 4) + l
<1>10. j \in Nat /\ j <= k + Len(bytes) /\ k + 4 <= j /\ (l = n => j = k + Len(bytes))
  BY <1>1, <1>3, <1>9
<1> HIDE DEF j
<1>11. j = k + Len(bytes) \/ OnlyZeros(raw, j)
  BY <1>9, <1>10 DEF OnlyZeros
<1>12. result.buf = At(raw, j)
  BY <1>6 DEF j
<1> QED
  BY <1>10, <1>11, <1>12 DEF IsNear, result, bytes, first

\* Reading a field leaves the reader at the end of the field, or before it among zeros.
LEMMA FieldCut ==
    ASSUME NEW raw, NEW k \in Nat, NEW field, IsValueOf(field.name, field.value),
           Len(raw) \in Nat, Len(raw) <= 1023, HoldsStart(raw, k, FieldBytes(field)),
           NEW buf, IsNear(buf, raw, k), NEW v \in ReadField(buf, field.name)
    PROVE  IsNear(v.buf, raw, k + Len(FieldBytes(field)))
<1> DEFINE name == field.name
           value == field.value
           bytes == FieldBytes(field)
           size == IntSize[name]
<1>1. PICK j \in Nat : buf = At(raw, j) /\ j <= k /\ (j = k \/ OnlyZeros(raw, j))
  BY DEF IsNear
<1>2. CASE OnlyZeros(raw, j)
  BY <1>1, <1>2, ZerosSkipped
<1>3. CASE j = k
  <2>1. v \in ReadField(At(raw, k), name) /\ HoldsStart(raw, k, bytes)
    BY <1>1, <1>3
  <2>2. CASE name \in DOMAIN IntSize
    <3>1. name \in {"status", "reason", "userId"} /\ size \in {2, 8}
      BY <2>2 DEF IntSize
    <3>2. Len(bytes) = size
      <4>1. Len(bytes) = SizeGiven(name, value)
        BY FieldTypes
      <4> QED
        BY <2>2, <4>1 DEF SizeGiven
    <3>3. v.buf = Skip(At(raw, k), size)
      BY <2>1, <2>2 DEF ReadField, ReadInt
    <3> HIDE DEF size, bytes
    <3>4. v.buf = At(raw, k + Len(bytes))
      BY <3>2, <3>3, SkippedAt
    <3>5. k + Len(bytes) \in Nat /\ k + Len(bytes) <= k + Len(bytes)
      BY <3>1, <3>2
    <3> QED
      BY <3>4, <3>5 DEF IsNear, bytes
  <2>3. CASE name \notin DOMAIN IntSize /\ name \in Lists
    <3>1. value \in Seq(Seq(Byte)) /\ bytes = ListBytes(value)
      BY <2>3 DEF IsValueOf, FieldBytes
    <3>2. v = ReadList(At(raw, k))
      BY <2>1, <2>3 DEF ReadField
    <3> HIDE DEF value, bytes
    <3>3. IsNear(ReadList(At(raw, k)).buf, raw, k + Len(bytes))
      BY <2>1, <3>1, ListCut
    <3> QED
      BY <3>2, <3>3 DEF bytes
  <2>4. CASE name \notin DOMAIN IntSize /\ name \notin Lists
    <3>1. value \in Seq(Byte) /\ bytes = Joined(LengthBytes(value), value)
      BY <2>4 DEF IsValueOf, FieldBytes
    <3>2. v = ReadText(At(raw, k))
      BY <2>1, <2>4 DEF ReadField
    <3> HIDE DEF value, bytes
    <3>3. IsNear(ReadText(At(raw, k)).buf, raw, k + Len(bytes))
      BY <2>1, <3>1, TextCut
    <3> QED
      BY <3>2, <3>3 DEF bytes
  <2> QED
    BY <2>2, <2>3, <2>4
<1> QED
  BY <1>1, <1>2, <1>3

\* Whatever has been read, the reader is at this place or before it, and where it is
\* before it and reads on, there are only zeros.
AreNear(reads, raw, k) ==
    \A r \in reads : \E j \in Nat :
       r.buf = At(raw, j) /\ j <= k /\ (GoesOn(r) => j = k \/ OnlyZeros(raw, j))

\* One field more, of which a part may have been cut.
LEMMA OneMoreCut ==
    ASSUME NEW raw, NEW k \in Nat, NEW msg, NEW f, IsValueOf(f, msg.values[f]),
           Len(raw) \in Nat, Len(raw) <= 1023, HoldsStart(raw, k, FieldBytes(FieldOf(msg, f))),
           NEW reads, AreNear(reads, raw, k)
    PROVE  AreNear(ReadFurther(reads, f), raw, k + Len(FieldBytes(FieldOf(msg, f))))
<1> DEFINE F == FieldOf(msg, f)
           end == k + Len(FieldBytes(F))
<1>1. F.name = f /\ F.value = msg.values[f]
  BY DEF FieldOf
<1>2. Len(FieldBytes(F)) \in Nat
  BY <1>1, FieldTypes
<1>3. end \in Nat /\ k <= end
  BY <1>2
<1> SUFFICES ASSUME NEW s \in ReadFurther(reads, f)
             PROVE  \E j \in Nat : /\ s.buf = At(raw, j) /\ j <= end
                                   /\ GoesOn(s) => j = end \/ OnlyZeros(raw, j)
  BY DEF AreNear
<1> HIDE DEF F, end
<1>4. PICK r \in reads :
         s \in (IF GoesOn(r)
                THEN {[values |-> WithField(r.values, f, v.value), buf |-> v.buf] :
                         v \in ReadField(r.buf, f)}
                ELSE {r})
  BY DEF ReadFurther
<1>5. PICK j \in Nat :
         r.buf = At(raw, j) /\ j <= k /\ (GoesOn(r) => j = k \/ OnlyZeros(raw, j))
  BY DEF AreNear
<1>6. CASE GoesOn(r)
  <2>1. PICK v \in ReadField(r.buf, f) : s.buf = v.buf
    BY <1>4, <1>6
  <2>2. IsNear(r.buf, raw, k)
    BY <1>5, <1>6 DEF IsNear
  <2>3. IsNear(v.buf, raw, end)
    BY <1>1, <2>1, <2>2, FieldCut DEF F, end
  <2> QED
    BY <2>1, <2>3 DEF IsNear
<1>7. CASE ~GoesOn(r)
  <2>1. s = r
    BY <1>4, <1>7
  <2>2. j <= end
    BY <1>3, <1>5
  <2> QED
    BY <1>5, <1>7, <2>1, <2>2
<1> QED
  BY <1>6, <1>7

\* Nothing has been read behind the buffer.
LEMMA NearIsInside ==
    ASSUME NEW raw, NEW k \in Nat, Len(raw) \in Nat, k <= Len(raw), NEW reads,
           AreNear(reads, raw, k), NEW r \in reads
    PROVE  r.buf.readIndex <= Len(r.buf.data)
<1>1. PICK j \in Nat : r.buf = At(raw, j) /\ j <= k
  BY DEF AreNear
<1>2. r.buf.readIndex = j /\ r.buf.data = raw
  BY <1>1 DEF At
<1> QED
  BY <1>1, <1>2

\* A packet of two fields.
LEMMA TwoCut ==
    ASSUME NEW raw, NEW msg, NEW f, NEW g, HasTwo(msg, f, g), Len(raw) \in Nat,
           Len(raw) <= 1023, HoldsStart(raw, 0, PacketBytes(msg)),
           NEW r \in ReadFields(At(raw, 8), <<f, g>>)
    PROVE  r.buf.readIndex <= Len(r.buf.data)
<1> DEFINE h == HeaderBytes(msg)
           F == FieldBytes(FieldOf(msg, f))
           G == FieldBytes(FieldOf(msg, g))
           start == {[values |-> <<>>, buf |-> At(raw, 8)]}
           n == 8 + Len(F)
           m == n + Len(G)
<1>1. h \in Seq(Byte) /\ Len(h) = 8
  BY HeaderSize
<1>2. F \in Seq(Byte) /\ G \in Seq(Byte) /\ Len(F) \in Nat /\ Len(G) \in Nat
  BY FieldTypes DEF HasTwo, FieldOf
<1>3. IsValueOf(f, msg.values[f]) /\ IsValueOf(g, msg.values[g])
  BY DEF HasTwo
<1>4. PacketBytes(msg) = Joined(Joined(h, F), G)
  BY TwoBytes
<1> HIDE DEF h, F, G
<1> DEFINE p == Joined(h, F)
<1>5. p \in Seq(Byte) /\ Len(p) = Len(h) + Len(F)
  BY <1>1, <1>2, JoinedBytes
<1> HIDE DEF p
<1>6. HoldsStart(raw, 0, p) /\ HoldsStart(raw, 0 + Len(p), G)
  BY <1>2, <1>4, <1>5, StartOfBoth DEF p
<1>7. HoldsStart(raw, 0 + Len(h), F)
  BY <1>1, <1>2, <1>6, StartOfBoth DEF p
<1>8. 0 + Len(p) = n /\ 0 + Len(h) = 8 /\ n \in Nat /\ m \in Nat
  BY <1>1, <1>2, <1>5
<1>9. HoldsStart(raw, 8, F) /\ HoldsStart(raw, n, G)
  BY <1>6, <1>7, <1>8
<1>10. m <= Len(raw)
  BY <1>9 DEF HoldsStart
<1>11. AreNear(start, raw, 8)
  BY DEF AreNear
<1> HIDE DEF start, n, m
<1>12. AreNear(ReadFurther(start, f), raw, n)
  BY <1>3, <1>9, <1>11, OneMoreCut DEF F, n
<1>13. AreNear(ReadFurther(ReadFurther(start, f), g), raw, m)
  BY <1>3, <1>8, <1>9, <1>12, OneMoreCut DEF G, m
<1>14. ReadFields(At(raw, 8), <<f, g>>) = ReadFurther(ReadFurther(start, f), g)
  <2>1. ReadFields(At(raw, 8), <<f, g>>) = FoldLeft(ReadFurther, start, <<f, g>>)
    BY DEF ReadFields, start
  <2>2. FoldLeft(ReadFurther, start, <<f, g>>)
           = Applied(ReadFurther, Applied(ReadFurther, start, f), g)
    BY FoldTwo
  <2> QED
    BY <2>1, <2>2 DEF Applied
<1> QED
  BY <1>8, <1>10, <1>13, <1>14, NearIsInside

\* A packet of three fields.
LEMMA ThreeCut ==
    ASSUME NEW raw, NEW msg, NEW f, NEW g, NEW h, HasThree(msg, f, g, h), Len(raw) \in Nat,
           Len(raw) <= 1023, HoldsStart(raw, 0, PacketBytes(msg)),
           NEW r \in ReadFields(At(raw, 8), <<f, g, h>>)
    PROVE  r.buf.readIndex <= Len(r.buf.data)
<1> DEFINE header == HeaderBytes(msg)
           F == FieldBytes(FieldOf(msg, f))
           G == FieldBytes(FieldOf(msg, g))
           H == FieldBytes(FieldOf(msg, h))
           start == {[values |-> <<>>, buf |-> At(raw, 8)]}
           n == 8 + Len(F)
           m == n + Len(G)
           l == m + Len(H)
<1>1. header \in Seq(Byte) /\ Len(header) = 8
  BY HeaderSize
<1>2. /\ F \in Seq(Byte) /\ G \in Seq(Byte) /\ H \in Seq(Byte)
      /\ Len(F) \in Nat /\ Len(G) \in Nat /\ Len(H) \in Nat
  BY FieldTypes DEF HasThree, FieldOf
<1>3. /\ IsValueOf(f, msg.values[f]) /\ IsValueOf(g, msg.values[g])
      /\ IsValueOf(h, msg.values[h])
  BY DEF HasThree
<1>4. PacketBytes(msg) = Joined(Joined(Joined(header, F), G), H)
  BY ThreeBytes
<1> HIDE DEF header, F, G, H
<1> DEFINE p == Joined(header, F)
           q == Joined(p, G)
<1>5. p \in Seq(Byte) /\ Len(p) = Len(header) + Len(F)
  BY <1>1, <1>2, JoinedBytes
<1> HIDE DEF p
<1>6. q \in Seq(Byte) /\ Len(q) = Len(p) + Len(G)
  BY <1>2, <1>5, JoinedBytes
<1> HIDE DEF q
<1>7. /\ 0 + Len(q) = m /\ 0 + Len(p) = n /\ 0 + Len(header) = 8
      /\ n \in Nat /\ m \in Nat /\ l \in Nat
  BY <1>1, <1>2, <1>5, <1>6
<1>8. HoldsStart(raw, 0, q) /\ HoldsStart(raw, 0 + Len(q), H)
  BY <1>2, <1>4, <1>6, StartOfBoth DEF p, q
<1>9. HoldsStart(raw, 0, p) /\ HoldsStart(raw, 0 + Len(p), G)
  BY <1>2, <1>5, <1>8, StartOfBoth DEF q
<1>10. HoldsStart(raw, 0 + Len(header), F)
  BY <1>1, <1>2, <1>9, StartOfBoth DEF p
<1>11. HoldsStart(raw, 8, F) /\ HoldsStart(raw, n, G) /\ HoldsStart(raw, m, H)
  BY <1>7, <1>8, <1>9, <1>10
<1>12. l <= Len(raw)
  BY <1>11 DEF HoldsStart
<1>13. AreNear(start, raw, 8)
  BY DEF AreNear
<1> HIDE DEF start, n, m, l
<1>14. AreNear(ReadFurther(start, f), raw, n)
  BY <1>3, <1>11, <1>13, OneMoreCut DEF F, n
<1>15. AreNear(ReadFurther(ReadFurther(start, f), g), raw, m)
  BY <1>3, <1>7, <1>11, <1>14, OneMoreCut DEF G, m
<1>16. AreNear(ReadFurther(ReadFurther(ReadFurther(start, f), g), h), raw, l)
  BY <1>3, <1>7, <1>11, <1>15, OneMoreCut DEF H, l
<1>17. ReadFields(At(raw, 8), <<f, g, h>>)
          = ReadFurther(ReadFurther(ReadFurther(start, f), g), h)
  <2>1. ReadFields(At(raw, 8), <<f, g, h>>) = FoldLeft(ReadFurther, start, <<f, g, h>>)
    BY DEF ReadFields, start
  <2>2. FoldLeft(ReadFurther, start, <<f, g, h>>)
           = Applied(ReadFurther, Applied(ReadFurther, Applied(ReadFurther, start, f), g), h)
    BY FoldThree
  <2> QED
    BY <2>1, <2>2 DEF Applied
<1> QED
  BY <1>7, <1>12, <1>16, <1>17, NearIsInside

\* A recv() that begins at the start of a packet returns the bytes of it that have arrived.
LEMMA PacketReceived ==
    ASSUME NEW kind \in Links, InFlight(kind, flight), NEW n \in 1..RecvSize,
           n <= Len(flight), flight[1].at = 1
    PROVE  /\ flight[1].msg \in Messages(kind)
           /\ \A i \in 1..PacketSize(flight[1].msg) :
                 i <= n => Received(n)[i] = PacketBytes(flight[1].msg)[i]
<1> DEFINE msg == flight[1].msg
           size == PacketSize(msg)
           bytes == PacketBytes(msg)
<1>1. /\ RecvSize \in Nat
      /\ \A i \in 1..RecvSize : Received(n)[i] = IF i <= n THEN flight[i].byte ELSE {}
  BY ReceivedBytes
<1>2. Len(flight) \in Nat /\ \A i \in 1..Len(flight) : flight[i] \in Parts(kind)
  BY DEF InFlight
<1>3. Len(flight) # 0 /\ 1 \in 1..Len(flight)
  BY <1>1, <1>2
<1>4. msg \in Messages(kind) /\ size \in Nat
  BY <1>2, <1>3, PartFacts
<1>5. ASSUME NEW i \in 1..size, i <= n PROVE Received(n)[i] = bytes[i]
  <2> DEFINE j == i - 1
  <2>1. j \in Nat /\ flight[1].at + j <= size /\ j + 1 = i /\ 1 + j = i /\ i \in 1..RecvSize
    BY <1>1, <1>4, <1>5
  <2> HIDE DEF j
  <2>2. /\ j + 1 <= Len(flight) /\ flight[j + 1].msg = flight[1].msg
        /\ flight[j + 1].at = flight[1].at + j
    BY <1>3, <2>1, PacketAhead
  <2>3. i \in 1..Len(flight) /\ flight[i].msg = msg /\ flight[i].at = i
    BY <1>2, <2>1, <2>2
  <2>4. flight[i].byte = bytes[i]
    BY <1>2, <2>3, PartFacts
  <2> QED
    BY <1>1, <1>5, <2>1, <2>4
<1> QED
  BY <1>4, <1>5

\* A size that fits is read of four bytes, and then what was received is the packet, or
\* its start with zeros behind it.
LEMMA StartHeld ==
    ASSUME NEW kind \in Links, InFlight(kind, flight), NEW n \in 4..RecvSize, n <= Len(flight),
           flight[1].at = 1, PacketSize(flight[1].msg) <= 1023,
           LengthAt(At(Received(n), 0)) <= RecvSize
    PROVE  /\ LengthAt(At(Received(n), 0)) = PacketSize(flight[1].msg)
           /\ HoldsStart(Received(n), 0, PacketBytes(flight[1].msg))
<1> DEFINE msg == flight[1].msg
           size == PacketSize(msg)
           bytes == PacketBytes(msg)
           raw == Received(n)
           word == Encode(BitsOf(size), 4)
           number == Encode(BitsOf(TypeNumber(msg.type)), 4)
<1>1. n \in Nat /\ n >= 4 /\ n <= RecvSize /\ n \in 1..RecvSize /\ RecvSize >= 8
  BY StreamAssumption
<1>2. /\ Len(raw) = RecvSize /\ RecvSize \in Nat
      /\ \A i \in 1..RecvSize : raw[i] = IF i <= n THEN flight[i].byte ELSE {}
  BY <1>1, ReceivedBytes
<1>3. msg \in Messages(kind) /\ \A i \in 1..size : i <= n => raw[i] = bytes[i]
  BY <1>1, PacketReceived
<1>4. /\ Len(bytes) = size /\ size \in Nat /\ size >= 8
      /\ \A i \in 1..8 : bytes[i] = HeaderBytes(msg)[i]
  BY <1>3, HeaderFirst
<1>5. \A i \in 1..4 : HeaderBytes(msg)[i] = word[i]
  <2>1. word \in Seq(Byte) /\ Len(word) = 4 /\ number \in Seq(Byte)
    BY Encoded
  <2>2. HeaderBytes(msg) = Joined(word, number)
    BY DEF HeaderBytes
  <2> HIDE DEF word, number
  <2>3. \A i \in 1..Len(word) : Joined(word, number)[i] = word[i]
    BY <2>1, JoinedBytes
  <2> QED
    BY <2>1, <2>2, <2>3
<1>6. LengthAt(At(raw, 0)) <= RecvSize /\ size <= 1023
  OBVIOUS
<1> HIDE DEF msg, size, bytes, raw
<1>7. Holds(raw, 0, word)
  <2>1. Len(word) = 4
    BY Encoded
  <2>2. ASSUME NEW i \in 1..4 PROVE raw[0 + i] = word[i]
    <3>1. i \in 1..8 /\ i \in 1..size /\ i <= n /\ 0 + i = i
      BY <1>1, <1>4
    <3> QED
      BY <1>3, <1>4, <1>5, <3>1
  <2>3. 0 + 4 <= Len(raw)
    BY <1>1, <1>2
  <2> HIDE DEF word
  <2> QED
    BY <2>1, <2>2, <2>3 DEF Holds
<1>8. LengthAt(At(raw, 0)) = size
  BY <1>2, <1>4, <1>6, <1>7, NumberRead
<1>9. size <= RecvSize
  BY <1>6, <1>8
<1>10. CASE size <= n
  <2>1. \A i \in 1..size : raw[0 + i] = bytes[i]
    <3>1. \A i \in 1..size : i <= n /\ 0 + i = i
      BY <1>1, <1>4, <1>10
    <3> QED
      BY <1>3, <3>1
  <2>2. 0 + size <= Len(raw) /\ size <= size
    BY <1>2, <1>4, <1>9
  <2>3. HoldsStart(raw, 0, bytes)
    BY <1>4, <2>1, <2>2 DEF HoldsStart
  <2> QED
    BY <1>8, <2>3 DEF msg, size, bytes, raw
<1>11. CASE ~(size <= n)
  <2>1. \A i \in 1..n : raw[0 + i] = bytes[i]
    <3>1. \A i \in 1..n : i <= n /\ i \in 1..size /\ 0 + i = i
      BY <1>1, <1>4, <1>11
    <3> QED
      BY <1>3, <3>1
  <2>2. 0 + size <= Len(raw) /\ n <= size
    BY <1>1, <1>2, <1>4, <1>9, <1>11
  <2>3. OnlyZeros(raw, 0 + n)
    <3> SUFFICES ASSUME NEW i \in Nat, 0 + n < i, i <= Len(raw) PROVE raw[i] = {}
      BY DEF OnlyZeros
    <3>1. i \in 1..RecvSize /\ ~(i <= n)
      BY <1>1, <1>2
    <3> QED
      BY <1>2, <3>1
  <2>4. HoldsStart(raw, 0, bytes)
    BY <1>1, <1>4, <2>1, <2>2, <2>3 DEF HoldsStart
  <2> QED
    BY <1>8, <2>4 DEF msg, size, bytes, raw
<1> QED
  BY <1>10, <1>11

\* No handler of a message of fields reads behind its buffer.
LEMMA InsideHandled ==
    ASSUME NEW kind \in Links, kind \in {"C2S", "S2C"}, InFlight(kind, flight), TypesStandOut,
           RecvSize <= 1023, NEW n \in 1..RecvSize, n <= Len(flight),
           NEW result \in Dispatched(kind, Received(n)), result.type # "none"
    PROVE  result.inside
<1> DEFINE raw == Received(n)
           msg == flight[1].msg
           size == PacketSize(msg)
           type == msg.type
           fields == WrittenFields[type]
<1>1. RecvSize \in Nat /\ Len(raw) = RecvSize
  BY ReceivedBytes
<1>2. /\ n >= 6 /\ flight[1].at = 1 /\ result.type = type
      /\ LengthAt(At(raw, 0)) <= RecvSize
  BY StartsHandled
<1>3. msg \in Messages(kind)
  BY <1>2, PacketReceived
<1>4. size \in Nat /\ size < 992
  BY <1>3, HeaderFirst DEF TypesStandOut
<1>5. LengthAt(At(raw, 0)) = size /\ HoldsStart(raw, 0, PacketBytes(msg))
  <2>1. n \in 4..RecvSize /\ size <= 1023
    BY <1>1, <1>2, <1>4
  <2> QED
    BY <1>2, <2>1, StartHeld
<1>6. /\ type \in Cases(kind) /\ ~IsWeb(type)
      /\ (IF kind = "S2C" THEN ClientReads[type] ELSE ServerReads[type]) = fields
      /\ HasFields(msg)
  BY <1>3, ReadAsWritten
<1>7. TypeOf(LengthAt(At(raw, 4))) = type
  <2>1. n \in 6..RecvSize
    BY <1>1, <1>2
  <2> QED
    BY <1>2, <2>1, TypeReceived
<1>8. Len(raw) \in Nat /\ Len(raw) <= 1023 /\ size <= RecvSize
  BY <1>1, <1>2, <1>5
<1>9. result \in Dispatched(kind, raw)
  OBVIOUS
<1> HIDE DEF raw, msg, size, type, fields
<1>10. PICK r \in ReadFields(At(raw, 8), fields) :
          result.inside = (r.buf.readIndex <= Len(r.buf.data))
  BY <1>4, <1>5, <1>6, <1>7, <1>8, <1>9, FieldsHandled
<1>11. r.buf.readIndex <= Len(r.buf.data)
  <2>1. ASSUME NEW f, NEW g, HasTwo(msg, f, g) PROVE r.buf.readIndex <= Len(r.buf.data)
    <3>1. fields = <<f, g>>
      BY <2>1 DEF HasTwo, fields, type
    <3> QED
      BY <1>5, <1>8, <1>10, <2>1, <3>1, TwoCut
  <2>2. ASSUME NEW f, NEW g, NEW h, HasThree(msg, f, g, h)
        PROVE  r.buf.readIndex <= Len(r.buf.data)
    <3>1. fields = <<f, g, h>>
      BY <2>2 DEF HasThree, fields, type
    <3> QED
      BY <1>5, <1>8, <1>10, <2>2, <3>1, ThreeCut
  <2> QED
    BY <1>6, <2>1, <2>2 DEF HasFields
<1> QED
  BY <1>10, <1>11

\* A parser is given a payload and its size: the server itself reads nothing of it.
LEMMA InsideParsed ==
    ASSUME NEW kind \in Links, kind \in {"S2A", "A2S"}, InFlight(kind, flight), TypesStandOut,
           RecvSize <= 1023, NEW n \in 1..RecvSize, n <= Len(flight),
           NEW result \in Dispatched(kind, Received(n)), result.type # "none"
    PROVE  result.inside
<1> DEFINE raw == Received(n)
           buf == Loaded(raw)
           size == LengthAt(buf)
           type == TypeOf(LengthAt(Skip(buf, 4)))
<1>1. flight[1].at = 1 /\ result.type = flight[1].msg.type
  BY StartsHandled
<1>2. flight[1].msg \in Messages(kind)
  BY <1>1, PacketReceived
<1>3. IsWeb(result.type)
  BY <1>1, <1>2, PayloadTame
<1>4. result \in (IF size <= RecvSize /\ type \in Cases(kind)
                  THEN Handling(kind, buf, size, type) ELSE {Nothing})
  BY DEF Dispatched
<1> HIDE DEF raw, buf, size, type
<1>5. result \in Handling(kind, buf, size, type)
  <2>1. Nothing.type = "none"
    BY DEF Nothing
  <2> QED
    BY <1>4, <2>1
<1>6. result.type = type
  BY <1>5 DEF Handling
<1> QED
  BY <1>3, <1>5, <1>6 DEF Handling

\* What is ignored reads nothing.
LEMMA InsideIgnored ==
    ASSUME NEW kind, NEW raw, NEW result \in Dispatched(kind, raw), result.type = "none"
    PROVE  result.inside
<1> DEFINE buf == Loaded(raw)
           size == LengthAt(buf)
           type == TypeOf(LengthAt(Skip(buf, 4)))
           known == size <= RecvSize /\ type \in Cases(kind)
<1>1. result \in (IF known THEN Handling(kind, buf, size, type) ELSE {Nothing})
  BY DEF Dispatched
<1> HIDE DEF buf, size, type
<1>2. ASSUME type \in Cases(kind) PROVE type # "none"
  <2>1. type \in DOMAIN ClientReads \cup WebRequestTypes \cup DOMAIN ServerReads \cup DOMAIN WebClass
    BY <1>2 DEF Cases
  <2> QED
    BY <2>1 DEF ClientReads, WebRequestTypes, ServerReads, WebClass
<1>3. CASE known
  <2>1. result \in Handling(kind, buf, size, type)
    BY <1>1, <1>3
  <2>2. result.type = type
    BY <2>1 DEF Handling
  <2> QED
    BY <1>2, <1>3, <2>2
<1>4. CASE ~known
  <2>1. result = Nothing
    BY <1>1, <1>4
  <2> QED
    BY <2>1 DEF Nothing
<1> QED
  BY <1>3, <1>4

\* A step does not read behind the buffer.
LEMMA InsideStep ==
    ASSUME BufferInv, FlightInv, TypesStandOut, RecvSize <= 1023,
           ReadsStayInside, [Next]_vars
    PROVE  ReadsStayInside'
<1>1. ASSUME NEW n \in 1..RecvSize, Recv(n) PROVE ReadsStayInside'
  <2>1. n <= Len(flight) /\ handled' \in Dispatched(link, Received(n))
    BY <1>1 DEF Recv
  <2>2. link \in Links /\ link \in {"C2S", "S2C", "S2A", "A2S"}
    BY StreamAssumption DEF BufferInv
  <2>3. CASE handled'.type = "none"
    BY <2>1, <2>3, InsideIgnored DEF ReadsStayInside
  <2>4. CASE handled'.type # "none" /\ link \in {"C2S", "S2C"}
    BY <2>1, <2>2, <2>4, InsideHandled DEF ReadsStayInside, FlightInv
  <2>5. CASE handled'.type # "none" /\ link \in {"S2A", "A2S"}
    BY <2>1, <2>2, <2>5, InsideParsed DEF ReadsStayInside, FlightInv
  <2> QED
    BY <2>2, <2>3, <2>4, <2>5
<1>2. ASSUME NEW msg \in Messages(link), Send(msg) PROVE ReadsStayInside'
  BY <1>2 DEF Send, ReadsStayInside, Nothing
<1>3. ASSUME UNCHANGED vars PROVE ReadsStayInside'
  BY <1>3 DEF vars, ReadsStayInside
<1> QED
  BY <1>1, <1>2, <1>3 DEF Next

\* HandleMessage() takes a packet that was cut for a whole one, reads lengths that may
\* have lost bytes and strings that have not arrived, and does not look where its buffer
\* ends.  The zeros behind what has arrived keep it inside: with a byte missing a length
\* is smaller than it was, and a field among zeros is empty.
THEOREM NoReadOutside ==
    ASSUME WritesFit, TypesStandOut, RecvSize <= 1023
    PROVE  Spec => []ReadsStayInside
<1>1. Init => BufferInv /\ FlightInv /\ ReadsStayInside
  <2>1. Init => ReadsStayInside
    BY DEF Init, ReadsStayInside, Nothing
  <2> QED
    BY <2>1, BufferStart, FlightStart
<1>2. /\ BufferInv /\ FlightInv /\ ReadsStayInside /\ [Next]_vars
      => (BufferInv /\ FlightInv /\ ReadsStayInside)'
  <2>1. SUFFICES ASSUME BufferInv, FlightInv, ReadsStayInside, [Next]_vars
                 PROVE  (BufferInv /\ FlightInv /\ ReadsStayInside)'
    OBVIOUS
  <2>2. BufferInv' /\ FlightInv' /\ ReadsStayInside'
    BY <2>1, BufferStep, FlightStep, InsideStep
  <2> QED
    BY <2>2
<1> QED
  BY <1>1, <1>2, PTL DEF Spec
-----------------------------------------------------------------------------
(***************************************************************************)
(* The parser of the messages between the servers.                         *)
(***************************************************************************)
\* A set of natural numbers that is not empty has a smallest one.
LEMMA MinOfNaturals ==
    ASSUME NEW S \in SUBSET Nat, S # {}
    PROVE  Min(S) \in S /\ \A i \in S : Min(S) <= i
<1> DEFINE R == OpToRel(<, Nat)
<1>1. IsWellFoundedOn(R, Nat)
  BY NatLessThanWellFounded
<1> HIDE DEF R
<1>2. \E x \in S : \A y \in S : ~(<<y, x>> \in R)
  BY <1>1, WFMin
<1>3. \A x, y \in Nat : <<y, x>> \in R <=> y < x
  BY DEF R, OpToRel
<1>4. \A x, y \in S : x \in Nat /\ y \in Nat
  OBVIOUS
<1>5. \A x, y \in Nat : ~(y < x) => x <= y
  OBVIOUS
<1>6. \E x \in S : \A y \in S : x <= y
  BY <1>2, <1>3, <1>4, <1>5
<1> QED
  BY <1>6 DEF Min

\* A number is not negative.
LEMMA NumberNat == ASSUME NEW bits PROVE Number(bits) \in Nat
BY Powers DEF Number, Weight

\* A varint ends behind its first byte.
LEMMA VarintEnds ==
    ASSUME NEW bytes, NEW at \in Nat
    PROVE  VarintEnd(bytes, at) \in Nat /\ VarintEnd(bytes, at) > at
<1> DEFINE S == {i \in at..Len(bytes) : 7 \notin bytes[i]} \cup {at + 9}
<1>1. S \in SUBSET Nat /\ S # {} /\ \A i \in S : i >= at
  OBVIOUS
<1>2. VarintEnd(bytes, at) = 1 + Min(S)
  BY DEF VarintEnd
<1> HIDE DEF S
<1>3. Min(S) \in Nat /\ Min(S) >= at
  <2>1. Min(S) \in S
    BY <1>1, MinOfNaturals
  <2> QED
    BY <1>1, <2>1
<1> QED
  BY <1>1, <1>2, <1>3

\* Parsing goes on behind a field, or it ends.
LEMMA FieldEnds ==
    ASSUME NEW bytes, NEW at \in Nat
    PROVE  /\ FieldAt(bytes, at).end \in Nat
           /\ FieldAt(bytes, at).end = 0 \/ FieldAt(bytes, at).end > at
<1> DEFINE tag == VarintAt(bytes, at)
           number == Number(ShiftRight(tag, 3))
           wire == Number(Truncate(tag, 3))
           start == VarintEnd(bytes, at)
           length == Number(VarintAt(bytes, start))
           end == ValueEnd(bytes, start, number, wire)
           second == VarintEnd(bytes, start)
<1>1. start \in Nat /\ start > at
  BY VarintEnds
<1>2. FieldAt(bytes, at).end = IF tag = {} \/ wire = 4 THEN 0 ELSE end
  BY DEF FieldAt
<1> HIDE DEF tag, number, wire, start
<1>3. second \in Nat /\ second > start
  BY <1>1, VarintEnds
<1>4. length \in Nat
  BY NumberNat
<1>5. end = LET e == CASE wire = 0 -> second
                       [] wire = 1 -> start + 8
                       [] wire = 2 -> second + length
                       [] wire = 5 -> start + 4
                       [] OTHER -> 0
            IN  IF number = 0 \/ e > Len(bytes) + 1 THEN 0 ELSE e
  BY DEF ValueEnd
<1> HIDE DEF second, length, end
<1>6. end \in Nat /\ (end = 0 \/ end > at)
  BY <1>1, <1>3, <1>4, <1>5
<1> QED
  BY <1>2, <1>6

\* One step of ParseWeb().
ParseStep(class, bytes, settings, at) ==
    LET field == FieldAt(bytes, at)
    IN  IF at > Len(bytes) \/ field.end = 0 THEN <<>>
        ELSE IF IsKnown(class, field.number, field.wire, field.value)
        THEN SetBefore(settings[field.end], class[field.number].name, field.value)
        ELSE settings[field.end]

\* It looks only at what is behind the field.
LEMMA StepLooksBehind ==
    ASSUME NEW class, NEW bytes, Len(bytes) \in Nat, NEW at \in Nat, NEW f, NEW g,
           \A i \in Nat : i > at => f[i] = g[i]
    PROVE  ParseStep(class, bytes, f, at) = ParseStep(class, bytes, g, at)
<1> DEFINE field == FieldAt(bytes, at)
<1>1. field.end = 0 \/ f[field.end] = g[field.end]
  BY FieldEnds
<1> HIDE DEF field
<1> QED
  BY <1>1 DEF ParseStep, field

\* There is a function that makes these steps, by an induction from the end of the bytes.
LEMMA ParserExists ==
    ASSUME NEW class, NEW bytes, Len(bytes) \in Nat
    PROVE  \E f : f = [at \in Nat |-> ParseStep(class, bytes, f, at)]
<1> DEFINE n == Len(bytes)
           Makes(f, k) == /\ f = [at \in Nat |-> f[at]]
                          /\ \A at \in Nat :
                                at + k > n => f[at] = ParseStep(class, bytes, f, at)
           S == {k \in Nat : \E f : Makes(f, k)}
<1>1. 0 \in S
  <2> DEFINE f == [at \in Nat |-> <<>>]
  <2>1. f = [at \in Nat |-> f[at]]
    OBVIOUS
  <2>2. \A at \in Nat : at + 0 > n => ParseStep(class, bytes, f, at) = <<>>
    BY DEF ParseStep
  <2>3. \A at \in Nat : f[at] = <<>>
    OBVIOUS
  <2>4. Makes(f, 0)
    BY <2>1, <2>2, <2>3
  <2> QED
    BY <2>4
<1>2. ASSUME NEW k \in Nat, k \in S PROVE k + 1 \in S
  <2>1. PICK f : Makes(f, k)
    BY <1>2
  <2> DEFINE g == [at \in Nat |-> IF at + k > n THEN f[at] ELSE ParseStep(class, bytes, f, at)]
  <2>2. g = [at \in Nat |-> g[at]]
    OBVIOUS
  <2>3. ASSUME NEW at \in Nat, at + (k + 1) > n
        PROVE  g[at] = ParseStep(class, bytes, g, at)
    <3>1. \A i \in Nat : i > at => i + k > n
      BY <2>3
    <3>2. \A i \in Nat : i > at => f[i] = g[i]
      BY <3>1
    <3> HIDE DEF g
    <3>3. ParseStep(class, bytes, f, at) = ParseStep(class, bytes, g, at)
      BY <3>2, StepLooksBehind
    <3>4. g[at] = IF at + k > n THEN f[at] ELSE ParseStep(class, bytes, f, at)
      BY DEF g
    <3>5. at + k > n => f[at] = ParseStep(class, bytes, f, at)
      BY <2>1
    <3> QED
      BY <3>3, <3>4, <3>5
  <2> HIDE DEF g
  <2>4. Makes(g, k + 1)
    BY <2>2, <2>3
  <2> QED
    BY <2>4
<1>3. n + 1 \in S
  <2> HIDE DEF S
  <2>1. Nat \subseteq S
    BY <1>1, <1>2, NatSet
  <2> QED
    BY <2>1
<1>4. PICK f : Makes(f, n + 1)
  BY <1>3
<1>5. \A at \in Nat : at + (n + 1) > n
  OBVIOUS
<1>6. \A at \in Nat : f[at] = ParseStep(class, bytes, f, at)
  BY <1>4, <1>5
<1>7. f = [at \in Nat |-> f[at]]
  BY <1>4
<1> HIDE DEF n
<1>8. f = [at \in Nat |-> ParseStep(class, bytes, f, at)]
  BY <1>6, <1>7
<1> QED
  BY <1>8

\* ParseWeb() is what such a function has for the first byte.
LEMMA Parsing ==
    ASSUME NEW class, NEW bytes, Len(bytes) \in Nat
    PROVE  \E f : /\ ParseWeb(class, bytes) = f[1]
                  /\ \A at \in Nat : f[at] = ParseStep(class, bytes, f, at)
<1> DEFINE Is(f) == f = [at \in Nat |-> ParseStep(class, bytes, f, at)]
           parse == CHOOSE f : Is(f)
<1>1. Is(parse)
  <2>1. \E f : Is(f)
    BY ParserExists
  <2> QED
    BY <2>1
<1>2. ParseWeb(class, bytes) = parse[1]
  BY DEF ParseWeb, ParseStep
<1> HIDE DEF parse
<1>3. \A at \in Nat : parse[at] = ParseStep(class, bytes, parse, at)
  BY <1>1
<1> QED
  BY <1>2, <1>3

\* The group of 7 bits that the i-th byte of a varint has.
Group(value, i) == Truncate(ShiftRight(value, 7 * (i - 1)), 7)

\* The groups have the bits of the value.
LEMMA GroupBits ==
    ASSUME NEW value \in Bits(64), NEW i \in Nat, i >= 1
    PROVE  ShiftLeft(Group(value, i), 7 * (i - 1))
              = {b \in value : b \in 7 * (i - 1)..7 * (i - 1) + 6}
<1> DEFINE m == 7 * (i - 1)
<1>1. m \in Nat
  OBVIOUS
<1> HIDE DEF m
<1>2. Group(value, i) = Truncate(ShiftRight(value, m), 7)
  BY DEF Group, m
<1>3. \A c : c \in Group(value, i) <=> c \in 0..6 /\ \E b \in value : b >= m /\ c = b - m
  BY <1>2 DEF Truncate, ShiftRight
<1>4. \A b \in value : b \in Int
  BY DEF Bits
<1>5. ASSUME NEW b \in value, b \in m..m + 6
      PROVE  b \in ShiftLeft(Group(value, i), m)
  <2>1. b - m \in 0..6 /\ b >= m /\ b = (b - m) + m
    BY <1>1, <1>5
  <2>2. b - m \in Group(value, i)
    BY <1>3, <2>1
  <2> QED
    BY <2>1, <2>2 DEF ShiftLeft
<1>6. ASSUME NEW b \in ShiftLeft(Group(value, i), m)
      PROVE  b \in value /\ b \in m..m + 6
  <2>1. PICK c \in Group(value, i) : b = c + m
    BY DEF ShiftLeft
  <2>2. PICK d \in value : d >= m /\ c = d - m /\ c \in 0..6
    BY <1>3
  <2>3. b = d
    BY <1>1, <1>4, <2>1, <2>2
  <2> QED
    BY <1>1, <1>4, <2>2, <2>3
<1>7. ShiftLeft(Group(value, i), m) = {b \in value : b \in m..m + 6}
  BY <1>5, <1>6
<1> QED
  BY <1>7 DEF m

\* A varint is read as it was written.
LEMMA VarintHeld ==
    ASSUME NEW bytes, NEW k \in Nat, NEW value \in Bits(64), Len(bytes) \in Nat,
           Holds(bytes, k, Varint(value))
    PROVE  /\ VarintEnd(bytes, k + 1) = k + Len(Varint(value)) + 1
           /\ VarintAt(bytes, k + 1) = value
<1> DEFINE last == HighestBit(value) \div 7
           n == Len(Varint(value))
<1>1. /\ HighestBit(value) \in 0..63
      /\ \A b \in value : b \in 0..63 /\ b <= HighestBit(value)
  <2>1. value \in SUBSET (0..63)
    BY DEF Bits
  <2>2. \A b \in value : b <= Max(value)
    BY <2>1, MaxOfInterval
  <2> QED
    BY <2>1, <2>2, HighestBitIn DEF HighestBit
<1>2. last \in 0..9 /\ \A b \in value : b \div 7 \in 0..last
  <2>1. \A b, h \in 0..63 : b <= h => b \div 7 <= h \div 7 /\ b \div 7 \in Nat
    OBVIOUS
  <2>2. \A h \in 0..63 : h \div 7 \in 0..9
    OBVIOUS
  <2> DEFINE h == HighestBit(value)
  <2> HIDE DEF h
  <2>3. h \in 0..63 /\ \A b \in value : b \in 0..63 /\ b <= h
    BY <1>1 DEF h
  <2>4. \A b \in value : b \div 7 <= h \div 7 /\ b \div 7 \in Nat
    BY <2>1, <2>3
  <2>5. h \div 7 \in 0..9
    BY <2>2, <2>3
  <2> QED
    BY <2>4, <2>5 DEF h
<1>3. /\ Varint(value) = [i \in 1..last + 1 |-> Group(value, i)
                                                  \cup (IF i <= last THEN {7} ELSE {})]
      /\ n = last + 1
  <2>1. Varint(value) = [i \in 1..last + 1 |-> Group(value, i)
                                                 \cup (IF i <= last THEN {7} ELSE {})]
    BY DEF Varint, Group
  <2>2. Varint(value) \in Seq(Byte)
    BY VarintSizesAreExact
  <2>3. DOMAIN Varint(value) = 1..Len(Varint(value)) /\ Len(Varint(value)) \in Nat
    BY <2>2, LenProperties
  <2> HIDE DEF last
  <2>4. DOMAIN Varint(value) = 1..last + 1
    BY <2>1
  <2> QED
    BY <1>2, <2>1, <2>3, <2>4
<1> HIDE DEF last
<1>4. /\ k + n <= Len(bytes)
      /\ \A i \in 1..n : bytes[k + i] = Group(value, i) \cup (IF i < n THEN {7} ELSE {})
  <2>1. k + n <= Len(bytes) /\ \A i \in 1..n : bytes[k + i] = Varint(value)[i]
    BY DEF Holds
  <2> HIDE DEF n
  <2>2. \A i \in 1..n : i \in 1..last + 1 /\ (i <= last <=> i < n)
    BY <1>2, <1>3
  <2>3. \A i \in 1..last + 1 :
           Varint(value)[i] = Group(value, i) \cup (IF i <= last THEN {7} ELSE {})
    BY <1>3
  <2> QED
    BY <2>1, <2>2, <2>3
<1> HIDE DEF n
<1>5. \A i : Group(value, i) \subseteq 0..6
  BY DEF Group, Truncate
<1>6. VarintEnd(bytes, k + 1) = k + n + 1
  <2> DEFINE S == {i \in k + 1..Len(bytes) : 7 \notin bytes[i]} \cup {(k + 1) + 9}
  <2>1. k + n \in S
    <3>1. n \in 1..n
      BY <1>2, <1>3
    <3>2. 7 \notin bytes[k + n]
      BY <1>4, <1>5, <3>1
    <3> QED
      BY <1>2, <1>3, <1>4, <3>2
  <2>2. ASSUME NEW j \in S PROVE j >= k + n
    <3>1. CASE j = (k + 1) + 9
      BY <1>2, <1>3, <3>1
    <3>2. CASE j \in k + 1..Len(bytes) /\ 7 \notin bytes[j] /\ j < k + n
      <4>1. j - k \in 1..n /\ j - k < n /\ k + (j - k) = j
        BY <1>2, <1>3, <3>2
      <4>2. 7 \in bytes[k + (j - k)]
        BY <1>4, <4>1
      <4> QED
        BY <3>2, <4>1, <4>2
    <3> QED
      BY <1>2, <1>3, <3>1, <3>2
  <2>3. S \in SUBSET Nat /\ S # {}
    OBVIOUS
  <2>4. VarintEnd(bytes, k + 1) = 1 + Min(S)
    BY DEF VarintEnd
  <2> HIDE DEF S
  <2>5. Min(S) \in S /\ \A j \in S : Min(S) <= j
    BY <2>3, MinOfNaturals
  <2>6. Min(S) = k + n
    <3>1. Min(S) \in Nat /\ Min(S) >= k + n /\ Min(S) <= k + n
      BY <2>1, <2>2, <2>3, <2>5
    <3> QED
      BY <1>2, <1>3, <3>1
  <2> QED
    BY <1>2, <1>3, <2>4, <2>6
<1>7. VarintAt(bytes, k + 1) = value
  <2> DEFINE Part(j) == ShiftLeft(Truncate(bytes[j], 7), 7 * (j - (k + 1)))
             I == {j \in k + 1..VarintEnd(bytes, k + 1) - 1 : j <= Len(bytes)}
  <2>1. VarintAt(bytes, k + 1) = UNION {Part(j) : j \in I}
    BY DEF VarintAt
  <2>2. I = k + 1..k + n
    BY <1>2, <1>3, <1>4, <1>6
  <2>3. ASSUME NEW i \in 1..n
        PROVE  Part(k + i) = {b \in value : b \in 7 * (i - 1)..7 * (i - 1) + 6}
    <3>1. Truncate(bytes[k + i], 7) = Group(value, i)
      <4>1. bytes[k + i] = Group(value, i) \/ bytes[k + i] = Group(value, i) \cup {7}
        BY <1>4
      <4> QED
        BY <1>5, <4>1 DEF Truncate
    <3>2. (k + i) - (k + 1) = i - 1 /\ i \in Nat /\ i >= 1
      BY <1>2, <1>3
    <3> QED
      BY <3>1, <3>2, GroupBits
  <2> HIDE DEF Part, I
  <2>4. ASSUME NEW b \in value PROVE \E j \in I : b \in Part(j)
    <3> DEFINE q == b \div 7
    <3>1. b \in 0..63 /\ q \in 0..last
      BY <1>1, <1>2
    <3>2. b \in 7 * q..7 * q + 6
      BY <3>1
    <3> HIDE DEF q
    <3>3. q + 1 \in 1..n /\ (q + 1) - 1 = q
      BY <1>2, <1>3, <3>1
    <3>4. b \in Part(k + (q + 1))
      BY <2>3, <3>2, <3>3
    <3>5. k + (q + 1) \in I
      BY <1>2, <1>3, <2>2, <3>3
    <3> QED
      BY <3>4, <3>5
  <2>5. ASSUME NEW j \in I, NEW b \in Part(j) PROVE b \in value
    <3>1. j - k \in 1..n /\ k + (j - k) = j
      BY <1>2, <1>3, <2>2
    <3>2. Part(k + (j - k)) \subseteq value
      BY <2>3, <3>1
    <3> QED
      BY <3>1, <3>2
  <2> QED
    BY <2>1, <2>4, <2>5
<1> QED
  BY <1>6, <1>7 DEF n

\* A tag has the number of its field and how the field is written.
LEMMA TagParts ==
    ASSUME NEW number \in 1..3, NEW wire \in {0, 2}
    PROVE  /\ Tag(number, wire) \in Bits(64) /\ Tag(number, wire) # {}
           /\ Number(ShiftRight(Tag(number, wire), 3)) = number
           /\ Number(Truncate(Tag(number, wire), 3)) = wire
<1> DEFINE n == 8 * number + wire
           tag == BitsOf(n)
<1>1. number \in 0..1023 /\ wire \in 0..1023
  OBVIOUS
<1>2. n \div 8 = number /\ n \div 2 = 4 * number + wire \div 2 /\ n \div 4 = 2 * number
      /\ n % 2 = 0 /\ (n \div 2) % 2 = wire \div 2 /\ (n \div 4) % 2 = 0
  OBVIOUS
<1>3. /\ \A i \in 0..10 : i \in tag <=> (n \div 2^i) % 2 = 1
      /\ \A i \in 0..10 : i \in BitsOf(number) <=> (number \div 2^i) % 2 = 1
      /\ \A i \in 0..10 : i \in BitsOf(wire) <=> (wire \div 2^i) % 2 = 1
      /\ tag \subseteq 0..10 /\ BitsOf(number) \subseteq 0..10 /\ BitsOf(wire) \subseteq 0..10
  BY DEF BitsOf
<1>4. tag \in Bits(64) /\ Tag(number, wire) = tag
  BY BitsOfAreBits DEF Tag
<1> HIDE DEF tag
<1>5. BitsOf(number) \subseteq 0..6 /\ BitsOf(wire) \subseteq 0..6 /\ tag \subseteq 0..6
  <2>1. number \in 0..127 /\ wire \in 0..127 /\ n \in 0..127
    OBVIOUS
  <2> QED
    BY <2>1, SmallBits DEF tag
<1>6. ASSUME NEW i \in 0..6 PROVE i \in BitsOf(number) <=> i + 3 \in tag
  <2>1. n \div 8 = number /\ n \div 16 = number \div 2 /\ n \div 32 = number \div 4
        /\ n \div 64 = number \div 8 /\ n \div 128 = number \div 16
        /\ n \div 256 = number \div 32 /\ n \div 512 = number \div 64
    OBVIOUS
  <2>2. i \in {0, 1, 2, 3, 4, 5, 6}
    OBVIOUS
  <2>3. n \div 2^(i + 3) = number \div 2^i
    <3> HIDE DEF n
    <3>1. number \div 1 = number
      OBVIOUS
    <3>2. CASE i = 0
      <4>1. i + 3 = 3
        BY <3>2
      <4> QED
        BY <2>1, <3>1, <3>2, <4>1, Powers
    <3>3. CASE i = 1
      <4>1. i + 3 = 4
        BY <3>3
      <4> QED
        BY <2>1, <3>1, <3>3, <4>1, Powers
    <3>4. CASE i = 2
      <4>1. i + 3 = 5
        BY <3>4
      <4> QED
        BY <2>1, <3>1, <3>4, <4>1, Powers
    <3>5. CASE i = 3
      <4>1. i + 3 = 6
        BY <3>5
      <4> QED
        BY <2>1, <3>1, <3>5, <4>1, Powers
    <3>6. CASE i = 4
      <4>1. i + 3 = 7
        BY <3>6
      <4> QED
        BY <2>1, <3>1, <3>6, <4>1, Powers
    <3>7. CASE i = 5
      <4>1. i + 3 = 8
        BY <3>7
      <4> QED
        BY <2>1, <3>1, <3>7, <4>1, Powers
    <3>8. CASE i = 6
      <4>1. i + 3 = 9
        BY <3>8
      <4> QED
        BY <2>1, <3>1, <3>8, <4>1, Powers
    <3> QED
      BY <2>2, <3>2, <3>3, <3>4, <3>5, <3>6, <3>7, <3>8
  <2>4. i \in 0..10 /\ i + 3 \in 0..10
    OBVIOUS
  <2> QED
    BY <1>3, <2>3, <2>4
<1>7. ShiftRight(tag, 3) = BitsOf(number)
  <2>1. ASSUME NEW i \in ShiftRight(tag, 3) PROVE i \in BitsOf(number)
    <3>1. PICK j \in tag : j >= 3 /\ i = j - 3
      BY DEF ShiftRight
    <3>2. i \in 0..6 /\ i + 3 = j
      BY <1>5, <3>1
    <3> QED
      BY <1>6, <3>1, <3>2
  <2>2. ASSUME NEW i \in BitsOf(number) PROVE i \in ShiftRight(tag, 3)
    <3>1. i \in 0..6 /\ i + 3 >= 3 /\ i = (i + 3) - 3
      BY <1>5
    <3>2. i + 3 \in tag
      BY <1>6, <3>1
    <3> QED
      BY <3>1, <3>2 DEF ShiftRight
  <2> QED
    BY <2>1, <2>2
<1>8. Truncate(tag, 3) = BitsOf(wire)
  <2>1. /\ 0 \in tag <=> 0 \in BitsOf(wire)
        /\ 1 \in tag <=> 1 \in BitsOf(wire)
        /\ 2 \in tag <=> 2 \in BitsOf(wire)
    <3>1. n \div 1 = n /\ wire \div 1 = wire /\ wire % 2 = 0 /\ (wire \div 2) % 2 = wire \div 2
          /\ (wire \div 4) % 2 = 0
      OBVIOUS
    <3>2. 0 \in 0..10 /\ 1 \in 0..10 /\ 2 \in 0..10
      OBVIOUS
    <3> HIDE DEF n
    <3> QED
      BY <1>2, <1>3, <3>1, <3>2, Powers
  <2>2. BitsOf(wire) \subseteq {0, 1, 2}
    <3>1. ASSUME NEW i \in 3..6 PROVE (wire \div 2^i) % 2 = 0
      <4>1. /\ (wire \div 8) % 2 = 0 /\ (wire \div 16) % 2 = 0
            /\ (wire \div 32) % 2 = 0 /\ (wire \div 64) % 2 = 0
        OBVIOUS
      <4>2. CASE i = 3
        BY <4>1, <4>2, Powers
      <4>3. CASE i = 4
        BY <4>1, <4>3, Powers
      <4>4. CASE i = 5
        BY <4>1, <4>4, Powers
      <4>5. CASE i = 6
        BY <4>1, <4>5, Powers
      <4> QED
        BY <4>2, <4>3, <4>4, <4>5
    <3>2. \A i \in 0..6 : i \in {0, 1, 2} \/ i \in 3..6
      OBVIOUS
    <3> QED
      BY <1>3, <1>5, <3>1, <3>2
  <2>3. 0..3 - 1 = {0, 1, 2}
    OBVIOUS
  <2> QED
    BY <2>1, <2>2, <2>3 DEF Truncate
<1>9. Number(BitsOf(number)) = number /\ Number(BitsOf(wire)) = wire
  BY <1>1, NumberOfBits
<1>10. tag # {}
  <2>1. CASE tag = {}
    <3>1. ShiftRight(tag, 3) = {} /\ Number({}) = 0
      BY <2>1, Powers DEF ShiftRight, Number, Weight
    <3> QED
      BY <1>7, <1>9, <3>1
  <2> QED
    BY <2>1
<1> QED
  BY <1>4, <1>7, <1>8, <1>9, <1>10

\* The text that is held is what SubSeq() takes out.
LEMMA TextHeld ==
    ASSUME NEW bytes \in Seq(Byte), NEW k \in Nat, NEW text \in Seq(Byte),
           Holds(bytes, k, text)
    PROVE  SubSeq(bytes, k + 1, k + Len(text)) = text
<1> DEFINE n == Len(text)
           s == SubSeq(bytes, k + 1, k + n)
<1>1. n \in Nat /\ Len(bytes) \in Nat
  BY LenProperties
<1>2. k + n <= Len(bytes) /\ \A i \in 1..n : bytes[k + i] = text[i]
  BY DEF Holds
<1> HIDE DEF n
<1>3. /\ k + 1 \in 1..Len(bytes) + 1 /\ k + n \in k..Len(bytes)
      /\ (k + n) - (k + 1) + 1 = n
  BY <1>1, <1>2
<1>4. s \in Seq(Byte) /\ Len(s) = n /\ \A i \in 1..n : s[i] = bytes[k + i]
  <2>1. CASE n = 0
    <3>1. s = <<>>
      BY <1>1, <2>1
    <3> QED
      BY <2>1, <3>1
  <2>2. CASE n # 0
    <3>1. k + 1 \in 1..Len(bytes) /\ k + n \in k + 1..Len(bytes)
      BY <1>1, <1>2, <2>2
    <3>2. \A i \in 1..n : (k + 1) + i - 1 = k + i
      BY <1>1
    <3> QED
      BY <1>1, <1>3, <3>1, <3>2, SubSeqProperties
  <2> QED
    BY <2>1, <2>2
<1>5. \A i \in 1..n : s[i] = text[i]
  BY <1>2, <1>4
<1> HIDE DEF s
<1>6. s = text
  BY <1>4, <1>5, SeqEqual DEF n
<1> QED
  BY <1>6 DEF s, n

\* A field is read as it was written, and parsing goes on behind it.
LEMMA WebFieldHeld ==
    ASSUME NEW bytes \in Seq(Byte), NEW k \in Nat, NEW number \in 1..3, NEW field, NEW value,
           IsOfField(field, value), Len(bytes) <= 1023,
           Holds(bytes, k, WriteWebField(number, field, value))
    PROVE  LET at == FieldAt(bytes, k + 1)
           IN  /\ at.number = number /\ at.wire = field.wire /\ at.value = value
               /\ at.end = k + Len(WriteWebField(number, field, value)) + 1
               /\ k + 1 <= Len(bytes)
<1> DEFINE tag == Tag(number, field.wire)
           tagged == Varint(tag)
           start == VarintEnd(bytes, k + 1)
           written == WriteWebField(number, field, value)
           end == ValueEnd(bytes, start, number, field.wire)
           read == IF field.wire = 0 THEN VarintAt(bytes, start)
                   ELSE SubSeq(bytes, VarintEnd(bytes, start), end - 1)
<1>1. /\ tag \in Bits(64) /\ tag # {} /\ Number(ShiftRight(tag, 3)) = number
      /\ Number(Truncate(tag, 3)) = field.wire
      /\ tagged \in Seq(Byte) /\ Len(tagged) = 1
      /\ field.wire \in {0, 2} /\ number # 0
  <2>1. field.wire \in {0, 2} /\ number # 0
    BY DEF IsOfField
  <2> QED
    BY <2>1, TagParts, TagByte
<1>2. Len(bytes) \in Nat
  BY LenProperties
<1> HIDE DEF tag
<1>3. ASSUME NEW rest \in Seq(Byte), written = Joined(tagged, rest)
      PROVE  /\ VarintAt(bytes, k + 1) = tag /\ start = (k + 1) + 1
             /\ Holds(bytes, k + 1, rest) /\ Len(written) = 1 + Len(rest)
             /\ k + 1 <= Len(bytes)
  <2> HIDE DEF written, tagged
  <2>1. Holds(bytes, k, tagged) /\ Holds(bytes, k + Len(tagged), rest)
    BY <1>1, <1>2, <1>3, HoldsBoth DEF written
  <2>2. VarintEnd(bytes, k + 1) = k + Len(tagged) + 1 /\ VarintAt(bytes, k + 1) = tag
    BY <1>1, <1>2, <2>1, VarintHeld DEF tagged
  <2>3. Len(written) = 1 + Len(rest)
    <3>1. Len(Joined(tagged, rest)) = Len(tagged) + Len(rest)
      BY <1>1, <1>3, JoinedBytes
    <3> QED
      BY <1>1, <1>3, <3>1
  <2> QED
    BY <1>1, <2>1, <2>2, <2>3 DEF Holds
<1>4. ASSUME VarintAt(bytes, k + 1) = tag
      PROVE  /\ FieldAt(bytes, k + 1).number = number
             /\ FieldAt(bytes, k + 1).wire = field.wire
             /\ FieldAt(bytes, k + 1).value = read
             /\ FieldAt(bytes, k + 1).end = end
  <2>1. tag # {} /\ field.wire # 4
    BY <1>1
  <2> HIDE DEF start
  <2> QED
    BY <1>1, <1>4, <2>1 DEF FieldAt, start
<1>5. CASE field.wire = 0 /\ value \in Bits(64)
  <2> DEFINE rest == Varint(value)
  <2>1. rest \in Seq(Byte) /\ Len(rest) \in Nat
    BY <1>5, VarintBytes
  <2>2. written = Joined(tagged, rest)
    BY <1>5 DEF WriteWebField, Joined, tag
  <2> HIDE DEF tagged, written
  <2>3. /\ VarintAt(bytes, k + 1) = tag /\ start = (k + 1) + 1
        /\ Holds(bytes, k + 1, rest) /\ Len(written) = 1 + Len(rest) /\ k + 1 <= Len(bytes)
    BY <1>3, <2>1, <2>2
  <2>4. k + 1 \in Nat
    OBVIOUS
  <2>5. /\ VarintEnd(bytes, (k + 1) + 1) = (k + 1) + Len(rest) + 1
        /\ VarintAt(bytes, (k + 1) + 1) = value
    BY <1>2, <1>5, <2>3, <2>4, VarintHeld
  <2>6. (k + 1) + Len(rest) <= Len(bytes)
    BY <2>3 DEF Holds
  <2> HIDE DEF rest
  <2>7. end = (k + 1) + Len(rest) + 1
    <3>1. ~((k + 1) + Len(rest) + 1 > Len(bytes) + 1)
      BY <1>2, <2>1, <2>6
    <3> QED
      BY <1>1, <1>5, <2>3, <2>5, <3>1 DEF ValueEnd
  <2>8. read = value
    BY <1>5, <2>3, <2>5
  <2>9. (k + 1) + Len(rest) + 1 = k + Len(written) + 1
    BY <2>1, <2>3
  <2> QED
    BY <1>4, <2>3, <2>7, <2>8, <2>9 DEF written
<1>6. CASE field.wire = 2 /\ value \in Seq(Byte)
  <2> DEFINE n == Len(value)
             length == Varint(BitsOf(n))
             rest == Joined(length, value)
  <2>1. length \in Seq(Byte) /\ Len(length) \in Nat /\ BitsOf(n) \in Bits(64) /\ n \in Nat
    BY <1>6, BitsOfAreBits, VarintBytes, LenProperties
  <2>2. written = Joined(tagged, rest)
    BY <1>6 DEF WriteWebField, Joined, tag
  <2> HIDE DEF tagged, written, length
  <2>3. rest \in Seq(Byte) /\ Len(rest) = Len(length) + n
    BY <1>6, <2>1, JoinedBytes
  <2>4. /\ VarintAt(bytes, k + 1) = tag /\ start = (k + 1) + 1
        /\ Holds(bytes, k + 1, rest) /\ Len(written) = 1 + Len(rest) /\ k + 1 <= Len(bytes)
    BY <1>3, <2>2, <2>3
  <2>5. k + 1 \in Nat
    OBVIOUS
  <2>6. Holds(bytes, k + 1, length) /\ Holds(bytes, (k + 1) + Len(length), value)
    BY <1>2, <1>6, <2>1, <2>4, <2>5, HoldsBoth
  <2>7. /\ VarintEnd(bytes, (k + 1) + 1) = (k + 1) + Len(length) + 1
        /\ VarintAt(bytes, (k + 1) + 1) = BitsOf(n)
    BY <1>2, <2>1, <2>5, <2>6, VarintHeld DEF length
  <2>8. (k + 1) + Len(length) + n <= Len(bytes)
    BY <2>6 DEF Holds
  <2>9. Number(BitsOf(n)) = n
    <3> HIDE DEF n
    <3>1. n \in 0..1023
      BY <1>2, <2>1, <2>8
    <3> QED
      BY <3>1, NumberOfBits
  <2> DEFINE m == (k + 1) + Len(length)
  <2>10. m \in Nat /\ Holds(bytes, m, value)
    BY <2>1, <2>6
  <2>11. SubSeq(bytes, m + 1, m + n) = value
    BY <1>6, <2>10, TextHeld
  <2>12. end = (m + 1) + n
    <3>1. ~((m + 1) + n > Len(bytes) + 1)
      BY <1>2, <2>1, <2>8
    <3>2. VarintEnd(bytes, start) = m + 1 /\ Number(VarintAt(bytes, start)) = n
      BY <2>4, <2>7, <2>9
    <3> HIDE DEF m, n, start
    <3> QED
      BY <1>1, <1>6, <3>1, <3>2 DEF ValueEnd
  <2>13. read = value
    <3>1. end - 1 = m + n
      <4> HIDE DEF m, n, end
      <4>1. m \in Nat /\ n \in Nat
        BY <2>1, <2>10 DEF n
      <4> QED
        BY <2>12, <4>1
    <3>2. VarintEnd(bytes, start) = m + 1
      BY <2>4, <2>7
    <3>3. read = SubSeq(bytes, VarintEnd(bytes, start), end - 1)
      BY <1>6
    <3> HIDE DEF m, n, start, end, read
    <3> QED
      BY <2>11, <3>1, <3>2, <3>3
  <2>14. (m + 1) + n = k + Len(written) + 1
    BY <2>1, <2>3, <2>4
  <2> HIDE DEF read, end
  <2> QED
    BY <1>4, <2>4, <2>12, <2>13, <2>14 DEF written
<1> QED
  BY <1>5, <1>6 DEF IsOfField

\* Then the parser sets it, unless it is set again behind.
LEMMA FieldParsed ==
    ASSUME NEW bytes \in Seq(Byte), NEW k \in Nat, NEW number \in 1..3, NEW class, NEW value,
           NEW f, number \in DOMAIN class,
           class[number].valid = {} \/ Number(value) \in class[number].valid,
           IsOfField(class[number], value), Len(bytes) <= 1023,
           Holds(bytes, k, WriteWebField(number, class[number], value)),
           \A at \in Nat : f[at] = ParseStep(class, bytes, f, at)
    PROVE  f[k + 1] = SetBefore(f[k + Len(WriteWebField(number, class[number], value)) + 1],
                                class[number].name, value)
<1> DEFINE field == FieldAt(bytes, k + 1)
           end == k + Len(WriteWebField(number, class[number], value)) + 1
<1>1. /\ field.number = number /\ field.wire = class[number].wire /\ field.value = value
      /\ field.end = end /\ k + 1 <= Len(bytes)
  BY WebFieldHeld
<1>2. k + 1 \in Nat /\ Len(bytes) \in Nat
  BY LenProperties
<1>3. end # 0
  <2>1. Len(WriteWebField(number, class[number], value)) \in Nat
    <3>1. WriteWebField(number, class[number], value) \in Seq(Byte)
      BY WebFieldWritten DEF IsOfField
    <3> QED
      BY <3>1, LenProperties
  <2> QED
    BY <2>1
<1> HIDE DEF field, end
<1>4. f[k + 1] = ParseStep(class, bytes, f, k + 1)
  BY <1>2
<1>5. ~(k + 1 > Len(bytes) \/ field.end = 0)
  BY <1>1, <1>2, <1>3
<1>6. IsKnown(class, field.number, field.wire, field.value)
  BY <1>1 DEF IsKnown
<1>7. f[k + 1] = SetBefore(f[field.end], class[field.number].name, field.value)
  BY <1>4, <1>5, <1>6 DEF ParseStep, field
<1> QED
  BY <1>1, <1>7 DEF end

\* A request of the chat server is parsed as it was written.
LEMMA RequestParsed ==
    ASSUME NEW msg \in WebRequests, PacketSize(msg) <= 1023
    PROVE  LET fields == WebFields(WebClass[msg.type],
                                   SerializeWeb(WebClass[msg.type], msg.values))
           IN  \A n \in DOMAIN msg.values :
                  n \in DOMAIN fields /\ fields[n] = msg.values[n]
<1> DEFINE values == msg.values
           class == WebClass[msg.type]
           bytes == SerializeWeb(class, values)
           F == WriteWebField(1, class[1], values.requestId)
           G == WriteWebField(2, class[2], values.email)
           H == WriteWebField(3, class[3], values.plaintextPassword)
           parsed == ParseWeb(class, bytes)
<1>1. /\ msg.type \in {"CREATE_ACCOUNT_WEB_REQ", "AUTHENTICATE_ACCOUNT_WEB_REQ"}
      /\ values \in [requestId : SocketValues, email : Names, plaintextPassword : Passwords]
  BY DEF WebRequests, Msg
<1>2. class = <<VarintField("requestId"), StringField("email"), StringField("plaintextPassword")>>
  BY <1>1 DEF WebClass, CreateAccountWeb, AuthenticateWeb
<1>3. /\ class[1].name = "requestId" /\ class[1].wire = 0 /\ class[1].valid = {}
      /\ class[2].name = "email" /\ class[2].wire = 2 /\ class[2].valid = {}
      /\ class[3].name = "plaintextPassword" /\ class[3].wire = 2 /\ class[3].valid = {}
      /\ DOMAIN class = 1..3
  BY <1>2 DEF VarintField, StringField
<1>4. /\ IsOfField(class[1], values.requestId) /\ IsOfField(class[2], values.email)
      /\ IsOfField(class[3], values.plaintextPassword)
  BY <1>1, <1>3, StreamAssumption DEF IsOfField
<1>5. F \in Seq(Byte) /\ G \in Seq(Byte) /\ H \in Seq(Byte)
  <2>1. 1 \in 1..3 /\ 2 \in 1..3 /\ 3 \in 1..3
    OBVIOUS
  <2> HIDE DEF class, values
  <2> QED
    BY <1>4, <2>1, WebFieldWritten DEF IsOfField
<1>6. /\ bytes \in Seq(Byte) /\ bytes = Joined(Joined(F, G), H)
      /\ Len(bytes) = ByteSize(class, values) /\ PacketSize(msg) = 8 + ByteSize(class, values)
  <2>1. IsWeb(msg.type)
    BY WebRequestWritten
  <2>2. /\ bytes \in Seq(Byte) /\ Len(bytes) = ByteSize(class, values)
        /\ bytes = Joined(Joined(WriteWebField(1, VarintField("requestId"), msg.values.requestId),
                                 WriteWebField(2, StringField("email"), msg.values.email)),
                          WriteWebField(3, StringField("plaintextPassword"),
                                        msg.values.plaintextPassword))
    BY WebRequestWritten
  <2>3. /\ class[1] = VarintField("requestId") /\ class[2] = StringField("email")
        /\ class[3] = StringField("plaintextPassword")
    BY <1>2
  <2>4. PacketSize(msg) = 8 + ByteSize(class, values)
    BY <2>1 DEF PacketSize
  <2> HIDE DEF bytes, class
  <2> QED
    BY <2>2, <2>3, <2>4
<1> HIDE DEF bytes, F, G, H
<1>7. /\ Len(F) \in Nat /\ Len(G) \in Nat /\ Len(H) \in Nat /\ Len(bytes) \in Nat
      /\ Len(bytes) = Len(F) + Len(G) + Len(H)
      /\ Joined(F, G) \in Seq(Byte) /\ Len(Joined(F, G)) = Len(F) + Len(G)
  <2>1. Joined(F, G) \in Seq(Byte) /\ Len(Joined(F, G)) = Len(F) + Len(G)
    BY <1>5, JoinedBytes
  <2>2. Len(Joined(Joined(F, G), H)) = Len(Joined(F, G)) + Len(H)
    BY <1>5, <2>1, JoinedBytes
  <2> QED
    BY <1>5, <1>6, <2>1, <2>2, LenProperties
<1>8. Len(bytes) <= 1023
  <2> DEFINE size == ByteSize(class, values)
  <2> HIDE DEF size
  <2>1. Len(bytes) = size /\ 8 + size <= 1023
    BY <1>6 DEF size
  <2> QED
    BY <1>7, <2>1
<1> DEFINE m == Len(F)
           n == Len(F) + Len(G)
<1>9. m \in Nat /\ n \in Nat /\ 0 \in Nat
  BY <1>7
<1>10. Holds(bytes, 0, F) /\ Holds(bytes, m, G) /\ Holds(bytes, n, H)
  <2>1. Holds(bytes, 0, bytes)
    <3>1. 0 + Len(bytes) = Len(bytes) /\ \A i \in 1..Len(bytes) : 0 + i = i
      BY <1>7
    <3> QED
      BY <1>7, <3>1 DEF Holds
  <2>2. Holds(bytes, 0, Joined(F, G)) /\ Holds(bytes, 0 + Len(Joined(F, G)), H)
    BY <1>5, <1>6, <1>7, <1>9, <2>1, HoldsBoth
  <2>3. Holds(bytes, 0, F) /\ Holds(bytes, 0 + Len(F), G)
    BY <1>5, <1>7, <1>9, <2>2, HoldsBoth
  <2>4. 0 + Len(F) = m /\ 0 + Len(Joined(F, G)) = n
    BY <1>7
  <2> QED
    BY <2>2, <2>3, <2>4
<1>11. PICK f : parsed = f[1] /\ \A at \in Nat : f[at] = ParseStep(class, bytes, f, at)
  BY <1>7, Parsing
<1> HIDE DEF class, values, parsed, m, n
<1>12. f[0 + 1] = SetBefore(f[0 + m + 1], "requestId", values.requestId)
  <2>1. 1 \in 1..3
    OBVIOUS
  <2>2. f[0 + 1] = SetBefore(f[0 + Len(WriteWebField(1, class[1], values.requestId)) + 1],
                             class[1].name, values.requestId)
    BY <1>3, <1>4, <1>6, <1>8, <1>9, <1>10, <1>11, <2>1, FieldParsed DEF F
  <2> QED
    BY <1>3, <2>2 DEF F, m
<1>13. f[m + 1] = SetBefore(f[m + Len(G) + 1], "email", values.email)
  <2>1. 2 \in 1..3
    OBVIOUS
  <2>2. f[m + 1] = SetBefore(f[m + Len(WriteWebField(2, class[2], values.email)) + 1],
                             class[2].name, values.email)
    BY <1>3, <1>4, <1>6, <1>8, <1>9, <1>10, <1>11, <2>1, FieldParsed DEF G
  <2> QED
    BY <1>3, <2>2 DEF G
<1>14. f[n + 1] = SetBefore(f[n + Len(H) + 1], "plaintextPassword", values.plaintextPassword)
  <2>1. 3 \in 1..3
    OBVIOUS
  <2>2. f[n + 1]
           = SetBefore(f[n + Len(WriteWebField(3, class[3], values.plaintextPassword)) + 1],
                       class[3].name, values.plaintextPassword)
    BY <1>3, <1>4, <1>6, <1>8, <1>9, <1>10, <1>11, <2>1, FieldParsed DEF H
  <2> QED
    BY <1>3, <2>2 DEF H
<1>15. f[n + Len(H) + 1] = <<>>
  <2>1. n + Len(H) + 1 \in Nat /\ n + Len(H) + 1 > Len(bytes)
    BY <1>7 DEF n
  <2> QED
    BY <1>11, <2>1 DEF ParseStep
<1>16. 0 + 1 = 1 /\ 0 + m + 1 = m + 1 /\ m + Len(G) + 1 = n + 1
  BY <1>7 DEF m, n
<1>17. parsed = SetBefore(SetBefore(SetBefore(<<>>, "plaintextPassword",
                                              values.plaintextPassword),
                                    "email", values.email),
                          "requestId", values.requestId)
  BY <1>11, <1>12, <1>13, <1>14, <1>15, <1>16
<1>18. /\ {"requestId", "email", "plaintextPassword"} \subseteq DOMAIN parsed
       /\ parsed["requestId"] = values.requestId /\ parsed["email"] = values.email
       /\ parsed["plaintextPassword"] = values.plaintextPassword
  <2> DEFINE a == SetBefore(<<>>, "plaintextPassword", values.plaintextPassword)
             b == SetBefore(a, "email", values.email)
  <2>1. DOMAIN a = {"plaintextPassword"} /\ a["plaintextPassword"] = values.plaintextPassword
    BY DEF SetBefore
  <2> HIDE DEF a
  <2>2. /\ DOMAIN b = {"email", "plaintextPassword"} /\ b["email"] = values.email
        /\ b["plaintextPassword"] = values.plaintextPassword
    BY <2>1 DEF SetBefore
  <2>3. parsed = SetBefore(b, "requestId", values.requestId)
    BY <1>17 DEF a
  <2> HIDE DEF b
  <2> QED
    BY <2>2, <2>3 DEF SetBefore
<1>19. ASSUME NEW i \in DOMAIN values
       PROVE  /\ i \in DOMAIN WebFields(class, bytes)
              /\ WebFields(class, bytes)[i] = values[i]
  <2>1. i \in {"requestId", "email", "plaintextPassword"}
    BY <1>1
  <2>2. /\ values["requestId"] = values.requestId /\ values["email"] = values.email
        /\ values["plaintextPassword"] = values.plaintextPassword
    OBVIOUS
  <2>3. i \in DOMAIN parsed /\ parsed[i] = values[i]
    BY <1>18, <2>1, <2>2
  <2>4. i \in {class[k].name : k \in DOMAIN class}
    BY <1>3, <2>1
  <2> QED
    BY <2>3, <2>4 DEF WebFields, parsed
<1> QED
  BY <1>19 DEF values, class, bytes

\* A whole request of the chat server is handled with its values.
LEMMA RequestHandled ==
    ASSUME NEW kind \in Links, kind = "S2A", NEW msg \in Messages(kind), NEW raw \in Seq(Byte),
           RecvSize <= 1023, Len(raw) = RecvSize, PacketSize(msg) <= RecvSize,
           Holds(raw, 0, PacketBytes(msg)), NEW result \in Dispatched(kind, raw)
    PROVE  result.type = msg.type /\ ReadsRight(result, msg)
<1> DEFINE type == msg.type
           size == PacketSize(msg)
           payload == SerializeWeb(WebClass[type], msg.values)
<1>1. msg \in WebRequests /\ RecvSize \in Nat
  BY StreamAssumption DEF Messages
<1>2. type \in WebRequestTypes /\ \E i \in 1..21 : type = MessageTypes[i]
  <2>1. type \in {"CREATE_ACCOUNT_WEB_REQ", "AUTHENTICATE_ACCOUNT_WEB_REQ"}
    BY <1>1 DEF WebRequests, Msg
  <2>2. /\ MessageTypes[4] = "CREATE_ACCOUNT_WEB_REQ"
        /\ MessageTypes[10] = "AUTHENTICATE_ACCOUNT_WEB_REQ"
    BY DEF MessageTypes
  <2>3. 4 \in 1..21 /\ 10 \in 1..21
    OBVIOUS
  <2> QED
    BY <2>1, <2>2, <2>3 DEF WebRequestTypes
<1>3. /\ IsWeb(type) /\ payload \in Seq(Byte) /\ Len(payload) \in Nat
      /\ size = 8 + Len(payload)
  <2>1. /\ IsWeb(type) /\ payload \in Seq(Byte)
        /\ Len(payload) = ByteSize(WebClass[type], msg.values)
    BY <1>1, WebRequestWritten
  <2> QED
    BY <2>1, LenProperties DEF PacketSize
<1>4. HeaderBytes(msg) \in Seq(Byte) /\ Len(HeaderBytes(msg)) = 8
  BY HeaderSize
<1>5. Holds(raw, 0, HeaderBytes(msg)) /\ Holds(raw, 8, payload)
  <2>1. PacketBytes(msg) = Joined(HeaderBytes(msg), payload)
    BY <1>3 DEF PacketBytes
  <2> HIDE DEF payload
  <2>2. Holds(raw, 0, HeaderBytes(msg)) /\ Holds(raw, 0 + Len(HeaderBytes(msg)), payload)
    BY <1>1, <1>3, <1>4, <2>1, HoldsBoth
  <2>3. 0 + Len(HeaderBytes(msg)) = 8
    BY <1>4
  <2> QED
    BY <2>2, <2>3
<1>6. LengthAt(At(raw, 0)) = size /\ TypeOf(LengthAt(At(raw, 4))) = type
  <2>1. size <= 1023
    BY <1>1, <1>3
  <2> QED
    BY <1>1, <1>2, <1>5, <2>1, HeaderRead
<1>7. Loaded(raw) = At(raw, 0) /\ Skip(At(raw, 0), 4) = At(raw, 4)
  <2>1. Skip(At(raw, 0), 4) = At(raw, 0 + 4)
    BY SkippedAt
  <2>2. 0 + 4 = 4
    OBVIOUS
  <2> QED
    BY <2>1, <2>2, LoadedAt
<1> HIDE DEF type, size, payload
<1>8. type \in Cases(kind)
  BY <1>2 DEF Cases
<1>9. result \in Handling(kind, At(raw, 0), size, type)
  BY <1>6, <1>7, <1>8 DEF Dispatched, size
<1>10. Payload(kind, At(raw, 0), size) = payload
  <2>1. SubSeq(raw, 8 + 1, 8 + Len(payload)) = payload
    BY <1>3, <1>5, TextHeld
  <2>2. 8 + 1 = 9
    OBVIOUS
  <2> QED
    BY <1>3, <2>1, <2>2 DEF Payload, At
<1>11. result.type = type /\ result.values = WebFields(WebClass[type], payload)
  BY <1>3, <1>9, <1>10 DEF Handling
<1>12. \A n \in DOMAIN msg.values :
          n \in DOMAIN result.values /\ result.values[n] = msg.values[n]
  <2>1. PacketSize(msg) <= 1023
    BY <1>1, <1>3 DEF size
  <2> QED
    BY <1>1, <1>11, <2>1, RequestParsed DEF payload, type
<1> QED
  BY <1>11, <1>12 DEF ReadsRight, type

\* The reasons that both enums of auth.proto have.
ReasonsAreValid == \A reason \in Reasons : Number(reason) \in 1..2

\* An answer of the AuthServer has the request id and one more number.
LEMMA AnswerWritten ==
    ASSUME ReasonsAreValid, NEW msg \in WebAnswers
    PROVE  LET class == WebClass[msg.type]
           IN  \E name \in {"userId", "reason"} :
                  /\ DOMAIN msg.values = {"requestId", name}
                  /\ {1, 2} \subseteq DOMAIN class
                  /\ class[1].name = "requestId" /\ class[1].wire = 0 /\ class[1].valid = {}
                  /\ class[2].name = name /\ class[2].wire = 0
                  /\ class[2].valid = {} \/ Number(msg.values[name]) \in class[2].valid
                  /\ msg.values["requestId"] \in Bits(64) /\ msg.values[name] \in Bits(64)
                  /\ SerializeWeb(class, msg.values)
                        = Joined(WriteWebField(1, class[1], msg.values["requestId"]),
                                 WriteWebField(2, class[2], msg.values[name]))
<1> DEFINE class == WebClass[msg.type]
           values == msg.values
           f == VarintField("requestId")
<1>1. f.name = "requestId" /\ f.wire = 0 /\ f.valid = {}
  BY DEF VarintField
<1>2. CASE msg \in Msg({"CREATE_ACCOUNT_WEB_SUCCESS_ACK", "AUTHENTICATE_ACCOUNT_WEB_SUCCESS_ACK"},
                       [requestId : SocketValues, userId : UserIds])
  <2> DEFINE g == VarintField("userId")
             h == StringField("creationDate")
  <2>1. /\ msg.type \in {"CREATE_ACCOUNT_WEB_SUCCESS_ACK",
                           "AUTHENTICATE_ACCOUNT_WEB_SUCCESS_ACK"}
        /\ values \in [requestId : SocketValues, userId : UserIds]
    BY <1>2 DEF Msg
  <2>2. class = <<f, g>> \/ class = <<f, g, h>>
    BY <2>1 DEF WebClass, CreateAccountWebSuccess, AuthenticateWebSuccess
  <2>3. g.name = "userId" /\ g.wire = 0 /\ g.valid = {} /\ h.name = "creationDate"
    BY DEF VarintField, StringField
  <2>4. /\ DOMAIN values = {"requestId", "userId"}
        /\ values["requestId"] \in Bits(64) /\ values["userId"] \in Bits(64)
    BY <2>1, StreamAssumption
  <2> HIDE DEF f, g, h, values, class
  <2>5. /\ IsSet(f, values) /\ IsSet(g, values) /\ ~IsSet(h, values)
        /\ IsOfField(f, values[f.name]) /\ IsOfField(g, values[g.name])
    BY <1>1, <2>3, <2>4 DEF IsSet, IsOfField
  <2>6. SerializeWeb(class, values)
           = Joined(WriteWebField(1, f, values[f.name]), WriteWebField(2, g, values[g.name]))
    <3>1. CASE class = <<f, g>>
      BY <2>5, <3>1, TwoFieldsWritten
    <3>2. CASE class = <<f, g, h>>
      BY <2>5, <3>2, TwoOfThreeWritten
    <3> QED
      BY <2>2, <3>1, <3>2
  <2>7. {1, 2} \subseteq DOMAIN class /\ class[1] = f /\ class[2] = g
    BY <2>2
  <2> QED
    BY <1>1, <2>3, <2>4, <2>6, <2>7 DEF values, class
<1>3. CASE msg \in Msg({"CREATE_ACCOUNT_WEB_FAILURE_ACK", "AUTHENTICATE_ACCOUNT_WEB_FAILURE_ACK"},
                       [requestId : SocketValues, reason : Reasons])
  <2> DEFINE g == IF msg.type = "CREATE_ACCOUNT_WEB_FAILURE_ACK" THEN EnumField("reason", 3)
                  ELSE EnumField("reason", 2)
  <2>1. /\ msg.type \in {"CREATE_ACCOUNT_WEB_FAILURE_ACK",
                           "AUTHENTICATE_ACCOUNT_WEB_FAILURE_ACK"}
        /\ values \in [requestId : SocketValues, reason : Reasons]
    BY <1>3 DEF Msg
  <2>2. class = <<f, g>>
    BY <2>1 DEF WebClass, CreateAccountWebFailure, AuthenticateWebFailure
  <2>3. g.name = "reason" /\ g.wire = 0 /\ (g.valid = 1..3 \/ g.valid = 1..2)
    BY DEF EnumField
  <2>4. /\ DOMAIN values = {"requestId", "reason"}
        /\ values["requestId"] \in Bits(64) /\ values["reason"] \in Bits(64)
        /\ Number(values["reason"]) \in 1..2
    <3>1. Bits(16) \subseteq Bits(64)
      BY DEF Bits
    <3> QED
      BY <2>1, <3>1, StreamAssumption DEF ReasonsAreValid
  <2> HIDE DEF f, g, values, class
  <2>5. /\ IsSet(f, values) /\ IsSet(g, values)
        /\ IsOfField(f, values[f.name]) /\ IsOfField(g, values[g.name])
    BY <1>1, <2>3, <2>4 DEF IsSet, IsOfField
  <2>6. SerializeWeb(class, values)
           = Joined(WriteWebField(1, f, values[f.name]), WriteWebField(2, g, values[g.name]))
    BY <2>2, <2>5, TwoFieldsWritten
  <2>7. {1, 2} \subseteq DOMAIN class /\ class[1] = f /\ class[2] = g
    BY <2>2
  <2>8. Number(values["reason"]) \in g.valid
    BY <2>3, <2>4
  <2> QED
    BY <1>1, <2>3, <2>4, <2>6, <2>7, <2>8 DEF values, class
<1> QED
  BY <1>2, <1>3 DEF WebAnswers

\* Zeros end a message.
LEMMA ZerosEnd ==
    ASSUME NEW bytes \in Seq(Byte), NEW at \in Nat, NEW class, NEW f,
           \A i \in at..Len(bytes) : bytes[i] = {}
    PROVE  ParseStep(class, bytes, f, at) = <<>>
<1>1. VarintAt(bytes, at) = {}
  <2> DEFINE Part(i) == ShiftLeft(Truncate(bytes[i], 7), 7 * (i - at))
             I == {j \in at..VarintEnd(bytes, at) - 1 : j <= Len(bytes)}
  <2>1. VarintAt(bytes, at) = UNION {Part(i) : i \in I}
    BY DEF VarintAt
  <2>2. ASSUME NEW i \in I PROVE Part(i) = {}
    <3>1. i \in at..Len(bytes)
      BY VarintEnds, LenProperties
    <3> QED
      BY <3>1 DEF Truncate, ShiftLeft
  <2> HIDE DEF Part, I
  <2> QED
    BY <2>1, <2>2
<1>2. FieldAt(bytes, at).end = 0
  BY <1>1 DEF FieldAt
<1> QED
  BY <1>2 DEF ParseStep

\* An answer with nothing but zeros behind is parsed as it was written.
LEMMA AnswerParsed ==
    ASSUME ReasonsAreValid, NEW msg \in WebAnswers, NEW bytes \in Seq(Byte),
           Len(bytes) <= 1023, Holds(bytes, 0, SerializeWeb(WebClass[msg.type], msg.values)),
           \A i \in Len(SerializeWeb(WebClass[msg.type], msg.values)) + 1..Len(bytes) :
              bytes[i] = {}
    PROVE  LET fields == WebFields(WebClass[msg.type], bytes)
           IN  \A n \in DOMAIN msg.values :
                  n \in DOMAIN fields /\ fields[n] = msg.values[n]
<1> DEFINE values == msg.values
           class == WebClass[msg.type]
           written == SerializeWeb(class, values)
           parsed == ParseWeb(class, bytes)
<1>1. PICK name \in {"userId", "reason"} :
         /\ DOMAIN values = {"requestId", name}
         /\ {1, 2} \subseteq DOMAIN class
         /\ class[1].name = "requestId" /\ class[1].wire = 0 /\ class[1].valid = {}
         /\ class[2].name = name /\ class[2].wire = 0
         /\ class[2].valid = {} \/ Number(values[name]) \in class[2].valid
         /\ values["requestId"] \in Bits(64) /\ values[name] \in Bits(64)
         /\ written = Joined(WriteWebField(1, class[1], values["requestId"]),
                             WriteWebField(2, class[2], values[name]))
  BY AnswerWritten
<1> DEFINE F == WriteWebField(1, class[1], values["requestId"])
           G == WriteWebField(2, class[2], values[name])
<1>2. Holds(bytes, 0, written) /\ \A i \in Len(written) + 1..Len(bytes) : bytes[i] = {}
  OBVIOUS
<1> HIDE DEF values, class, written, parsed
<1>3. IsOfField(class[1], values["requestId"]) /\ IsOfField(class[2], values[name])
  BY <1>1 DEF IsOfField
<1>4. F \in Seq(Byte) /\ G \in Seq(Byte)
  <2>1. 1 \in 1..3 /\ 2 \in 1..3
    OBVIOUS
  <2> QED
    BY <1>3, <2>1, WebFieldWritten DEF IsOfField
<1> HIDE DEF F, G
<1>5. written = Joined(F, G)
  BY <1>1 DEF F, G
<1>6. /\ Len(F) \in Nat /\ Len(G) \in Nat /\ Len(bytes) \in Nat
      /\ Len(written) = Len(F) + Len(G)
  <2>1. Len(Joined(F, G)) = Len(F) + Len(G)
    BY <1>4, JoinedBytes
  <2> QED
    BY <1>4, <1>5, <2>1, LenProperties
<1> DEFINE m == Len(F)
<1>7. m \in Nat /\ 0 \in Nat
  BY <1>6
<1>8. Holds(bytes, 0, F) /\ Holds(bytes, m, G)
  <2>1. Holds(bytes, 0, F) /\ Holds(bytes, 0 + Len(F), G)
    BY <1>2, <1>4, <1>5, <1>6, <1>7, HoldsBoth
  <2>2. 0 + Len(F) = m
    BY <1>6
  <2> QED
    BY <2>1, <2>2
<1>9. PICK f : parsed = f[1] /\ \A at \in Nat : f[at] = ParseStep(class, bytes, f, at)
  BY <1>6, Parsing DEF parsed
<1> HIDE DEF m
<1>10. f[0 + 1] = SetBefore(f[0 + m + 1], "requestId", values["requestId"])
  <2>1. 1 \in 1..3 /\ 1 \in DOMAIN class
    BY <1>1
  <2>2. f[0 + 1] = SetBefore(f[0 + Len(WriteWebField(1, class[1], values["requestId"])) + 1],
                             class[1].name, values["requestId"])
    BY <1>1, <1>3, <1>7, <1>8, <1>9, <2>1, FieldParsed DEF F
  <2> QED
    BY <1>1, <2>2 DEF F, m
<1>11. f[m + 1] = SetBefore(f[m + Len(G) + 1], name, values[name])
  <2>1. 2 \in 1..3 /\ 2 \in DOMAIN class
    BY <1>1
  <2>2. f[m + 1] = SetBefore(f[m + Len(WriteWebField(2, class[2], values[name])) + 1],
                             class[2].name, values[name])
    BY <1>1, <1>3, <1>7, <1>8, <1>9, <2>1, FieldParsed DEF G
  <2> QED
    BY <1>1, <2>2 DEF G
<1>12. f[m + Len(G) + 1] = <<>>
  <2>1. m + Len(G) + 1 \in Nat /\ m + Len(G) + 1 = Len(written) + 1
    BY <1>6 DEF m
  <2>2. ParseStep(class, bytes, f, Len(written) + 1) = <<>>
    BY <1>2, <2>1, ZerosEnd
  <2> QED
    BY <1>9, <2>1, <2>2
<1>13. 0 + 1 = 1 /\ 0 + m + 1 = m + 1
  BY <1>7
<1>14. parsed = SetBefore(SetBefore(<<>>, name, values[name]), "requestId", values["requestId"])
  BY <1>9, <1>10, <1>11, <1>12, <1>13
<1>15. /\ {"requestId", name} \subseteq DOMAIN parsed
       /\ parsed["requestId"] = values["requestId"] /\ parsed[name] = values[name]
  <2> DEFINE a == SetBefore(<<>>, name, values[name])
  <2>1. DOMAIN a = {name} /\ a[name] = values[name]
    BY DEF SetBefore
  <2>2. parsed = SetBefore(a, "requestId", values["requestId"]) /\ name # "requestId"
    BY <1>1, <1>14
  <2> HIDE DEF a
  <2> QED
    BY <2>1, <2>2 DEF SetBefore
<1>16. ASSUME NEW i \in DOMAIN values
       PROVE  /\ i \in DOMAIN WebFields(class, bytes)
              /\ WebFields(class, bytes)[i] = values[i]
  <2>1. i \in DOMAIN parsed /\ parsed[i] = values[i]
    BY <1>1, <1>15
  <2>2. i \in {class[k].name : k \in DOMAIN class}
    BY <1>1
  <2> QED
    BY <2>1, <2>2 DEF WebFields, parsed
<1> QED
  BY <1>16 DEF values, class

\* A whole answer of the AuthServer with nothing but zeros behind is handled with its values.
LEMMA AnswerHandled ==
    ASSUME NEW kind \in Links, kind = "A2S", NEW msg \in Messages(kind), NEW raw \in Seq(Byte),
           ReasonsAreValid, RecvSize <= 1023, Len(raw) = RecvSize,
           Holds(raw, 0, PacketBytes(msg)),
           \A i \in PacketSize(msg) + 1..RecvSize : raw[i] = {},
           NEW result \in Dispatched(kind, raw)
    PROVE  result.type = msg.type /\ ReadsRight(result, msg)
<1> DEFINE type == msg.type
           size == PacketSize(msg)
           payload == SerializeWeb(WebClass[type], msg.values)
           bytes == SubSeq(raw, 9, Len(raw))
<1>1. msg \in WebAnswers /\ RecvSize \in Nat
  BY StreamAssumption DEF Messages
<1>2. /\ type \in DOMAIN WebClass \ WebRequestTypes /\ \E i \in 1..21 : type = MessageTypes[i]
  <2>1. type \in {"CREATE_ACCOUNT_WEB_SUCCESS_ACK", "AUTHENTICATE_ACCOUNT_WEB_SUCCESS_ACK",
                    "CREATE_ACCOUNT_WEB_FAILURE_ACK", "AUTHENTICATE_ACCOUNT_WEB_FAILURE_ACK"}
    BY <1>1 DEF WebAnswers, Msg
  <2>2. /\ MessageTypes[5] = "CREATE_ACCOUNT_WEB_SUCCESS_ACK"
        /\ MessageTypes[11] = "AUTHENTICATE_ACCOUNT_WEB_SUCCESS_ACK"
        /\ MessageTypes[6] = "CREATE_ACCOUNT_WEB_FAILURE_ACK"
        /\ MessageTypes[12] = "AUTHENTICATE_ACCOUNT_WEB_FAILURE_ACK"
    BY DEF MessageTypes
  <2>3. 5 \in 1..21 /\ 11 \in 1..21 /\ 6 \in 1..21 /\ 12 \in 1..21
    OBVIOUS
  <2>4. type \in DOMAIN WebClass \ WebRequestTypes
    BY <2>1 DEF WebClass, WebRequestTypes
  <2> QED
    BY <2>1, <2>2, <2>3, <2>4
<1>3. /\ IsWeb(type) /\ payload \in Seq(Byte) /\ Len(payload) \in Nat
      /\ size = 8 + Len(payload)
  <2>1. /\ IsWeb(type) /\ payload \in Seq(Byte)
        /\ Len(payload) = ByteSize(WebClass[type], msg.values)
    BY <1>1, WebAnswerWritten
  <2> QED
    BY <2>1, LenProperties DEF PacketSize
<1>4. HeaderBytes(msg) \in Seq(Byte) /\ Len(HeaderBytes(msg)) = 8
  BY HeaderSize
<1>5. Holds(raw, 0, HeaderBytes(msg)) /\ Holds(raw, 8, payload)
  <2>1. PacketBytes(msg) = Joined(HeaderBytes(msg), payload)
    BY <1>3 DEF PacketBytes
  <2> HIDE DEF payload
  <2>2. Holds(raw, 0, HeaderBytes(msg)) /\ Holds(raw, 0 + Len(HeaderBytes(msg)), payload)
    BY <1>1, <1>3, <1>4, <2>1, HoldsBoth
  <2>3. 0 + Len(HeaderBytes(msg)) = 8
    BY <1>4
  <2> QED
    BY <2>2, <2>3
<1>6. size <= RecvSize
  <2>1. 8 + Len(payload) <= Len(raw)
    BY <1>5 DEF Holds
  <2> QED
    BY <1>3, <2>1
<1>7. LengthAt(At(raw, 0)) = size /\ TypeOf(LengthAt(At(raw, 4))) = type
  <2>1. size <= 1023
    BY <1>1, <1>3, <1>6
  <2> QED
    BY <1>1, <1>2, <1>5, <2>1, HeaderRead
<1>8. Loaded(raw) = At(raw, 0) /\ Skip(At(raw, 0), 4) = At(raw, 4)
  <2>1. Skip(At(raw, 0), 4) = At(raw, 0 + 4)
    BY SkippedAt
  <2>2. 0 + 4 = 4
    OBVIOUS
  <2> QED
    BY <2>1, <2>2, LoadedAt
<1>9. /\ bytes \in Seq(Byte) /\ Len(bytes) = RecvSize - 8
      /\ \A i \in 1..RecvSize - 8 : bytes[i] = raw[8 + i]
  <2>1. RecvSize >= 8 /\ 9 \in Int /\ RecvSize \in Int
    BY StreamAssumption
  <2>2. \A i \in 9..RecvSize : raw[i] \in Byte
    BY LenProperties
  <2>3. /\ bytes \in Seq(Byte) /\ Len(bytes) = IF 9 <= RecvSize THEN RecvSize - 9 + 1 ELSE 0
        /\ \A i \in 1..RecvSize - 9 + 1 : bytes[i] = raw[9 + i - 1]
    BY <2>1, <2>2, SubSeqProperties
  <2>4. RecvSize - 9 + 1 = RecvSize - 8 /\ \A i \in 1..RecvSize - 8 : 9 + i - 1 = 8 + i
    BY <2>1
  <2> HIDE DEF bytes
  <2>5. Len(bytes) = RecvSize - 8
    <3>1. CASE 9 <= RecvSize
      BY <2>3, <2>4, <3>1
    <3>2. CASE RecvSize = 8
      BY <2>3, <3>2
    <3> QED
      BY <2>1, <3>1, <3>2
  <2>6. \A i \in 1..RecvSize - 8 : bytes[i] = raw[8 + i]
    BY <2>3, <2>4
  <2> QED
    BY <2>3, <2>5, <2>6
<1> HIDE DEF type, payload, bytes
<1>10. Holds(bytes, 0, payload)
  <2>1. 8 + Len(payload) <= RecvSize /\ \A i \in 1..Len(payload) : raw[8 + i] = payload[i]
    BY <1>5 DEF Holds
  <2>2. \A i \in 1..Len(payload) : i \in 1..RecvSize - 8 /\ 0 + i = i
    BY <1>1, <1>3, <2>1
  <2>3. 0 + Len(payload) <= Len(bytes)
    BY <1>1, <1>3, <1>9, <2>1
  <2> QED
    BY <1>9, <2>1, <2>2, <2>3 DEF Holds
<1>11. \A i \in Len(payload) + 1..Len(bytes) : bytes[i] = {}
  <2> SUFFICES ASSUME NEW i \in Len(payload) + 1..Len(bytes) PROVE bytes[i] = {}
    OBVIOUS
  <2>1. i \in 1..RecvSize - 8 /\ 8 + i \in size + 1..RecvSize
    BY <1>1, <1>3, <1>9
  <2> QED
    BY <1>9, <2>1
<1> HIDE DEF size
<1>12. type \in Cases(kind)
  BY <1>2 DEF Cases
<1>13. result \in Handling(kind, At(raw, 0), size, type)
  BY <1>6, <1>7, <1>8, <1>12 DEF Dispatched
<1>14. Payload(kind, At(raw, 0), size) = bytes
  BY DEF Payload, At, bytes
<1>15. result.type = type /\ result.values = WebFields(WebClass[type], bytes)
  BY <1>3, <1>13, <1>14 DEF Handling
<1>16. \A n \in DOMAIN msg.values :
          n \in DOMAIN result.values /\ result.values[n] = msg.values[n]
  <2>1. Len(bytes) <= 1023
    BY <1>1, <1>9
  <2>2. \A n \in DOMAIN msg.values :
           /\ n \in DOMAIN WebFields(WebClass[msg.type], bytes)
           /\ WebFields(WebClass[msg.type], bytes)[n] = msg.values[n]
    BY <1>1, <1>9, <1>10, <1>11, <2>1, AnswerParsed DEF payload, type
  <2> QED
    BY <1>15, <2>2 DEF type
<1> QED
  BY <1>15, <1>16 DEF ReadsRight, type
-----------------------------------------------------------------------------
(***************************************************************************)
(* Whole packets.                                                          *)
(***************************************************************************)
\* A recv() handles a whole packet with its values: but for the answers of the AuthServer,
\* whatever follows, and for those if nothing does.
LEMMA WholeReceived ==
    ASSUME BufferInv, FlightInv, SmallUserIds, RecvSize <= 1023, NEW n \in 1..RecvSize, Recv(n),
           link # "A2S" \/ (n = PacketSize(flight[1].msg) /\ ReasonsAreValid)
    PROVE  WholePacketsAreRead'
<1> SUFFICES ASSUME chunk'.atStart, chunk'.whole
             PROVE  handled'.type = chunk'.packet.type /\ ReadsRight(handled', chunk'.packet)
  BY DEF WholePacketsAreRead, ReadsRight
<1> DEFINE msg == flight[1].msg
<1>1. /\ chunk'.packet = msg /\ flight[1].at = 1
      /\ flight[1].at + n > PacketSize(msg) /\ n <= Len(flight)
      /\ handled' \in Dispatched(link, Received(n))
  BY DEF Recv
<1>2. link \in Links /\ link \in {"C2S", "S2C", "S2A", "A2S"} /\ InFlight(link, flight)
  BY StreamAssumption DEF BufferInv, FlightInv
<1>3. /\ Holds(Received(n), 0, PacketBytes(msg)) /\ Len(Received(n)) = RecvSize
      /\ msg \in Messages(link) /\ PacketSize(msg) <= RecvSize
  BY <1>1, <1>2, WholeHeld
<1>4. /\ Received(n) \in Seq(Byte)
      /\ \A i \in 1..RecvSize : Received(n)[i] = IF i <= n THEN flight[i].byte ELSE {}
  BY <1>1, <1>2, ReceivedBytes
<1>5. link # "A2S" \/ (n = PacketSize(msg) /\ ReasonsAreValid)
  OBVIOUS
<1> HIDE DEF msg
<1>6. CASE link \in {"C2S", "S2C"}
  BY <1>1, <1>2, <1>3, <1>6, WholeHandled
<1>7. CASE link = "S2A"
  BY <1>1, <1>2, <1>3, <1>4, <1>7, RequestHandled
<1>8. CASE link = "A2S"
  <2>1. \A i \in PacketSize(msg) + 1..RecvSize : Received(n)[i] = {}
    <3>1. n = PacketSize(msg) /\ RecvSize \in Nat
      BY <1>5, <1>8, StreamAssumption
    <3>2. \A i \in n + 1..RecvSize : i \in 1..RecvSize /\ ~(i <= n)
      BY <3>1
    <3> QED
      BY <1>4, <3>1, <3>2
  <2> QED
    BY <1>1, <1>2, <1>3, <1>4, <1>5, <1>8, <2>1, AnswerHandled
<1> QED
  BY <1>2, <1>6, <1>7, <1>8

\* Steps that receive nothing have no packet to handle.
LEMMA WholeStep ==
    ASSUME BufferInv, FlightInv, SmallUserIds, RecvSize <= 1023,
           link # "A2S" => WholePacketsAreRead, [Next]_vars
    PROVE  (link # "A2S" => WholePacketsAreRead)'
<1>1. ASSUME NEW n \in 1..RecvSize, Recv(n) PROVE (link # "A2S" => WholePacketsAreRead)'
  <2>1. link' = link
    BY <1>1 DEF Recv
  <2> QED
    BY <1>1, <2>1, WholeReceived
<1>2. ASSUME NEW msg \in Messages(link), Send(msg) PROVE WholePacketsAreRead'
  BY <1>2 DEF Send, WholePacketsAreRead
<1>3. ASSUME UNCHANGED vars PROVE (link # "A2S" => WholePacketsAreRead)'
  BY <1>3 DEF vars, WholePacketsAreRead
<1> QED
  BY <1>1, <1>2, <1>3 DEF Next

\* What the theorems on whole packets need of the stream.
LEMMA StreamInvariant ==
    ASSUME WritesFit
    PROVE  Spec => [](BufferInv /\ FlightInv)
<1>1. Init => BufferInv /\ FlightInv
  BY BufferStart, FlightStart
<1>2. BufferInv /\ FlightInv /\ [Next]_vars => (BufferInv /\ FlightInv)'
  <2>1. SUFFICES ASSUME BufferInv, FlightInv, [Next]_vars PROVE (BufferInv /\ FlightInv)'
    OBVIOUS
  <2>2. BufferInv' /\ FlightInv'
    BY <2>1, BufferStep, FlightStep
  <2> QED
    BY <2>2
<1> QED
  BY <1>1, <1>2, PTL DEF Spec

\* A packet of a client, of the chat server to a client, or of the chat server to the
\* AuthServer that a recv() returns whole is handled with the values it was made of:
\* whatever was in the two buffers before, wherever the stream was cut before, whatever
\* follows in the same recv(), for strings, lists and numbers of every size that the buffers
\* have room for.  The decoder of buffer.cpp limits the ids.
THEOREM WholePacketsReadRight ==
    ASSUME WritesFit, SmallUserIds, RecvSize <= 1023
    PROVE  Spec => [](link # "A2S" => WholePacketsAreRead)
<1>1. Init => (link # "A2S" => WholePacketsAreRead)
  BY DEF Init, WholePacketsAreRead
<1>2. /\ BufferInv /\ FlightInv /\ (link # "A2S" => WholePacketsAreRead) /\ [Next]_vars
      => (link # "A2S" => WholePacketsAreRead)'
  BY WholeStep
<1>3. Spec => [](BufferInv /\ FlightInv)
  BY StreamInvariant
<1> QED
  BY <1>1, <1>2, <1>3, PTL DEF Spec

\* So is an answer of the AuthServer that arrives apart: the chat server gives the parser
\* all of its buffer, which the recv() has cleared, and a zero ends a message of Protobuf.
\* The reasons are those that both enums have.
THEOREM SinglePacketsReadRight ==
    ASSUME WritesFit, SmallUserIds, ReasonsAreValid, RecvSize <= 1023
    PROVE  Spec => [][\A n \in 1..RecvSize :
                         Recv(n) /\ n = PacketSize(flight[1].msg) => WholePacketsAreRead']_vars
<1>1. BufferInv /\ FlightInv /\ [Next]_vars
      => [\A n \in 1..RecvSize :
             Recv(n) /\ n = PacketSize(flight[1].msg) => WholePacketsAreRead']_vars
  BY WholeReceived
<1>2. Spec => [](BufferInv /\ FlightInv)
  BY StreamInvariant
<1> QED
  BY <1>1, <1>2, PTL DEF Spec
=============================================================================
