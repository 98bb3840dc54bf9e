------------------------------- MODULE Buffer -------------------------------
(***************************************************************************)
(* The class of Shared/buffer.cpp as a data type: a vector of bytes with   *)
(* an index to write at and one to read from.  Every process has one       *)
(* buffer for what it sends, which it resets and writes to, and one for    *)
(* what it has received, which it sets and reads.  A byte is the set of    *)
(* its bits that are 1, as in Codec.                                       *)
(***************************************************************************)
EXTENDS Codec, Sequences

CONSTANT GrowSize       \* kGROW_SIZE

\* One step of growth makes room for the longest integer.
ASSUME GrowAssumption == GrowSize \in Nat /\ GrowSize >= 8

Byte == Bits(8)
Zeros(n) == [i \in 1..n |-> {}]

\* Buffer(size).  "inside" is history: no write has gone beyond the vector.
NewBuffer(size) == [data |-> Zeros(size), writeIndex |-> 0, readIndex |-> 0, inside |-> TRUE]

Reset(buf) == NewBuffer(Len(buf.data))

\* Set(): all of the raw bytes count as written.
Loaded(raw) == [data |-> raw, writeIndex |-> Len(raw), readIndex |-> 0, inside |-> TRUE]

\* The bytes are stored at the index to write at, as far as the vector has room.
Store(buf, bytes) ==
    LET at == buf.writeIndex
    IN  [buf EXCEPT !.data = [i \in 1..Len(@) |->
                                 IF i - at \in 1..Len(bytes) THEN bytes[i - at] ELSE @[i]],
                    !.inside = @ /\ at + Len(bytes) <= Len(buf.data)]

Grown(buf, n) == [buf EXCEPT !.data = @ \o Zeros(n)]
Advanced(buf, n) == [buf EXCEPT !.writeIndex = @ + n]

\* Mutated form of WriteUInt: the vector grows only once it is full.
WriteUIntLate(buf, value, size) ==
    LET room == IF buf.writeIndex = Len(buf.data) THEN Grown(buf, GrowSize) ELSE buf
    IN  Advanced(Store(room, Encode(value, size)), size)

\* An integer grows the vector by one step when it does not fit.
WriteUInt(buf, value, size) ==
    LET room == IF buf.writeIndex + size > Len(buf.data) THEN Grown(buf, GrowSize) ELSE buf
    IN  Advanced(Store(room, Encode(value, size)), size)

\* A string grows it by as many steps as it takes.
WriteString(buf, str) ==
    LET missing == buf.writeIndex + Len(str) - Len(buf.data)
        steps == IF missing > 0 THEN (missing + GrowSize - 1) \div GrowSize ELSE 0
    IN  Advanced(Store(Grown(buf, steps * GrowSize), str), Len(str))

\* The next n bytes.  Nothing checks that the vector has them: one behind its end may be
\* anything, here 0.
Unread(buf, n) ==
    [i \in 1..n |-> IF buf.readIndex + i <= Len(buf.data) THEN buf.data[buf.readIndex + i]
                    ELSE {}]

\* The values ReadUInt..LE() may return, the string ReadString() returns, and the buffer
\* after reading n bytes.
UIntsAt(buf, size) == Decodings(Unread(buf, size), size)
StringAt(buf, n) == Unread(buf, n)
Skip(buf, n) == [buf EXCEPT !.readIndex = @ + n]
=============================================================================
