------------------------------- MODULE Codec --------------------------------
(***************************************************************************)
(* How Shared/buffer.cpp takes integers apart into bytes and puts them     *)
(* together again.  A value is the set of its bits that are 1: shifting    *)
(* adds to the positions, | is union, and a conversion to a narrower type  *)
(* drops the positions it has no room for.                                 *)
(***************************************************************************)
EXTENDS Integers

Bits(width) == SUBSET (0..width - 1)

Truncate(value, width) == value \cap 0..width - 1

ShiftLeft(value, n) == {i + n : i \in value}

ShiftRight(value, n) == {i - n : i \in {j \in value : j >= n}}

\* m_Data[index + k] = value >> (8 * k), for a vector of uint8.
ByteOf(value, k) == Truncate(ShiftRight(value, 8 * k), 8)

\* The bytes of an unsigned integer of "size" bytes, the lowest first.
Encode(value, size) == [i \in 1..size |-> ByteOf(value, i - 1)]

(***************************************************************************)
(* Reading.  A uint8 is promoted to a 32-bit int before it is shifted.     *)
(***************************************************************************)
\* b << n as an int, for n < 32.
ShiftInt(b, n) == Truncate(ShiftLeft(b, n), 32)

\* b << n as an int, for n >= 32, is undefined: an x86 shifts by n % 32, a compiler that
\* evaluates the shift may make it 0.
Overshift(b, n, wraps) == IF wraps THEN ShiftInt(b, n % 32) ELSE {}

\* An int converted to uint64: the sign, bit 31, fills the upper half.
Widen(int) == IF 31 \in int THEN int \cup 32..63 ELSE int

DecodeUInt16(bytes) == Truncate(bytes[1] \cup ShiftInt(bytes[2], 8), 16)

DecodeUInt32(bytes) ==
    bytes[1] \cup ShiftInt(bytes[2], 8) \cup ShiftInt(bytes[3], 16)
             \cup ShiftInt(bytes[4], 24)

DecodeUInt64(bytes, wraps) ==
    bytes[1] \cup Widen(ShiftInt(bytes[2], 8)) \cup Widen(ShiftInt(bytes[3], 16))
             \cup Widen(ShiftInt(bytes[4], 24))
             \cup UNION {Widen(Overshift(bytes[k + 1], 8 * k, wraps)) : k \in 4..7}

\* What reading an integer of this size may return, over the outcomes of the build.
Decodings(bytes, size) ==
    IF size = 2 THEN {DecodeUInt16(bytes)}
    ELSE IF size = 4 THEN {DecodeUInt32(bytes)}
    ELSE {DecodeUInt64(bytes, w) : w \in BOOLEAN}
=============================================================================
