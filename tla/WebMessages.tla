----------------------------- MODULE WebMessages ------------------------------
(***************************************************************************)
(* The messages between the two servers, as the classes that protoc made   *)
(* of Shared/auth.proto write and parse them with the library's headers.   *)
(* A message is a function from the names of its fields that are set to    *)
(* their values: a set of bits for a number, a sequence of bytes for a     *)
(* string.  Strings are ASCII, which is valid UTF-8, and shorter than 128  *)
(* bytes.                                                                  *)
(***************************************************************************)
EXTENDS Codec, Sequences, SequencesExt

\* The bits of a small natural number, and back; any larger number is as large as 2^10.
BitsOf(n) == {i \in 0..10 : (n \div 2^i) % 2 = 1}
Weight(bits, i) == IF i \in bits THEN 2^i ELSE 0
Number(bits) ==
    IF bits \subseteq 0..9
    THEN Weight(bits, 0) + Weight(bits, 1) + Weight(bits, 2) + Weight(bits, 3) + Weight(bits, 4)
           + Weight(bits, 5) + Weight(bits, 6) + Weight(bits, 7) + Weight(bits, 8)
           + Weight(bits, 9)
    ELSE 2^10

VarintField(name) == [name |-> name, wire |-> 0, valid |-> {}]
StringField(name) == [name |-> name, wire |-> 2, valid |-> {}]
\* An enum is a varint with valid values; the first is its default.
EnumField(name, last) == [name |-> name, wire |-> 0, valid |-> 1..last]

(***************************************************************************)
(* The fields of each class in the order of their numbers 1, 2, ...        *)
(***************************************************************************)
CreateAccountWeb ==
    <<VarintField("requestId"), StringField("email"), StringField("plaintextPassword")>>
CreateAccountWebSuccess == <<VarintField("requestId"), VarintField("userId")>>
CreateAccountWebFailure == <<VarintField("requestId"), EnumField("reason", 3)>>
AuthenticateWeb ==
    <<VarintField("requestId"), StringField("email"), StringField("plaintextPassword")>>
AuthenticateWebSuccess ==
    <<VarintField("requestId"), VarintField("userId"), StringField("creationDate")>>
AuthenticateWebFailure == <<VarintField("requestId"), EnumField("reason", 2)>>

Default(field) == CASE field.wire = 2 -> <<>>
                    [] field.wire = 0 -> IF field.valid = {} THEN {} ELSE BitsOf(1)
-----------------------------------------------------------------------------
(***************************************************************************)
(* Writing.                                                                *)
(***************************************************************************)
HighestBit(value) == IF value = {} THEN 0 ELSE Max(value)

\* VarintSize64(): without a division by 7.
VarintSizeFromLog(log2value) == (log2value * 9 + 73) \div 64
VarintSize(value) == VarintSizeFromLog(HighestBit(value))

\* UnsafeVarint(): groups of 7 bits, the lowest first; bit 7 says that another follows.
Varint(value) ==
    LET last == HighestBit(value) \div 7
    IN  [i \in 1..last + 1 |-> Truncate(ShiftRight(value, 7 * (i - 1)), 7)
                                 \cup (IF i <= last THEN {7} ELSE {})]

Tag(number, wire) == BitsOf(8 * number + wire)

FieldSize(field, value) ==
    1 + (IF field.wire = 0 THEN VarintSize(value)
         ELSE VarintSize(BitsOf(Len(value))) + Len(value))

WriteWebField(number, field, value) ==
    Varint(Tag(number, field.wire))
        \o (IF field.wire = 0 THEN Varint(value) ELSE Varint(BitsOf(Len(value))) \o value)

IsSet(field, msg) == field.name \in DOMAIN msg

\* ByteSizeLong(): the sizes of the fields that are set.
ByteSize(class, msg) ==
    SumFunction([k \in {j \in DOMAIN class : IsSet(class[j], msg)} |->
                    FieldSize(class[k], msg[class[k].name])])

\* _InternalSerialize(): those fields in the order of their numbers.
SerializeWeb(class, msg) ==
    FlattenSeq([k \in DOMAIN class |->
                  IF IsSet(class[k], msg) THEN WriteWebField(k, class[k], msg[class[k].name])
                                          ELSE <<>>])
-----------------------------------------------------------------------------
(***************************************************************************)
(* Parsing.  The result of ParseFromArray() is ignored: after a failure    *)
(* the fields set so far count, and the others have their defaults.        *)
(***************************************************************************)
\* The position after the varint at this one, which has at most ten bytes.
VarintEnd(bytes, at) == 1 + Min({i \in at..Len(bytes) : 7 \notin bytes[i]} \cup {at + 9})

VarintAt(bytes, at) ==
    UNION {ShiftLeft(Truncate(bytes[i], 7), 7 * (i - at)) :
              i \in {j \in at..VarintEnd(bytes, at) - 1 : j <= Len(bytes)}}

\* The position after a field's value, or 0 if parsing fails there: a number 0, a group
\* that is not closed, a wire type that does not exist, a value longer than the bytes.
ValueEnd(bytes, at, number, wire) ==
    LET length == Number(VarintAt(bytes, at))
        end == CASE wire = 0 -> VarintEnd(bytes, at)
                 [] wire = 1 -> at + 8
                 [] wire = 2 -> VarintEnd(bytes, at) + length
                 [] wire = 5 -> at + 4
                 [] OTHER -> 0
    IN  IF number = 0 \/ end > Len(bytes) + 1 THEN 0 ELSE end

\* The field with this number, if the class has it with this wire type and value.
IsKnown(class, number, wire, value) ==
    /\ number \in DOMAIN class
    /\ class[number].wire = wire
    /\ class[number].valid = {} \/ Number(value) \in class[number].valid

\* The field whose tag is at this position.  The message ends there if its end is 0: with a
\* tag 0, an end of group, or a failure.
FieldAt(bytes, at) ==
    LET tag == VarintAt(bytes, at)
        number == Number(ShiftRight(tag, 3))
        wire == Number(Truncate(tag, 3))
        start == VarintEnd(bytes, at)
        end == ValueEnd(bytes, start, number, wire)
    IN  [number |-> number, wire |-> wire,
         value |-> IF wire = 0 THEN VarintAt(bytes, start)
                   ELSE SubSeq(bytes, VarintEnd(bytes, start), end - 1),
         end |-> IF tag = {} \/ wire = 4 THEN 0 ELSE end]

\* A later value of a field replaces an earlier one.
SetBefore(settings, name, value) ==
    [n \in {name} \cup DOMAIN settings |->
        IF n \in DOMAIN settings THEN settings[n] ELSE value]

\* _InternalParse(): the fields that parsing the bytes sets.  A field that is not known is
\* skipped.
ParseWeb(class, bytes) ==
    LET settings[at \in Nat] ==
          LET field == FieldAt(bytes, at)
          IN  IF at > Len(bytes) \/ field.end = 0 THEN <<>>
              ELSE IF IsKnown(class, field.number, field.wire, field.value)
              THEN SetBefore(settings[field.end], class[field.number].name, field.value)
              ELSE settings[field.end]
    IN  settings[1]

\* What the accessors of a parsed message return.
WebFields(class, bytes) ==
    LET set == ParseWeb(class, bytes)
    IN  [n \in {class[k].name : k \in DOMAIN class} |->
           IF n \in DOMAIN set THEN set[n]
           ELSE Default(CHOOSE f \in Range(class) : f.name = n)]
=============================================================================
