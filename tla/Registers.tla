----------------------------- MODULE Registers ------------------------------
(***************************************************************************)
(* How the parts of the system write the registers of a box and read them  *)
(* back: the SDK (sdk/src/serialization/index.ts), the backend             *)
(* (vlq_serializer.py), the frontend (sigmaSerializer.ts, the decoders of  *)
(* coinflipService.ts) and the pool manager of the worktree                *)
(* (pool_manager.py).  A register is a sequence of bytes; integers have    *)
(* 32 and 64 bits.  A value is the sequence of its parts in the order they *)
(* are written: options and pairs come before what they hold.              *)
(***************************************************************************)
EXTENDS ZigZag, Sequences, FiniteSets

CONSTANTS IntHalf, LongHalf,  \* 2^31 and 2^63
          PkLength            \* bytes of a compressed key: 33

ASSUME RegistersAssumption ==
    IntHalf \in Nat \ {0} /\ LongHalf \in Nat \ {0} /\ PkLength \in Nat \ {0}

Byte == 0..255

\* Values; the first component of a part is its type.
Int_(n) == << <<"Int", n>> >>
Long(n) == << <<"Long", n>> >>
Coll(data) == << <<"Coll", data>> >>
SigmaProp(pk) == << <<"SigmaProp", pk>> >>
Boolean(b) == << <<"Boolean", b>> >>
Nothing == << <<"None">> >>
Some(v) == << <<"Some">> >> \o v
Pair(l, r) == << <<"Pair">> >> \o l \o r
\* An exception of a reader, and of a writer.
Refused == << <<"Refused">> >>
NoBytes == <<>>

Type(v) == v[1][1]
Datum(v) == v[1][2]

\* The parts of values, the values still to come after the first n parts of v,
\* and the sequences of parts that are one value.
SPart ==
    ({"Int", "Long"} \X Int) \cup ({"Coll", "SigmaProp"} \X Seq(Byte))
    \cup ({"Boolean"} \X BOOLEAN) \cup {<<"None">>, <<"Some">>, <<"Pair">>}
ToCome(v, n) ==
    1 + Cardinality({i \in 1..n : v[i][1] = "Pair"})
      - Cardinality({i \in 1..n : v[i][1] \notin {"Pair", "Some"}})
SValue == {v \in Seq(SPart) : \A n \in 0..Len(v) : ToCome(v, n) = 0 <=> n = Len(v)}

TInt == 2   TLong == 4   TFalse == 6   TTrue == 7   TSigmaProp == 8
TOption == 11   TPair == 13   TColl == 14   TSByte == 1   TProveDlog == 205

-----------------------------------------------------------------------------
(* VLQ: seven bits a byte, the lowest first, 128 on all but the last.      *)

Groups[v \in Nat] == IF v < 128 THEN <<v>> ELSE <<128 + (v % 128)>> \o Groups[v \div 128]

\* Nothing at all for a negative number: the loop runs while value > 0.
encodeVLQ(v) == IF v < 0 THEN <<>> ELSE Groups[v]

\* The number that starts at position `at` and the position after it; a buffer
\* that ends early ends the number.
decodeVLQ(buf, at) ==
    LET read[i \in Nat \ {0}] ==
            IF i > Len(buf) THEN [value |-> 0, next |-> i]
            ELSE IF buf[i] < 128 THEN [value |-> buf[i], next |-> i + 1]
            ELSE [value |-> buf[i] - 128 + 128 * read[i + 1].value, next |-> read[i + 1].next]
    IN  read[at]

\* Where the length of a collection is: after the element tag, if there is one.
LengthAt(buf) == IF Len(buf) >= 2 /\ buf[2] = TSByte THEN 3 ELSE 2

-----------------------------------------------------------------------------
(* Writers.                                                                *)

\* The unsigned number each writer gives the VLQ for an Int: JavaScript's
\* shifts wrap, the backend refuses, the pool manager masks.
IntWord(w, n) ==
    CASE w \in {"sdk", "frontend"} -> Unsigned(zigZagEncode(Wrap(n, IntHalf), IntHalf), IntHalf)
      [] w \in {"backend", "pool"} -> Unsigned(zigZagEncode(n, IntHalf), IntHalf)

\* The same for a Long: the SDK neither checks nor wraps.
LongWord(w, n) ==
    IF w \in {"frontend", "pool"} THEN Unsigned(zigZagEncode(n, LongHalf), LongHalf)
    ELSE zigZagEncode(n, LongHalf)

\* Variant: the length counts the element tag.
serializeCollByte_CountsTag(data) == <<TColl, TSByte>> \o encodeVLQ(Len(data) + 1) \o data

\* Format (A), the one every writer uses.
serializeCollByte(data) == <<TColl, TSByte>> \o encodeVLQ(Len(data)) \o data

serializeSigmaProp(pk) ==
    IF Len(pk) = PkLength THEN <<TSigmaProp, TProveDlog>> \o pk ELSE NoBytes

\* One part of a value, whatever it holds.
serializePart(p) ==
    CASE p[1] = "Int" -> <<TInt>> \o encodeVLQ(IntWord("sdk", p[2]))
      [] p[1] = "Long" -> <<TLong>> \o encodeVLQ(LongWord("sdk", p[2]))
      [] p[1] = "Coll" -> serializeCollByte(p[2])
      [] p[1] = "SigmaProp" -> serializeSigmaProp(p[2])
      [] p[1] = "Boolean" -> IF p[2] THEN <<TTrue>> ELSE <<TFalse>>
      [] p[1] \in {"None", "Some"} -> <<TOption>>
      [] p[1] = "Pair" -> <<TPair>>

\* The parts one after the other; an exception in one is one of the whole.
serializeSValue(v) ==
    LET from[i \in Nat \ {0}] == IF i > Len(v) THEN <<>> ELSE serializePart(v[i]) \o from[i + 1]
    IN  IF \E i \in DOMAIN v : serializePart(v[i]) = NoBytes THEN NoBytes ELSE from[1]

\* The backend refuses integers out of range and the types it does not know.
serialize_value(v) ==
    CASE Type(v) = "Int" -> IF InRange(Datum(v), IntHalf)
                         THEN <<TInt>> \o encodeVLQ(IntWord("backend", Datum(v))) ELSE NoBytes
      [] Type(v) = "Long" -> IF InRange(Datum(v), LongHalf)
                          THEN <<TLong>> \o encodeVLQ(LongWord("backend", Datum(v))) ELSE NoBytes
      [] Type(v) = "Coll" -> serializeCollByte(Datum(v))
      [] Type(v) = "SigmaProp" -> serializeSigmaProp(Datum(v))
      [] OTHER -> NoBytes

\* The encoders of the frontend and of the pool manager: numbers and bytes.
encodeConstant(w, v) ==
    CASE Type(v) = "Int" -> <<TInt>> \o encodeVLQ(IntWord(w, Datum(v)))
      [] Type(v) = "Long" -> <<TLong>> \o encodeVLQ(LongWord(w, Datum(v)))
      [] Type(v) = "Coll" -> serializeCollByte(Datum(v))
      [] OTHER -> NoBytes

Write(w, v) ==
    CASE w = "sdk" -> serializeSValue(v)
      [] w = "backend" -> serialize_value(v)
      [] OTHER -> encodeConstant(w, v)

\* Format (B): the node's API answers without the element tag.
NodeFormat(bytes) ==
    IF Len(bytes) >= 2 /\ bytes[1] = TColl THEN <<TColl>> \o SubSeq(bytes, 3, Len(bytes)) ELSE bytes

-----------------------------------------------------------------------------
(* Readers.                                                                *)

Number(bytes) == zigZagDecode(decodeVLQ(bytes, 2).value)

\* The bytes of a collection, as many as the length says and as there are.
CollBytes(bytes) ==
    LET len == decodeVLQ(bytes, LengthAt(bytes))
    IN  SubSeq(bytes, len.next, IF len.next + len.value - 1 > Len(bytes) THEN Len(bytes)
                                ELSE len.next + len.value - 1)

\* Variant: a number takes one byte.
getSerializedValueLength_OneByte(bytes) ==
    CASE bytes[1] \in {TFalse, TTrue, TOption} -> 1
      [] bytes[1] \in {TInt, TLong} -> 2
      [] OTHER -> Len(bytes)

\* "Helper to get the length of a serialized SValue", for the left of a pair:
\* an option counts as None.
getSerializedValueLength(bytes) ==
    CASE bytes[1] \in {TFalse, TTrue, TOption} -> 1
      [] bytes[1] \in {TInt, TLong} -> decodeVLQ(bytes, 2).next - 1
      [] bytes[1] = TColl -> LET len == decodeVLQ(bytes, LengthAt(bytes))
                             IN  len.next - 1 + len.value
      [] OTHER -> Len(bytes)

\* A value that is no option and no pair.
deserializeLeaf(bytes) ==
    CASE bytes[1] = TInt ->
           Int_(zigZagDecode(Unsigned(decodeVLQ(bytes, 2).value, IntHalf)))
      [] bytes[1] = TLong -> Long(Number(bytes))
      [] bytes[1] = TColl -> Coll(CollBytes(bytes))
      [] bytes[1] = TSigmaProp -> SigmaProp(Tail(bytes))
      [] bytes[1] \in {TFalse, TTrue} -> Boolean(bytes[1] = TTrue)
      [] OTHER -> Refused

\* The values that start at the positions of a register, each read as if the
\* register began there.
deserializeSValue(bytes) ==
    LET at[i \in Nat \ {0}] ==
            LET rest == SubSeq(bytes, i, Len(bytes))
                inner == at[i + 1]
                right == at[i + 1 + getSerializedValueLength(Tail(rest))]
            IN  CASE rest = <<>> -> Refused
                  [] rest # <<>> /\ rest[1] = TOption ->
                       IF Len(rest) = 1 THEN Nothing
                       ELSE IF inner = Refused THEN Refused ELSE Some(inner)
                  [] rest # <<>> /\ rest[1] = TPair ->
                       IF inner = Refused THEN Refused
                       ELSE IF right = Refused THEN Refused ELSE Pair(inner, right)
                  [] rest # <<>> /\ rest[1] \notin {TOption, TPair} -> deserializeLeaf(rest)
    IN  at[1]

\* The backend also checks that a collection is as long as it says, and that
\* a key has 33 bytes, which it gives back without the tags.
deserialize_value(bytes) ==
    CASE bytes[1] = TInt -> Int_(Number(bytes))
      [] bytes[1] = TLong -> Long(Number(bytes))
      [] bytes[1] = TColl ->
           LET len == decodeVLQ(bytes, LengthAt(bytes))
           IN  IF Len(bytes) - len.next + 1 = len.value THEN Coll(CollBytes(bytes)) ELSE Refused
      [] bytes[1] = TSigmaProp ->
           IF Len(bytes) = PkLength + 2 /\ bytes[2] = TProveDlog
           THEN SigmaProp(SubSeq(bytes, 3, Len(bytes))) ELSE Refused
      [] OTHER -> Refused

\* decodeInt and decodeCollByte of the coinflip service, each called on the
\* registers of its type, in 32-bit arithmetic.
decodeRegister(type, bytes) ==
    CASE type = "Int" -> Int_(zigZagDecode(Unsigned(decodeVLQ(bytes, 2).value, IntHalf)))
      [] type = "Coll" -> Coll(CollBytes(bytes))
      [] OTHER -> Refused

\* deserializeInt and deserializeLong of the SDK's PoolManager: 0 from a
\* register without a value or of another type.
poolRegister(type, bytes) ==
    CASE type = "Int" ->
           IF bytes # NoBytes /\ bytes[1] = TInt THEN decodeRegister("Int", bytes) ELSE Int_(0)
      [] type = "Long" ->
           IF bytes # NoBytes /\ bytes[1] = TLong THEN Long(Number(bytes)) ELSE Long(0)
      [] OTHER -> Refused

\* The pool manager of the backend reads numbers of either type, and 0 from
\* what is none.
extract_int(bytes) ==
    CASE bytes[1] = TInt -> Int_(Number(bytes))
      [] bytes[1] = TLong -> Long(Number(bytes))
      [] OTHER -> Int_(0)

Read(r, type, bytes) ==
    CASE r = "sdk" -> deserializeSValue(bytes)
      [] r = "backend" -> deserialize_value(bytes)
      [] r = "service" -> decodeRegister(type, bytes)
      [] r = "poolSdk" -> poolRegister(type, bytes)
      [] r = "pool" -> extract_int(bytes)

=============================================================================
