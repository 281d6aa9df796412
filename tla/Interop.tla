------------------------------ MODULE Interop -------------------------------
(***************************************************************************)
(* One register on its way through the system: a part writes a value, the  *)
(* node hands the bytes out in its own format, and parts read them.        *)
(***************************************************************************)
EXTENDS Registers

CONSTANT Values  \* the values that somebody writes

ASSUME InteropAssumption == Values \subseteq SValue

Writers == {"sdk", "backend", "frontend", "pool"}
Readers == {"sdk", "backend", "service", "poolSdk", "pool"}

VARIABLES value,   \* what was written first, by
          writer,  \* whom; <<>> before
          bytes,   \* the register, empty if refused
          fromNode,\* the bytes are as the node's API gives them
          results  \* what each reader has made of them; <<>> before it reads

registerVars == <<value, writer, bytes, fromNode, results>>

Unread == [r \in Readers |-> <<>>]

RegisterInit ==
    /\ value = <<>> /\ writer = "" /\ bytes = <<>>
    /\ fromNode = FALSE /\ results = Unread

WriteRegister(w, v) ==
    /\ writer = ""
    /\ value' = v /\ writer' = w /\ bytes' = Write(w, v)
    /\ UNCHANGED <<fromNode, results>>

Readable == writer # "" /\ bytes # NoBytes

\* A reader meets the types it is called for, under the type the register is
\* declared with.
ReadRegister(r) ==
    /\ Readable /\ results[r] = <<>>
    /\ r \in {"service", "poolSdk", "pool"} => Type(value) \in {"Int", "Long", "Coll"}
    /\ results' = [results EXCEPT ![r] = Read(r, Type(value), bytes)]
    /\ UNCHANGED <<value, writer, bytes, fromNode>>

NodeReformats ==
    /\ Readable /\ ~fromNode /\ NodeFormat(bytes) # bytes
    /\ bytes' = NodeFormat(bytes) /\ fromNode' = TRUE /\ results' = Unread
    /\ UNCHANGED <<value, writer>>

RegisterNext == \/ \E w \in Writers, v \in Values : WriteRegister(w, v)
                \/ \E r \in Readers : ReadRegister(r)
                \/ NodeReformats

RegisterSpec == RegisterInit /\ [][RegisterNext]_registerVars

-----------------------------------------------------------------------------
Reads(r, types) == results[r] # <<>> /\ Type(value) \in types

(* An Int in the range of 32 bits and a Long of 64, whoever wrote it, is the  *)
(* number every part reads: the zigzag and VLQ code exists six times in three *)
(* kinds of arithmetic (numbers that wrap at 32 bits, BigInt, Python's        *)
(* integers).                                                                 *)
NumbersSurvive ==
    (value # <<>> /\ Type(value) \in {"Int", "Long"}
      /\ InRange(Datum(value), IF Type(value) = "Int" THEN IntHalf ELSE LongHalf)) =>
        /\ bytes # NoBytes
        /\ \A r \in Readers \ {"service"} :
              Reads(r, {"Int", "Long"}) => results[r] = value
        /\ Reads("service", {"Int"}) => results["service"] = value

(* A single byte in the node's format: its length byte looks like the element *)
(* tag, and the three decoders of collections (index.ts:255, vlq_serializer.py:*)
(* 300, coinflipService.ts:524) take it for one.                              *)
OneByteFromNode == fromNode /\ Type(value) = "Coll" /\ Len(Datum(value)) = 1

(* But for that case, bytes come back whole from either format.               *)
BytesSurvive ==
    (value # <<>> /\ Type(value) = "Coll" /\ ~OneByteFromNode) =>
        \A r \in {"sdk", "backend", "service"} :
            Reads(r, {"Coll"}) => results[r] = value

(* Values whose every left part is a number, bytes or a Boolean: for others   *)
(* the length helper of the SDK is "a simplified version" (index.ts:377).     *)
Plain(v) ==
    \A i \in DOMAIN v :
        CASE v[i][1] = "SigmaProp" -> FALSE
          [] v[i][1] = "Pair" -> v[i + 1][1] \notin {"Some", "None", "Pair"}
          [] v[i][1] = "Int" -> InRange(v[i][2], IntHalf)
          [] v[i][1] = "Long" -> InRange(v[i][2], LongHalf)
          [] OTHER -> TRUE

(* The SDK reads what it wrote of options and pairs, however deep they are    *)
(* nested: the end of the left of a pair is found by a second parser, which   *)
(* must measure what the first one reads.  A SigmaProp is read with its tag.  *)
ValuesSurvive ==
    (value # <<>> /\ Plain(value) /\ ~OneByteFromNode /\ results["sdk"] # <<>>) =>
        results["sdk"] = value

=============================================================================
