------------------------------ MODULE LadzrpWire ------------------------------
(***************************************************************************)
(* The four headers of src/model/ladzrp-packet.{h,cc}: in which order and  *)
(* width their fields are written, what is read back, and how headers are  *)
(* put before and taken off a packet.                                      *)
(*                                                                         *)
(* A packet is a sequence of fields, each with its width in bytes.         *)
(* Coordinates are integers of the plane; the third coordinate is always   *)
(* null and written all the same.  A double becomes a 32-bit float, which  *)
(* keeps only so many significant bits of it.                              *)
(***************************************************************************)
EXTENDS LadzrpRTable, Sequences

CONSTANT Significands   \* the whole numbers below it are floats: 2^24 in IEEE 754

ASSUME WireAssumption == Significands \in Nat \ {0} /\ Significands % 2 = 0

-----------------------------------------------------------------------------
(* Numbers.                                                                *)

Abs(x) == IF x < 0 THEN -x ELSE x

\* The distance between neighbouring floats: it doubles whenever the number does.
Spacing[n \in Nat] == IF n < Significands THEN 1 ELSE 2 * Spacing[n \div 2]
Ulp(x) == Spacing[Abs(x)]

\* EncodeFloat and DecodeFloat: to the nearest float, and to the even one of two.
EncodeFloat(x) ==
    LET u == Ulp(x)
        q == Abs(x) \div u
        r == Abs(x) % u
        rounded == u * (IF 2 * r > u \/ (2 * r = u /\ q % 2 = 1) THEN q + 1 ELSE q)
    IN  IF x < 0 THEN -rounded ELSE rounded

Field(w, v) == [width |-> w, value |-> v]

WriteU8(v) == <<Field(1, v % 256)>>
WriteU32(v) == <<Field(4, v)>>
WriteTime(t) == <<Field(8, t)>>
WriteFloat(x) == <<Field(4, EncodeFloat(x))>>
WriteVector(u) == WriteFloat(u.x) \o WriteFloat(u.y) \o WriteFloat(0)

\* What is read where a field of width w is expected at place i of packet b.  A field
\* of another width there yields something that was never written.
Garbage == -1
Read(b, i, w) == IF b[i].width = w THEN b[i].value ELSE Garbage
ReadVector(b, i) == [x |-> Read(b, i, 4), y |-> Read(b, i + 1, 4)]

\* How many bytes the first i fields of b take, and all of them.
BytesUpTo(b) ==
    LET n[i \in 0..Len(b)] == IF i = 0 THEN 0 ELSE n[i - 1] + b[i].width IN n

Bytes(b) == BytesUpTo(b)[Len(b)]

\* The packet without its first n bytes; a field cut in two is lost with them.
After(b, n) ==
    LET upTo == BytesUpTo(b)
        covering == {i \in 0..Len(b) : upTo[i] >= n}
    IN  IF covering = {} THEN <<>>
        ELSE SubSeq(b, (CHOOSE i \in covering : \A j \in covering : i =< j) + 1, Len(b))

-----------------------------------------------------------------------------
(* Sizes, Serialize and Deserialize of each header.                        *)

MessageHeaderSize == 1 + 1 + 4

SerializeMessage(h) == WriteU8(h.type) \o WriteU8(h.ttl) \o WriteU32(h.sequence)

DeserializeMessage(b) ==
    [type |-> Read(b, 1, 1), ttl |-> Read(b, 2, 1), sequence |-> Read(b, 3, 4)]

HelloHeaderSize == 3 * 4 * 3 + 4 + 4 + 1 + 8

\* The velocity is written before the position.
VelocityFirst_Mutant(h) ==
    WriteVector(h.sourceVelocity) \o WriteVector(h.sourcePosition)
    \o WriteU32(h.originator) \o WriteVector(h.lastHopPosition)
    \o WriteFloat(h.averageHopDistance) \o WriteU8(h.hopCount) \o WriteTime(h.timestamp)

SerializeHello(h) ==
    WriteVector(h.sourcePosition) \o WriteVector(h.sourceVelocity)
    \o WriteU32(h.originator) \o WriteVector(h.lastHopPosition)
    \o WriteFloat(h.averageHopDistance) \o WriteU8(h.hopCount) \o WriteTime(h.timestamp)

DeserializeHello(b) ==
    [sourcePosition |-> ReadVector(b, 1), sourceVelocity |-> ReadVector(b, 4),
     originator |-> Read(b, 7, 4), lastHopPosition |-> ReadVector(b, 8),
     averageHopDistance |-> Read(b, 11, 4), hopCount |-> Read(b, 12, 1),
     timestamp |-> Read(b, 13, 8)]

GlobalUpdateHeaderSize == 3 * 4 * 2 + 4 + 8

SerializeGlobalUpdate(h) ==
    WriteVector(h.position) \o WriteVector(h.velocity)
    \o WriteU32(h.originator) \o WriteTime(h.timestamp)

DeserializeGlobalUpdate(b) ==
    [position |-> ReadVector(b, 1), velocity |-> ReadVector(b, 4),
     originator |-> Read(b, 7, 4), timestamp |-> Read(b, 8, 8)]

DataHeaderSize == 3 * 4 * 4 + 8 + 1 * 2

SerializeData(h) ==
    WriteVector(h.destinationPosition) \o WriteVector(h.destinationVelocity)
    \o WriteTime(h.destinationTimestamp)
    \o WriteVector(h.senderPosition) \o WriteVector(h.senderVelocity)
    \o WriteU8(h.phaseFlags) \o WriteU8(h.hopCount)

DeserializeData(b) ==
    [destinationPosition |-> ReadVector(b, 1), destinationVelocity |-> ReadVector(b, 4),
     destinationTimestamp |-> Read(b, 7, 8),
     senderPosition |-> ReadVector(b, 8), senderVelocity |-> ReadVector(b, 11),
     phaseFlags |-> Read(b, 14, 1), hopCount |-> Read(b, 15, 1)]

-----------------------------------------------------------------------------
(* ns-3's Packet: AddHeader makes room for as many bytes as the header says*)
(* it takes, and Serialize writes from the start of them; RemoveHeader     *)
(* takes off as many bytes as Deserialize returns, the same number.        *)

AddHeader(b, size, fields) ==
    LET n == Bytes(fields)
    IN  IF n =< size THEN fields \o (IF n < size THEN <<Field(size - n, 0)>> ELSE <<>>) \o b
        ELSE fields \o After(b, n - size)

RemoveHeader(b, size) == After(b, size)
=============================================================================
