------------------------------ MODULE Messages ------------------------------
(***************************************************************************)
(* What the node says of its components: the announcement of each          *)
(* (getDiscoveryEntity, DiscoveryEntityT) and the message with all their   *)
(* values (getValueItem, ValueItemT, beginValueMsg, addValueItem); and the *)
(* reading of both that LoRaHandler.h:35-60 documents.                     *)
(*                                                                         *)
(* The payload of a value message is its first byte followed by its items; *)
(* of an announcement it is the byte that says how to read a value (names, *)
(* classes, units and ranges are left out).                                *)
(***************************************************************************)
EXTENDS Integers, Sequences

CONSTANTS
  BYTE,                     \* number of values of a byte: 256
  LORA_MAX_PAYLOAD_LENGTH   \* 146

\* The components of main.cpp, in order; each has its place for its entity id.
garageCover == 0
temperatureSensor == 1
humiditySensor == 2
distanceSensor == 3
heightSensorStableTime == 4
heightSensorZeroValue == 5
heightSensor == 6
carPresenceSensorLowLimit == 7
carPresenceSensorHighLimit == 8
carPresenceSensorMinStableTime == 9
carPresenceSensor == 10
NumberOfComponents == 11
components == [k \in 1..NumberOfComponents |-> k - 1]
EntityIds == 0..NumberOfComponents - 1

ITEM == 5         \* ValueItemT::size()
U32 == BYTE * BYTE * BYTE * BYTE

\* A format byte, every entity id and the number of items fit in a byte, and
\* all the items fit in a payload.
ASSUME ByteAssumption == BYTE \in Nat /\ BYTE >= 32 /\ BYTE % 2 = 0
ASSUME PayloadAssumption ==
  /\ LORA_MAX_PAYLOAD_LENGTH \in Nat
  /\ 1 + NumberOfComponents * ITEM <= LORA_MAX_PAYLOAD_LENGTH
-----------------------------------------------------------------------------
(* What is sent.                                                             *)

\* How getDiscoveryEntity says values are to be read: sizeof(T),
\* IS_SIGNED_TYPE(T) and the number of decimals.
Format(size, signed, precision) ==
  [size |-> size, isSigned |-> signed, precision |-> precision]

coverFormat == Format(1, FALSE, 0)
binarySensorFormat == Format(1, FALSE, 0)
sensorFormat(e) ==
  IF e = humiditySensor THEN Format(1, FALSE, 0)
  ELSE Format(2, TRUE, IF e = temperatureSensor THEN 1 ELSE 0)
numberFormat(e) ==
  Format(2, e \notin {heightSensorStableTime, carPresenceSensorMinStableTime}, 0)

getDiscoveryEntity(e) ==
  CASE e = garageCover -> coverFormat
    [] e = carPresenceSensor -> binarySensorFormat
    [] e \in {temperatureSensor, humiditySensor, distanceSensor, heightSensor} ->
         sensorFormat(e)
    [] OTHER -> numberFormat(e)

\* Byte 5 of DiscoveryEntityT::toByteArray.
formatByte(f) ==
  (IF f.isSigned THEN 16 ELSE 0) + (f.size \div 2) * 4 + f.precision

\* Faulty variant of the cast: a number is not sign-extended.
asUint32_ZeroExtended(x) == x % (BYTE * BYTE)

\* static_cast<uint32_t> of an integer
asUint32(x) == x % U32

\* static_cast<uint32_t> of a bool
boolAsUint32(b) == IF b THEN 1 ELSE 0

\* hton of a uint32_t
hton(u) ==
  <<u \div (BYTE * BYTE * BYTE), (u \div (BYTE * BYTE)) % BYTE,
    (u \div BYTE) % BYTE, u % BYTE>>

\* getValueItem, ValueItemT::toByteArray
item(e, x) == [entityId |-> e, bytes |-> hton(asUint32(x))]

\* beginValueMsg, and addValueItem for each component: every item is counted,
\* but only those that fit follow.
valueMsg(x) ==
  LET fit == (LORA_MAX_PAYLOAD_LENGTH - 1) \div ITEM
  IN  <<NumberOfComponents % BYTE>> \o
        [k \in 1..(IF NumberOfComponents <= fit THEN NumberOfComponents ELSE fit) |->
           item(components[k], x[components[k]])]
-----------------------------------------------------------------------------
(* How the documentation says it is read.                                    *)

isSigned(format) == (format \div 16) % 2 = 1

ntoh(b) == ((b[1] * BYTE + b[2]) * BYTE + b[3]) * BYTE + b[4]

\* A value is the four bytes of its item, signed if it was announced so.
reading(msg, e) ==
  LET k == CHOOSE k \in 1..msg[1] : msg[k + 1].entityId = e
      u == ntoh(msg[k + 1].bytes)
  IN  IF isSigned(formatByte(getDiscoveryEntity(e))) /\ 2 * u >= U32 THEN u - U32 ELSE u
=============================================================================
