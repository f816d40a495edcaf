-------------------------- MODULE ReportingProofs --------------------------
(***************************************************************************)
(* What has changed enough is reported, what flickers is not, only the     *)
(* duty cycle keeps the node silent for longer than the interval, and the  *)
(* gateway catches up: for every value of the intervals, the limits and    *)
(* the widths, rollovers of millis() included.                             *)
(***************************************************************************)
EXTENDS Reporting, SequenceTheorems, TLAPS

-----------------------------------------------------------------------------
(* The inductive invariant behind the safety properties.                     *)

Small(v) == v.distance \in int16 /\ v.height \in int16 /\ v.presence \in BOOLEAN

ValuesInv ==
  /\ config \in Configs /\ Small(value) /\ Small(reported)
  /\ told \in [Shown -> Int] /\ mStableState \in BOOLEAN
  /\ due \subseteq Sensors \cup {"number", "other"}
  /\ pc \in {"loop", "report", "rx", "took"}

Capped(t) == IF t < INTERVAL THEN t ELSE INTERVAL

\* No second is skipped, so the time since the last report, and since the last
\* change of a presence that is not stable yet, is less than a rollover.
ClockInv ==
  LET second == Since(lastUpdateSensorsTime)
      quiet == Since(mLastReportTime)
      held == Since(mLastChangedTime)
      late == IF pc = "report" THEN second + UPDATE ELSE second
  IN  /\ clock \in 0..(WORD - 1) /\ lastUpdateSensorsTime \in 0..(WORD - 1)
      /\ mLastReportTime \in 0..(WORD - 1) /\ mLastChangedTime \in 0..(WORD - 1)
      /\ late <= UPDATE + MaxLag
      /\ quiet < INTERVAL + late /\ madeFor = Capped(quiet)
      /\ heldFor \in 0..INTERVAL
      /\ ~mStableState => held < INTERVAL + second /\ heldFor = Capped(held)
      /\ pc \in {"report", "rx"} /\ ~mStableState => held < config.minStableTime

\* What has to be reported is due until it is.
DueInv ==
  /\ pc = "report" /\ madeFor >= INTERVAL => "presence" \in due
  /\ pc = "rx" => madeFor < INTERVAL
  /\ mStableState => reported.presence = value.presence \/ (pc = "report" /\ "presence" \in due)
  /\ pc \in {"report", "rx"} =>
       \A s \in {"distance", "height"} :
         \/ value[s] - reported[s] < HYSTERESIS /\ reported[s] - value[s] < HYSTERESIS
         \/ pc = "report" /\ s \in due

\* What the gateway does not know was dropped, or set, since the last report.
ToldInv ==
  /\ quietFor \in 0..INTERVAL /\ droppedFor \in 0..INTERVAL
  /\ calmFor \in 0..INTERVAL
  /\ calmFor <= madeFor \/ \A e \in Shown : told[e] = ValuesOf(reported, config)[e]

IInv == ValuesInv /\ ClockInv /\ DueInv /\ ToldInv /\ FlickerIsNotReported
-----------------------------------------------------------------------------
(* What a reader of a value message makes of it. *)

(* Euclidean division. *)
LEMMA DivMod ==
  ASSUME NEW m \in Nat \ {0}, NEW x \in Nat
  PROVE  /\ x \div m \in Nat
         /\ x = (x \div m) * m + (x % m)
         /\ x % m \in 0..m - 1
BY SMTT(30)

(* Multiplication by a natural number is monotonic. *)
LEMMA TimesMono ==
  ASSUME NEW m \in Nat, NEW a \in Int, NEW b \in Int, a <= b
  PROVE  a * m <= b * m
OBVIOUS

(* The quotient is the only multiple that fits. *)
LEMMA DivUnique ==
  ASSUME NEW m \in Nat \ {0}, NEW x \in Nat, NEW j \in Nat,
         j * m <= x, x < j * m + m
  PROVE  x \div m = j
<1>. DEFINE q == x \div m
<1>1. q \in Nat /\ q * m <= x /\ x < q * m + m
  BY DivMod
<1>. HIDE DEF q
<1>2. CASE q < j
  <2>1. (q + 1) * m <= j * m
    BY <1>1, <1>2, TimesMono
  <2>. QED
    BY <1>1, <2>1
<1>3. CASE j < q
  <2>1. (j + 1) * m <= q * m
    BY <1>1, <1>3, TimesMono
  <2>. QED
    BY <1>1, <2>1
<1>. QED
  BY <1>1, <1>2, <1>3 DEF q

(* Products of three. *)
LEMMA TimesTimes ==
  ASSUME NEW a \in Nat, NEW m \in Nat \ {0}, NEW n \in Nat \ {0}
  PROVE  (a * n) * m = a * (m * n) /\ m * n \in Nat \ {0}
<1>1. (a * n) * m = a * (n * m) /\ n * m = m * n
  OBVIOUS
<1>2. 1 * n <= m * n /\ m * n \in Nat
  BY TimesMono
<1>. QED
  BY <1>1, <1>2

(* Dividing twice is dividing by the product. *)
LEMMA DivTwice ==
  ASSUME NEW m \in Nat \ {0}, NEW n \in Nat \ {0}, NEW x \in Nat
  PROVE  x \div (m * n) = (x \div m) \div n
<1>. DEFINE q == x \div m
            j == q \div n
<1>1. q \in Nat /\ q * m <= x /\ x < q * m + m
  BY DivMod
<1>. HIDE DEF q
<1>2. j \in Nat /\ j * n <= q /\ q + 1 <= j * n + n
  <2>1. j \in Nat /\ q = j * n + (q % n) /\ q % n \in 0..n - 1
    BY <1>1, DivMod
  <2>. HIDE DEF j
  <2>2. j * n \in Nat
    BY <2>1
  <2>. QED
    BY <1>1, <2>1, <2>2
<1>. HIDE DEF j
<1>3. (j * n) * m <= q * m /\ (q + 1) * m <= (j * n + n) * m
  BY <1>1, <1>2, TimesMono
<1>4. (j * n) * m = j * (m * n) /\ m * n \in Nat \ {0}
  BY <1>2, TimesTimes
<1>5. (j * n + n) * m = j * (m * n) + m * n
  <2>. DEFINE k == j * n
  <2>1. k \in Nat
    BY <1>2
  <2>. HIDE DEF k
  <2>2. (k + n) * m = k * m + n * m /\ n * m = m * n
    BY <2>1
  <2>. QED
    BY <1>4, <2>2 DEF k
<1>6. (q + 1) * m = q * m + m /\ q * m \in Nat
  BY <1>1
<1>. DEFINE a == j * (m * n)
            c == m * n
<1>7. a \in Nat /\ c \in Nat \ {0}
  BY <1>2, <1>4
<1>8. a <= x /\ x < a + c
  <2>1. a <= q * m /\ q * m + m <= a + c
    BY <1>3, <1>4, <1>5, <1>6
  <2>. HIDE DEF a, c
  <2>. QED
    BY <1>1, <1>6, <1>7, <2>1
<1>. QED
  BY <1>2, <1>4, <1>8, DivUnique DEF j, q

(* Four bytes hold what they were made of. *)
LEMMA ReadBack ==
  ASSUME NEW u \in Nat
  PROVE  ntoh(hton(u)) = u
<1>. DEFINE u1 == u \div BYTE
            u2 == u1 \div BYTE
            u3 == u2 \div BYTE
<1>1. BYTE \in Nat \ {0}
  BY ByteAssumption
<1>2. BYTE * BYTE \in Nat \ {0}
  BY <1>1, TimesTimes
<1>3. u1 \in Nat /\ u = u1 * BYTE + (u % BYTE)
  BY <1>1, DivMod
<1>4. u \div (BYTE * BYTE) = u2
  BY <1>1, DivTwice
<1>5. u \div (BYTE * BYTE * BYTE) = u3
  BY <1>1, <1>2, <1>4, DivTwice
<1>6. hton(u) = <<u3, u2 % BYTE, u1 % BYTE, u % BYTE>>
  BY <1>4, <1>5 DEF hton
<1>. HIDE DEF u1
<1>7. u2 \in Nat /\ u1 = u2 * BYTE + (u1 % BYTE)
  BY <1>1, <1>3, DivMod
<1>. HIDE DEF u2
<1>8. u3 \in Nat /\ u2 = u3 * BYTE + (u2 % BYTE)
  BY <1>1, <1>7, DivMod
<1>. HIDE DEF u3
<1>9. ntoh(hton(u)) =
        ((u3 * BYTE + (u2 % BYTE)) * BYTE + (u1 % BYTE)) * BYTE + (u % BYTE)
  BY <1>6 DEF ntoh
<1>. QED
  BY ONLY <1>3, <1>7, <1>8, <1>9, Zenon

\* What an item with format f can hold.
Half == (BYTE * BYTE) \div 2
Fits(f, x) ==
  IF f.isSigned THEN x \in -Half..Half - 1 ELSE x \in 0..BYTE * BYTE - 1

(* The widths of the values. *)
LEMMA Widths ==
  /\ BYTE \in Nat \ {0} /\ U32 \in Nat /\ Half \in Nat
  /\ BYTE * BYTE \in Nat /\ BYTE <= BYTE * BYTE
  /\ 2 * Half <= BYTE * BYTE /\ BYTE * BYTE * 2 <= U32
<1>1. BYTE \in Nat \ {0} /\ BYTE >= 32
  BY ByteAssumption
<1>. DEFINE w == BYTE * BYTE
<1>2. w \in Nat /\ 32 <= BYTE /\ 1 * BYTE <= w
  BY <1>1, TimesMono
<1>3. U32 = w * BYTE * BYTE
  BY DEF U32
<1>. HIDE DEF w
<1>4. w * BYTE \in Nat /\ 32 * w <= BYTE * w
  BY <1>1, <1>2, TimesMono
<1>5. w * BYTE = BYTE * w
  BY <1>1, <1>2
<1>6. 1 * (w * BYTE) <= BYTE * (w * BYTE) /\ w * BYTE * BYTE = BYTE * (w * BYTE)
      /\ BYTE * (w * BYTE) \in Nat
  <2>. DEFINE v == w * BYTE
  <2>1. v \in Nat
    BY <1>4
  <2>. HIDE DEF v
  <2>2. 1 * v <= BYTE * v /\ v * BYTE = BYTE * v /\ BYTE * v \in Nat
    BY <1>1, <2>1, TimesMono
  <2>. QED
    BY <2>2 DEF v
<1>7. U32 \in Nat /\ w * 2 <= U32
  BY <1>2, <1>3, <1>4, <1>5, <1>6
<1>8. w \div 2 \in Nat /\ 2 * (w \div 2) <= w
  BY <1>2
<1>. QED
  BY <1>1, <1>2, <1>7, <1>8 DEF Half, w

(* The sign flag of a format byte is the one put in. *)
LEMMA SignFlag ==
  ASSUME NEW e \in EntityIds
  PROVE  /\ getDiscoveryEntity(e).isSigned \in BOOLEAN
         /\ isSigned(formatByte(getDiscoveryEntity(e))) <=> getDiscoveryEntity(e).isSigned
<1>. DEFINE f == getDiscoveryEntity(e)
<1>1. PICK size \in {1, 2}, precision \in {0, 1} :
        \/ f = [size |-> size, isSigned |-> TRUE, precision |-> precision]
        \/ f = [size |-> size, isSigned |-> FALSE, precision |-> precision]
  <2>1. coverFormat = [size |-> 1, isSigned |-> FALSE, precision |-> 0]
    BY DEF coverFormat, Format
  <2>2. binarySensorFormat = [size |-> 1, isSigned |-> FALSE, precision |-> 0]
    BY DEF binarySensorFormat, Format
  <2>3. \/ sensorFormat(e) = [size |-> 1, isSigned |-> FALSE, precision |-> 0]
        \/ sensorFormat(e) = [size |-> 2, isSigned |-> TRUE, precision |-> 0]
        \/ sensorFormat(e) = [size |-> 2, isSigned |-> TRUE, precision |-> 1]
    BY DEF sensorFormat, Format
  <2>4. \/ numberFormat(e) = [size |-> 2, isSigned |-> TRUE, precision |-> 0]
        \/ numberFormat(e) = [size |-> 2, isSigned |-> FALSE, precision |-> 0]
    <3>1. CASE e \in {heightSensorStableTime, carPresenceSensorMinStableTime}
      BY <3>1, Zenon DEF numberFormat, Format
    <3>2. CASE e \notin {heightSensorStableTime, carPresenceSensorMinStableTime}
      BY <3>2, Zenon DEF numberFormat, Format
    <3>. QED
      BY <3>1, <3>2
  <2>5. f \in {coverFormat, binarySensorFormat, sensorFormat(e), numberFormat(e)}
    BY DEF getDiscoveryEntity, EntityIds
  <2>. HIDE DEF f
  <2>. QED
    BY <2>1, <2>2, <2>3, <2>4, <2>5
<1>. HIDE DEF f
<1>2. CASE f = [size |-> size, isSigned |-> TRUE, precision |-> precision]
  <2>1. f.isSigned = TRUE /\ f.size = size /\ f.precision = precision
    BY <1>2
  <2>2. formatByte(f) = 16 + (size \div 2) * 4 + precision
    BY <2>1 DEF formatByte
  <2>3. (formatByte(f) \div 16) % 2 = 1
    BY <2>2
  <2>. QED
    BY <2>1, <2>3 DEF isSigned, f
<1>3. CASE f = [size |-> size, isSigned |-> FALSE, precision |-> precision]
  <2>1. f.isSigned = FALSE /\ f.size = size /\ f.precision = precision
    BY <1>3
  <2>2. formatByte(f) = 0 + (size \div 2) * 4 + precision
    BY <2>1 DEF formatByte
  <2>3. (formatByte(f) \div 16) % 2 = 0
    BY <2>2
  <2>4. ~isSigned(formatByte(f))
    BY <2>3 DEF isSigned
  <2>. QED
    BY <2>1, <2>4, Zenon DEF f
<1>. QED
  BY <1>1, <1>2, <1>3

(* A reader who heeds the sign flag gets back a value that fits its format.  *)
LEMMA SignRestored ==
  ASSUME NEW f, f.isSigned \in BOOLEAN, NEW x, Fits(f, x)
  PROVE  LET u == asUint32(x)
         IN  /\ u \in Nat
             /\ x = IF f.isSigned /\ 2 * u >= U32 THEN u - U32 ELSE u
<1>1. /\ Half \in Nat /\ U32 \in Nat /\ BYTE * BYTE \in Nat
      /\ 2 * Half <= BYTE * BYTE /\ BYTE * BYTE * 2 <= U32 /\ U32 > 0
  <2>1. BYTE >= 1 /\ BYTE <= BYTE * BYTE
    BY Widths
  <2>. QED
    BY <2>1, Widths
<1>. DEFINE w == BYTE * BYTE
            u == x % U32
<1>. HIDE DEF w
<1>2. ASSUME x \in 0..w - 1
      PROVE  u = x /\ u \in Nat /\ (x < Half => 2 * u < U32)
  BY <1>1, <1>2, SMTT(30) DEF w
<1>3. ASSUME x \in -Half..-1
      PROVE  u = x + U32 /\ u \in Nat /\ 2 * u >= U32
  BY <1>1, <1>3, SMTT(30) DEF w
<1>4. CASE f.isSigned = TRUE
  <2>1. x \in -Half..Half - 1
    BY <1>4 DEF Fits
  <2>2. x \in 0..w - 1 \/ x \in -Half..-1
    BY <1>1, <2>1 DEF w
  <2>3. asUint32(x) = u
    BY DEF asUint32
  <2>. HIDE DEF u
  <2>. QED
    BY <1>1, <1>2, <1>3, <1>4, <2>1, <2>2, <2>3
<1>5. CASE f.isSigned = FALSE
  <2>1. x \in 0..w - 1
    BY <1>5 DEF Fits, w
  <2>2. asUint32(x) = u
    BY DEF asUint32
  <2>. HIDE DEF u
  <2>. QED
    BY <1>2, <1>5, <2>1, <2>2
<1>. QED
  BY <1>4, <1>5

(* All the items are in the message, each at the place of its entity.        *)
LEMMA ItemsInPlace ==
  ASSUME NEW x
  PROVE  /\ valueMsg(x)[1] = NumberOfComponents
         /\ \A e \in EntityIds : valueMsg(x)[e + 2] = item(e, x[e])
<1>. DEFINE fit == (LORA_MAX_PAYLOAD_LENGTH - 1) \div ITEM
            its == [k \in 1..NumberOfComponents |-> item(components[k], x[components[k]])]
<1>1. NumberOfComponents <= fit /\ NumberOfComponents % BYTE = NumberOfComponents
  <2>1. /\ LORA_MAX_PAYLOAD_LENGTH \in Nat /\ 56 <= LORA_MAX_PAYLOAD_LENGTH
        /\ BYTE \in Nat /\ BYTE >= 32
    BY PayloadAssumption, ByteAssumption DEF NumberOfComponents, ITEM
  <2>2. 11 <= (LORA_MAX_PAYLOAD_LENGTH - 1) \div 5
    BY <2>1
  <2>3. 11 % BYTE = 11
    BY <2>1
  <2>. QED
    BY <2>2, <2>3 DEF NumberOfComponents, ITEM
<1>2. valueMsg(x) = <<NumberOfComponents>> \o its
  BY <1>1 DEF valueMsg
<1>. HIDE DEF fit
<1>3. /\ <<NumberOfComponents>> \in Seq({NumberOfComponents} \cup {its[k] : k \in 1..11})
      /\ its \in Seq({NumberOfComponents} \cup {its[k] : k \in 1..11})
      /\ Len(its) = 11 /\ Len(<<NumberOfComponents>>) = 1
  <2>. DEFINE S == {NumberOfComponents} \cup {its[k] : k \in 1..11}
  <2>1. \A k \in 1..11 : its[k] \in S
    OBVIOUS
  <2>2. its = [k \in 1..11 |-> its[k]]
    BY DEF NumberOfComponents
  <2>. HIDE DEF its
  <2>3. its \in [1..11 -> S]
    BY <2>1, <2>2
  <2>4. its \in Seq(S)
    BY <2>3, SeqDef
  <2>5. Len(its) = 11
    BY <2>2
  <2>. QED
    BY <2>4, <2>5
<1>4. /\ valueMsg(x)[1] = NumberOfComponents
      /\ \A k \in 2..12 : valueMsg(x)[k] = its[k - 1]
  <2>. HIDE DEF its
  <2>. QED
    BY <1>2, <1>3, ConcatProperties
<1>5. ASSUME NEW e \in EntityIds PROVE valueMsg(x)[e + 2] = item(e, x[e])
  <2>1. e \in 0..10 /\ e \in Int
    BY <1>5 DEF EntityIds, NumberOfComponents
  <2>2. components[e + 1] = e
    BY <2>1 DEF components, NumberOfComponents
  <2>3. its[e + 1] = item(e, x[e])
    BY <2>1, <2>2 DEF NumberOfComponents
  <2>4. e + 2 \in 2..12 /\ (e + 2) - 1 = e + 1
    BY <2>1
  <2>. HIDE DEF its
  <2>. QED
    BY <1>4, <2>3, <2>4
<1>. QED
  BY <1>4, <1>5

(* A reader of the value message gets every value that fits its format.      *)
LEMMA ReadingIs ==
  ASSUME NEW x, NEW e \in EntityIds, Fits(getDiscoveryEntity(e), x[e])
  PROVE  reading(valueMsg(x), e) = x[e]
<1>. DEFINE msg == valueMsg(x)
            P(k) == msg[k + 1].entityId = e
            k0 == CHOOSE k \in 1..msg[1] : P(k)
            f == getDiscoveryEntity(e)
            u == asUint32(x[e])
<1>1. e \in 0..10 /\ e \in Int
  BY DEF EntityIds, NumberOfComponents
<1>2. msg[1] = 11 /\ \A d \in EntityIds : msg[d + 2] = item(d, x[d])
  BY ItemsInPlace DEF NumberOfComponents
<1>3. \A k \in 1..11 : msg[k + 1].entityId = k - 1
  <2>1. ASSUME NEW k \in 1..11 PROVE msg[k + 1].entityId = k - 1
    <3>1. k - 1 \in EntityIds /\ (k - 1) + 2 = k + 1
      BY DEF EntityIds, NumberOfComponents
    <3>2. msg[k + 1] = item(k - 1, x[k - 1])
      BY <1>2, <3>1
    <3>. QED
      BY <3>2 DEF item
  <2>. QED
    BY <2>1
<1>. HIDE DEF msg
<1>4. k0 = e + 1
  <2>1. e + 1 \in 1..msg[1] /\ P(e + 1)
    BY <1>1, <1>2, <1>3
  <2>2. k0 \in 1..msg[1] /\ P(k0)
    BY <2>1
  <2>. HIDE DEF k0
  <2>. QED
    BY <1>1, <1>2, <1>3, <2>2
<1>5. msg[k0 + 1].bytes = hton(u)
  <2>1. (e + 1) + 1 = e + 2
    BY <1>1
  <2>2. msg[e + 2] = item(e, x[e])
    BY <1>2
  <2>. HIDE DEF k0
  <2>. QED
    BY <1>4, <2>1, <2>2 DEF item
<1>6. u \in Nat /\ x[e] = IF f.isSigned /\ 2 * u >= U32 THEN u - U32 ELSE u
  BY SignFlag, SignRestored
<1>7. ntoh(hton(u)) = u
  BY <1>6, ReadBack
<1>8. reading(msg, e) = IF isSigned(formatByte(f)) /\ 2 * ntoh(msg[k0 + 1].bytes) >= U32
                        THEN ntoh(msg[k0 + 1].bytes) - U32 ELSE ntoh(msg[k0 + 1].bytes)
  BY DEF reading
<1>. HIDE DEF k0, u, f
<1>9. reading(msg, e) = IF isSigned(formatByte(f)) /\ 2 * u >= U32 THEN u - U32 ELSE u
  BY <1>5, <1>7, <1>8
<1>10. isSigned(formatByte(f)) <=> f.isSigned
  BY SignFlag DEF f
<1>. QED
  BY <1>6, <1>9, <1>10 DEF msg

-----------------------------------------------------------------------------
(* Arithmetic of millis(). *)

(* A difference of two times wraps around at most once. *)
LEMMA Diff ==
  ASSUME NEW a \in 0..(WORD - 1), NEW b \in 0..(WORD - 1)
  PROVE  /\ (a - b) % WORD = IF a >= b THEN a - b ELSE a - b + WORD
         /\ (a - b) % WORD \in 0..(WORD - 1)
BY TimesAssumption, SMTT(30)

(* So does a sum. *)
LEMMA Plus ==
  ASSUME NEW a \in 0..(WORD - 1), NEW d \in 0..(WORD - 1)
  PROVE  /\ (a + d) % WORD = IF a + d < WORD THEN a + d ELSE a + d - WORD
         /\ (a + d) % WORD \in 0..(WORD - 1)
BY TimesAssumption, SMTT(30)

(* A time that lies d further back, as long as that is no rollover. *)
LEMMA FurtherBack ==
  ASSUME NEW a \in 0..(WORD - 1), NEW b \in 0..(WORD - 1), NEW d \in Nat,
         ((a - b) % WORD) + d < WORD, NEW c, c = (a + d) % WORD
  PROVE  c \in 0..(WORD - 1) /\ (c - b) % WORD = ((a - b) % WORD) + d
<1>. DEFINE s == (a - b) % WORD
<1>1. s = (IF a >= b THEN a - b ELSE a - b + WORD) /\ s \in 0..(WORD - 1)
  BY Diff
<1>2. WORD \in Nat /\ s + d < WORD
  BY TimesAssumption
<1>. HIDE DEF s
<1>3. d \in 0..(WORD - 1)
  BY <1>1, <1>2
<1>4. c = (IF a + d < WORD THEN a + d ELSE a + d - WORD) /\ c \in 0..(WORD - 1)
  BY <1>3, Plus
<1>5. (c - b) % WORD = IF c >= b THEN c - b ELSE c - b + WORD
  BY <1>4, Diff
<1>. QED
  BY <1>1, <1>2, <1>3, <1>4, <1>5 DEF s

(* A time moved d nearer. *)
LEMMA Nearer ==
  ASSUME NEW a \in 0..(WORD - 1), NEW b \in 0..(WORD - 1), NEW d \in Nat,
         (a - b) % WORD >= d, NEW c, c = (b + d) % WORD
  PROVE  c \in 0..(WORD - 1) /\ (a - c) % WORD = ((a - b) % WORD) - d
<1>. DEFINE s == (a - b) % WORD
<1>1. s = (IF a >= b THEN a - b ELSE a - b + WORD) /\ s \in 0..(WORD - 1)
  BY Diff
<1>2. WORD \in Nat /\ s >= d
  BY TimesAssumption
<1>. HIDE DEF s
<1>3. d \in 0..(WORD - 1)
  BY <1>1, <1>2
<1>4. c = (IF b + d < WORD THEN b + d ELSE b + d - WORD) /\ c \in 0..(WORD - 1)
  BY <1>3, Plus
<1>5. (a - c) % WORD = IF a >= c THEN a - c ELSE a - c + WORD
  BY <1>4, Diff
<1>. QED
  BY <1>1, <1>2, <1>3, <1>4, <1>5 DEF s

(* No time has passed since now. *)
LEMMA Now ==
  ASSUME NEW a \in 0..(WORD - 1)
  PROVE  (a - a) % WORD = 0
BY Diff

(* The constants as numbers. *)
LEMMA Sizes ==
  /\ UPDATE \in Nat /\ UPDATE >= 1 /\ INTERVAL \in Nat /\ INTERVAL >= 1
  /\ MaxLag \in Nat /\ WORD \in Nat /\ HYSTERESIS \in Nat /\ HYSTERESIS >= 1
  /\ INTERVAL + UPDATE + MaxLag < WORD
BY TimesAssumption
-----------------------------------------------------------------------------
(* The values. *)

(* Zero is a small number. *)
LEMMA ZeroIsSmall == 0 \in int16 /\ Small(Zeros) /\ int16 \subseteq Int /\ int16 = -Half..Half - 1
<1>1. Half \in Nat /\ int16 = -Half..Half - 1
  BY Widths DEF int16, Half
<1>2. Half >= 1
  <2>1. BYTE \in Nat /\ BYTE >= 32
    BY ByteAssumption
  <2>2. 32 * BYTE <= BYTE * BYTE /\ BYTE * BYTE \in Nat
    BY <2>1, TimesMono
  <2>. QED
    BY <2>1, <2>2 DEF Half
<1>. QED
  BY <1>1, <1>2 DEF Small, Zeros

(* The values a configuration can hold. *)
LEMMA ConfigType ==
  ASSUME NEW c \in Configs
  PROVE  /\ c.zeroValue \in int16 /\ c.lowLimit \in int16 /\ c.highLimit \in int16
         /\ c.minStableTime \in 0..INTERVAL
         /\ c.minStableTime < BYTE * BYTE
BY ConfigsAssumption

(* What is measured is small, and the height tells the presence. *)
LEMMA MeasuredIsSmall ==
  ASSUME config \in Configs, NEW cm \in Distances
  PROVE  Small(Measured(cm))
<1>1. cm \in int16 /\ config.zeroValue - cm \in int16
  BY ConfigsAssumption
<1>. DEFINE h == config.zeroValue - cm
<1>2. /\ Measured(cm).distance = cm /\ Measured(cm).height = h
      /\ Measured(cm).presence = (h >= config.lowLimit /\ h <= config.highLimit)
  BY DEF Measured
<1>3. Measured(cm).presence \in BOOLEAN
  BY <1>2, Zenon
<1>. QED
  BY <1>1, <1>2, <1>3 DEF Small

(* Every value shown fits the format it was announced with.                  *)
LEMMA ShownFits ==
  ASSUME NEW v, Small(v), NEW c \in Configs, NEW e \in Shown
  PROVE  /\ Fits(getDiscoveryEntity(e), ValuesOf(v, c)[e])
         /\ ValuesOf(v, c)[e] \in Int /\ e \in EntityIds
<1>. DEFINE x == ValuesOf(v, c)
            f == getDiscoveryEntity(e)
<1>. USE DEF garageCover, temperatureSensor, humiditySensor, distanceSensor,
         heightSensorStableTime, heightSensorZeroValue, heightSensor,
         carPresenceSensorLowLimit, carPresenceSensorHighLimit,
         carPresenceSensorMinStableTime, carPresenceSensor
<1>1. e \in {3, 5, 6, 7, 8, 9, 10}
  BY DEF Shown
<1>2. e \in EntityIds
  BY <1>1 DEF EntityIds, NumberOfComponents
<1>3. /\ Half \in Nat /\ BYTE * BYTE \in Nat /\ BYTE * BYTE >= 2
      /\ int16 = -Half..Half - 1 /\ int16 \subseteq Int
  <2>1. BYTE \in Nat /\ BYTE >= 32 /\ BYTE <= BYTE * BYTE
    BY Widths, ByteAssumption
  <2>. QED
    BY <2>1, Widths, ZeroIsSmall
<1>4. ASSUME x[e] \in int16, f.isSigned = TRUE
      PROVE  Fits(f, x[e]) /\ x[e] \in Int
  <2>. HIDE DEF x, f
  <2>. QED
    BY <1>3, <1>4 DEF Fits
<1>5. ASSUME x[e] \in 0..BYTE * BYTE - 1, f.isSigned = FALSE
      PROVE  Fits(f, x[e]) /\ x[e] \in Int
  <2>. HIDE DEF x, f
  <2>. QED
    BY <1>3, <1>5 DEF Fits
<1>6. CASE e \in {3, 6}
  <2>1. f = sensorFormat(e)
    BY <1>6 DEF getDiscoveryEntity
  <2>2. sensorFormat(e) = [size |-> 2, isSigned |-> TRUE, precision |-> 0]
    <3>1. e # 2 /\ e # 1
      BY <1>6
    <3>. QED
      BY <3>1, Zenon DEF sensorFormat, Format
  <2>3. x[e] \in int16
    BY <1>2, <1>6 DEF ValuesOf, Small
  <2>. HIDE DEF x, f
  <2>9. f.isSigned = TRUE
    BY <2>1, <2>2
  <2>. QED
    BY <1>2, <1>4, <2>3, <2>9 DEF x, f
<1>7. CASE e \in {5, 7, 8}
  <2>1. f = numberFormat(e)
    BY <1>7 DEF getDiscoveryEntity
  <2>2. e \notin {4, 9}
    BY <1>7
  <2>3. numberFormat(e) = [size |-> 2, isSigned |-> TRUE, precision |-> 0]
    BY <2>2, Zenon DEF numberFormat, Format
  <2>4. x[e] \in int16
    BY <1>2, <1>7, ConfigType DEF ValuesOf
  <2>. HIDE DEF x, f
  <2>9. f.isSigned = TRUE
    BY <2>1, <2>3
  <2>. QED
    BY <1>2, <1>4, <2>4, <2>9 DEF x, f
<1>8. CASE e = 9
  <2>1. f = numberFormat(e)
    BY <1>8 DEF getDiscoveryEntity
  <2>2. numberFormat(e) = [size |-> 2, isSigned |-> FALSE, precision |-> 0]
    BY <1>8, Zenon DEF numberFormat, Format
  <2>3. x[e] = c.minStableTime
    BY <1>2, <1>8 DEF ValuesOf
  <2>4. x[e] \in 0..BYTE * BYTE - 1
    BY <1>3, <2>3, ConfigType, Sizes
  <2>. HIDE DEF x, f
  <2>9. f.isSigned = FALSE
    BY <2>1, <2>2
  <2>. QED
    BY <1>2, <1>5, <2>4, <2>9 DEF x, f
<1>9. CASE e = 10
  <2>1. f = binarySensorFormat
    BY <1>9 DEF getDiscoveryEntity
  <2>2. binarySensorFormat = [size |-> 1, isSigned |-> FALSE, precision |-> 0]
    BY DEF binarySensorFormat, Format
  <2>3. x[e] = boolAsUint32(v.presence)
    BY <1>2, <1>9 DEF ValuesOf
  <2>4. boolAsUint32(v.presence) \in {0, 1}
    BY DEF boolAsUint32
  <2>5. x[e] \in 0..BYTE * BYTE - 1
    BY <1>3, <2>3, <2>4
  <2>. HIDE DEF x, f
  <2>9. f.isSigned = FALSE
    BY <2>1, <2>2
  <2>. QED
    BY <1>2, <1>5, <2>5, <2>9 DEF x, f
<1>. QED
  BY <1>1, <1>2, <1>6, <1>7, <1>8, <1>9

(* So the gateway reads what was meant. *)
LEMMA ToldIs ==
  ASSUME NEW v, Small(v), NEW c \in Configs, NEW e \in Shown
  PROVE  /\ reading(valueMsg(ValuesOf(v, c)), e) = ValuesOf(v, c)[e]
         /\ ValuesOf(v, c)[e] \in Int
<1>. DEFINE x == ValuesOf(v, c)
<1>1. e \in EntityIds /\ Fits(getDiscoveryEntity(e), x[e]) /\ x[e] \in Int
  BY ShownFits
<1>. HIDE DEF x
<1>2. reading(valueMsg(x), e) = x[e]
  BY <1>1, ReadingIs
<1>. QED
  BY <1>1, <1>2 DEF x
-----------------------------------------------------------------------------
(* The steps. *)

(* Times that are counted up to INTERVAL. *)
LEMMA CappedLater ==
  ASSUME NEW t \in Nat, NEW d \in Nat
  PROVE  /\ Later(Capped(t), d) = Capped(t + d) /\ Capped(t) \in 0..INTERVAL
         /\ Capped(t) >= INTERVAL <=> t >= INTERVAL
BY Sizes DEF Later, Capped

(* The time since a report was made is one of two: since it was sent, or     *)
(* since it was dropped.                                                     *)
LEMMA MadeIs ==
  ASSUME quietFor \in 0..INTERVAL, droppedFor \in 0..INTERVAL
  PROVE  /\ madeFor \in 0..INTERVAL
         /\ madeFor < INTERVAL <=> quietFor < INTERVAL \/ droppedFor < INTERVAL
BY Sizes DEF madeFor

(* Both times go on alike, so the lesser of them does.                       *)
LEMMA MadeLater ==
  ASSUME NEW d \in Nat, quietFor \in 0..INTERVAL, droppedFor \in 0..INTERVAL,
         quietFor' = Later(quietFor, d), droppedFor' = Later(droppedFor, d)
  PROVE  /\ madeFor' = Later(madeFor, d)
         /\ quietFor' \in 0..INTERVAL /\ droppedFor' \in 0..INTERVAL
<1>. DEFINE q == quietFor
            r == droppedFor
            m == IF q < r THEN q ELSE r
<1>1. IF Later(q, d) < Later(r, d) THEN Later(m, d) = Later(q, d)
      ELSE Later(m, d) = Later(r, d)
  BY Sizes DEF Later
<1>2. Later(q, d) \in 0..INTERVAL /\ Later(r, d) \in 0..INTERVAL
  BY Sizes DEF Later
<1>3. madeFor = m
  BY DEF madeFor
<1>4. madeFor' = IF quietFor' < droppedFor' THEN quietFor' ELSE droppedFor'
  BY DEF madeFor
<1>. QED
  BY <1>1, <1>2, <1>3, <1>4

(* The differences of times that the invariant speaks of. *)
LEMMA TimesType ==
  ASSUME ClockInv
  PROVE  /\ Since(lastUpdateSensorsTime) \in Nat /\ Since(mLastReportTime) \in Nat
         /\ Since(mLastChangedTime) \in Nat
         /\ madeFor = Capped(Since(mLastReportTime)) /\ madeFor \in 0..INTERVAL
         /\ heldFor \in 0..INTERVAL
         /\ madeFor >= INTERVAL <=> Since(mLastReportTime) >= INTERVAL
<1>1. /\ Since(lastUpdateSensorsTime) \in 0..(WORD - 1)
      /\ Since(mLastReportTime) \in 0..(WORD - 1)
      /\ Since(mLastChangedTime) \in 0..(WORD - 1)
  BY Diff DEF ClockInv, Since
<1>2. madeFor = Capped(Since(mLastReportTime)) /\ heldFor \in 0..INTERVAL
  BY DEF ClockInv
<1>. DEFINE quiet == Since(mLastReportTime)
<1>3. quiet \in Nat /\ Since(lastUpdateSensorsTime) \in Nat /\ Since(mLastChangedTime) \in Nat
  BY <1>1, Sizes
<1>. HIDE DEF quiet
<1>4. Capped(quiet) \in 0..INTERVAL /\ (Capped(quiet) >= INTERVAL <=> quiet >= INTERVAL)
  BY <1>3, Sizes DEF Capped
<1>. QED
  BY <1>2, <1>3, <1>4 DEF quiet

(* The first state. *)
LEMMA InitInv == Init => IInv
<1>. SUFFICES ASSUME Init PROVE IInv
  OBVIOUS
<1>1. clock \in 0..(UPDATE + MaxLag) /\ clock \in 0..(WORD - 1) /\ 0 \in 0..(WORD - 1)
  BY Sizes DEF Init
<1>2. (clock - 0) % WORD = clock
  BY <1>1, Diff
<1>3. Later(0, clock) = Capped(clock) /\ Capped(clock) \in 0..INTERVAL
  BY <1>1, Sizes, CappedLater DEF Later, Capped
<1>4. ValuesInv
  BY ZeroIsSmall DEF ValuesInv, Init
<1>5. ClockInv
  <2>1. madeFor = Capped(clock)
    BY <1>3, Sizes DEF madeFor, Init
  <2>. QED
    BY <1>1, <1>2, <1>3, <2>1, Sizes DEF ClockInv, Init, Since
<1>6. DueInv
  BY DEF DueInv, Init
<1>7. ToldInv
  <2>1. quietFor \in 0..INTERVAL /\ droppedFor \in 0..INTERVAL /\ calmFor = 0
    BY <1>3, Sizes DEF Init
  <2>2. calmFor <= madeFor /\ calmFor \in 0..INTERVAL
    BY <2>1, MadeIs, Sizes
  <2>. QED
    BY <2>1, <2>2 DEF ToldInv
<1>8. FlickerIsNotReported
  BY DEF FlickerIsNotReported, Init
<1>. QED
  BY <1>4, <1>5, <1>6, <1>7, <1>8 DEF IInv

(* Time passes at the end of a turn, never as much as a rollover. *)
LEMMA ElapseStep ==
  ASSUME IInv, NEW d \in 0..(UPDATE + MaxLag), Elapse(d)
  PROVE  IInv'
<1>. DEFINE second == Since(lastUpdateSensorsTime)
            quiet == Since(mLastReportTime)
            held == Since(mLastChangedTime)
<1>1. /\ pc = "took" /\ pc' = "loop" /\ second + d <= UPDATE + MaxLag
      /\ clock' = (clock + d) % WORD
      /\ lastUpdateSensorsTime' = lastUpdateSensorsTime /\ config' = config
      /\ value' = value /\ reported' = reported /\ mLastReportTime' = mLastReportTime
      /\ mLastChangedTime' = mLastChangedTime /\ mStableState' = mStableState
      /\ due' = due /\ told' = told
      /\ heldFor' = Later(heldFor, d) /\ madeFor' = Later(madeFor, d)
      /\ calmFor' = Later(calmFor, d)
      /\ quietFor' \in 0..INTERVAL /\ droppedFor' \in 0..INTERVAL
  <2>1. quietFor' = Later(quietFor, d) /\ droppedFor' = Later(droppedFor, d)
    BY DEF Elapse
  <2>2. /\ madeFor' = Later(madeFor, d)
        /\ quietFor' \in 0..INTERVAL /\ droppedFor' \in 0..INTERVAL
    BY <2>1, MadeLater, Sizes DEF IInv, ToldInv
  <2>. QED
    BY <2>2 DEF Elapse, members
<1>2. /\ second \in Nat /\ quiet \in Nat /\ held \in Nat /\ d \in Nat
      /\ madeFor = Capped(quiet) /\ madeFor \in 0..INTERVAL /\ heldFor \in 0..INTERVAL
  BY TimesType DEF IInv
<1>3. /\ clock \in 0..(WORD - 1) /\ lastUpdateSensorsTime \in 0..(WORD - 1)
      /\ mLastReportTime \in 0..(WORD - 1) /\ mLastChangedTime \in 0..(WORD - 1)
      /\ quiet < INTERVAL + second
      /\ ~mStableState => held < INTERVAL + second /\ heldFor = Capped(held)
  BY <1>1 DEF IInv, ClockInv
<1>. HIDE DEF second, quiet, held
<1>4. clock' \in 0..(WORD - 1) /\ Since(lastUpdateSensorsTime)' = second + d
  <2>1. second + d < WORD
    BY <1>1, <1>2, Sizes
  <2>. QED
    BY <1>1, <1>2, <1>3, <2>1, FurtherBack DEF Since, second
<1>5. Since(mLastReportTime)' = quiet + d
  <2>1. quiet + d < WORD
    BY <1>1, <1>2, <1>3, Sizes
  <2>. QED
    BY <1>1, <1>2, <1>3, <2>1, FurtherBack DEF Since, quiet
<1>6. ~mStableState => Since(mLastChangedTime)' = held + d
  <2>1. ~mStableState => held + d < WORD
    BY <1>1, <1>2, <1>3, Sizes
  <2>. QED
    BY <1>1, <1>2, <1>3, <2>1, FurtherBack DEF Since, held
<1>7. madeFor' = Capped(quiet + d) /\ (~mStableState => heldFor' = Capped(held + d))
      /\ heldFor' \in 0..INTERVAL
  <2>1. Later(heldFor, d) \in 0..INTERVAL
    BY <1>2, Sizes DEF Later
  <2>. QED
    BY <1>1, <1>2, <1>3, <2>1, CappedLater
<1>8. ValuesInv'
  BY <1>1 DEF IInv, ValuesInv, Small
<1>9. ClockInv'
  <2>. DEFINE second1 == (clock' - lastUpdateSensorsTime') % WORD
              quiet1 == (clock' - mLastReportTime') % WORD
              held1 == (clock' - mLastChangedTime') % WORD
  <2>1. second1 = second + d /\ quiet1 = quiet + d /\ (~mStableState => held1 = held + d)
    BY <1>4, <1>5, <1>6 DEF Since
  <2>2. /\ (pc' \in {"report", "rx"} /\ ~mStableState' => held1 < config'.minStableTime)
        /\ clock' \in 0..(WORD - 1) /\ lastUpdateSensorsTime' \in 0..(WORD - 1)
        /\ mLastReportTime' \in 0..(WORD - 1) /\ mLastChangedTime' \in 0..(WORD - 1)
    BY <1>1, <1>3, <1>4
  <2>. HIDE DEF second1, quiet1, held1
  <2>3. /\ (IF pc' = "report" THEN second1 + UPDATE ELSE second1) = second1
        /\ second1 <= UPDATE + MaxLag
        /\ quiet1 < INTERVAL + second1 /\ madeFor' = Capped(quiet1)
    BY <1>1, <1>2, <1>3, <1>7, <2>1, Sizes
  <2>4. /\ heldFor' \in 0..INTERVAL
        /\ ~mStableState' => held1 < INTERVAL + second1 /\ heldFor' = Capped(held1)
    BY <1>1, <1>2, <1>3, <1>7, <2>1, Sizes
  <2>. QED
    BY <2>2, <2>3, <2>4 DEF ClockInv, Since, second1, quiet1, held1
<1>10. DueInv'
  BY <1>1 DEF IInv, DueInv
<1>11. ToldInv'
  <2>1. calmFor \in 0..INTERVAL
    BY DEF IInv, ToldInv
  <2>2. calmFor' \in 0..INTERVAL /\ (calmFor <= madeFor => calmFor' <= madeFor')
    BY <1>1, <1>2, <2>1, Sizes DEF Later
  <2>. QED
    BY <1>1, <2>2 DEF IInv, ToldInv
<1>12. FlickerIsNotReported'
  BY <1>1 DEF FlickerIsNotReported
<1>. QED
  BY <1>8, <1>9, <1>10, <1>11, <1>12 DEF IInv

(* An update of the sensors takes one second off what has to be made up for; *)
(* what it finds to report is due.                                           *)
LEMMA UpdateStep ==
  ASSUME IInv, updateSensors
  PROVE  IInv'
<1>. DEFINE second == Since(lastUpdateSensorsTime)
            quiet == Since(mLastReportTime)
            held == Since(mLastChangedTime)
            held1 == (clock - mLastChangedTime') % WORD
<1>1. PICK cm \in Distances : value' = Measured(cm)
  BY DEF updateSensors
<1>2. PICK other \in SUBSET {"other"} :
        due' = (due \cap {"number"}) \cup other
                 \cup {s \in {"distance", "height"} : largeChange(s)}
                 \cup (IF enteredNewStableState THEN {"presence"} ELSE {})
                 \cup (IF timeToReport THEN Sensors ELSE {})
  BY DEF updateSensors
<1>3. /\ pc = "loop" /\ pc' = "report" /\ second >= UPDATE
      /\ lastUpdateSensorsTime' = (lastUpdateSensorsTime + UPDATE) % WORD
      /\ clock' = clock /\ config' = config /\ reported' = reported
      /\ mLastReportTime' = mLastReportTime /\ madeFor' = madeFor
      /\ quietFor' = quietFor /\ droppedFor' = droppedFor
      /\ calmFor' = calmFor /\ told' = told
      /\ heldFor' = IF Changed THEN 0 ELSE heldFor
      /\ mLastChangedTime' = IF Changed THEN clock ELSE mLastChangedTime
  BY DEF updateSensors, NextSecond, LastChanged, madeFor
<1>4. mStableState' = (enteredNewStableState \/ (mStableState /\ ~Changed))
  BY DEF updateSensors
<1>5. /\ second \in Nat /\ quiet \in Nat /\ held \in Nat
      /\ madeFor = Capped(quiet) /\ heldFor \in 0..INTERVAL
      /\ madeFor >= INTERVAL <=> quiet >= INTERVAL
  BY TimesType DEF IInv
<1>6. /\ clock \in 0..(WORD - 1) /\ lastUpdateSensorsTime \in 0..(WORD - 1)
      /\ mLastReportTime \in 0..(WORD - 1) /\ mLastChangedTime \in 0..(WORD - 1)
      /\ second <= UPDATE + MaxLag /\ quiet < INTERVAL + second
      /\ ~mStableState => held < INTERVAL + second /\ heldFor = Capped(held)
  BY <1>3 DEF IInv, ClockInv
<1>7. config \in Configs /\ config.minStableTime \in 0..INTERVAL
  BY ConfigType DEF IInv, ValuesInv
<1>8. timeToReport <=> quiet >= INTERVAL
  BY DEF timeToReport
<1>9. enteredNewStableState <=> (Changed \/ ~mStableState) /\ held1 >= config.minStableTime
  BY DEF enteredNewStableState
<1>10. /\ mLastChangedTime' \in 0..(WORD - 1) /\ held1 \in Nat
       /\ Changed => held1 = 0
       /\ ~Changed => held1 = held
  <2>1. CASE Changed
    BY <1>3, <1>6, <2>1, Now
  <2>2. CASE ~Changed
    BY <1>3, <1>5, <1>6, <2>2 DEF Since
  <2>. QED
    BY <2>1, <2>2
<1>11. /\ lastUpdateSensorsTime' \in 0..(WORD - 1)
       /\ (clock - lastUpdateSensorsTime') % WORD = second - UPDATE
  <2>1. second = (clock - lastUpdateSensorsTime) % WORD
    BY DEF Since
  <2>. HIDE DEF second
  <2>2. (clock - lastUpdateSensorsTime) % WORD >= UPDATE /\ UPDATE \in Nat
    BY <1>3, <2>1, Sizes
  <2>. QED
    BY <1>3, <1>6, <2>1, <2>2, Nearer
<1>12. (clock' - mLastReportTime') % WORD = quiet /\ (clock' - mLastChangedTime') % WORD = held1
  BY <1>3 DEF Since
<1>. HIDE DEF second, quiet, held, held1
<1>13. ~mStableState' => held1 < config.minStableTime /\ heldFor' = Capped(held1)
  <2>. SUFFICES ASSUME ~mStableState'
                PROVE  held1 < config.minStableTime /\ heldFor' = Capped(held1)
    OBVIOUS
  <2>1. (Changed \/ ~mStableState) /\ ~(held1 >= config.minStableTime)
    BY <1>4, <1>9
  <2>2. CASE Changed
    BY <1>3, <1>7, <1>10, <2>1, <2>2, Sizes DEF Capped
  <2>3. CASE ~Changed
    BY <1>3, <1>6, <1>7, <1>10, <2>1, <2>3, Sizes
  <2>. QED
    BY <2>2, <2>3
<1>14. enteredNewStableState => heldFor' >= config.minStableTime
  <2>. SUFFICES ASSUME enteredNewStableState PROVE heldFor' >= config.minStableTime
    OBVIOUS
  <2>1. (Changed \/ ~mStableState) /\ held1 >= config.minStableTime
    BY <1>9
  <2>2. CASE Changed
    BY <1>3, <1>7, <1>10, <2>1, <2>2
  <2>3. CASE ~Changed
    BY <1>3, <1>5, <1>6, <1>7, <1>10, <2>1, <2>3, Sizes DEF Capped
  <2>. QED
    BY <2>2, <2>3
<1>15. heldFor' \in 0..INTERVAL
  BY <1>3, <1>5, Sizes
<1>16. "presence" \in due' <=> enteredNewStableState \/ timeToReport
  BY <1>2 DEF Sensors
<1>17. mStableState' \in BOOLEAN
  BY <1>4, Zenon
<1>18. ValuesInv'
  <2>1. Small(Measured(cm))
    BY <1>7, MeasuredIsSmall
  <2>2. Small(value)'
    BY <1>1, <2>1 DEF Small
  <2>3. due' \subseteq Sensors \cup {"number", "other"}
    BY <1>2 DEF Sensors
  <2>4. Small(reported)'
    BY <1>3 DEF IInv, ValuesInv, Small
  <2>. QED
    BY <1>3, <1>17, <2>2, <2>3, <2>4 DEF IInv, ValuesInv
<1>19. ClockInv'
  <2>. DEFINE second1 == (clock' - lastUpdateSensorsTime') % WORD
              quiet1 == (clock' - mLastReportTime') % WORD
              held2 == (clock' - mLastChangedTime') % WORD
  <2>1. second1 = second - UPDATE /\ quiet1 = quiet /\ held2 = held1
    BY <1>3, <1>11, <1>12
  <2>2. /\ clock' \in 0..(WORD - 1) /\ lastUpdateSensorsTime' \in 0..(WORD - 1)
        /\ mLastReportTime' \in 0..(WORD - 1) /\ mLastChangedTime' \in 0..(WORD - 1)
    BY <1>3, <1>6, <1>10, <1>11
  <2>. HIDE DEF second1, quiet1, held2
  <2>3. second1 + UPDATE = second /\ second1 \in Nat
    BY <1>3, <1>5, <2>1, Sizes
  <2>4. /\ second1 + UPDATE <= UPDATE + MaxLag
        /\ quiet1 < INTERVAL + (second1 + UPDATE) /\ madeFor' = Capped(quiet1)
    BY <1>3, <1>5, <1>6, <2>1, <2>3
  <2>5. ~mStableState' => held2 < INTERVAL + second1 /\ heldFor' = Capped(held2)
                            /\ held2 < config'.minStableTime
    BY <1>3, <1>7, <1>10, <1>13, <2>1, <2>3, Sizes
  <2>. QED
    BY <1>3, <1>15, <2>2, <2>4, <2>5 DEF ClockInv, Since, second1, quiet1, held2
<1>20. DueInv'
  <2>1. madeFor' >= INTERVAL => "presence" \in due'
    BY <1>3, <1>5, <1>8, <1>16
  <2>2. mStableState' => reported'.presence = value'.presence \/ "presence" \in due'
    <3>1. CASE enteredNewStableState
      BY <1>16, <3>1
    <3>2. CASE mStableState /\ ~Changed
      <4>1. reported.presence = value.presence
        BY <1>3, <3>2 DEF IInv, DueInv
      <4>. QED
        BY <1>3, <3>2, <4>1 DEF Changed
    <3>. QED
      BY <1>4, <3>1, <3>2
  <2>3. ASSUME NEW s \in {"distance", "height"}
        PROVE  \/ value'[s] - reported'[s] < HYSTERESIS /\ reported'[s] - value'[s] < HYSTERESIS
               \/ s \in due'
    <3>1. CASE largeChange(s)
      BY <1>2, <3>1
    <3>2. CASE ~largeChange(s)
      <4>1. value'[s] \in Int /\ reported[s] \in Int
        BY <1>1, <1>3, <1>18, ZeroIsSmall DEF IInv, ValuesInv, Small
      <4>2. ~(absDiffLastReportedValue(s) >= HYSTERESIS)
        BY <3>2 DEF largeChange
      <4>. QED
        BY <1>3, <4>1, <4>2, Sizes DEF absDiffLastReportedValue
    <3>. QED
      BY <3>1, <3>2
  <2>. QED
    BY <1>3, <2>1, <2>2, <2>3 DEF DueInv
<1>21. ToldInv'
  BY <1>3 DEF IInv, ToldInv
<1>22. FlickerIsNotReported'
  BY <1>3, <1>5, <1>8, <1>14, <1>16 DEF FlickerIsNotReported
<1>. QED
  BY <1>18, <1>19, <1>20, <1>21, <1>22 DEF IInv

(* A report of all values, sent or dropped, leaves nothing due. *)
LEMMA AllReported ==
  ASSUME IInv, sendSensorValueForAllComponents, config' = config,
         pc \in {"report", "loop", "rx"},
         pc' \in {"rx", "took"}, pc' = "rx" => pc = "report"
  PROVE  IInv'
<1>. DEFINE second == Since(lastUpdateSensorsTime)
            held == Since(mLastChangedTime)
<1>1. /\ due' = {} /\ reported' = value /\ mLastReportTime' = clock
      /\ clock' = clock /\ value' = value
      /\ lastUpdateSensorsTime' = lastUpdateSensorsTime
      /\ mLastChangedTime' = mLastChangedTime
      /\ mStableState' = mStableState /\ heldFor' = heldFor
  BY DEF sendSensorValueForAllComponents, setReported
<1>2. /\ second \in Nat /\ held \in Nat
  BY TimesType DEF IInv
<1>3. config \in Configs /\ Small(value)
  BY DEF IInv, ValuesInv
<1>4. \/ /\ told' = [e \in Shown |-> reading(valueMsg(ValuesOf(value, config)), e)]
         /\ quietFor' = 0 /\ droppedFor' = droppedFor /\ calmFor' = calmFor
      \/ droppedFor' = 0 /\ calmFor' = 0 /\ quietFor' = quietFor /\ told' = told
  BY DEF sendSensorValueForAllComponents
<1>5. madeFor' = 0 /\ quietFor' \in 0..INTERVAL /\ droppedFor' \in 0..INTERVAL
  <2>1. quietFor \in 0..INTERVAL /\ droppedFor \in 0..INTERVAL
    BY DEF IInv, ToldInv
  <2>2. madeFor' = IF quietFor' < droppedFor' THEN quietFor' ELSE droppedFor'
    BY DEF madeFor
  <2>3. \/ quietFor' = 0 /\ droppedFor' = droppedFor
        \/ droppedFor' = 0 /\ quietFor' = quietFor
    BY <1>4
  <2>. QED
    BY <2>1, <2>2, <2>3, Sizes
<1>6. \A e \in Shown : /\ reading(valueMsg(ValuesOf(value, config)), e) = ValuesOf(value, config)[e]
                       /\ ValuesOf(value, config)[e] \in Int
  BY <1>3, ToldIs
<1>. DEFINE Says(e) == reading(valueMsg(ValuesOf(value, config)), e)
            x == ValuesOf(value, config)
<1>7. \/ told' = [e \in Shown |-> Says(e)] /\ calmFor' = calmFor
      \/ calmFor' = 0 /\ told' = told
  BY <1>4
<1>8. \A e \in Shown : Says(e) = x[e] /\ x[e] \in Int
  BY <1>6
<1>9. ValuesOf(reported, config)' = x
  BY <1>1
<1>. HIDE DEF Says, x, second, held
<1>10. told' \in [Shown -> Int]
  BY <1>7, <1>8 DEF IInv, ValuesInv
<1>11. ValuesInv'
  BY <1>1, <1>3, <1>10 DEF IInv, ValuesInv, Small
<1>12. ClockInv'
  <2>. DEFINE second1 == (clock' - lastUpdateSensorsTime') % WORD
              quiet1 == (clock' - mLastReportTime') % WORD
              held1 == (clock' - mLastChangedTime') % WORD
  <2>1. /\ clock \in 0..(WORD - 1) /\ lastUpdateSensorsTime \in 0..(WORD - 1)
        /\ mLastReportTime \in 0..(WORD - 1) /\ mLastChangedTime \in 0..(WORD - 1)
        /\ (IF pc = "report" THEN second + UPDATE ELSE second) <= UPDATE + MaxLag
        /\ heldFor \in 0..INTERVAL
        /\ ~mStableState => held < INTERVAL + second /\ heldFor = Capped(held)
        /\ pc \in {"report", "rx"} /\ ~mStableState => held < config.minStableTime
    BY DEF IInv, ClockInv, second, held
  <2>2. second1 = second /\ held1 = held
    BY <1>1 DEF Since, second, held
  <2>3. quiet1 = 0
    BY <1>1, <2>1, Now
  <2>. HIDE DEF second1, quiet1, held1
  <2>4. /\ clock' \in 0..(WORD - 1) /\ lastUpdateSensorsTime' \in 0..(WORD - 1)
        /\ mLastReportTime' \in 0..(WORD - 1) /\ mLastChangedTime' \in 0..(WORD - 1)
    BY <1>1, <2>1
  <2>5. /\ (IF pc' = "report" THEN second1 + UPDATE ELSE second1) = second1
        /\ second1 <= UPDATE + MaxLag /\ quiet1 < INTERVAL + second1
        /\ madeFor' = Capped(quiet1)
    BY <1>1, <1>2, <1>5, <2>1, <2>2, <2>3, Sizes DEF Capped
  <2>6. /\ heldFor' \in 0..INTERVAL
        /\ ~mStableState' => held1 < INTERVAL + second1 /\ heldFor' = Capped(held1)
        /\ pc' \in {"report", "rx"} /\ ~mStableState' => held1 < config'.minStableTime
    BY <1>1, <2>1, <2>2
  <2>. QED
    BY <2>4, <2>5, <2>6 DEF ClockInv, Since, second1, quiet1, held1
<1>13. DueInv'
  <2>1. \A s \in {"distance", "height"} : value[s] \in Int
    BY <1>3, ZeroIsSmall DEF Small
  <2>. QED
    BY <1>1, <1>5, <2>1, Sizes DEF DueInv
<1>14. ToldInv'
  <2>1. calmFor' \in 0..INTERVAL
    BY <1>7, Sizes DEF IInv, ToldInv
  <2>2. CASE calmFor' = 0
    BY <1>5, <2>1, <2>2 DEF ToldInv
  <2>3. CASE told' = [e \in Shown |-> Says(e)]
    <3>1. \A e \in Shown : told'[e] = x[e]
      BY <1>8, <2>3
    <3>. QED
      BY <1>9, <1>5, <2>1, <3>1 DEF ToldInv
  <2>. QED
    BY <1>7, <2>2, <2>3
<1>15. FlickerIsNotReported'
  BY DEF FlickerIsNotReported
<1>. QED
  BY <1>11, <1>12, <1>13, <1>14, <1>15 DEF IInv

(* loop() reports what is due, and only then. *)
LEMMA ReportStep ==
  ASSUME IInv, Report
  PROVE  IInv'
<1>1. pc = "report" /\ pc' = "rx" /\ config' = config
  BY DEF Report
<1>2. CASE due # {} /\ sendSensorValueForAllComponents
  BY <1>1, <1>2, AllReported
<1>3. CASE due = {} /\ UNCHANGED <<clock, lastUpdateSensorsTime, members, due, history>>
  <2>1. /\ clock' = clock /\ lastUpdateSensorsTime' = lastUpdateSensorsTime
        /\ value' = value /\ reported' = reported /\ mLastReportTime' = mLastReportTime
        /\ mLastChangedTime' = mLastChangedTime /\ mStableState' = mStableState
        /\ due' = {} /\ due = {} /\ heldFor' = heldFor /\ madeFor' = madeFor
        /\ quietFor' = quietFor /\ droppedFor' = droppedFor
        /\ calmFor' = calmFor /\ told' = told
    BY <1>3 DEF members, history, madeFor
  <2>2. madeFor < INTERVAL
    <3>1. ~(madeFor >= INTERVAL)
      BY <1>1, <2>1 DEF IInv, DueInv
    <3>. QED
      BY <3>1, TimesType, Sizes DEF IInv
  <2>3. ValuesInv'
    BY <1>1, <2>1 DEF IInv, ValuesInv, Small
  <2>4. ClockInv'
    <3>. DEFINE second == (clock - lastUpdateSensorsTime) % WORD
                quiet == (clock - mLastReportTime) % WORD
                held == (clock - mLastChangedTime) % WORD
    <3>1. /\ clock \in 0..(WORD - 1) /\ lastUpdateSensorsTime \in 0..(WORD - 1)
          /\ mLastReportTime \in 0..(WORD - 1) /\ mLastChangedTime \in 0..(WORD - 1)
          /\ second + UPDATE <= UPDATE + MaxLag
          /\ madeFor = Capped(quiet) /\ heldFor \in 0..INTERVAL
          /\ ~mStableState => held < INTERVAL + second /\ heldFor = Capped(held)
          /\ pc \in {"report", "rx"} /\ ~mStableState => held < config.minStableTime
      BY <1>1 DEF IInv, ClockInv, Since
    <3>2. second \in Nat /\ quiet \in Nat /\ (madeFor >= INTERVAL <=> quiet >= INTERVAL)
      BY TimesType DEF IInv, Since
    <3>3. /\ (clock' - lastUpdateSensorsTime') % WORD = second
          /\ (clock' - mLastReportTime') % WORD = quiet
          /\ (clock' - mLastChangedTime') % WORD = held
      BY <2>1
    <3>. HIDE DEF second, quiet, held
    <3>4. second <= UPDATE + MaxLag /\ quiet < INTERVAL + second
      <4>1. madeFor \in 0..INTERVAL /\ second + UPDATE <= UPDATE + MaxLag
        BY <3>1, TimesType DEF IInv
      <4>2. second <= UPDATE + MaxLag
        BY <3>2, <4>1, Sizes
      <4>3. quiet < INTERVAL
        BY <2>2, <3>2, <4>1, Sizes
      <4>. QED
        BY <3>2, <4>2, <4>3, Sizes
    <3>. QED
      BY <1>1, <2>1, <3>1, <3>3, <3>4 DEF ClockInv, Since
  <2>5. DueInv'
    BY <1>1, <2>1, <2>2 DEF IInv, DueInv
  <2>6. ToldInv'
    BY <1>1, <2>1 DEF IInv, ToldInv
  <2>7. FlickerIsNotReported'
    BY <1>1 DEF FlickerIsNotReported
  <2>. QED
    BY <2>3, <2>4, <2>5, <2>6, <2>7 DEF IInv
<1>. QED
  BY <1>2, <1>3 DEF Report

(* Nothing is handled: the turn goes on. *)
LEMMA NoRequestStep ==
  ASSUME IInv, loraRx(NoRequest)
  PROVE  IInv'
<1>1. pc' = "took" /\ pc \in {"rx", "loop"}
  BY DEF loraRx
<1>2. /\ clock' = clock /\ lastUpdateSensorsTime' = lastUpdateSensorsTime
      /\ config' = config /\ value' = value /\ reported' = reported
      /\ mLastReportTime' = mLastReportTime
      /\ mLastChangedTime' = mLastChangedTime /\ mStableState' = mStableState
      /\ due' = due /\ heldFor' = heldFor /\ madeFor' = madeFor
      /\ quietFor' = quietFor /\ droppedFor' = droppedFor
      /\ calmFor' = calmFor /\ told' = told
  BY DEF loraRx, NoRequest, members, history, madeFor
<1>3. ValuesInv'
  BY <1>1, <1>2 DEF IInv, ValuesInv, Small
<1>4. ClockInv'
  BY <1>1, <1>2 DEF IInv, ClockInv, Since
<1>5. DueInv'
  BY <1>1, <1>2 DEF IInv, DueInv
<1>6. ToldInv'
  BY <1>1, <1>2 DEF IInv, ToldInv
<1>7. FlickerIsNotReported'
  BY <1>1 DEF FlickerIsNotReported
<1>. QED
  BY <1>3, <1>4, <1>5, <1>6, <1>7 DEF IInv

(* A request for the values is answered with all of them. *)
LEMMA onValueReqMsgStep ==
  ASSUME IInv, loraRx(onValueReqMsg)
  PROVE  IInv'
<1>1. pc' = "took" /\ pc \in {"rx", "loop"} /\ config' = config
  BY DEF loraRx, onValueReqMsg
<1>. QED
  BY <1>1, AllReported DEF loraRx, onValueReqMsg

(* A number is set. *)
LEMMA onValueSetReqMsgStep ==
  ASSUME IInv, loraRx(onValueSetReqMsg)
  PROVE  IInv'
<1>1. pc' = "took" /\ pc \in {"rx", "loop"}
  BY DEF loraRx
<1>2. /\ clock' = clock /\ lastUpdateSensorsTime' = lastUpdateSensorsTime
      /\ config' \in Configs /\ value' = value /\ reported' = reported
      /\ mLastReportTime' = mLastReportTime
      /\ mLastChangedTime' = mLastChangedTime /\ mStableState' = mStableState
      /\ due' = due /\ heldFor' = heldFor /\ madeFor' = madeFor
      /\ quietFor' = quietFor /\ droppedFor' = droppedFor
      /\ calmFor' = 0 /\ told' = told
  BY DEF loraRx, onValueSetReqMsg, members, madeFor
<1>3. ValuesInv'
  BY <1>1, <1>2 DEF IInv, ValuesInv, Small
<1>4. ClockInv'
  BY <1>1, <1>2 DEF IInv, ClockInv, Since
<1>5. DueInv'
  BY <1>1, <1>2 DEF IInv, DueInv
<1>6. ToldInv'
  BY <1>2, TimesType, Sizes DEF IInv, ToldInv
<1>7. FlickerIsNotReported'
  BY <1>1 DEF FlickerIsNotReported
<1>. QED
  BY <1>3, <1>4, <1>5, <1>6, <1>7 DEF IInv

(* Every step keeps the invariant. *)
LEMMA NextInv == IInv /\ [Next]_vars => IInv'
<1>. SUFFICES ASSUME IInv, [Next]_vars PROVE IInv'
  OBVIOUS
<1>1. CASE updateSensors
  BY <1>1, UpdateStep
<1>2. CASE Report
  BY <1>2, ReportStep
<1>3. CASE loraRx(NoRequest)
  BY <1>3, NoRequestStep
<1>4. CASE loraRx(onValueReqMsg)
  BY <1>4, onValueReqMsgStep
<1>5. CASE loraRx(onValueSetReqMsg)
  BY <1>5, onValueSetReqMsgStep
<1>6. CASE \E d \in 0..(UPDATE + MaxLag) : Elapse(d)
  BY <1>6, ElapseStep
<1>7. CASE UNCHANGED vars
  BY <1>7 DEF vars, IInv, ValuesInv, Small, ClockInv, Since, DueInv, ToldInv,
              FlickerIsNotReported, ValuesOf, madeFor
<1>. QED
  BY <1>1, <1>2, <1>3, <1>4, <1>5, <1>6, <1>7 DEF Next
-----------------------------------------------------------------------------
(* What the invariant says of a turn in which the reports have been made. *)
LEMMA InvariantGives ==
  ASSUME IInv
  PROVE  /\ TypeOK /\ LargeChangesAreReported /\ StablePresenceIsReported
         /\ FlickerIsNotReported /\ OnlyDropsSilence /\ GatewayCatchesUp
<1>1. TypeOK
  BY TimesType, ZeroIsSmall, Sizes
     DEF IInv, ValuesInv, ClockInv, ToldInv, Small, TypeOK
<1>2. LargeChangesAreReported
  BY DEF IInv, DueInv, LargeChangesAreReported
<1>3. StablePresenceIsReported
  <2>. SUFFICES ASSUME pc = "rx", heldFor >= config.minStableTime
                PROVE  reported.presence = value.presence
    BY DEF StablePresenceIsReported
  <2>1. config.minStableTime \in 0..INTERVAL
    BY ConfigType DEF IInv, ValuesInv
  <2>2. CASE mStableState
    BY <2>2 DEF IInv, DueInv
  <2>3. CASE ~mStableState
    <3>. DEFINE held == Since(mLastChangedTime)
    <3>1. held < config.minStableTime /\ heldFor = Capped(held) /\ held \in Nat
      BY <2>3, TimesType DEF IInv, ClockInv
    <3>. HIDE DEF held
    <3>2. Capped(held) < config.minStableTime
      BY <2>1, <3>1, Sizes DEF Capped
    <3>. QED
      BY <2>1, <3>1, <3>2, TimesType, Sizes DEF IInv
  <2>. QED
    BY <2>2, <2>3
<1>4. FlickerIsNotReported
  BY DEF IInv
<1>5. OnlyDropsSilence
  BY MadeIs DEF IInv, DueInv, ToldInv, OnlyDropsSilence
<1>6. GatewayCatchesUp
  <2>. SUFFICES ASSUME pc = "rx", calmFor >= INTERVAL
                PROVE  \A e \in Shown : told[e] = ValuesOf(reported, config)[e]
    BY DEF GatewayCatchesUp
  <2>1. madeFor < INTERVAL /\ madeFor \in 0..INTERVAL
    BY TimesType DEF IInv, DueInv
  <2>2. ~(calmFor <= madeFor)
    BY <2>1, Sizes DEF IInv, ToldInv
  <2>. QED
    BY <2>2 DEF IInv, ToldInv
<1>. QED
  BY <1>1, <1>2, <1>3, <1>4, <1>5, <1>6

(* Once the reports of a turn are made, no large change and no state of      *)
(* presence that has lasted is left out, a flickering presence has caused    *)
(* none, the values went on the air, or the duty cycle dropped them, less    *)
(* than INTERVAL ago, and a gateway that has missed nothing for so long      *)
(* knows every value, sign and width included (main.cpp:262-347, 521-546).   *)
THEOREM ReportsAreMade ==
  Spec => /\ []TypeOK /\ []LargeChangesAreReported /\ []StablePresenceIsReported
          /\ []FlickerIsNotReported /\ []OnlyDropsSilence /\ []GatewayCatchesUp
<1>1. Init => IInv
  BY InitInv
<1>2. IInv /\ [Next]_vars => IInv'
  BY NextInv
<1>3. IInv => /\ TypeOK /\ LargeChangesAreReported /\ StablePresenceIsReported
              /\ FlickerIsNotReported /\ OnlyDropsSilence /\ GatewayCatchesUp
  BY InvariantGives
<1>. QED
  BY <1>1, <1>2, <1>3, PTL DEF Spec
=============================================================================
