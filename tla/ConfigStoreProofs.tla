-------------------------- MODULE ConfigStoreProofs --------------------------
(***************************************************************************)
(* A restart finds what was saved, whenever power failed: for every width  *)
(* of a byte, every list of numbers, every content of a new chip and every *)
(* check byte that detects the change of one byte.                         *)
(***************************************************************************)
EXTENDS ConfigStore, SequenceTheorems, TLAPS

-----------------------------------------------------------------------------
(* The inductive invariant behind the safety properties.                     *)

HistoryInv ==
  /\ todo \in Seq([at : Cells, byte : Byte])
  /\ cand \in [Numbers -> SUBSET Int] /\ \A p \in Numbers : cand[p] \subseteq mMin[p]..mMax[p]
  /\ torn \in [Numbers -> 0..2]
  /\ ram \in [Numbers -> Int]
  /\ pc \in {"check", "erase"} => next = 1

Marked == ee[Magic] = CONFIG_MAGIC

\* What the bytes b are taken for, if they are not taken for truncated.
Readable(p, b) == ValueOf(b) <= getMaxValue(p)
Gives(p, b) == clamp(p, asT(p, ValueOf(b)))

\* The one value of p that was saved, or loaded, is there.
Whole(p) ==
  /\ ee[Cell(p, VALUE_SIZE + 1)] = crc(Stored(p))
  /\ \E x \in mMin[p]..mMax[p] :
       /\ cand[p] = {x}
       /\ \/ Stored(p) = BytesOf(asUint32(x))
          \/ Readable(p, Stored(p)) /\ Gives(p, Stored(p)) = x

Fresh(p) == \A i \in 1..VALUE_SIZE + 1 : ee[Cell(p, i)] = ERASED

\* A save of p is in progress, and Written of its bytes are there.
Writing(p) == pc # "erase" /\ todo # <<>> /\ Head(todo).at[1] = p
Written == VALUE_SIZE + 1 - Len(todo)

SaveInv ==
  pc # "erase" /\ todo # <<>> =>
    /\ pc \in {"load", "run"} /\ Written \in 0..VALUE_SIZE
    /\ \E p \in Numbers :
         /\ saving \in cand[p]
         /\ \A k \in 1..Len(todo) : todo[k] = save(p, saving)[Written + k]
         /\ \A i \in 1..Written : ee[Cell(p, i)] = save(p, saving)[i].byte

\* Erased is all that is no longer to be erased.
EraseInv ==
  pc = "erase" =>
    /\ ~Marked /\ Len(todo) \in 1..Len(Erase)
    /\ \A k \in 1..Len(todo) : todo[k] = Erase[Len(Erase) - Len(todo) + k]
    /\ \A k \in 1..Len(Erase) - Len(todo) : ee[AddressOrder[k]] = ERASED

\* Until setup() has ended once, only defaults have been saved.
UnmarkedInv ==
  ~Marked =>
    /\ pc # "run"
    /\ \A p \in Numbers : cand[p] \subseteq {mDefaultValue[p]}
    /\ pc = "load" =>
         /\ \A p \in Numbers : Fresh(p) \/ Whole(p) \/ Writing(p)
         /\ \A k \in 1..next - 1 : Whole(numbers[k]) \/ Writing(numbers[k])

\* What a save that was cut once leaves is the old value, the new one, or what
\* does not load.  Before that, while at most one byte of it is written, the
\* check byte is that of bytes which differ from those there in that byte only.
Kept(p) ==
  /\ Writing(p) /\ torn[p] = 0 /\ Written <= 1 =>
       \E b \in Bytes :
         /\ ee[Cell(p, VALUE_SIZE + 1)] = crc(b)
         /\ \A i \in 1..VALUE_SIZE : b[i] = Stored(p)[i] \/ (i = 1 /\ Written = 1)
         /\ Readable(p, b) => Gives(p, b) \in cand[p]
  /\ ~Writing(p) /\ torn[p] = 0 => Whole(p)
  /\ ~Writing(p) /\ torn[p] = 1 /\ loads(p) =>
       Gives(p, Stored(p)) \in cand[p] \cup {mDefaultValue[p]}

MarkedInv == Marked => pc # "erase" /\ \A p \in Numbers : Kept(p)

IInv == TypeOK /\ HistoryInv /\ SaveInv /\ EraseInv /\ UnmarkedInv /\ MarkedInv
-----------------------------------------------------------------------------
(* Values and their bytes. *)

(* Euclidean division. *)
LEMMA DivMod ==
  ASSUME NEW m \in Nat \ {0}, NEW x \in Nat
  PROVE  /\ x \div m \in Nat
         /\ x = (x \div m) * m + (x % m)
         /\ x % m \in 0..m - 1
BY SMTT(30)

(* Multiplication by a natural number is monotonic. *)
LEMMA TimesMono ==
  ASSUME NEW m \in Nat, NEW a \in Int, NEW b \in Int, a <= b
  PROVE  a * m <= b * m
OBVIOUS

(* The widths. *)
LEMMA Widths ==
  /\ BYTE \in Nat \ {0} /\ BYTE >= 2
  /\ T \in Nat \ {0} /\ BYTE <= T /\ T >= 2 /\ T = 2 * (T \div 2) /\ T \div 2 \in Nat
  /\ BYTE * T \in Nat \ {0} /\ T <= BYTE * T
  /\ U32 \in Nat \ {0} /\ U32 = T * T /\ 2 * T <= U32
  /\ U32 = BYTE * (BYTE * T)
<1>1. BYTE \in Nat \ {0} /\ BYTE >= 2 /\ BYTE % 2 = 0
  BY ByteAssumption
<1>2. T \in Nat \ {0} /\ BYTE <= T
  <2>1. 1 * BYTE <= BYTE * BYTE /\ BYTE * BYTE \in Nat
    BY <1>1, TimesMono
  <2>. QED
    BY <1>1, <2>1 DEF T
<1>3. T = 2 * (T \div 2) /\ T \div 2 \in Nat
  <2>. DEFINE h == BYTE \div 2
  <2>1. h \in Nat /\ BYTE = 2 * h
    BY <1>1
  <2>. HIDE DEF h
  <2>2. BYTE * BYTE = 2 * (h * BYTE) /\ h * BYTE \in Nat
    BY <1>1, <2>1
  <2>. DEFINE g == h * BYTE
  <2>. HIDE DEF g
  <2>3. g \in Nat /\ T = 2 * g
    BY <2>2 DEF g, T
  <2>. QED
    BY <2>3
<1>4. BYTE * T \in Nat \ {0} /\ T <= BYTE * T /\ 2 * T <= BYTE * T
  <2>1. 1 * T <= BYTE * T /\ 2 * T <= BYTE * T /\ BYTE * T \in Nat
    BY <1>1, <1>2, TimesMono
  <2>. QED
    BY <1>2, <2>1
<1>5. U32 = BYTE * (BYTE * T) /\ U32 = T * T
  <2>1. U32 = T * BYTE * BYTE
    BY DEF U32, T
  <2>2. T * BYTE = BYTE * T
    BY <1>1, <1>2
  <2>. DEFINE v == BYTE * T
  <2>3. v \in Nat /\ U32 = v * BYTE
    BY <1>4, <2>1, <2>2
  <2>4. (BYTE * BYTE) * T = BYTE * (BYTE * T)
    BY <1>1, <1>2
  <2>. HIDE DEF v
  <2>5. U32 = BYTE * v
    BY <1>1, <2>3
  <2>. QED
    BY <2>4, <2>5 DEF v, T
<1>6. U32 \in Nat \ {0} /\ 2 * T <= U32
  <2>. DEFINE v == BYTE * T
  <2>1. v \in Nat \ {0} /\ 2 * T <= v
    BY <1>4
  <2>. HIDE DEF v
  <2>2. 1 * v <= BYTE * v /\ BYTE * v \in Nat
    BY <1>1, <2>1, TimesMono
  <2>. QED
    BY <1>2, <1>5, <2>1, <2>2 DEF v
<1>. QED
  BY <1>1, <1>2, <1>3, <1>4, <1>5, <1>6

(* Four bytes of a value are bytes and give it back.                         *)
LEMMA RoundTrip ==
  ASSUME NEW u \in 0..U32 - 1
  PROVE  BytesOf(u) \in Bytes /\ ValueOf(BytesOf(u)) = u
<1>. DEFINE b == BytesOf(u)
            u1 == u \div BYTE
            u2 == u1 \div BYTE
            u3 == u2 \div BYTE
<1>1. BYTE \in Nat \ {0} /\ T \in Nat \ {0} /\ U32 \in Nat /\ u \in Nat
  BY Widths
<1>3. b[1] = u % BYTE /\ b[2] = u1 % BYTE /\ b[3] = u2 % BYTE /\ b[4] = u3
  BY DEF BytesOf, VALUE_SIZE
<1>4. u1 \in Nat /\ u = u1 * BYTE + (u % BYTE) /\ u % BYTE \in 0..BYTE - 1
  BY <1>1, DivMod
<1>. HIDE DEF u1
<1>5. u2 \in Nat /\ u1 = u2 * BYTE + (u1 % BYTE) /\ u1 % BYTE \in 0..BYTE - 1
  BY <1>1, <1>4, DivMod
<1>. HIDE DEF u2
<1>6. u3 \in Nat /\ u2 = u3 * BYTE + (u2 % BYTE) /\ u2 % BYTE \in 0..BYTE - 1
  BY <1>1, <1>5, DivMod
<1>. HIDE DEF u3
<1>7. u1 * BYTE <= u /\ u2 * BYTE <= u1 /\ u3 * BYTE <= u2
      /\ u1 * BYTE \in Nat /\ u2 * BYTE \in Nat /\ u3 * BYTE \in Nat
  BY <1>1, <1>4, <1>5, <1>6
<1>8. u3 \in 0..BYTE - 1
  <2>1. CASE u3 >= BYTE
    <3>1. BYTE * BYTE <= u3 * BYTE
      BY <1>1, <1>6, <2>1, TimesMono
    <3>2. T <= u2
      BY <1>1, <1>5, <1>7, <3>1 DEF T
    <3>3. T * BYTE <= u2 * BYTE /\ T * BYTE \in Nat
      BY <1>1, <1>5, <3>2, TimesMono
    <3>4. T * BYTE <= u1
      BY <1>4, <1>7, <3>3
    <3>. DEFINE v == T * BYTE
    <3>5. v \in Nat /\ v <= u1 /\ U32 = v * BYTE
      BY <3>3, <3>4 DEF U32, T
    <3>. HIDE DEF v
    <3>6. v * BYTE <= u1 * BYTE
      BY <1>1, <1>4, <3>5, TimesMono
    <3>. QED
      BY <1>1, <1>7, <3>5, <3>6
  <2>. QED
    BY <1>1, <1>6, <2>1
<1>9. b \in Bytes
  <2>1. b = [i \in 1..4 |-> b[i]]
    BY DEF BytesOf, VALUE_SIZE
  <2>. HIDE DEF b
  <2>2. \A i \in 1..4 : b[i] \in Byte
    BY <1>3, <1>4, <1>5, <1>6, <1>8 DEF Byte
  <2>. QED
    BY <2>1, <2>2 DEF Bytes, VALUE_SIZE
<1>10. ValueOf(b) = u
  <2>. DEFINE c1 == u % BYTE
              c2 == u1 % BYTE
              c3 == u2 % BYTE
  <2>1. ValueOf(b) = c1 + BYTE * c2 + T * c3 + BYTE * T * u3
    BY <1>3 DEF ValueOf
  <2>2. u = u1 * BYTE + c1 /\ u1 = u2 * BYTE + c2 /\ u2 = u3 * BYTE + c3
        /\ c1 \in Nat /\ c2 \in Nat /\ c3 \in Nat /\ u2 \in Nat /\ u3 \in Nat
    BY <1>4, <1>5, <1>6
  <2>. HIDE DEF c1, c2, c3
  <2>3. (u2 * BYTE + c2) * BYTE = u2 * T + BYTE * c2
    BY <1>1, <2>2 DEF T
  <2>4. (u3 * BYTE + c3) * T = BYTE * T * u3 + T * c3
    BY <1>1, <2>2
  <2>5. u1 * BYTE = u2 * T + BYTE * c2
    BY <2>2, <2>3
  <2>6. u2 * T = BYTE * T * u3 + T * c3
    BY <2>2, <2>4
  <2>. DEFINE x == BYTE * T * u3
              y == T * c3
              z == BYTE * c2
              v == u2 * T
  <2>7. x \in Nat /\ y \in Nat /\ z \in Nat /\ v \in Nat
    BY <1>1, <2>2, Widths
  <2>8. ValueOf(b) = c1 + z + y + x /\ v = x + y /\ u = v + z + c1
    BY <2>1, <2>2, <2>5, <2>6
  <2>. HIDE DEF x, y, z, v, b
  <2>. QED
    BY <2>2, <2>7, <2>8
<1>. QED
  BY <1>9, <1>10

(* A value that fits in two bytes is in the low ones.                        *)
LEMMA LowHalf ==
  ASSUME NEW b \in Bytes
  PROVE  /\ ValueOf(b) \in Nat
         /\ ValueOf(b) < T => ValueOf(b) = b[1] + BYTE * b[2]
         /\ b[1] + BYTE * b[2] \in 0..T - 1
<1>. DEFINE x == b[1] + BYTE * b[2]
            y == T * b[3]
            z == BYTE * T * b[4]
<1>1. b[1] \in 0..BYTE - 1 /\ b[2] \in 0..BYTE - 1 /\ b[3] \in 0..BYTE - 1 /\ b[4] \in 0..BYTE - 1
  BY DEF Bytes, VALUE_SIZE, Byte
<1>2. BYTE \in Nat \ {0} /\ T \in Nat \ {0} /\ BYTE * T \in Nat \ {0} /\ T <= BYTE * T
  BY Widths
<1>3. x \in 0..T - 1
  <2>1. b[2] * BYTE <= (BYTE - 1) * BYTE
    BY <1>1, <1>2, TimesMono
  <2>2. (BYTE - 1) * BYTE = T - BYTE /\ b[2] * BYTE = BYTE * b[2] /\ BYTE * b[2] \in Nat
    BY <1>1, <1>2 DEF T
  <2>. DEFINE w == BYTE * b[2]
  <2>3. w \in Nat /\ w <= T - BYTE
    BY <2>1, <2>2
  <2>. HIDE DEF w
  <2>4. b[1] + w \in 0..T - 1
    BY <1>1, <1>2, <2>3
  <2>. QED
    BY <2>4 DEF w
<1>4. y \in Nat /\ (b[3] >= 1 => y >= T) /\ (b[3] = 0 => y = 0)
  <2>1. ASSUME b[3] >= 1 PROVE 1 * T <= b[3] * T
    BY <1>1, <1>2, <2>1, TimesMono
  <2>2. b[3] * T = T * b[3] /\ T * b[3] \in Nat
    BY <1>1, <1>2
  <2>. QED
    BY <1>1, <1>2, <2>1, <2>2
<1>5. z \in Nat /\ (b[4] >= 1 => z >= T) /\ (b[4] = 0 => z = 0)
  <2>. DEFINE w == BYTE * T
  <2>1. w \in Nat /\ T <= w
    BY <1>2
  <2>. HIDE DEF w
  <2>2. ASSUME b[4] >= 1 PROVE 1 * w <= b[4] * w
    BY <1>1, <2>1, <2>2, TimesMono
  <2>3. b[4] * w = w * b[4] /\ w * b[4] \in Nat
    BY <1>1, <2>1
  <2>4. w * b[4] \in Nat /\ (b[4] >= 1 => w * b[4] >= T) /\ (b[4] = 0 => w * b[4] = 0)
    BY <1>1, <1>2, <2>1, <2>2, <2>3
  <2>. QED
    BY <2>4 DEF w
<1>6. ValueOf(b) = x + y + z
  BY DEF ValueOf
<1>7. b[3] \in Nat /\ b[4] \in Nat
  BY <1>1
<1>. DEFINE v == ValueOf(b)
<1>. HIDE DEF v, x, y, z
<1>8. v \in Nat /\ (v < T => v = x)
  BY <1>2, <1>3, <1>4, <1>5, <1>6, <1>7 DEF v
<1>. QED
  BY <1>3, <1>8 DEF v, x

-----------------------------------------------------------------------------
(* Numbers and the values stored for them. *)

(* The constants of a number.                                                *)
LEMMA NumberFacts ==
  ASSUME NEW p \in Numbers
  PROVE  /\ mMin[p] \in Int /\ mMax[p] \in Int /\ mMin[p] <= mMax[p]
         /\ mDefaultValue[p] \in mMin[p]..mMax[p]
         /\ getMaxValue(p) \in Nat /\ getMaxValue(p) < T /\ mMax[p] <= getMaxValue(p)
         /\ p \in Signed => 2 * getMaxValue(p) < T /\ -(T \div 2) <= mMin[p]
                            /\ getMaxValue(p) < T \div 2
         /\ p \notin Signed => 0 <= mMin[p]
<1>1. mMin[p] \in Int /\ mMax[p] \in Int /\ mDefaultValue[p] \in Int
  BY NumbersAssumption
<1>2. /\ mMin[p] <= mDefaultValue[p] /\ mDefaultValue[p] <= mMax[p]
      /\ IF p \in Signed THEN -(T \div 2) <= mMin[p] /\ mMax[p] < T \div 2
         ELSE 0 <= mMin[p] /\ mMax[p] < T
  BY RangesAssumption
<1>. DEFINE h == T \div 2
<1>3. T \in Nat /\ T = 2 * h /\ h \in Nat /\ T >= 2
  BY Widths
<1>4. getMaxValue(p) = IF p \in Signed THEN h - 1 ELSE T - 1
  BY DEF getMaxValue
<1>. HIDE DEF h
<1>5. IF p \in Signed THEN -h <= mMin[p] /\ mMax[p] < h ELSE 0 <= mMin[p] /\ mMax[p] < T
  BY <1>2 DEF h
<1>6. mMin[p] <= mMax[p] /\ mDefaultValue[p] \in mMin[p]..mMax[p]
  BY <1>1, <1>2
<1>7. CASE p \in Signed
  BY <1>1, <1>3, <1>4, <1>5, <1>6, <1>7 DEF h
<1>8. CASE p \notin Signed
  BY <1>1, <1>3, <1>4, <1>5, <1>6, <1>8 DEF h
<1>. QED
  BY <1>7, <1>8

(* The clamp ends in the range and leaves alone what is in it.               *)
LEMMA ClampFacts ==
  ASSUME NEW p \in Numbers, NEW x \in Int
  PROVE  clamp(p, x) \in mMin[p]..mMax[p] /\ (x \in mMin[p]..mMax[p] => clamp(p, x) = x)
BY NumberFacts DEF clamp

(* A value that is not taken for truncated is cast to itself.                *)
LEMMA CastFacts ==
  ASSUME NEW p \in Numbers, NEW u \in Nat
  PROVE  asT(p, u) \in Int /\ (u <= getMaxValue(p) => asT(p, u) = u)
<1>1. T \in Nat \ {0}
  BY Widths
<1>2. u % T \in 0..T - 1 /\ u % T \in Nat
  BY <1>1, DivMod
<1>3. asT(p, u) = IF p \in Signed /\ 2 * (u % T) >= T THEN (u % T) - T ELSE u % T
  BY DEF asT
<1>4. u < T => u % T = u
  BY <1>1
<1>5. /\ getMaxValue(p) \in Nat /\ getMaxValue(p) < T
      /\ p \in Signed => 2 * getMaxValue(p) < T
  BY NumberFacts
<1>. DEFINE r == u % T
<1>. HIDE DEF r
<1>6. asT(p, u) = (IF p \in Signed /\ 2 * r >= T THEN r - T ELSE r) /\ r \in Nat
  BY <1>2, <1>3 DEF r
<1>7. u < T => r = u
  BY <1>4 DEF r
<1>. QED
  BY <1>1, <1>5, <1>6, <1>7

(* What four bytes give is in the range of the number, and is their value if *)
(* they are not taken for truncated.                                         *)
LEMMA GivesFacts ==
  ASSUME NEW p \in Numbers, NEW b \in Bytes
  PROVE  /\ Gives(p, b) \in mMin[p]..mMax[p]
         /\ Readable(p, b) => Gives(p, b) = clamp(p, ValueOf(b))
                              /\ ValueOf(b) = b[1] + BYTE * b[2]
<1>. DEFINE v == ValueOf(b)
<1>1. v \in Nat /\ (v < T => v = b[1] + BYTE * b[2])
  BY LowHalf
<1>2. T \in Nat /\ getMaxValue(p) \in Nat /\ getMaxValue(p) < T
  BY NumberFacts, Widths
<1>3. Gives(p, b) = clamp(p, asT(p, v)) /\ (Readable(p, b) <=> v <= getMaxValue(p))
  BY DEF Gives, Readable
<1>. HIDE DEF v
<1>4. asT(p, v) \in Int /\ (v <= getMaxValue(p) => asT(p, v) = v)
  BY <1>1, CastFacts
<1>5. Gives(p, b) \in mMin[p]..mMax[p]
  BY <1>3, <1>4, ClampFacts
<1>6. ASSUME Readable(p, b) PROVE v < T /\ asT(p, v) = v
  BY <1>1, <1>2, <1>3, <1>4, <1>6
<1>. QED
  BY <1>1, <1>3, <1>5, <1>6 DEF v

(* The cast to uint32_t of a value in the range.                             *)
LEMMA Widened ==
  ASSUME NEW p \in Numbers, NEW x \in mMin[p]..mMax[p]
  PROVE  /\ asUint32(x) \in 0..U32 - 1
         /\ x >= 0 => asUint32(x) = x /\ x <= getMaxValue(p) /\ x < T
         /\ x < 0 => asUint32(x) = U32 + x /\ p \in Signed /\ -(T \div 2) <= x
<1>1. /\ x \in Int /\ mMin[p] \in Int /\ mMax[p] \in Int
      /\ mMin[p] <= x /\ x <= mMax[p] /\ mMax[p] <= getMaxValue(p)
      /\ getMaxValue(p) \in Nat /\ getMaxValue(p) < T
  BY NumberFacts
<1>2. p \in Signed => -(T \div 2) <= mMin[p]
  BY NumberFacts
<1>3. p \notin Signed => 0 <= mMin[p]
  BY NumberFacts
<1>. DEFINE h == T \div 2
<1>4. T \in Nat /\ h \in Nat /\ T = 2 * h /\ U32 \in Nat \ {0} /\ 2 * T <= U32
  BY Widths
<1>. HIDE DEF h
<1>5. CASE x >= 0
  <2>1. x \in 0..U32 - 1 /\ x < T /\ x <= getMaxValue(p)
    BY <1>1, <1>4, <1>5
  <2>2. x % U32 = x
    BY <1>4, <2>1
  <2>. QED
    BY <1>5, <1>1, <2>1, <2>2 DEF asUint32
<1>6. CASE x < 0
  <2>1. p \in Signed /\ -h <= x
    BY <1>1, <1>2, <1>3, <1>4, <1>6 DEF h
  <2>2. U32 + x \in 0..U32 - 1
    BY <1>1, <1>4, <1>6, <2>1
  <2>3. x % U32 = U32 + x
    BY <1>1, <1>4, <1>6, <2>2, SMTT(30)
  <2>. QED
    BY <1>6, <2>1, <2>2, <2>3, <1>1 DEF asUint32, h
<1>. QED
  BY <1>1, <1>5, <1>6

(* The low half of a number's bytes, above which only zeros are read, gives  *)
(* the number back: the low half of a negative one is not read at all.       *)
LEMMA LowHalfGives ==
  ASSUME NEW p \in Numbers, NEW x \in mMin[p]..mMax[p], NEW b \in Bytes,
         b[1] = BytesOf(asUint32(x))[1], b[2] = BytesOf(asUint32(x))[2],
         Readable(p, b)
  PROVE  Gives(p, b) = x /\ x >= 0
<1>. DEFINE u == asUint32(x)
            d == BytesOf(u)
            v == ValueOf(b)
<1>1. u \in 0..U32 - 1 /\ d \in Bytes /\ ValueOf(d) = u
  BY Widened, RoundTrip
<1>2. v = b[1] + BYTE * b[2] /\ Gives(p, b) = clamp(p, v) /\ v <= getMaxValue(p) /\ v \in Nat
  BY GivesFacts, LowHalf DEF Readable
<1>3. x \in Int /\ T \in Nat /\ U32 \in Nat
  BY Widths, NumberFacts
<1>4. CASE x >= 0
  <2>1. u = x /\ x < T
    BY <1>4, Widened
  <2>2. u = d[1] + BYTE * d[2]
    BY <1>1, <2>1, LowHalf
  <2>3. v = x
    BY <1>2, <2>1, <2>2
  <2>. HIDE DEF v
  <2>. QED
    BY <1>2, <1>3, <1>4, <2>3, ClampFacts
<1>5. CASE x < 0
  <2>. DEFINE y == T * d[3] + BYTE * T * d[4]
              k == d[3] + BYTE * d[4]
              h == T \div 2
  <2>1. d[1] \in Nat /\ d[2] \in Nat /\ d[3] \in Nat /\ d[4] \in Nat
    <3>. HIDE DEF d
    <3>. QED
      BY <1>1, Widths DEF Bytes, VALUE_SIZE, Byte
  <2>2. k \in 0..T - 1 /\ y = k * T /\ y \in Nat
    <3>1. BYTE \in Nat
      BY Widths
    <3>. HIDE DEF d
    <3>2. d[3] \in 0..BYTE - 1 /\ d[4] \in 0..BYTE - 1
      BY <1>1 DEF Bytes, VALUE_SIZE, Byte
    <3>3. d[4] * BYTE <= (BYTE - 1) * BYTE
      BY <3>1, <3>2, TimesMono
    <3>4. (BYTE - 1) * BYTE = T - BYTE /\ d[4] * BYTE = BYTE * d[4] /\ BYTE * d[4] \in Nat
      BY <3>1, <3>2 DEF T
    <3>. DEFINE w == BYTE * d[4]
    <3>5. w \in Nat /\ w <= T - BYTE
      BY <3>3, <3>4
    <3>6. BYTE * T * d[4] = w * T
      BY <1>3, <3>1, <3>2
    <3>. HIDE DEF w
    <3>7. d[3] + w \in 0..T - 1
      BY <1>3, <3>1, <3>2, <3>5
    <3>8. T * d[3] + w * T = (d[3] + w) * T /\ (d[3] + w) * T \in Nat
      BY <1>3, <3>2, <3>5
    <3>. QED
      BY <3>6, <3>7, <3>8 DEF w
  <2>3. u = v + y
    <3>1. u = d[1] + BYTE * d[2] + T * d[3] + BYTE * T * d[4]
      BY <1>1 DEF ValueOf
    <3>. DEFINE a == BYTE * d[2]
                c == T * d[3]
                e == BYTE * T * d[4]
    <3>2. a \in Nat /\ c \in Nat /\ e \in Nat
      BY <2>1, Widths
    <3>3. u = d[1] + a + c + e /\ y = c + e /\ v = d[1] + a
      BY <1>2, <3>1
    <3>. HIDE DEF a, c, e, u, v, y, d
    <3>. QED
      BY <2>1, <3>2, <3>3
  <2>4. y <= (T - 1) * T /\ (T - 1) * T = U32 - T
    <3>1. k * T <= (T - 1) * T
      BY <1>3, <2>2, TimesMono
    <3>2. (T - 1) * T = T * T - T
      BY <1>3
    <3>. QED
      BY <2>2, <3>1, <3>2, Widths
  <2>5. u = U32 + x /\ p \in Signed /\ -h <= x /\ h \in Nat /\ T = 2 * h
    BY <1>5, Widened, Widths
  <2>6. getMaxValue(p) < h /\ getMaxValue(p) \in Nat
    BY <2>5, NumberFacts
  <2>. HIDE DEF u, v, y, h, k
  <2>7. y <= U32 - T
    BY <2>4
  <2>8. FALSE
    BY <1>2, <1>3, <1>5, <2>2, <2>3, <2>5, <2>6, <2>7
  <2>. QED
    BY <2>8
<1>. QED
  BY <1>3, <1>4, <1>5

(* What is erased does not load.                                             *)
LEMMA ErasedIsNotReadable ==
  ASSUME NEW p \in Numbers, NEW b \in Bytes, b[3] = ERASED
  PROVE  ~Readable(p, b)
<1>. SUFFICES ASSUME Readable(p, b) PROVE FALSE
  OBVIOUS
<1>1. ValueOf(b) = b[1] + BYTE * b[2]
  BY GivesFacts
<1>2. b[1] \in Nat /\ b[2] \in Nat /\ b[4] \in Nat /\ b[3] >= 1 /\ b[3] \in Nat
  BY Widths DEF Bytes, VALUE_SIZE, Byte, ERASED
<1>. DEFINE x == b[1] + BYTE * b[2]
            y == T * b[3]
            z == BYTE * T * b[4]
<1>3. x \in Nat /\ y \in Nat /\ z \in Nat
  BY <1>2, Widths
<1>4. T <= y
  <2>1. 1 * T <= b[3] * T
    BY <1>2, Widths, TimesMono
  <2>. QED
    BY <1>2, <2>1, Widths
<1>5. ValueOf(b) = x + y + z
  BY DEF ValueOf
<1>6. T \in Nat \ {0}
  BY Widths
<1>. HIDE DEF x, y, z
<1>. QED
  BY <1>1, <1>3, <1>4, <1>5, <1>6 DEF x

(* Bytes that differ at most in the first and have the same check byte are   *)
(* the same.                                                                 *)
LEMMA SameCheckByte ==
  ASSUME NEW a \in Bytes, NEW b \in Bytes, crc(a) = crc(b),
         \A i \in 2..VALUE_SIZE : a[i] = b[i]
  PROVE  a = b
<1>1. a = [i \in 1..4 |-> a[i]] /\ b = [i \in 1..4 |-> b[i]]
  BY DEF Bytes, VALUE_SIZE
<1>2. CASE a[1] = b[1]
  BY <1>1, <1>2 DEF VALUE_SIZE
<1>3. CASE a[1] # b[1]
  <2>1. \E i \in 1..VALUE_SIZE : a[i] # b[i] /\ \A j \in 1..VALUE_SIZE : j # i => a[j] = b[j]
    BY <1>3 DEF VALUE_SIZE
  <2>. QED
    BY <2>1, CrcAssumption
<1>. QED
  BY <1>2, <1>3

-----------------------------------------------------------------------------
(* Cells and the writes to them. *)

Writes == [at : Cells, byte : Byte]

(* The cells of a number are not the magic byte.                             *)
LEMMA CellFacts ==
  /\ Magic \in Cells
  /\ \A p \in Numbers, i \in 1..VALUE_SIZE + 1 :
       /\ Cell(p, i) \in Cells /\ Cell(p, i) # Magic
       /\ \A q, j : Cell(p, i) = Cell(q, j) => p = q /\ i = j
BY DEF Cells, Cell, Magic, VALUE_SIZE

(* What save writes, and where.                                              *)
LEMMA SaveFacts ==
  ASSUME NEW p \in Numbers, NEW x \in mMin[p]..mMax[p]
  PROVE  /\ save(p, x) \in Seq(Writes) /\ Len(save(p, x)) = VALUE_SIZE + 1
         /\ \A i \in 1..VALUE_SIZE + 1 : save(p, x)[i].at = Cell(p, i)
         /\ \A i \in 1..VALUE_SIZE : save(p, x)[i].byte = BytesOf(asUint32(x))[i]
         /\ save(p, x)[VALUE_SIZE + 1].byte = crc(BytesOf(asUint32(x)))
<1>. DEFINE b == BytesOf(asUint32(x))
            s == save(p, x)
            byte(i) == IF i <= VALUE_SIZE THEN b[i] ELSE crc(b)
<1>1. b \in Bytes
  BY Widened, RoundTrip
<1>2. s = [i \in 1..5 |-> [at |-> Cell(p, i), byte |-> byte(i)]]
  BY DEF save, Write, VALUE_SIZE
<1>. HIDE DEF s, b
<1>3. \A i \in 1..5 : byte(i) \in Byte
  BY <1>1, CrcAssumption DEF Bytes, VALUE_SIZE
<1>4. \A i \in 1..5 : [at |-> Cell(p, i), byte |-> byte(i)] \in Writes
  BY <1>3, CellFacts DEF Writes, VALUE_SIZE
<1>5. s \in [1..5 -> Writes]
  BY <1>2, <1>4
<1>6. s \in Seq(Writes) /\ Len(s) = 5
  BY <1>2, <1>5, SeqDef
<1>7. \A i \in 1..5 : s[i].at = Cell(p, i) /\ s[i].byte = byte(i)
  BY <1>2
<1>. QED
  BY <1>6, <1>7 DEF VALUE_SIZE, s, b

(* The addresses: the magic byte first, then every cell of a number.         *)
LEMMA AddressFacts ==
  /\ AddressOrder \in Seq(Cells) /\ Len(AddressOrder) = 1 + 5 * Len(numbers)
  /\ Len(numbers) \in Nat
  /\ AddressOrder[1] = Magic
  /\ \A k \in 2..Len(AddressOrder) : AddressOrder[k] # Magic
  /\ \A p \in Numbers, i \in 1..5 : \E k \in 1..Len(AddressOrder) : AddressOrder[k] = Cell(p, i)
<1>. DEFINE n == Len(numbers)
            place(k) == Cell(numbers[(k - 1) \div 5 + 1], ((k - 1) % 5) + 1)
            rest == [k \in 1..n * 5 |-> place(k)]
<1>1. n \in Nat /\ numbers \in Seq(Numbers)
  BY NumbersAssumption
<1>2. AddressOrder = <<Magic>> \o rest
  BY DEF AddressOrder, VALUE_SIZE
<1>3. \A k \in 1..n * 5 : (k - 1) \div 5 + 1 \in 1..n /\ ((k - 1) % 5) + 1 \in 1..5
  BY <1>1
<1>4. \A k \in 1..n * 5 : place(k) \in Cells /\ place(k) # Magic
  <2>1. \A j \in 1..n : numbers[j] \in Numbers
    BY DEF Numbers
  <2>. QED
    BY <1>3, <2>1, CellFacts DEF VALUE_SIZE
<1>5. n * 5 \in Nat /\ n * 5 = 5 * n
  BY <1>1
<1>6. rest \in Seq(Cells) /\ Len(rest) = 5 * n
  <2>. DEFINE m == n * 5
  <2>1. rest \in [1..m -> Cells] /\ m \in Nat /\ m = 5 * n
    BY <1>4, <1>5
  <2>. HIDE DEF m, rest
  <2>2. rest \in Seq(Cells) /\ Len(rest) = m
    BY <2>1, SeqDef
  <2>. QED
    BY <2>1, <2>2
<1>7. \A k \in 1..5 * n : rest[k] = place(k)
  BY <1>5
<1>8. <<Magic>> \in Seq(Cells) /\ Len(<<Magic>>) = 1 /\ <<Magic>>[1] = Magic
  BY CellFacts
<1>9. /\ AddressOrder \in Seq(Cells) /\ Len(AddressOrder) = 1 + 5 * n
      /\ AddressOrder[1] = Magic
      /\ \A k \in 2..1 + 5 * n : AddressOrder[k] = rest[k - 1]
  <2>. HIDE DEF rest, n
  <2>. QED
    BY <1>1, <1>2, <1>6, <1>8, ConcatProperties
<1>10. ASSUME NEW p \in Numbers, NEW i \in 1..5
       PROVE  \E k \in 1..Len(AddressOrder) : AddressOrder[k] = Cell(p, i)
  <2>1. PICK j \in 1..n : p = numbers[j]
    BY DEF Numbers
  <2>. DEFINE k == (j - 1) * 5 + i
  <2>2. j \in Nat /\ j <= n /\ j >= 1 /\ i \in Nat
    BY <1>1
  <2>3. k \in 1..5 * n /\ k = 5 * (j - 1) + i
    BY <1>1, <2>2
  <2>4. (k - 1) \div 5 = j - 1 /\ (k - 1) % 5 = i - 1
    BY <2>2, <2>3, SMTT(30)
  <2>5. place(k) = Cell(p, i)
    BY <2>1, <2>2, <2>4
  <2>. HIDE DEF k, place
  <2>6. k + 1 \in 2..1 + 5 * n /\ (k + 1) - 1 = k
    BY <1>1, <2>3
  <2>7. AddressOrder[k + 1] = Cell(p, i)
    BY <1>7, <1>9, <2>3, <2>5, <2>6
  <2>. QED
    BY <1>1, <1>9, <2>3, <2>7
<1>11. ASSUME NEW k \in 2..Len(AddressOrder) PROVE AddressOrder[k] # Magic
  <2>1. k \in 2..1 + 5 * n /\ k - 1 \in 1..5 * n /\ k - 1 \in 1..n * 5
    BY <1>1, <1>5, <1>9
  <2>2. AddressOrder[k] = place(k - 1)
    BY <1>7, <1>9, <2>1
  <2>. HIDE DEF place
  <2>. QED
    BY <1>4, <2>1, <2>2
<1>. QED
  BY <1>1, <1>9, <1>10, <1>11

(* What the erasure writes, and where.                                       *)
LEMMA EraseFacts ==
  /\ Erase \in Seq(Writes) /\ Len(Erase) = Len(AddressOrder)
  /\ Len(Erase) \in Nat \ {0}
  /\ \A k \in 1..Len(Erase) : Erase[k].at = AddressOrder[k] /\ Erase[k].byte = ERASED
  /\ ERASED \in Byte /\ ERASED # CONFIG_MAGIC
<1>1. AddressOrder \in Seq(Cells) /\ Len(AddressOrder) \in Nat \ {0}
  BY AddressFacts
<1>2. ERASED \in Byte /\ ERASED # CONFIG_MAGIC
  BY Widths, MagicAssumption DEF ERASED, Byte
<1>. DEFINE n == Len(AddressOrder)
<1>3. Erase = [k \in 1..n |-> [at |-> AddressOrder[k], byte |-> ERASED]]
  BY DEF Erase, Write
<1>4. \A k \in 1..n : [at |-> AddressOrder[k], byte |-> ERASED] \in Writes
  BY <1>1, <1>2, ElementOfSeq DEF Writes
<1>. HIDE DEF n
<1>5. Erase \in [1..n -> Writes] /\ n \in Nat
  BY <1>1, <1>3, <1>4 DEF n
<1>6. Erase \in Seq(Writes) /\ Len(Erase) = n
  BY <1>5, <1>3, SeqDef
<1>. QED
  BY <1>1, <1>2, <1>3, <1>6 DEF n

(* What is stored for a number is bytes.                                     *)
LEMMA StoredFacts ==
  ASSUME TypeOK, NEW p \in Numbers
  PROVE  /\ Stored(p) \in Bytes
         /\ \A i \in 1..VALUE_SIZE : Stored(p)[i] = ee[Cell(p, i)]
BY CellFacts DEF Stored, Bytes, TypeOK, VALUE_SIZE

(* A number whose one value is there loads it, unless it is negative.        *)
LEMMA WholeGives ==
  ASSUME TypeOK, NEW p \in Numbers, Whole(p), NEW x \in cand[p]
  PROVE  /\ cand[p] = {x} /\ x \in mMin[p]..mMax[p]
         /\ loads(p) => Gives(p, Stored(p)) = x
         /\ x >= 0 => loads(p)
<1>. DEFINE b == Stored(p)
<1>1. PICK y \in mMin[p]..mMax[p] :
        /\ cand[p] = {y}
        /\ \/ b = BytesOf(asUint32(y))
           \/ Readable(p, b) /\ Gives(p, b) = y
  BY DEF Whole
<1>2. b \in Bytes /\ y = x
  BY <1>1, StoredFacts
<1>3. loads(p) <=> Readable(p, b)
  BY DEF Whole, loads, Readable
<1>4. CASE b = BytesOf(asUint32(x))
  <2>1. loads(p) => Gives(p, b) = x
    BY <1>1, <1>2, <1>3, <1>4, LowHalfGives
  <2>2. ASSUME x >= 0 PROVE Readable(p, b)
    <3>1. asUint32(x) = x /\ x <= getMaxValue(p) /\ ValueOf(b) = asUint32(x)
      BY <1>1, <1>2, <1>4, <2>2, Widened, RoundTrip
    <3>. QED
      BY <3>1 DEF Readable
  <2>. QED
    BY <1>1, <1>2, <1>3, <2>1, <2>2
<1>5. CASE Readable(p, b) /\ Gives(p, b) = x
  BY <1>1, <1>2, <1>3, <1>5
<1>. QED
  BY <1>1, <1>2, <1>4, <1>5

(* An erased number does not load.                                           *)
LEMMA FreshDoesNotLoad ==
  ASSUME TypeOK, NEW p \in Numbers, Fresh(p)
  PROVE  ~loads(p)
<1>1. Stored(p) \in Bytes /\ Stored(p)[3] = ERASED
  BY StoredFacts DEF Fresh, VALUE_SIZE
<1>. QED
  BY <1>1, ErasedIsNotReadable DEF loads, Readable

-----------------------------------------------------------------------------
(* The invariant. *)

(* What is said of a number depends on its own cells only.                   *)
LEMMA SameCells ==
  ASSUME NEW p \in Numbers,
         \A i \in 1..VALUE_SIZE + 1 : ee'[Cell(p, i)] = ee[Cell(p, i)]
  PROVE  /\ Stored(p)' = Stored(p)
         /\ loads(p)' <=> loads(p)
         /\ Fresh(p)' <=> Fresh(p)
         /\ cand'[p] = cand[p] => (Whole(p)' <=> Whole(p))
<1>1. Stored(p)' = Stored(p)
  BY DEF Stored, VALUE_SIZE
<1>2. ee'[Cell(p, VALUE_SIZE + 1)] = ee[Cell(p, VALUE_SIZE + 1)]
  BY DEF VALUE_SIZE
<1>. QED
  BY <1>1, <1>2, Zenon DEF loads, Fresh, Whole

(* So what is kept of a number that is not being saved stays.                *)
LEMMA KeptStays ==
  ASSUME NEW p \in Numbers, ~Writing(p), ~Writing(p)', Kept(p),
         \A i \in 1..VALUE_SIZE + 1 : ee'[Cell(p, i)] = ee[Cell(p, i)],
         cand'[p] = cand[p], torn'[p] = torn[p]
  PROVE  Kept(p)'
<1>1. /\ Stored(p)' = Stored(p)
      /\ loads(p)' <=> loads(p)
      /\ Whole(p)' <=> Whole(p)
  BY SameCells
<1>2. Gives(p, Stored(p))' = Gives(p, Stored(p))
  BY <1>1 DEF Gives
<1>3. torn[p] = 0 => Whole(p)
  BY DEF Kept
<1>4. torn[p] = 1 /\ loads(p) => Gives(p, Stored(p)) \in cand[p] \cup {mDefaultValue[p]}
  BY DEF Kept
<1>5. torn'[p] = 0 => Whole(p)'
  BY <1>1, <1>3
<1>6. torn'[p] = 1 /\ loads(p)' => Gives(p, Stored(p))' \in cand'[p] \cup {mDefaultValue[p]}
  BY <1>1, <1>2, <1>4, Zenon
<1>. QED
  BY <1>5, <1>6, Zenon DEF Kept

(* The save in progress is of one number, and how far it has come.           *)
LEMMA SaveInProgress ==
  ASSUME IInv, todo # <<>>, pc # "erase"
  PROVE  \E p \in Numbers :
           /\ \A q : Writing(q) <=> q = p
           /\ saving \in cand[p] /\ saving \in mMin[p]..mMax[p]
           /\ Written \in 0..VALUE_SIZE /\ Len(todo) = VALUE_SIZE + 1 - Written
           /\ pc \in {"load", "run"}
           /\ Head(todo).at = Cell(p, Written + 1) /\ Head(todo).at[1] = p
           /\ Head(todo).byte = save(p, saving)[Written + 1].byte
           /\ \A i \in 1..Written : ee[Cell(p, i)] = save(p, saving)[i].byte
           /\ \A k \in 1..Len(todo) : todo[k] = save(p, saving)[Written + k]
<1>1. todo \in Seq(Writes) /\ Len(todo) \in Nat /\ Len(todo) >= 1 /\ Head(todo) = todo[1]
  BY EmptySeq, LenProperties DEF IInv, HistoryInv, Writes
<1>2. PICK p \in Numbers :
        /\ saving \in cand[p]
        /\ \A k \in 1..Len(todo) : todo[k] = save(p, saving)[Written + k]
        /\ \A i \in 1..Written : ee[Cell(p, i)] = save(p, saving)[i].byte
  BY Zenon DEF IInv, SaveInv
<1>3. pc \in {"load", "run"} /\ Written \in 0..VALUE_SIZE
  BY DEF IInv, SaveInv
<1>4. Len(todo) = VALUE_SIZE + 1 - Written /\ Written + 1 \in 1..VALUE_SIZE + 1
  <2>. DEFINE n == Len(todo)
  <2>1. n \in Nat /\ Written = 4 + 1 - n /\ Written \in 0..4
    BY <1>1, <1>3 DEF Written, VALUE_SIZE
  <2>. HIDE DEF n
  <2>2. n = 4 + 1 - Written /\ Written + 1 \in 1..4 + 1
    BY <2>1
  <2>. QED
    BY <2>2 DEF n, VALUE_SIZE
<1>5. saving \in mMin[p]..mMax[p]
  BY <1>2 DEF IInv, HistoryInv
<1>6. Head(todo) = save(p, saving)[Written + 1]
  BY <1>1, <1>2
<1>7. Head(todo).at = Cell(p, Written + 1)
  BY <1>4, <1>5, <1>6, SaveFacts
<1>8. Head(todo).at[1] = p
  BY <1>7 DEF Cell
<1>9. \A q : Writing(q) <=> q = p
  BY <1>8, Zenon DEF Writing
<1>. QED
  BY <1>2, <1>3, <1>4, <1>5, <1>6, <1>7, <1>8, <1>9

(* While nothing is written, no number is being saved.                       *)
LEMMA NotWriting == todo = <<>> => \A p : ~Writing(p)
BY DEF Writing

(* A new chip is unmarked and nothing is saved.                              *)
LEMMA InitStep == Init => IInv
<1>. SUFFICES ASSUME Init PROVE IInv
  OBVIOUS
<1>1. PICK m \in Byte \ {CONFIG_MAGIC}, f \in [Numbers -> Found] :
        ee = [c \in Cells |-> IF c = Magic THEN m ELSE f[c[1]][c[2]]]
  BY DEF Init
<1>2. ee \in [Cells -> Byte]
  <2>1. ASSUME NEW c \in Cells, c # Magic PROVE f[c[1]][c[2]] \in Byte
    <3>1. c \in Numbers \X (1..VALUE_SIZE + 1)
      BY <2>1 DEF Cells
    <3>2. c[1] \in Numbers /\ c[2] \in 1..VALUE_SIZE + 1
      BY <3>1
    <3>3. f[c[1]] \in [1..VALUE_SIZE + 1 -> Byte]
      BY <3>2, BoundsAssumption
    <3>. QED
      BY <3>2, <3>3
  <2>. QED
    BY <1>1, <2>1
<1>3. ~Marked
  BY <1>1, CellFacts DEF Marked
<1>4. TypeOK
  <2>1. \A p \in Numbers : ram[p] \in mMin[p]..mMax[p]
    BY NumberFacts DEF Init
  <2>2. next \in 1..Len(numbers) + 1 /\ failures \in 0..MaxFailures
    BY AddressFacts, BoundsAssumption DEF Init
  <2>. QED
    BY <1>2, <2>1, <2>2 DEF TypeOK, Init
<1>5. HistoryInv
  <2>1. todo \in Seq([at : Cells, byte : Byte])
    BY DEF Init
  <2>2. cand \in [Numbers -> SUBSET Int] /\ (\A p \in Numbers : cand[p] \subseteq mMin[p]..mMax[p])
    BY DEF Init
  <2>3. torn \in [Numbers -> 0..2]
    BY DEF Init
  <2>4. ram \in [Numbers -> Int]
    BY NumbersAssumption DEF Init
  <2>. QED
    BY <2>1, <2>2, <2>3, <2>4 DEF HistoryInv, Init
<1>6. SaveInv /\ EraseInv
  BY DEF SaveInv, EraseInv, Init
<1>7. UnmarkedInv
  BY DEF UnmarkedInv, Init
<1>. QED
  BY <1>3, <1>4, <1>5, <1>6, <1>7 DEF IInv, MarkedInv

(* The start-up finds a marked chip as it was, or begins to erase it.        *)
LEMMA CheckStep == IInv /\ checkEepromConfig => IInv'
<1>. SUFFICES ASSUME IInv, checkEepromConfig PROVE IInv'
  OBVIOUS
<1>. USE DEF checkEepromConfig, history
<1>1. pc = "check" /\ todo = <<>> /\ next = 1
  BY DEF IInv, SaveInv, HistoryInv
<1>2. Marked' <=> Marked
  BY DEF Marked
<1>4. CASE Marked
  <2>1. pc' = "load" /\ todo' = <<>>
    BY <1>1, <1>4 DEF Marked
  <2>2. TypeOK'
    BY <2>1 DEF IInv, TypeOK
  <2>3. HistoryInv'
    BY <2>1 DEF IInv, HistoryInv
  <2>4. SaveInv' /\ EraseInv' /\ UnmarkedInv'
    BY <1>2, <1>4, <2>1 DEF SaveInv, EraseInv, UnmarkedInv
  <2>5. \A p \in Numbers : ~Writing(p) /\ ~Writing(p)'
    BY <1>1, <2>1 DEF Writing
  <2>6. \A p \in Numbers : Kept(p)
    BY <1>4 DEF IInv, MarkedInv
  <2>7. \A p \in Numbers : Kept(p)'
    BY <2>5, <2>6, KeptStays
  <2>. QED
    BY <2>1, <2>2, <2>3, <2>4, <2>7 DEF IInv, MarkedInv
<1>5. CASE ~Marked
  <2>1. pc' = "erase" /\ todo' = Erase
    BY <1>5 DEF Marked
  <2>2. TypeOK'
    BY <2>1 DEF IInv, TypeOK
  <2>3. HistoryInv'
    BY <1>1, <2>1, EraseFacts DEF IInv, HistoryInv, Writes
  <2>4. SaveInv' /\ MarkedInv'
    BY <1>2, <1>5, <2>1 DEF SaveInv, MarkedInv
  <2>5. EraseInv'
    <3>1. Len(Erase) \in Nat \ {0}
      BY EraseFacts
    <3>2. \A k \in 1..Len(Erase) : Len(Erase) - Len(Erase) + k = k
      BY <3>1
    <3>3. 1..Len(Erase) - Len(Erase) = {}
      BY <3>1
    <3>. QED
      BY <1>2, <1>5, <2>1, <3>1, <3>2, <3>3 DEF EraseInv
  <2>6. UnmarkedInv'
    BY <1>2, <1>5, <2>1 DEF IInv, UnmarkedInv
  <2>. QED
    BY <2>2, <2>3, <2>4, <2>5, <2>6 DEF IInv
<1>. QED
  BY <1>4, <1>5

(* What is left to write after a byte.                                       *)
LEMMA TailFacts ==
  ASSUME NEW S, NEW s \in Seq(S), s # <<>>
  PROVE  /\ Head(s) = s[1] /\ Head(s) \in S /\ Tail(s) \in Seq(S)
         /\ Len(s) \in Nat \ {0} /\ Len(Tail(s)) = Len(s) - 1
         /\ \A k \in 1..Len(s) - 1 : Tail(s)[k] = s[k + 1]
         /\ Tail(s) = <<>> <=> Len(s) = 1
<1>1. Head(s) = s[1] /\ Head(s) \in S /\ Tail(s) \in Seq(S) /\ Len(s) \in Nat \ {0}
  BY HeadTailProperties, EmptySeq, LenProperties
<1>2. Len(Tail(s)) = Len(s) - 1 /\ \A k \in 1..Len(s) - 1 : Tail(s)[k] = s[k + 1]
  BY <1>1, HeadTailProperties
<1>3. Tail(s) = <<>> <=> Len(Tail(s)) = 0
  BY <1>1, EmptySeq
<1>. QED
  BY <1>1, <1>2, <1>3

(* One more cell is erased, and in the end all are.                          *)
LEMMA EraseByteStep == IInv /\ pc = "erase" /\ WriteByte => IInv'
<1>. SUFFICES ASSUME IInv, pc = "erase", WriteByte PROVE IInv'
  OBVIOUS
<1>. DEFINE w == Head(todo)
            n == Len(todo)
            m == Len(Erase)
            j == m - n + 1
<1>1. /\ todo \in Seq(Writes) /\ todo # <<>>
      /\ ee' = [ee EXCEPT ![w.at] = w.byte] /\ todo' = Tail(todo)
      /\ cand' = cand /\ torn' = torn
      /\ pc' = IF n = 1 THEN "load" ELSE "erase"
      /\ ram' = ram /\ next' = next /\ failures' = failures /\ saving' = saving
  BY DEF WriteByte, IInv, HistoryInv, Writes
<1>2. /\ ~Marked /\ n \in 1..m
      /\ \A k \in 1..n : todo[k] = Erase[m - n + k]
      /\ \A k \in 1..m - n : ee[AddressOrder[k]] = ERASED
  BY DEF IInv, EraseInv
<1>3. m \in Nat \ {0} /\ m = Len(AddressOrder)
  BY EraseFacts
<1>4. /\ w = todo[1] /\ Len(todo') = n - 1 /\ (todo' = <<>> <=> n = 1)
      /\ todo' \in Seq(Writes)
      /\ \A k \in 1..n - 1 : todo'[k] = todo[k + 1]
  BY <1>1, TailFacts
<1>. HIDE DEF n, m, w
<1>5. j \in 1..m /\ w.at = AddressOrder[j] /\ w.byte = ERASED
  <2>1. j \in 1..m /\ w = Erase[j]
    BY <1>2, <1>3, <1>4
  <2>. QED
    BY <2>1, EraseFacts DEF m
<1>6. /\ \A k \in 1..m : AddressOrder[k] \in Cells
      /\ ee \in [Cells -> Byte] /\ ERASED \in Byte
  BY <1>3, AddressFacts, ElementOfSeq, EraseFacts DEF IInv, TypeOK
<1>7. ee' \in [Cells -> Byte]
  BY <1>1, <1>5, <1>6
<1>8. \A k \in 1..m - (n - 1) : ee'[AddressOrder[k]] = ERASED
  <2>1. ASSUME NEW k \in 1..m - (n - 1), k = j PROVE ee'[AddressOrder[k]] = ERASED
    BY <1>1, <1>5, <1>6, <2>1
  <2>2. ASSUME NEW k \in 1..m - (n - 1), k # j PROVE ee'[AddressOrder[k]] = ERASED
    <3>1. k \in 1..m - n /\ k \in 1..m
      BY <1>2, <1>3, <2>2
    <3>. HIDE DEF j
    <3>. QED
      BY <1>1, <1>2, <1>5, <1>6, <3>1
  <2>. QED
    BY <2>1, <2>2
<1>9. ~Marked'
  <2>1. ee'[Magic] = ee[Magic] \/ ee'[Magic] = ERASED
    BY <1>1, <1>5, <1>6, CellFacts
  <2>. QED
    BY <1>2, <2>1, EraseFacts DEF Marked
<1>10. TypeOK'
  BY <1>1, <1>7 DEF IInv, TypeOK
<1>11. HistoryInv'
  BY <1>1, <1>4 DEF IInv, HistoryInv, Writes
<1>12. SaveInv'
  BY <1>1, <1>4 DEF SaveInv
<1>13. EraseInv'
  <2>1. ASSUME pc' = "erase"
        PROVE  /\ n - 1 \in 1..m
               /\ \A k \in 1..n - 1 : todo'[k] = Erase[m - (n - 1) + k]
    <3>1. n # 1
      BY <1>1, <2>1
    <3>2. n - 1 \in 1..m
      BY <1>2, <1>3, <3>1
    <3>3. \A k \in 1..n - 1 : k + 1 \in 1..n /\ m - n + (k + 1) = m - (n - 1) + k
      BY <1>2, <1>3
    <3>. QED
      BY <1>2, <1>4, <3>2, <3>3
  <2>2. ASSUME pc' = "erase"
        PROVE  /\ Len(todo') \in 1..m
               /\ \A k \in 1..Len(todo') : todo'[k] = Erase[m - Len(todo') + k]
               /\ \A k \in 1..m - Len(todo') : ee'[AddressOrder[k]] = ERASED
    BY <1>4, <1>8, <2>1, <2>2
  <2>. QED
    BY <1>9, <2>2 DEF EraseInv, m
<1>14. UnmarkedInv'
  <2>1. \A p \in Numbers : cand'[p] \subseteq {mDefaultValue[p]}
    BY <1>1, <1>2 DEF IInv, UnmarkedInv
  <2>2. pc' # "run"
    BY <1>1
  <2>3. next' = 1
    BY <1>1 DEF IInv, HistoryInv
  <2>4. ASSUME pc' = "load", NEW p \in Numbers PROVE Fresh(p)'
    <3>1. n = 1
      BY <1>1, <2>4
    <3>2. \A k \in 1..m : ee'[AddressOrder[k]] = ERASED
      BY <1>3, <1>8, <3>1
    <3>3. \A i \in 1..5 : ee'[Cell(p, i)] = ERASED
      BY <1>3, <3>2, AddressFacts
    <3>. QED
      BY <3>3 DEF Fresh, VALUE_SIZE
  <2>5. 1..next' - 1 = {}
    BY <2>3
  <2>. QED
    BY <2>1, <2>2, <2>4, <2>5 DEF UnmarkedInv
<1>15. MarkedInv'
  BY <1>9 DEF MarkedInv
<1>. QED
  BY <1>10, <1>11, <1>12, <1>13, <1>14, <1>15 DEF IInv

(* One more byte of a save is written; after the last one the number is      *)
(* whole.                                                                    *)
LEMMA SaveByteStep == IInv /\ pc # "erase" /\ WriteByte => IInv'
<1>. SUFFICES ASSUME IInv, pc # "erase", WriteByte PROVE IInv'
  OBVIOUS
<1>. DEFINE w == Head(todo)
            n == Written
<1>1. todo # <<>> /\ todo \in Seq(Writes)
  BY DEF WriteByte, IInv, HistoryInv, Writes
<1>2. PICK p \in Numbers :
        /\ \A q : Writing(q) <=> q = p
        /\ saving \in cand[p] /\ saving \in mMin[p]..mMax[p]
        /\ n \in 0..VALUE_SIZE /\ Len(todo) = VALUE_SIZE + 1 - n
        /\ pc \in {"load", "run"}
        /\ w.at = Cell(p, n + 1) /\ w.at[1] = p
        /\ w.byte = save(p, saving)[n + 1].byte
        /\ \A i \in 1..n : ee[Cell(p, i)] = save(p, saving)[i].byte
        /\ \A k \in 1..Len(todo) : todo[k] = save(p, saving)[n + k]
  BY <1>1, SaveInProgress, Zenon
<1>3. /\ ee' = [ee EXCEPT ![Cell(p, n + 1)] = w.byte] /\ todo' = Tail(todo)
      /\ pc' = pc /\ ram' = ram /\ next' = next /\ failures' = failures /\ saving' = saving
      /\ IF Len(todo) = 1
         THEN /\ cand' = [cand EXCEPT ![p] = {saving}]
              /\ torn' = [torn EXCEPT ![p] = 0]
         ELSE cand' = cand /\ torn' = torn
  BY <1>2 DEF WriteByte
<1>4. /\ todo' \in Seq(Writes) /\ Len(todo') = Len(todo) - 1
      /\ (todo' = <<>> <=> Len(todo) = 1) /\ Len(todo') \in Nat
      /\ w \in Writes /\ (todo' # <<>> => Head(todo') = todo'[1])
      /\ \A k \in 1..Len(todo) - 1 : todo'[k] = todo[k + 1]
  BY <1>1, <1>3, TailFacts
<1>5. n + 1 \in 1..VALUE_SIZE + 1 /\ n \in Nat /\ (Len(todo) = 1 <=> n = 4)
  BY <1>2 DEF VALUE_SIZE
<1>6. ee \in [Cells -> Byte] /\ Cell(p, n + 1) \in Cells /\ w.byte \in Byte
  BY <1>4, <1>5, CellFacts DEF IInv, TypeOK, Writes
<1>7. ee' \in [Cells -> Byte]
  BY <1>3, <1>6
<1>. HIDE DEF w
<1>8. \A i \in 1..n + 1 : ee'[Cell(p, i)] = save(p, saving)[i].byte
  <2>1. ASSUME NEW i \in 1..n + 1, i = n + 1 PROVE ee'[Cell(p, i)] = save(p, saving)[i].byte
    BY <1>2, <1>3, <1>6, <2>1
  <2>2. ASSUME NEW i \in 1..n + 1, i # n + 1 PROVE ee'[Cell(p, i)] = save(p, saving)[i].byte
    <3>1. i \in 1..n /\ i \in 1..VALUE_SIZE + 1
      BY <1>5, <2>2 DEF VALUE_SIZE
    <3>2. Cell(p, i) # Cell(p, n + 1) /\ Cell(p, i) \in Cells
      BY <2>2, <3>1, CellFacts
    <3>. QED
      BY <1>2, <1>3, <1>6, <3>1, <3>2
  <2>. QED
    BY <2>1, <2>2
<1>9. \A q \in Numbers, i \in 1..VALUE_SIZE + 1 :
        q # p \/ i # n + 1 => ee'[Cell(q, i)] = ee[Cell(q, i)]
  BY <1>3, <1>5, <1>6, CellFacts
<1>10. Marked' <=> Marked
  BY <1>3, <1>5, <1>6, CellFacts DEF Marked
<1>11. TypeOK'
  BY <1>3, <1>7 DEF IInv, TypeOK
<1>12. HistoryInv'
  <2>1. /\ cand \in [Numbers -> SUBSET Int] /\ \A q \in Numbers : cand[q] \subseteq mMin[q]..mMax[q]
        /\ torn \in [Numbers -> 0..2] /\ ram \in [Numbers -> Int]
    BY DEF IInv, HistoryInv
  <2>2. saving \in Int /\ {saving} \subseteq mMin[p]..mMax[p]
    BY <1>2, NumberFacts
  <2>3. cand' \in [Numbers -> SUBSET Int] /\ torn' \in [Numbers -> 0..2]
    <3>1. {saving} \in SUBSET Int /\ 0 \in 0..2
      BY <2>2
    <3>2. CASE Len(todo) = 1
      BY <1>3, <2>1, <3>1, <3>2
    <3>3. CASE Len(todo) # 1
      BY <1>3, <2>1, <3>3
    <3>. QED
      BY <3>2, <3>3
  <2>4. \A q \in Numbers : cand'[q] \subseteq mMin[q]..mMax[q]
    BY <1>3, <2>1, <2>2
  <2>. QED
    BY <1>2, <1>3, <1>4, <2>1, <2>3, <2>4 DEF HistoryInv, Writes
<1>13. EraseInv'
  BY <1>3 DEF EraseInv
<1>14. \A q \in Numbers \ {p} :
         /\ cand'[q] = cand[q] /\ torn'[q] = torn[q] /\ ~Writing(q)
         /\ \A i \in 1..VALUE_SIZE + 1 : ee'[Cell(q, i)] = ee[Cell(q, i)]
  BY <1>2, <1>3, <1>9 DEF IInv, HistoryInv
<1>15. CASE n = 4
  <2>1. todo' = <<>> /\ cand' = [cand EXCEPT ![p] = {saving}] /\ torn' = [torn EXCEPT ![p] = 0]
    BY <1>3, <1>4, <1>5, <1>15
  <2>2. cand'[p] = {saving} /\ torn'[p] = 0
    BY <2>1 DEF IInv, HistoryInv
  <2>3. SaveInv'
    BY <2>1 DEF SaveInv
  <2>4. \A q : ~Writing(q)'
    BY <2>1 DEF Writing
  <2>5. Whole(p)'
    <3>. DEFINE b == BytesOf(asUint32(saving))
    <3>1. \A i \in 1..VALUE_SIZE : ee'[Cell(p, i)] = b[i]
      BY <1>2, <1>8, <1>15, SaveFacts DEF VALUE_SIZE
    <3>2. ee'[Cell(p, VALUE_SIZE + 1)] = crc(b)
      BY <1>2, <1>8, <1>15, SaveFacts DEF VALUE_SIZE
    <3>3. b = [i \in 1..VALUE_SIZE |-> b[i]]
      <4>1. b \in Bytes
        BY <1>2, Widened, RoundTrip
      <4>. HIDE DEF b
      <4>. QED
        BY <4>1 DEF Bytes
    <3>. HIDE DEF b
    <3>4. Stored(p)' = b
      BY <3>1, <3>3 DEF Stored
    <3>5. Stored(p)' = BytesOf(asUint32(saving))
      BY <3>4 DEF b
    <3>6. \E x \in mMin[p]..mMax[p] : cand'[p] = {x} /\ Stored(p)' = BytesOf(asUint32(x))
      BY <1>2, <2>2, <3>5, Zenon
    <3>. QED
      BY <3>2, <3>4, <3>6, Zenon DEF Whole
  <2>6. UnmarkedInv'
    <3>. SUFFICES ASSUME ~Marked'
                  PROVE  /\ pc' # "run"
                         /\ \A q \in Numbers : cand'[q] \subseteq {mDefaultValue[q]}
                         /\ pc' = "load" =>
                              /\ \A q \in Numbers : Fresh(q)' \/ Whole(q)'
                              /\ \A k \in 1..next' - 1 : Whole(numbers[k])'
      BY DEF UnmarkedInv
    <3>1. /\ pc # "run" /\ \A q \in Numbers : cand[q] \subseteq {mDefaultValue[q]}
          /\ pc = "load" =>
               /\ \A q \in Numbers : Fresh(q) \/ Whole(q) \/ Writing(q)
               /\ \A k \in 1..next - 1 : Whole(numbers[k]) \/ Writing(numbers[k])
      BY <1>10 DEF IInv, UnmarkedInv
    <3>2. \A q \in Numbers \ {p} : (Whole(q)' <=> Whole(q)) /\ (Fresh(q)' <=> Fresh(q))
      <4>. TAKE q \in Numbers \ {p}
      <4>. QED
        BY <1>14, SameCells
    <3>3. \A q \in Numbers : cand'[q] \subseteq {mDefaultValue[q]}
      BY <1>2, <1>14, <2>2, <3>1
    <3>4. ASSUME pc' = "load" PROVE \A q \in Numbers : Fresh(q)' \/ Whole(q)'
      BY <1>3, <1>14, <2>5, <3>1, <3>2, <3>4, Zenon
    <3>5. \A k \in 1..next' - 1 : numbers[k] \in Numbers
      BY <1>3, AddressFacts DEF Numbers, IInv, TypeOK
    <3>6. ASSUME pc' = "load", NEW k \in 1..next' - 1 PROVE Whole(numbers[k])'
      <4>1. CASE numbers[k] = p
        BY <2>5, <4>1
      <4>2. CASE numbers[k] # p
        <5>1. numbers[k] \in Numbers \ {p} /\ k \in 1..next - 1 /\ pc = "load"
          BY <1>3, <3>5, <3>6, <4>2
        <5>. QED
          BY <1>14, <3>1, <3>2, <5>1, Zenon
      <4>. QED
        BY <4>1, <4>2
    <3>. QED
      BY <1>3, <3>1, <3>3, <3>4, <3>6, Zenon
  <2>7. MarkedInv'
    <3>. SUFFICES ASSUME Marked', NEW q \in Numbers PROVE Kept(q)'
      BY <1>2, <1>3 DEF MarkedInv
    <3>1. CASE q = p
      <4>1. torn'[p] # 1
        BY <2>2
      <4>. QED
        BY <2>4, <2>5, <3>1, <4>1, Zenon DEF Kept
    <3>2. CASE q # p
      <4>1. Kept(q)
        BY <1>10 DEF IInv, MarkedInv
      <4>. QED
        BY <1>14, <2>4, <3>2, <4>1, KeptStays
    <3>. QED
      BY <3>1, <3>2
  <2>. QED
    BY <1>11, <1>12, <1>13, <2>3, <2>6, <2>7 DEF IInv
<1>16. CASE n # 4
  <2>1. todo' # <<>> /\ cand' = cand /\ torn' = torn /\ Written' = n + 1 /\ n + 1 \in 0..VALUE_SIZE
    <3>1. todo' # <<>> /\ cand' = cand /\ torn' = torn
      BY <1>3, <1>4, <1>5, <1>16
    <3>2. Written' = VALUE_SIZE + 1 - Len(todo')
      BY DEF Written
    <3>. HIDE DEF n
    <3>3. VALUE_SIZE + 1 - Len(todo') = n + 1 /\ n + 1 \in 0..VALUE_SIZE
      BY <1>2, <1>4, <1>5, <1>16 DEF VALUE_SIZE
    <3>. QED
      BY <3>1, <3>2, <3>3
  <2>2. \A k \in 1..Len(todo') : todo'[k] = save(p, saving)[(n + 1) + k]
    <3>1. \A k \in 1..Len(todo') : k + 1 \in 1..Len(todo) /\ n + (k + 1) = (n + 1) + k /\ k \in 1..Len(todo) - 1
      BY <1>2, <1>4, <1>5 DEF VALUE_SIZE
    <3>. QED
      BY <1>2, <1>4, <3>1
  <2>3. \A q : Writing(q)' <=> q = p
    <3>1. 1 \in 1..Len(todo')
      BY <1>4, <2>1, <1>2, <1>5 DEF VALUE_SIZE
    <3>2. Head(todo') = save(p, saving)[(n + 1) + 1]
      BY <1>4, <2>1, <2>2, <3>1
    <3>3. (n + 1) + 1 \in 1..VALUE_SIZE + 1
      BY <2>1 DEF VALUE_SIZE
    <3>4. Head(todo').at = Cell(p, (n + 1) + 1)
      BY <1>2, <3>2, <3>3, SaveFacts
    <3>5. Head(todo').at[1] = p
      BY <3>4 DEF Cell
    <3>6. pc' # "erase"
      BY <1>3
    <3>. QED
      BY <2>1, <3>5, <3>6, Zenon DEF Writing
  <2>4. SaveInv'
    <3>1. \A i \in 1..Written' : ee'[Cell(p, i)] = save(p, saving)[i].byte
      BY <1>8, <2>1
    <3>2. saving' \in cand'[p] /\ pc' \in {"load", "run"} /\ Written' \in 0..VALUE_SIZE
      BY <1>2, <1>3, <2>1
    <3>3. \A k \in 1..Len(todo') : todo'[k] = save(p, saving')[Written' + k]
      BY <1>3, <2>1, <2>2
    <3>. QED
      BY <1>3, <3>1, <3>2, <3>3 DEF SaveInv
  <2>5. \A q \in Numbers \ {p} : (Whole(q)' <=> Whole(q)) /\ (Fresh(q)' <=> Fresh(q))
    <3>. TAKE q \in Numbers \ {p}
    <3>. QED
      BY <1>14, SameCells
  <2>6. UnmarkedInv'
    <3>. SUFFICES ASSUME ~Marked'
                  PROVE  /\ pc' # "run"
                         /\ \A q \in Numbers : cand'[q] \subseteq {mDefaultValue[q]}
                         /\ pc' = "load" =>
                              /\ \A q \in Numbers : Fresh(q)' \/ Whole(q)' \/ Writing(q)'
                              /\ \A k \in 1..next' - 1 : Whole(numbers[k])' \/ Writing(numbers[k])'
      BY DEF UnmarkedInv
    <3>1. /\ pc # "run" /\ \A q \in Numbers : cand[q] \subseteq {mDefaultValue[q]}
          /\ pc = "load" =>
               /\ \A q \in Numbers : Fresh(q) \/ Whole(q) \/ Writing(q)
               /\ \A k \in 1..next - 1 : Whole(numbers[k]) \/ Writing(numbers[k])
      BY <1>10 DEF IInv, UnmarkedInv
    <3>2. \A k \in 1..next' - 1 : numbers[k] \in Numbers
      BY <1>3, AddressFacts DEF Numbers, IInv, TypeOK
    <3>. QED
      BY <1>2, <1>3, <2>1, <2>3, <2>5, <3>1, <3>2, Zenon
  <2>7. MarkedInv'
    <3>. SUFFICES ASSUME Marked', NEW q \in Numbers PROVE Kept(q)'
      BY <1>2, <1>3 DEF MarkedInv
    <3>1. Kept(q)
      BY <1>10 DEF IInv, MarkedInv
    <3>2. CASE q # p
      <4>1. ~Writing(q)'
        BY <2>3, <3>2
      <4>. QED
        BY <1>14, <3>1, <3>2, <4>1, KeptStays
    <3>3. CASE q = p
      <4>. SUFFICES ASSUME torn'[p] = 0, Written' <= 1
                    PROVE  \E b \in Bytes :
                             /\ ee'[Cell(p, VALUE_SIZE + 1)] = crc(b)
                             /\ \A i \in 1..VALUE_SIZE :
                                  b[i] = Stored(p)'[i] \/ (i = 1 /\ Written' = 1)
                             /\ Readable(p, b) => Gives(p, b) \in cand'[p]
        BY <2>3, <3>3, Zenon DEF Kept
      <4>1. n = 0 /\ Written' = 1
        BY <1>5, <2>1
      <4>2. PICK b \in Bytes :
              /\ ee[Cell(p, VALUE_SIZE + 1)] = crc(b)
              /\ \A i \in 1..VALUE_SIZE : b[i] = Stored(p)[i] \/ (i = 1 /\ Written = 1)
              /\ Readable(p, b) => Gives(p, b) \in cand[p]
        <5>1. Writing(p) /\ torn[p] = 0 /\ Written <= 1
          BY <1>2, <2>1, <4>1
        <5>. QED
          BY <3>1, <3>3, <5>1, Zenon DEF Kept
      <4>3. ee'[Cell(p, VALUE_SIZE + 1)] = crc(b)
        BY <1>9, <4>1, <4>2 DEF VALUE_SIZE
      <4>4. ASSUME NEW i \in 1..VALUE_SIZE PROVE b[i] = Stored(p)'[i] \/ i = 1
        <5>1. CASE i # 1
          <6>1. ee'[Cell(p, i)] = ee[Cell(p, i)]
            BY <1>9, <4>1, <5>1 DEF VALUE_SIZE
          <6>2. Stored(p)'[i] = Stored(p)[i]
            BY <6>1 DEF Stored
          <6>. QED
            BY <4>1, <4>2, <5>1, <6>2
        <5>. QED
          BY <5>1
      <4>. QED
        BY <2>1, <4>1, <4>2, <4>3, <4>4, Zenon
    <3>. QED
      BY <3>2, <3>3
  <2>. QED
    BY <1>11, <1>12, <1>13, <2>4, <2>6, <2>7 DEF IInv
<1>. QED
  BY <1>15, <1>16

(* The value of a whole number is among its candidates.                      *)
LEMMA WholeIsCandidate ==
  ASSUME TypeOK, NEW p \in Numbers, Whole(p), loads(p)
  PROVE  Gives(p, Stored(p)) \in cand[p]
<1>1. PICK x : cand[p] = {x}
  BY Zenon DEF Whole
<1>2. Gives(p, Stored(p)) = x
  BY <1>1, WholeGives
<1>. QED
  BY <1>1, <1>2

(* A save begins: what it is about to replace is still there.                *)
LEMMA BeginSaveStep ==
  ASSUME IInv, todo = <<>>, pc \in {"load", "run"},
         NEW p \in Numbers, NEW x \in mMin[p]..mMax[p], BeginSave(p, x),
         ee' = ee, pc' = pc, torn' = torn
  PROVE  /\ todo' \in Seq(Writes) /\ SaveInv' /\ EraseInv' /\ MarkedInv'
         /\ cand' \in [Numbers -> SUBSET Int] /\ torn' \in [Numbers -> 0..2]
         /\ \A q \in Numbers : cand'[q] \subseteq mMin[q]..mMax[q]
         /\ \A q : Writing(q)' <=> q = p
         /\ \A q \in Numbers \ {p} : cand'[q] = cand[q]
         /\ cand'[p] = cand[p] \cup {x}
<1>1. todo' = save(p, x) /\ saving' = x /\ cand' = [cand EXCEPT ![p] = @ \cup {x}]
  BY DEF BeginSave
<1>2. /\ cand \in [Numbers -> SUBSET Int] /\ torn \in [Numbers -> 0..2]
      /\ \A q \in Numbers : cand[q] \subseteq mMin[q]..mMax[q]
  BY DEF IInv, HistoryInv
<1>3. x \in Int
  BY NumberFacts
<1>4. /\ cand'[p] = cand[p] \cup {x}
      /\ \A q \in Numbers \ {p} : cand'[q] = cand[q]
  BY <1>1, <1>2
<1>5. cand' \in [Numbers -> SUBSET Int]
  <2>1. cand[p] \cup {x} \in SUBSET Int
    BY <1>2, <1>3
  <2>. QED
    BY <1>1, <1>2, <2>1
<1>6. \A q \in Numbers : cand'[q] \subseteq mMin[q]..mMax[q]
  BY <1>2, <1>4
<1>7. /\ todo' \in Seq(Writes) /\ Len(todo') = VALUE_SIZE + 1
      /\ todo' # <<>> /\ Head(todo') = save(p, x)[1]
  <2>1. save(p, x) \in Seq(Writes) /\ Len(save(p, x)) = VALUE_SIZE + 1
    BY SaveFacts
  <2>2. save(p, x) # <<>>
    BY <2>1, EmptySeq, SMTT(30) DEF VALUE_SIZE
  <2>3. Head(save(p, x)) = save(p, x)[1]
    BY <2>1, <2>2, TailFacts
  <2>. QED
    BY <1>1, <2>1, <2>2, <2>3
<1>8. Written' = 0
  <2>1. Written' = VALUE_SIZE + 1 - Len(todo')
    BY DEF Written
  <2>. QED
    BY <1>7, <2>1 DEF VALUE_SIZE
<1>9. \A q : Writing(q)' <=> q = p
  <2>1. Head(todo').at = Cell(p, 1)
    BY <1>7, SaveFacts DEF VALUE_SIZE
  <2>2. Head(todo').at[1] = p
    BY <2>1 DEF Cell
  <2>. QED
    BY <1>7, <2>2, Zenon DEF Writing
<1>10. SaveInv'
  <2>1. saving' \in cand'[p]
    BY <1>1, <1>4
  <2>2. \A k \in 1..Len(todo') : todo'[k] = save(p, saving')[Written' + k]
    BY <1>1, <1>7, <1>8 DEF VALUE_SIZE
  <2>3. 1..Written' = {} /\ Written' \in 0..VALUE_SIZE
    BY <1>8 DEF VALUE_SIZE
  <2>. QED
    BY <2>1, <2>2, <2>3 DEF SaveInv
<1>11. EraseInv'
  BY DEF EraseInv
<1>12. MarkedInv'
  <2>. SUFFICES ASSUME Marked', NEW q \in Numbers PROVE Kept(q)'
    BY DEF MarkedInv
  <2>1. Kept(q) /\ ~Writing(q)
    BY NotWriting DEF IInv, MarkedInv, Marked
  <2>2. CASE q # p
    <3>1. ~Writing(q)'
      BY <1>9, <2>2
    <3>. QED
      BY <1>4, <2>1, <2>2, <3>1, KeptStays
  <2>3. CASE q = p
    <3>. SUFFICES ASSUME torn'[p] = 0
                  PROVE  \E b \in Bytes :
                           /\ ee'[Cell(p, VALUE_SIZE + 1)] = crc(b)
                           /\ \A i \in 1..VALUE_SIZE :
                                b[i] = Stored(p)'[i] \/ (i = 1 /\ Written' = 1)
                           /\ Readable(p, b) => Gives(p, b) \in cand'[p]
      BY <1>9, <2>3, Zenon DEF Kept
    <3>1. Whole(p)
      BY <2>1, <2>3, Zenon DEF Kept
    <3>2. TypeOK
      BY DEF IInv
    <3>3. Stored(p)' = Stored(p)
      BY DEF Stored
    <3>4. Stored(p) \in Bytes
      BY <3>2, StoredFacts
    <3>5. ee'[Cell(p, VALUE_SIZE + 1)] = crc(Stored(p))
      BY <3>1 DEF Whole
    <3>6. Readable(p, Stored(p)) => loads(p)
      BY <3>1, Zenon DEF Whole, loads, Readable
    <3>7. Readable(p, Stored(p)) => Gives(p, Stored(p)) \in cand'[p]
      BY <1>4, <3>1, <3>2, <3>6, WholeIsCandidate
    <3>. QED
      BY <3>3, <3>4, <3>5, <3>7, Zenon
  <2>. QED
    BY <2>2, <2>3
<1>. QED
  BY <1>2, <1>4, <1>5, <1>6, <1>7, <1>9, <1>10, <1>11, <1>12

(* What setup() finds for a number whose save was cut at most once.          *)
LEMMA FoundAtStart ==
  ASSUME IInv, pc = "load", todo = <<>>, NEW p \in Numbers, loads(p), torn[p] <= 1
  PROVE  Gives(p, Stored(p)) \in cand[p] \cup {mDefaultValue[p]}
<1>1. ~Writing(p) /\ TypeOK /\ torn[p] \in 0..2
  BY NotWriting DEF IInv, HistoryInv
<1>2. CASE Marked
  <2>1. Kept(p)
    BY <1>2 DEF IInv, MarkedInv
  <2>2. CASE torn[p] = 0
    <3>1. Whole(p)
      BY <1>1, <2>1, <2>2, Zenon DEF Kept
    <3>. QED
      BY <1>1, <3>1, WholeIsCandidate
  <2>3. CASE torn[p] = 1
    BY <1>1, <2>1, <2>3, Zenon DEF Kept
  <2>. QED
    BY <1>1, <2>2, <2>3
<1>3. CASE ~Marked
  <2>1. Fresh(p) \/ Whole(p)
    BY <1>1, <1>3 DEF IInv, UnmarkedInv
  <2>2. Whole(p)
    BY <1>1, <2>1, FreshDoesNotLoad
  <2>. QED
    BY <1>1, <2>2, WholeIsCandidate
<1>. QED
  BY <1>2, <1>3

(* A number that loads is whole from then on.                                *)
LEMMA LoadFoundStep == IInv /\ Load /\ loads(numbers[next]) => IInv'
<1>. SUFFICES ASSUME IInv, Load, loads(numbers[next]) PROVE IInv'
  OBVIOUS
<1>1. TypeOK /\ next \in 1..Len(numbers) /\ Len(numbers) \in Nat
  BY AddressFacts DEF IInv, TypeOK, Load
<1>2. PICK p \in Numbers : p = numbers[next]
  BY <1>1 DEF Numbers
<1>. DEFINE y == Gives(p, Stored(p))
<1>3. /\ pc = "load" /\ todo = <<>> /\ loads(p)
      /\ ram' = [ram EXCEPT ![p] = y] /\ cand' = [cand EXCEPT ![p] = {ram'[p]}]
      /\ torn' = [torn EXCEPT ![p] = 0] /\ todo' = todo /\ saving' = saving
      /\ next' = next + 1 /\ ee' = ee /\ pc' = pc /\ failures' = failures
  BY <1>2 DEF Load, NextNumber, Gives
<1>4. /\ cand \in [Numbers -> SUBSET Int] /\ torn \in [Numbers -> 0..2]
      /\ ram \in [Numbers -> Int]
      /\ \A q \in Numbers : cand[q] \subseteq mMin[q]..mMax[q]
  BY DEF IInv, HistoryInv
<1>5. Stored(p) \in Bytes /\ y \in mMin[p]..mMax[p] /\ y \in Int /\ loads(p)
  BY <1>1, <1>3, StoredFacts, GivesFacts, NumberFacts
<1>. HIDE DEF y
<1>6. ram'[p] = y /\ cand' = [cand EXCEPT ![p] = {y}] /\ cand'[p] = {y} /\ torn'[p] = 0
      /\ \A q \in Numbers \ {p} : cand'[q] = cand[q] /\ torn'[q] = torn[q] /\ ram'[q] = ram[q]
  BY <1>3, <1>4
<1>7. \A q : ~Writing(q) /\ ~Writing(q)'
  BY <1>3 DEF Writing
<1>8. Whole(p)'
  <2>1. Stored(p)' = Stored(p)
    BY <1>3 DEF Stored
  <2>3. ee'[Cell(p, VALUE_SIZE + 1)] = crc(Stored(p)') /\ Readable(p, Stored(p)')
    BY <1>3, <1>5, <2>1 DEF loads, Readable
  <2>4. Gives(p, Stored(p)') = y
    BY <2>1 DEF y
  <2>5. \E x \in mMin[p]..mMax[p] :
          cand'[p] = {x} /\ Readable(p, Stored(p)') /\ Gives(p, Stored(p)') = x
    BY <1>5, <1>6, <2>3, <2>4
  <2>. QED
    BY <2>3, <2>5, Zenon DEF Whole
<1>9. Marked' <=> Marked
  BY <1>3 DEF Marked
<1>10. TypeOK'
  <2>1. \A q \in Numbers : ram'[q] \in mMin[q]..mMax[q]
    BY <1>1, <1>5, <1>6 DEF TypeOK
  <2>2. next' \in 1..Len(numbers) + 1
    BY <1>3, <1>1
  <2>. QED
    BY <1>3, <1>1, <2>1, <2>2 DEF TypeOK
<1>11. HistoryInv'
  <2>1. cand' \in [Numbers -> SUBSET Int] /\ torn' \in [Numbers -> 0..2] /\ ram' \in [Numbers -> Int]
    <3>1. {y} \in SUBSET Int /\ 0 \in 0..2
      BY <1>5
    <3>. QED
      BY <1>3, <1>4, <1>5, <1>6, <3>1
  <2>2. \A q \in Numbers : cand'[q] \subseteq mMin[q]..mMax[q]
    BY <1>4, <1>5, <1>6
  <2>. QED
    BY <1>3, <2>1, <2>2 DEF HistoryInv, IInv
<1>12. SaveInv' /\ EraseInv'
  BY <1>3 DEF SaveInv, EraseInv
<1>13. \A q \in Numbers \ {p} : (Whole(q)' <=> Whole(q)) /\ (Fresh(q)' <=> Fresh(q))
  <2>. TAKE q \in Numbers \ {p}
  <2>. QED
    BY <1>3, <1>6, SameCells
<1>14. UnmarkedInv'
  <2>. SUFFICES ASSUME ~Marked'
                PROVE  /\ pc' # "run"
                       /\ \A q \in Numbers : cand'[q] \subseteq {mDefaultValue[q]}
                       /\ \A q \in Numbers : Fresh(q)' \/ Whole(q)'
                       /\ \A k \in 1..next' - 1 : Whole(numbers[k])'
    BY DEF UnmarkedInv
  <2>1. /\ \A q \in Numbers : cand[q] \subseteq {mDefaultValue[q]}
        /\ \A q \in Numbers : Fresh(q) \/ Whole(q)
        /\ \A k \in 1..next - 1 : Whole(numbers[k])
    BY <1>3, <1>7, <1>9 DEF IInv, UnmarkedInv
  <2>2. y = mDefaultValue[p]
    <3>1. Whole(p)
      BY <1>1, <1>5, <2>1, FreshDoesNotLoad
    <3>2. y \in cand[p]
      BY <1>1, <1>5, <3>1, WholeIsCandidate DEF y
    <3>. QED
      BY <2>1, <3>2
  <2>3. \A q \in Numbers : cand'[q] \subseteq {mDefaultValue[q]}
    BY <1>6, <2>1, <2>2
  <2>4. \A q \in Numbers : Fresh(q)' \/ Whole(q)'
    BY <1>8, <1>13, <2>1, Zenon
  <2>5. ASSUME NEW k \in 1..next' - 1 PROVE Whole(numbers[k])'
    <3>1. numbers[k] \in Numbers /\ (k \in 1..next - 1 \/ k = next)
      BY <1>3, <1>1 DEF Numbers
    <3>2. numbers[k] = p \/ Whole(numbers[k])
      BY <1>2, <2>1, <3>1
    <3>. QED
      BY <1>8, <1>13, <3>1, <3>2, Zenon
  <2>. QED
    BY <1>3, <2>3, <2>4, <2>5
<1>15. MarkedInv'
  <2>. SUFFICES ASSUME Marked', NEW q \in Numbers PROVE Kept(q)'
    BY <1>3 DEF MarkedInv
  <2>1. CASE q = p
    <3>1. torn'[p] # 1
      BY <1>6
    <3>. QED
      BY <1>7, <1>8, <2>1, <3>1, Zenon DEF Kept
  <2>2. CASE q # p
    <3>1. Kept(q)
      BY <1>9 DEF IInv, MarkedInv
    <3>. QED
      BY <1>3, <1>6, <1>7, <2>2, <3>1, KeptStays
  <2>. QED
    BY <2>1, <2>2
<1>. QED
  BY <1>10, <1>11, <1>12, <1>14, <1>15 DEF IInv

(* The default is saved over what does not load.                             *)
LEMMA LoadDefaultStep == IInv /\ Load /\ ~loads(numbers[next]) => IInv'
<1>. SUFFICES ASSUME IInv, Load, ~loads(numbers[next]) PROVE IInv'
  OBVIOUS
<1>1. TypeOK /\ next \in 1..Len(numbers) /\ Len(numbers) \in Nat
  BY AddressFacts DEF IInv, TypeOK, Load
<1>2. PICK p \in Numbers : p = numbers[next]
  BY <1>1 DEF Numbers
<1>. DEFINE x == mDefaultValue[p]
<1>3. /\ pc = "load" /\ todo = <<>>
      /\ ram' = [ram EXCEPT ![p] = clamp(p, x)] /\ BeginSave(p, x)
      /\ torn' = torn /\ next' = next + 1 /\ ee' = ee /\ pc' = pc /\ failures' = failures
  BY <1>2 DEF Load, NextNumber
<1>4. x \in mMin[p]..mMax[p] /\ x \in Int /\ clamp(p, x) = x
  BY NumberFacts, ClampFacts
<1>5. /\ todo' \in Seq(Writes) /\ SaveInv' /\ EraseInv' /\ MarkedInv'
      /\ cand' \in [Numbers -> SUBSET Int] /\ torn' \in [Numbers -> 0..2]
      /\ \A q \in Numbers : cand'[q] \subseteq mMin[q]..mMax[q]
      /\ \A q : Writing(q)' <=> q = p
      /\ \A q \in Numbers \ {p} : cand'[q] = cand[q]
      /\ cand'[p] = cand[p] \cup {x}
  BY <1>3, <1>4, BeginSaveStep
<1>6. TypeOK'
  <2>1. \A q \in Numbers : ram'[q] \in mMin[q]..mMax[q]
    BY <1>3, <1>1, <1>4 DEF TypeOK, IInv, HistoryInv
  <2>2. next' \in 1..Len(numbers) + 1
    BY <1>1, <1>3
  <2>. QED
    BY <1>3, <1>1, <2>1, <2>2 DEF TypeOK
<1>7. HistoryInv'
  <2>1. ram' \in [Numbers -> Int]
    BY <1>3, <1>4 DEF IInv, HistoryInv
  <2>. QED
    BY <1>3, <1>5, <2>1 DEF HistoryInv, Writes
<1>8. \A q : ~Writing(q)
  BY <1>3, NotWriting
<1>9. \A q \in Numbers \ {p} : (Whole(q)' <=> Whole(q)) /\ (Fresh(q)' <=> Fresh(q))
  <2>. TAKE q \in Numbers \ {p}
  <2>. QED
    BY <1>3, <1>5, SameCells
<1>10. UnmarkedInv'
  <2>. SUFFICES ASSUME ~Marked'
                PROVE  /\ pc' # "run"
                       /\ \A q \in Numbers : cand'[q] \subseteq {mDefaultValue[q]}
                       /\ \A q \in Numbers : Fresh(q)' \/ Whole(q)' \/ Writing(q)'
                       /\ \A k \in 1..next' - 1 : Whole(numbers[k])' \/ Writing(numbers[k])'
    BY DEF UnmarkedInv
  <2>1. /\ \A q \in Numbers : cand[q] \subseteq {mDefaultValue[q]}
        /\ \A q \in Numbers : Fresh(q) \/ Whole(q)
        /\ \A k \in 1..next - 1 : Whole(numbers[k])
    BY <1>3, <1>8 DEF IInv, UnmarkedInv, Marked
  <2>2. \A q \in Numbers : cand'[q] \subseteq {mDefaultValue[q]}
    BY <1>5, <2>1
  <2>3. \A q \in Numbers : Fresh(q)' \/ Whole(q)' \/ Writing(q)'
    BY <1>5, <1>9, <2>1, Zenon
  <2>4. ASSUME NEW k \in 1..next' - 1 PROVE Whole(numbers[k])' \/ Writing(numbers[k])'
    <3>1. numbers[k] \in Numbers /\ (k \in 1..next - 1 \/ k = next)
      BY <1>3, <1>1 DEF Numbers
    <3>2. numbers[k] = p \/ Whole(numbers[k])
      BY <1>2, <2>1, <3>1
    <3>. QED
      BY <1>5, <1>9, <3>1, <3>2, Zenon
  <2>. QED
    BY <1>3, <2>2, <2>3, <2>4
<1>. QED
  BY <1>5, <1>6, <1>7, <1>10 DEF IInv

(* When setup() has ended every number is whole or as it was kept.           *)
LEMMA LoadedStep == IInv /\ Loaded => IInv'
<1>. SUFFICES ASSUME IInv, Loaded PROVE IInv'
  OBVIOUS
<1>1. /\ pc = "load" /\ todo = <<>> /\ next > Len(numbers)
      /\ ee' = [ee EXCEPT ![Magic] = CONFIG_MAGIC] /\ pc' = "run"
      /\ ram' = ram /\ next' = next /\ todo' = todo /\ failures' = failures
      /\ saving' = saving /\ cand' = cand /\ torn' = torn
  BY DEF Loaded, history
<1>2. TypeOK /\ next = Len(numbers) + 1 /\ Len(numbers) \in Nat /\ ee \in [Cells -> Byte]
  BY <1>1, AddressFacts DEF IInv, TypeOK
<1>3. \A p \in Numbers : \A i \in 1..VALUE_SIZE + 1 : ee'[Cell(p, i)] = ee[Cell(p, i)]
  BY <1>1, <1>2, CellFacts
<1>4. Marked' /\ ee' \in [Cells -> Byte]
  BY <1>1, <1>2, CellFacts, MagicAssumption DEF Marked
<1>5. \A p : ~Writing(p) /\ ~Writing(p)'
  BY <1>1 DEF Writing
<1>6. TypeOK' /\ HistoryInv' /\ SaveInv' /\ EraseInv' /\ UnmarkedInv'
  BY <1>1, <1>2, <1>4 DEF IInv, TypeOK, HistoryInv, SaveInv, EraseInv, UnmarkedInv
<1>7. ASSUME NEW p \in Numbers PROVE Kept(p)'
  <2>1. Kept(p)
    <3>1. CASE Marked
      BY <3>1 DEF IInv, MarkedInv
    <3>2. CASE ~Marked
      <4>1. PICK k \in 1..Len(numbers) : p = numbers[k]
        BY DEF Numbers
      <4>2. Whole(p)
        BY <1>1, <1>2, <1>5, <3>2, <4>1 DEF IInv, UnmarkedInv
      <4>3. loads(p) => Gives(p, Stored(p)) \in cand[p] \cup {mDefaultValue[p]}
        BY <1>2, <4>2, WholeIsCandidate
      <4>. QED
        BY <1>5, <4>2, <4>3, Zenon DEF Kept
    <3>. QED
      BY <3>1, <3>2
  <2>. QED
    BY <1>1, <1>3, <1>5, <2>1, KeptStays
<1>. QED
  BY <1>1, <1>6, <1>7 DEF IInv, MarkedInv

(* A value-set request changes nothing of what is stored yet.                *)
LEMMA SetStep ==
  ASSUME IInv, NEW p \in Numbers, NEW u \in Sent, setValueItem(p, u)
  PROVE  IInv'
<1>. DEFINE x == clamp(p, asT(p, u))
<1>1. /\ pc = "run" /\ todo = <<>> /\ ram' = [ram EXCEPT ![p] = x]
      /\ BeginSave(p, ram'[p])
      /\ ee' = ee /\ pc' = pc /\ next' = next /\ failures' = failures /\ torn' = torn
  BY DEF setValueItem
<1>2. x \in mMin[p]..mMax[p] /\ x \in Int
  <2>1. asT(p, u) \in Int
    BY BoundsAssumption, CastFacts
  <2>2. x \in mMin[p]..mMax[p]
    BY <2>1, ClampFacts
  <2>. QED
    BY <2>2, NumberFacts
<1>. HIDE DEF x
<1>3. TypeOK /\ ram \in [Numbers -> Int] /\ ram' \in [Numbers -> Int] /\ ram'[p] = x
  BY <1>1, <1>2 DEF IInv, HistoryInv
<1>4. /\ todo' \in Seq(Writes) /\ SaveInv' /\ EraseInv' /\ MarkedInv'
      /\ cand' \in [Numbers -> SUBSET Int] /\ torn' \in [Numbers -> 0..2]
      /\ \A q \in Numbers : cand'[q] \subseteq mMin[q]..mMax[q]
  BY <1>1, <1>2, <1>3, BeginSaveStep
<1>5. TypeOK'
  BY <1>1, <1>2, <1>3 DEF TypeOK
<1>6. HistoryInv'
  BY <1>1, <1>3, <1>4 DEF HistoryInv, Writes
<1>7. UnmarkedInv'
  BY <1>1 DEF IInv, UnmarkedInv, Marked
<1>. QED
  BY <1>4, <1>5, <1>6, <1>7 DEF IInv

(* A save that is cut leaves the old value, the new one or nothing that      *)
(* loads.                                                                    *)
LEMMA PowerStep == IInv /\ PowerFails => IInv'
<1>. SUFFICES ASSUME IInv, PowerFails PROVE IInv'
  OBVIOUS
<1>1. /\ failures' = failures + 1 /\ failures < MaxFailures
      /\ ram' = mDefaultValue /\ pc' = "check" /\ next' = 1 /\ todo' = <<>>
      /\ torn' = [p \in Numbers |-> IF Writing(p) /\ torn[p] < 2 THEN torn[p] + 1 ELSE torn[p]]
      /\ ee' = ee /\ saving' = saving /\ cand' = cand
  BY DEF PowerFails, Writing
<1>2. TypeOK /\ torn \in [Numbers -> 0..2]
  BY DEF IInv, HistoryInv
<1>3. TypeOK'
  <2>1. \A p \in Numbers : ram'[p] \in mMin[p]..mMax[p]
    BY <1>1, NumberFacts
  <2>2. next' \in 1..Len(numbers) + 1 /\ failures' \in 0..MaxFailures
    BY <1>1, <1>2, AddressFacts, BoundsAssumption DEF TypeOK
  <2>. QED
    BY <1>1, <1>2, <2>1, <2>2 DEF TypeOK
<1>4. HistoryInv'
  <2>1. torn' \in [Numbers -> 0..2]
    BY <1>1, <1>2
  <2>2. todo' \in Seq([at : Cells, byte : Byte])
    BY <1>1
  <2>. QED
    BY <1>1, <2>1, <2>2, NumbersAssumption DEF IInv, HistoryInv
<1>5. SaveInv' /\ EraseInv'
  BY <1>1 DEF SaveInv, EraseInv
<1>6. UnmarkedInv'
  BY <1>1 DEF IInv, UnmarkedInv, Marked
<1>7. MarkedInv'
  <2>. SUFFICES ASSUME Marked', NEW p \in Numbers PROVE Kept(p)'
    BY <1>1 DEF MarkedInv
  <2>1. Kept(p) /\ ~Writing(p)'
    BY <1>1 DEF IInv, MarkedInv, Marked, Writing
  <2>2. CASE ~Writing(p)
    BY <1>1, <2>1, <2>2, KeptStays
  <2>3. CASE Writing(p)
    <3>1. torn'[p] # 0 /\ (torn'[p] = 1 => torn[p] = 0)
      BY <1>1, <1>2, <2>3
    <3>2. ASSUME torn[p] = 0, loads(p)
          PROVE  Gives(p, Stored(p)) \in cand[p]
      <4>. DEFINE c == Stored(p)
      <4>1. /\ c \in Bytes /\ crc(c) = ee[Cell(p, VALUE_SIZE + 1)] /\ Readable(p, c)
            /\ \A i \in 1..VALUE_SIZE : c[i] = ee[Cell(p, i)]
        BY <1>2, <3>2, StoredFacts DEF loads, Readable
      <4>. HIDE DEF c
      <4>2. /\ saving \in cand[p] /\ saving \in mMin[p]..mMax[p] /\ Written \in 0..VALUE_SIZE
            /\ \A i \in 1..Written : ee[Cell(p, i)] = save(p, saving)[i].byte
        <5>1. todo # <<>> /\ pc # "erase"
          BY <2>3 DEF Writing
        <5>. QED
          BY <2>3, <5>1, SaveInProgress, Zenon
      <4>3. CASE Written <= 1
        <5>1. PICK b \in Bytes :
                /\ ee[Cell(p, VALUE_SIZE + 1)] = crc(b)
                /\ \A i \in 1..VALUE_SIZE : b[i] = Stored(p)[i] \/ (i = 1 /\ Written = 1)
                /\ Readable(p, b) => Gives(p, b) \in cand[p]
          BY <2>1, <2>3, <3>2, <4>3, Zenon DEF Kept
        <5>2. \A i \in 2..VALUE_SIZE : b[i] = c[i]
          BY <5>1 DEF c, VALUE_SIZE
        <5>3. b = c
          BY <4>1, <5>1, <5>2, SameCheckByte
        <5>. QED
          BY <4>1, <5>1, <5>3 DEF c
      <4>4. CASE Written > 1
        <5>1. c[1] = BytesOf(asUint32(saving))[1] /\ c[2] = BytesOf(asUint32(saving))[2]
          <6>1. 1 \in 1..Written /\ 2 \in 1..Written
            BY <4>2, <4>4 DEF VALUE_SIZE
          <6>. QED
            BY <4>1, <4>2, <6>1, SaveFacts DEF VALUE_SIZE
        <5>2. Gives(p, c) = saving
          BY <4>1, <4>2, <5>1, LowHalfGives
        <5>. QED
          BY <4>2, <5>2 DEF c
      <4>. QED
        BY <4>2, <4>3, <4>4 DEF VALUE_SIZE
    <3>3. Stored(p)' = Stored(p) /\ (loads(p)' <=> loads(p))
      BY <1>1, SameCells
    <3>4. torn'[p] = 1 /\ loads(p)' => Gives(p, Stored(p)') \in cand'[p] \cup {mDefaultValue[p]}
      BY <1>1, <3>1, <3>2, <3>3
    <3>. QED
      BY <2>1, <3>1, <3>4, Zenon DEF Kept
  <2>. QED
    BY <2>2, <2>3
<1>. QED
  BY <1>3, <1>4, <1>5, <1>6, <1>7 DEF IInv

(* Nothing that is said depends on anything but the variables.               *)
LEMMA StutterStep == IInv /\ UNCHANGED vars => IInv'
<1>. SUFFICES ASSUME IInv, UNCHANGED vars PROVE IInv'
  OBVIOUS
<1>1. /\ ee' = ee /\ ram' = ram /\ pc' = pc /\ next' = next /\ todo' = todo
      /\ failures' = failures /\ saving' = saving /\ cand' = cand /\ torn' = torn
  BY DEF vars
<1>2. TypeOK' /\ HistoryInv'
  BY <1>1 DEF IInv, TypeOK, HistoryInv
<1>3. SaveInv'
  <2>. SUFFICES ASSUME pc' # "erase", todo' # <<>> PROVE SaveInv'
    BY DEF SaveInv
  <2>1. Written' = Written
    BY <1>1 DEF Written
  <2>2. PICK p \in Numbers :
          /\ saving \in cand[p]
          /\ \A k \in 1..Len(todo) : todo[k] = save(p, saving)[Written + k]
          /\ \A i \in 1..Written : ee[Cell(p, i)] = save(p, saving)[i].byte
    BY <1>1, Zenon DEF IInv, SaveInv
  <2>3. pc \in {"load", "run"} /\ Written \in 0..VALUE_SIZE
    BY <1>1 DEF IInv, SaveInv
  <2>. QED
    BY <1>1, <2>1, <2>2, <2>3 DEF SaveInv
<1>4. EraseInv'
  BY <1>1 DEF IInv, EraseInv, Marked
<1>5. \A p \in Numbers :
        /\ (Whole(p)' <=> Whole(p)) /\ (Fresh(p)' <=> Fresh(p))
        /\ (loads(p)' <=> loads(p)) /\ Stored(p)' = Stored(p)
  <2>. TAKE p \in Numbers
  <2>. QED
    BY <1>1, SameCells
<1>6. (\A p : Writing(p)' <=> Writing(p)) /\ Written' = Written /\ (Marked' <=> Marked)
  BY <1>1, Zenon DEF Writing, Written, Marked
<1>7. UnmarkedInv'
  <2>1. \A k \in 1..next - 1 : numbers[k] \in Numbers
    BY AddressFacts DEF IInv, TypeOK, Numbers
  <2>. QED
    BY <1>1, <1>5, <1>6, <2>1, Zenon DEF IInv, UnmarkedInv
<1>8. MarkedInv'
  <2>. SUFFICES ASSUME Marked', NEW p \in Numbers PROVE Kept(p)'
    BY <1>1, <1>6, Zenon DEF IInv, MarkedInv
  <2>1. Kept(p)
    BY <1>6 DEF IInv, MarkedInv
  <2>. QED
    BY <1>1, <1>5, <1>6, <2>1, Zenon DEF Kept
<1>. QED
  BY <1>2, <1>3, <1>4, <1>7, <1>8 DEF IInv

(* No step leaves the invariant.                                             *)
LEMMA NextStep == IInv /\ [Next]_vars => IInv'
<1>. SUFFICES ASSUME IInv, [Next]_vars PROVE IInv'
  OBVIOUS
<1>1. CASE checkEepromConfig
  BY <1>1, CheckStep
<1>2. CASE WriteByte
  BY <1>2, EraseByteStep, SaveByteStep
<1>3. CASE Load
  BY <1>3, LoadFoundStep, LoadDefaultStep
<1>4. CASE Loaded
  BY <1>4, LoadedStep
<1>5. CASE \E p \in Numbers, u \in Sent : setValueItem(p, u)
  BY <1>5, SetStep
<1>6. CASE PowerFails
  BY <1>6, PowerStep
<1>7. CASE UNCHANGED vars
  BY <1>7, StutterStep
<1>. QED
  BY <1>1, <1>2, <1>3, <1>4, <1>5, <1>6, <1>7 DEF Next, Step
-----------------------------------------------------------------------------
(* The theorems. *)

(* Only loading a number lets the loop of setup() go on.                     *)
LEMMA OnlyLoadGoesOn ==
  ASSUME IInv, Next, NEW p \in Numbers, Loads(p)
  PROVE  Load /\ todo = <<>>
<1>1. next \in Nat /\ next >= 1 /\ next' = next + 1
  BY AddressFacts DEF Loads, IInv, TypeOK
<1>2. ~checkEepromConfig /\ ~WriteByte /\ ~Loaded /\ ~PowerFails
  BY <1>1 DEF checkEepromConfig, WriteByte, Loaded, PowerFails
<1>3. ~\E q \in Numbers, u \in Sent : setValueItem(q, u)
  BY <1>1 DEF setValueItem
<1>. QED
  BY <1>2, <1>3 DEF Next, Step, Load

(* What a number starts with.                                                *)
LEMMA WhatIsLoaded ==
  ASSUME IInv, Load, NEW p \in Numbers, Loads(p)
  PROVE  ram'[p] = IF loads(p) THEN Gives(p, Stored(p)) ELSE mDefaultValue[p]
<1>1. ram \in [Numbers -> Int] /\ p = numbers[next]
  BY DEF IInv, HistoryInv, Loads
<1>2. CASE loads(p)
  BY <1>1, <1>2 DEF Load, Gives
<1>3. CASE ~loads(p)
  <2>1. clamp(p, mDefaultValue[p]) = mDefaultValue[p]
    BY NumberFacts, ClampFacts
  <2>. QED
    BY <1>1, <1>3, <2>1 DEF Load
<1>. QED
  BY <1>2, <1>3

(* A restart finds the default, the value last saved or one whose save was   *)
(* cut.                                                                      *)
LEMMA RestartStep ==
  ASSUME IInv, Next, NEW p \in Numbers, Loads(p), torn[p] <= 1
  PROVE  ram'[p] \in cand[p] \cup {mDefaultValue[p]}
<1>1. Load /\ todo = <<>> /\ pc = "load"
  BY OnlyLoadGoesOn DEF Loads
<1>2. loads(p) => Gives(p, Stored(p)) \in cand[p] \cup {mDefaultValue[p]}
  BY <1>1, FoundAtStart
<1>3. ram'[p] = IF loads(p) THEN Gives(p, Stored(p)) ELSE mDefaultValue[p]
  BY <1>1, WhatIsLoaded
<1>. QED
  BY <1>2, <1>3

(* A number that is not negative and was saved completely starts with it.    *)
LEMMA SavedStep ==
  ASSUME IInv, Next, NEW p \in Numbers, Loads(p), torn[p] = 0,
         NEW x \in cand[p], cand[p] = {x}, x >= 0
  PROVE  ram'[p] = x
<1>1. Load /\ todo = <<>> /\ pc = "load" /\ TypeOK
  BY OnlyLoadGoesOn DEF Loads, IInv
<1>2. ram'[p] = IF loads(p) THEN Gives(p, Stored(p)) ELSE mDefaultValue[p]
  BY <1>1, WhatIsLoaded
<1>3. ASSUME Whole(p) PROVE ram'[p] = x
  BY <1>1, <1>2, <1>3, WholeGives
<1>4. ~Writing(p)
  BY <1>1, NotWriting
<1>5. CASE Marked
  <2>1. Kept(p)
    BY <1>5 DEF IInv, MarkedInv
  <2>2. Whole(p)
    BY <1>4, <2>1, Zenon DEF Kept
  <2>. QED
    BY <1>3, <2>2
<1>6. CASE ~Marked
  <2>1. (Fresh(p) \/ Whole(p)) /\ x = mDefaultValue[p]
    BY <1>1, <1>4, <1>6 DEF IInv, UnmarkedInv
  <2>2. CASE Fresh(p)
    BY <1>1, <1>2, <2>1, <2>2, FreshDoesNotLoad
  <2>. QED
    BY <1>3, <2>1, <2>2
<1>. QED
  BY <1>5, <1>6

(* Whenever power fails, every number is in its range, and a restart gives   *)
(* it its default, the value last saved or, after one save that was cut, the *)
(* value of that save; a value that was saved completely and is not negative *)
(* is found again: Ee.h, PersistentNumber.h and the start-up of main.cpp.    *)
THEOREM RestartsFindWhatWasSaved ==
  Spec => []TypeOK /\ RestartRestores /\ SavedIsRestored
<1>1. Spec => []IInv
  BY InitStep, NextStep, PTL DEF Spec
<1>2. IInv /\ [Next]_vars =>
        [\A p \in Numbers :
           Loads(p) /\ torn[p] <= 1 => ram'[p] \in cand[p] \cup {mDefaultValue[p]}]_vars
  BY RestartStep
<1>3. IInv /\ [Next]_vars =>
        [\A p \in Numbers :
           \A x \in cand[p] :
             Loads(p) /\ cand[p] = {x} /\ torn[p] = 0 /\ x >= 0 => ram'[p] = x]_vars
  BY SavedStep
<1>4. IInv => TypeOK
  BY DEF IInv
<1>5. Spec => RestartRestores
  BY <1>1, <1>2, PTL DEF Spec, RestartRestores
<1>6. Spec => SavedIsRestored
  BY <1>1, <1>3, PTL DEF Spec, SavedIsRestored
<1>. QED
  BY <1>1, <1>4, <1>5, <1>6, PTL
-----------------------------------------------------------------------------
(* setup() and a save come to their end: the measure behind StartsUp.        *)

\* The steps to the end of setup(), or of the save in progress, at most: one
\* number is loaded, and its default saved over it, in VALUE_SIZE + 2.
Work ==
  CASE pc = "check" -> Len(Erase) + (VALUE_SIZE + 2) * Len(numbers) + 3
    [] pc = "erase" -> Len(todo) + (VALUE_SIZE + 2) * Len(numbers) + 2
    [] pc = "load" -> Len(todo) + (VALUE_SIZE + 2) * (Len(numbers) + 1 - next) + 1
    [] OTHER -> Len(todo)

\* A step leaves fewer, unless it is the power that fails.
ComesUp == pc # "run" \/ todo # <<>> => failures' > failures \/ Work' < Work

(* Work at each label, now and after a step. *)
LEMMA WorkIs ==
  /\ pc = "check" => Work = Len(Erase) + 6 * Len(numbers) + 3
  /\ pc = "erase" => Work = Len(todo) + 6 * Len(numbers) + 2
  /\ pc = "load" => Work = Len(todo) + 6 * (Len(numbers) + 1 - next) + 1
  /\ pc = "run" => Work = Len(todo)
  /\ pc' = "erase" => Work' = Len(todo') + 6 * Len(numbers) + 2
  /\ pc' = "load" => Work' = Len(todo') + 6 * (Len(numbers) + 1 - next') + 1
  /\ pc' = "run" => Work' = Len(todo')
<1>1. VALUE_SIZE + 2 = 6
  BY DEF VALUE_SIZE
<1>. QED
  BY <1>1 DEF Work

(* The numbers Work is made of. *)
LEMMA WorkTypes ==
  ASSUME IInv
  PROVE  /\ Len(numbers) \in Nat /\ Len(Erase) \in Nat /\ Len(todo) \in Nat
         /\ todo = <<>> <=> Len(todo) = 0
         /\ next \in 1..Len(numbers) + 1
         /\ pc \in {"check", "erase", "load", "run"}
         /\ pc \in {"check", "erase"} => next = 1
         /\ pc = "check" => todo = <<>>
<1>1. Len(numbers) \in Nat /\ Len(Erase) \in Nat
  BY AddressFacts, EraseFacts
<1>2. Len(todo) \in Nat /\ (todo = <<>> <=> Len(todo) = 0)
  BY EmptySeq, LenProperties DEF IInv, HistoryInv
<1>3. next \in 1..Len(numbers) + 1 /\ pc \in {"check", "erase", "load", "run"}
  BY DEF IInv, TypeOK
<1>. QED
  BY <1>1, <1>2, <1>3 DEF IInv, HistoryInv, SaveInv

(* Each action of setup() and of a save. *)
LEMMA WorkStep == IInv /\ [Next]_vars => [ComesUp]_vars
<1>. SUFFICES ASSUME IInv, Next, pc # "run" \/ todo # <<>>
              PROVE  failures' > failures \/ Work' < Work
  BY DEF ComesUp
<1>1. /\ Len(numbers) \in Nat /\ Len(Erase) \in Nat /\ Len(todo) \in Nat
      /\ todo = <<>> <=> Len(todo) = 0
      /\ next \in 1..Len(numbers) + 1
      /\ pc \in {"check", "erase", "load", "run"}
      /\ pc \in {"check", "erase"} => next = 1
      /\ pc = "check" => todo = <<>>
  BY WorkTypes
<1>2. CASE checkEepromConfig
  <2>1. pc = "check" /\ next' = next /\ next = 1 /\ Len(todo) = 0
        /\ ((pc' = "load" /\ todo' = todo) \/ (pc' = "erase" /\ todo' = Erase))
    BY <1>1, <1>2 DEF checkEepromConfig
  <2>. QED
    BY <1>1, <2>1, WorkIs
<1>3. CASE WriteByte
  <2>1. todo # <<>> /\ todo' = Tail(todo) /\ next' = next
        /\ pc' = IF pc = "erase" /\ Len(todo) = 1 THEN "load" ELSE pc
    BY <1>3 DEF WriteByte
  <2>2. Len(todo') = Len(todo) - 1
    BY <2>1, TailFacts DEF IInv, HistoryInv
  <2>3. CASE pc = "erase" /\ Len(todo) = 1
    <3>1. pc' = "load" /\ next' = 1
      BY <1>1, <2>1, <2>3
    <3>2. Work = 1 + 6 * Len(numbers) + 2
      BY <2>3, WorkIs
    <3>3. Work' = 0 + 6 * (Len(numbers) + 1 - 1) + 1
      BY <2>2, <2>3, <3>1, WorkIs
    <3>. QED
      BY <1>1, <3>2, <3>3
  <2>4. CASE pc' = pc
    BY <1>1, <2>1, <2>2, <2>4, WorkIs
  <2>. QED
    BY <2>1, <2>3, <2>4
<1>4. CASE Load
  <2>1. pc = "load" /\ pc' = "load" /\ todo = <<>> /\ next <= Len(numbers)
        /\ next' = next + 1
    BY <1>4 DEF Load, NextNumber
  <2>2. numbers[next] \in Numbers
    BY <1>1, <2>1 DEF Numbers
  <2>3. Len(todo') \in 0..5
    <3>. DEFINE p == numbers[next]
    <3>1. todo' = todo \/ todo' = save(p, mDefaultValue[p])
      BY <1>4 DEF Load, BeginSave
    <3>2. mDefaultValue[p] \in mMin[p]..mMax[p]
      BY <2>2, NumbersAssumption, RangesAssumption
    <3>3. Len(save(p, mDefaultValue[p])) = 5
      BY <2>2, <3>2, SaveFacts DEF VALUE_SIZE
    <3>. QED
      BY <1>1, <2>1, <3>1, <3>3
  <2>4. Work = 0 + 6 * (Len(numbers) + 1 - next) + 1
    BY <1>1, <2>1, WorkIs
  <2>5. Work' = Len(todo') + 6 * (Len(numbers) + 1 - (next + 1)) + 1
    BY <2>1, WorkIs
  <2>6. PICK n \in 0..5 : n = Len(todo')
    BY <2>3
  <2>7. PICK left \in Nat : left = Len(numbers) - next
    BY <1>1, <2>1
  <2>8. Work = 6 * (left + 1) + 1
    BY <1>1, <2>4, <2>7
  <2>9. Work' = n + 6 * left + 1
    BY <1>1, <2>5, <2>6, <2>7
  <2>. QED
    BY <2>8, <2>9
<1>5. CASE Loaded
  <2>1. pc = "load" /\ pc' = "run" /\ todo = <<>> /\ todo' = todo /\ next <= Len(numbers) + 1
    BY <1>1, <1>5 DEF Loaded
  <2>. QED
    BY <1>1, <2>1, WorkIs
<1>6. CASE PowerFails
  <2>1. failures' = failures + 1 /\ failures \in Nat
    BY <1>6, BoundsAssumption DEF PowerFails, IInv, TypeOK
  <2>. QED
    BY <2>1
<1>7. CASE \E p \in Numbers, u \in Sent : setValueItem(p, u)
  BY <1>7 DEF setValueItem
<1>. QED
  BY <1>2, <1>3, <1>4, <1>5, <1>6, <1>7 DEF Next, Step

(* However often power fails: if it stays on for Work steps, setup() is      *)
(* through and the save in progress complete; no content of the EEPROM makes *)
(* a start-up write, or load, more than that (main.cpp:251-260, 441-476).    *)
THEOREM SetupEnds == Spec => [](Work \in Nat) /\ [][ComesUp]_vars
<1>1. IInv => Work \in Nat
  <2>. SUFFICES ASSUME IInv PROVE Work \in Nat
    OBVIOUS
  <2>. QED
    BY WorkTypes, WorkIs
<1>2. IInv /\ [Next]_vars => [ComesUp]_vars
  BY WorkStep
<1>. QED
  BY <1>1, <1>2, InitStep, NextStep, PTL DEF Spec
=============================================================================
