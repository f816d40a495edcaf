---------------------------- MODULE ConfigStore ----------------------------
(***************************************************************************)
(* The configuration numbers and their copies in EEPROM (Ee.h,             *)
(* PersistentNumber.h, ValueItem.h, Number.h) with the start-up of main.cpp *)
(* that checks a magic byte, erases, loads and stores.                     *)
(*                                                                         *)
(* EEPROM is written one byte at a time and power may fail between two     *)
(* bytes.  A byte has BYTE values, a stored value four bytes and a check   *)
(* byte; a number has two bytes, signed or not.                            *)
(***************************************************************************)
EXTENDS Integers, Sequences

CONSTANTS
  BYTE,          \* number of values of a byte: 256
  numbers,       \* the persistent numbers, in the order of main.cpp
  Signed,        \* those that are int16_t
  mMin, mMax, mDefaultValue,
  crc(_),        \* CRC8 of four bytes
  CONFIG_MAGIC,
  Found,         \* what an item may hold before the first start
  Sent,          \* bound: the values of valueSet requests
  MaxFailures    \* bound: the power failures

VALUE_SIZE == 4
Byte == 0..BYTE - 1
Bytes == [1..VALUE_SIZE -> Byte]
U32 == BYTE * BYTE * BYTE * BYTE
T == BYTE * BYTE       \* number of values of a uint16_t or int16_t

Numbers == {numbers[k] : k \in 1..Len(numbers)}
ERASED == BYTE - 1     \* 0xFF

ASSUME ByteAssumption == BYTE \in Nat /\ BYTE >= 2 /\ BYTE % 2 = 0
ASSUME NumbersAssumption ==
  /\ numbers \in Seq(Numbers)
  /\ mMin \in [Numbers -> Int] /\ mMax \in [Numbers -> Int]
  /\ mDefaultValue \in [Numbers -> Int]
ASSUME RangesAssumption ==
  \A p \in Numbers :
    /\ mMin[p] <= mDefaultValue[p] /\ mDefaultValue[p] <= mMax[p]
    /\ IF p \in Signed THEN -(T \div 2) <= mMin[p] /\ mMax[p] < T \div 2
       ELSE 0 <= mMin[p] /\ mMax[p] < T
ASSUME MagicAssumption == CONFIG_MAGIC \in Byte \ {ERASED}

ASSUME BoundsAssumption ==
  /\ Found \subseteq [1..VALUE_SIZE + 1 -> Byte] /\ Sent \subseteq Nat
  /\ MaxFailures \in Nat

\* A CRC of eight bits detects every change of a single byte.
ASSUME CrcAssumption ==
  \A a, b \in Bytes :
    crc(a) \in Byte /\
    ((\E i \in 1..VALUE_SIZE :
        a[i] # b[i] /\ \A j \in 1..VALUE_SIZE : j # i => a[j] = b[j])
       => crc(a) # crc(b))

VARIABLES
  ee,        \* EEPROM: magic byte and, per number, value and check byte
  ram,       \* mValue of each number
  pc, next,  \* where setup() is, and the number it loads next
  todo,      \* bytes still to be written by the call in progress
  failures,  \* number of power failures so far
  saving,    \* history: the value of the save in progress, or of the last
  cand,      \* history: values whose save was completed last or begun since
  torn       \* history: how many saves were cut off since (at most two count)

history == <<saving, cand, torn>>
vars == <<ee, ram, pc, next, todo, failures, saving, cand, torn>>

Magic == <<"magic", 0>>
Cell(p, i) == <<p, i>>
Cells == {Magic} \cup (Numbers \X (1..VALUE_SIZE + 1))

\* The conversions between uint32_t, T and bytes.
asUint32(x) == x % U32
asT(p, u) == LET r == u % T IN IF p \in Signed /\ 2 * r >= T THEN r - T ELSE r
BytesOf(u) == [i \in 1..VALUE_SIZE |->
                 CASE i = 1 -> u % BYTE
                   [] i = 2 -> (u \div BYTE) % BYTE
                   [] i = 3 -> ((u \div BYTE) \div BYTE) % BYTE
                   [] i = 4 -> ((u \div BYTE) \div BYTE) \div BYTE]
ValueOf(b) == b[1] + BYTE * b[2] + T * b[3] + BYTE * T * b[4]

\* getMaxValue<T>
getMaxValue(p) == IF p \in Signed THEN T \div 2 - 1 ELSE T - 1

\* Faulty variant of ValueItem::setValue: the range is not looked at.
clamp_Not(p, x) == x

\* ValueItem::setValue
clamp(p, x) ==
  IF x < mMin[p] THEN mMin[p] ELSE IF x > mMax[p] THEN mMax[p] ELSE x
-----------------------------------------------------------------------------
(* Ee::save and Ee::load.                                                    *)

Write(cell, byte) == [at |-> cell, byte |-> byte]

\* Faulty variant of save: the check byte is left as it is.
save_NoCrc(p, x) ==
  [i \in 1..VALUE_SIZE |-> Write(Cell(p, i), BytesOf(asUint32(x))[i])]

\* The writes of save: the value, low byte first, then its check byte.
save(p, x) ==
  LET b == BytesOf(asUint32(x))
  IN  [i \in 1..VALUE_SIZE + 1 |->
         Write(Cell(p, i), IF i <= VALUE_SIZE THEN b[i] ELSE crc(b))]

BeginSave(p, x) ==
  /\ todo' = save(p, x)
  /\ saving' = x
  /\ cand' = [cand EXCEPT ![p] = @ \cup {x}]

Stored(p) == [i \in 1..VALUE_SIZE |-> ee[Cell(p, i)]]

\* Faulty variant of loads: the check byte is not compared.
loads_NoCrc(p) == ValueOf(Stored(p)) <= getMaxValue(p)

\* load() succeeds and the cast to T loses nothing.
loads(p) ==
  /\ ee[Cell(p, VALUE_SIZE + 1)] = crc(Stored(p))
  /\ ValueOf(Stored(p)) <= getMaxValue(p)
-----------------------------------------------------------------------------
\* A chip that this firmware has not run on: its magic byte is not the one.
Init ==
  /\ \E m \in Byte \ {CONFIG_MAGIC}, f \in [Numbers -> Found] :
       ee = [c \in Cells |-> IF c = Magic THEN m ELSE f[c[1]][c[2]]]
  /\ ram = mDefaultValue
  /\ pc = "check" /\ next = 1 /\ todo = <<>>
  /\ failures = 0
  /\ saving = 0
  /\ cand = [p \in Numbers |-> {}]
  /\ torn = [p \in Numbers |-> 0]

\* Cells in the order of their addresses: EE_ADDRESS_CONFIG_MAGIC comes first.
AddressOrder ==
  <<Magic>> \o [k \in 1..Len(numbers) * (VALUE_SIZE + 1) |->
                  Cell(numbers[(k - 1) \div (VALUE_SIZE + 1) + 1],
                       ((k - 1) % (VALUE_SIZE + 1)) + 1)]

Erase == [k \in 1..Len(AddressOrder) |-> Write(AddressOrder[k], ERASED)]

\* Faulty variant: the magic byte is written before the rest is erased.
checkEepromConfig_MagicFirst ==
  /\ pc = "check"
  /\ IF ee[Magic] = CONFIG_MAGIC THEN pc' = "load" /\ UNCHANGED todo
     ELSE /\ pc' = "erase"
          /\ todo' = <<Write(Magic, CONFIG_MAGIC)>> \o Tail(Erase)
  /\ UNCHANGED <<ee, ram, next, failures, history>>

\* checkEepromConfig erases everything unless the magic byte is right.
checkEepromConfig ==
  /\ pc = "check"
  /\ IF ee[Magic] = CONFIG_MAGIC THEN pc' = "load" /\ UNCHANGED todo
     ELSE pc' = "erase" /\ todo' = Erase
  /\ UNCHANGED <<ee, ram, next, failures, history>>

\* EEPROM.write, or one byte of EEPROM.put.
WriteByte ==
  /\ todo # <<>>
  /\ LET w == Head(todo)
         p == w.at[1]
     IN  /\ ee' = [ee EXCEPT ![w.at] = w.byte]
         /\ todo' = Tail(todo)
         /\ IF pc # "erase" /\ Len(todo) = 1
            THEN /\ cand' = [cand EXCEPT ![p] = {saving}]
                 /\ torn' = [torn EXCEPT ![p] = 0]
            ELSE UNCHANGED <<cand, torn>>
  /\ pc' = IF pc = "erase" /\ Len(todo) = 1 THEN "load" ELSE pc
  /\ UNCHANGED <<ram, next, failures, saving>>

\* Faulty variant: the loop stays on the same number.
NextNumber_Same == UNCHANGED next

\* loadConfigValuesForAllComponents goes on to the next number.
NextNumber == next' = next + 1

\* loadValue, for one number.
Load ==
  /\ pc = "load" /\ todo = <<>> /\ next <= Len(numbers)
  /\ LET p == numbers[next]
     IN  IF loads(p)
         THEN /\ ram' = [ram EXCEPT ![p] = clamp(p, asT(p, ValueOf(Stored(p))))]
              /\ cand' = [cand EXCEPT ![p] = {ram'[p]}]
              /\ torn' = [torn EXCEPT ![p] = 0]
              /\ UNCHANGED <<todo, saving>>
         ELSE /\ ram' = [ram EXCEPT ![p] = clamp(p, mDefaultValue[p])]
              /\ BeginSave(p, mDefaultValue[p])
              /\ UNCHANGED torn
  /\ NextNumber
  /\ UNCHANGED <<ee, pc, failures>>

\* setup() writes the magic byte when every number is loaded.
Loaded ==
  /\ pc = "load" /\ todo = <<>> /\ next > Len(numbers)
  /\ ee' = [ee EXCEPT ![Magic] = CONFIG_MAGIC]
  /\ pc' = "run"
  /\ UNCHANGED <<ram, next, todo, failures, history>>

\* A valueSet request: the value is cast, clamped and saved.
setValueItem(p, u) ==
  /\ pc = "run" /\ todo = <<>>
  /\ ram' = [ram EXCEPT ![p] = clamp(p, asT(p, u))]
  /\ BeginSave(p, ram'[p])
  /\ UNCHANGED <<ee, pc, next, failures, torn>>

\* Power fails, between two bytes at the earliest, and returns.
PowerFails ==
  /\ failures < MaxFailures
  /\ failures' = failures + 1
  /\ ram' = mDefaultValue
  /\ pc' = "check" /\ next' = 1 /\ todo' = <<>>
  /\ torn' = [p \in Numbers |->
                IF pc # "erase" /\ todo # <<>> /\ Head(todo).at[1] = p /\ torn[p] < 2
                THEN torn[p] + 1 ELSE torn[p]]
  /\ UNCHANGED <<ee, saving, cand>>

Step == checkEepromConfig \/ WriteByte \/ Load \/ Loaded

Next ==
  \/ Step
  \/ \E p \in Numbers, u \in Sent : setValueItem(p, u)
  \/ PowerFails

Spec == Init /\ [][Next]_vars

\* setup() runs to its end while there is power.
FairSpec == Spec /\ WF_vars(Step)
-----------------------------------------------------------------------------
(* Every variable has a value of its kind, and a number is in its range      *)
(* whatever was stored or sent (ValueItem.h:47-59).                          *)
TypeOK ==
  /\ ee \in [Cells -> Byte]
  /\ \A p \in Numbers : ram[p] \in mMin[p]..mMax[p]
  /\ pc \in {"check", "erase", "load", "run"}
  /\ next \in 1..Len(numbers) + 1
  /\ failures \in 0..MaxFailures

Loads(p) == pc = "load" /\ next' = next + 1 /\ numbers[next] = p

(* A number starts with its default, the value last saved, or a value whose  *)
(* save was cut off: power failures at any byte of a save, of the defaults   *)
(* or of the first erasure never leave a mixture of two values, or what was  *)
(* in the chip before (Ee.h:74-142, main.cpp:427-476).  It holds for one cut *)
(* save: a second failure while the default is being saved over a cut save   *)
(* may leave bytes of three values under an old check byte.                  *)
RestartRestores ==
  [][\A p \in Numbers :
       Loads(p) /\ torn[p] <= 1 => ram'[p] \in cand[p] \cup {mDefaultValue[p]}]_vars

(* A save that was completed survives any number of power failures, if the   *)
(* value is not negative.                                                    *)
SavedIsRestored ==
  [][\A p \in Numbers :
       \A x \in cand[p] :
         Loads(p) /\ cand[p] = {x} /\ torn[p] = 0 /\ x >= 0 => ram'[p] = x]_vars

(* What the test of a negative int16_t expects                               *)
(* (PersistentNumber_test.cpp:312-339): it is loaded as it was saved.        *)
NegativeIsRestored ==
  [][\A p \in Numbers :
       \A x \in cand[p] :
         Loads(p) /\ cand[p] = {x} /\ torn[p] = 0 /\ x < 0 => ram'[p] = x]_vars

(* setup() ends, and so does every save: the node runs again after the last  *)
(* power failure.                                                            *)
StartsUp == (pc # "run" \/ todo # <<>>) ~> (pc = "run" /\ todo = <<>>)
=============================================================================
