--------------------------- MODULE AirTimeProofs ---------------------------
(***************************************************************************)
(* The airtime accounts are right, the asserts hold and the duty cycle is  *)
(* kept, for every number and length of minutes, every transmission and    *)
(* however often millis() rolls over, on the runs of LongSpec; and every   *)
(* run of it is one of the abstract DutyLimiter.                           *)
(***************************************************************************)
EXTENDS AirTime, SequenceTheorems, TLAPS

-----------------------------------------------------------------------------
(* What RingBufferProofs proves of the member functions, said of mBuf. *)
RP == INSTANCE RingBufferProofs WITH rb <- mBuf, ret <- mTime_ms

(* The member functions there are the ones that AirTime calls. *)
LEMMA SameBuffer ==
  /\ \A b : RP!WellFormed(b) <=> WellFormed(b)
  /\ \A b : RP!isEmpty(b) <=> isEmpty(b)
  /\ \A b : RP!isFull(b) <=> isFull(b)
  /\ \A b : RP!size(b) = size(b)
  /\ \A b : RP!back(b) = back(b) /\ RP!front(b) = front(b)
  /\ \A b : RP!pop_back(b) = pop_back(b) /\ RP!pop_front(b) = pop_front(b)
  /\ \A b : RP!clear(b) = clear(b)
  /\ \A b, x : RP!push_front(b, x) = push_front(b, x)
  /\ \A b, x : RP!fill(b, x) = fill(b, x)
  /\ \A b, k : RP!CellOf(b, k) = CellOf(b, k)
  /\ \A b : RP!Contents(b) = Contents(b)
<1>1. RP!Cells = Cells
  BY DEF RP!Cells, Cells
<1>2. RP!Buffer = Buffer
  BY <1>1 DEF RP!Buffer, Buffer
<1>3. \A c : RP!After(c) = After(c) /\ RP!Before(c) = Before(c)
  BY DEF RP!After, After, RP!Before, Before
<1>4. \A b : /\ RP!WellFormed(b) <=> WellFormed(b)
             /\ RP!isEmpty(b) <=> isEmpty(b)
             /\ RP!isFull(b) <=> isFull(b)
             /\ RP!size(b) = size(b)
  BY <1>2 DEF RP!WellFormed, WellFormed, RP!isEmpty, isEmpty, RP!isFull, isFull,
              RP!size, size
<1>5. \A b : /\ RP!back(b) = back(b) /\ RP!front(b) = front(b)
             /\ RP!pop_back(b) = pop_back(b) /\ RP!pop_front(b) = pop_front(b)
             /\ RP!clear(b) = clear(b)
  BY <1>3 DEF RP!back, back, RP!front, front, RP!pop_back, pop_back,
              RP!pop_front, pop_front, RP!clear, clear
<1>6. \A b, x : RP!push_front(b, x) = push_front(b, x)
  BY <1>3 DEF RP!push_front, push_front
<1>7. \A b, x : RP!fill(b, x) = fill(b, x)
  <2>1. \A b, c : RP!Occupied(b, c) <=> Occupied(b, c)
    BY DEF RP!Occupied, Occupied
  <2>. QED
    BY <1>1, <2>1 DEF RP!fill, fill
<1>8. \A b, k : RP!CellOf(b, k) = CellOf(b, k)
  BY DEF RP!CellOf, CellOf
<1>9. \A b : RP!Contents(b) = Contents(b)
  BY <1>4, <1>8 DEF RP!Contents, Contents
<1>. QED
  BY <1>4, <1>5, <1>6, <1>7, <1>8, <1>9

(* size() counts the items of a well-formed buffer: between 0 and N, 0       *)
(* exactly when isEmpty() and N exactly when isFull() (RingBuffer.h:21-45).  *)
LEMMA SizeCounts ==
  ASSUME NEW b, WellFormed(b)
  PROVE  /\ size(b) \in 0..N
         /\ isEmpty(b) <=> size(b) = 0
         /\ isFull(b) <=> size(b) = N
BY SameBuffer, CapacityAssumption, ZeroAssumption, RP!SizeCounts

(* Contents is a sequence of size(b) items. *)
LEMMA ContentsType ==
  ASSUME NEW b, WellFormed(b)
  PROVE  /\ Contents(b) \in Seq(Item)
         /\ Len(Contents(b)) = size(b)
         /\ \A k \in 1..size(b) : Contents(b)[k] = b.mRb[CellOf(b, k)]
BY SameBuffer, CapacityAssumption, ZeroAssumption, RP!ContentsType

(* push_front appends at the front; on a full buffer the back item goes.     *)
LEMMA PushFrontContents ==
  ASSUME NEW b, WellFormed(b), NEW x \in Item
  PROVE  /\ WellFormed(push_front(b, x))
         /\ Contents(push_front(b, x)) =
              IF Len(Contents(b)) = N THEN Append(Tail(Contents(b)), x)
              ELSE Append(Contents(b), x)
BY SameBuffer, CapacityAssumption, ZeroAssumption, RP!PushFrontContents

(* back() and front() are the two ends of a non-empty buffer. *)
LEMMA EndsAreBackAndFront ==
  ASSUME NEW b, WellFormed(b), ~isEmpty(b)
  PROVE  /\ Contents(b) # <<>>
         /\ back(b) = Head(Contents(b))
         /\ front(b) = Contents(b)[Len(Contents(b))]
BY SameBuffer, CapacityAssumption, ZeroAssumption, RP!EndsAreBackAndFront

(* pop_back removes the back item. *)
LEMMA PopBackContents ==
  ASSUME NEW b, WellFormed(b), ~isEmpty(b)
  PROVE  /\ WellFormed(pop_back(b))
         /\ Contents(pop_back(b)) = Tail(Contents(b))
BY SameBuffer, CapacityAssumption, ZeroAssumption, RP!PopBackContents

(* pop_front removes the front item. *)
LEMMA PopFrontContents ==
  ASSUME NEW b, WellFormed(b), ~isEmpty(b)
  PROVE  /\ WellFormed(pop_front(b))
         /\ Contents(pop_front(b)) =
              SubSeq(Contents(b), 1, Len(Contents(b)) - 1)
BY SameBuffer, CapacityAssumption, ZeroAssumption, RP!PopFrontContents

(* clear leaves an empty buffer. *)
LEMMA ClearContents ==
  ASSUME NEW b, WellFormed(b)
  PROVE  /\ WellFormed(clear(b))
         /\ isEmpty(clear(b))
         /\ Contents(clear(b)) = <<>>
BY SameBuffer, CapacityAssumption, ZeroAssumption, RP!ClearContents

(* fill keeps the items and puts x in every free place at the front. *)
LEMMA FillContents ==
  ASSUME NEW b, WellFormed(b), NEW x \in Item
  PROVE  /\ WellFormed(fill(b, x))
         /\ Contents(fill(b, x)) =
              Contents(b) \o [k \in 1..(N - Len(Contents(b))) |-> x]
BY SameBuffer, CapacityAssumption, ZeroAssumption, RP!FillContents

-----------------------------------------------------------------------------
(* The inductive invariant.                                                  *)

\* aired is a clock that runs only while the radio is on air.
AiredInv ==
  /\ aired \in [0..MaxClock -> Nat] /\ aired[0] = 0
  /\ \A c, d \in 0..MaxClock :
       c <= d => aired[c] <= aired[d] /\ aired[d] <= aired[c] + (d - c)
  /\ \A c \in 0..MaxClock : clock <= c => aired[c] = aired[clock]

\* A full buffer, and a current minute that has begun at a multiple of MINUTE.
MembersInv ==
  /\ WellFormed(mBuf) /\ mBuf.mFull
  /\ mTime_ms \in 0..(WORD - 1) /\ mLastUpdate_ms \in 0..(WORD - 1)
  /\ LastUpdate \in Nat /\ LastUpdate = (LastUpdate \div MINUTE) * MINUTE

\* How much of the transmission is not accounted for.
Left == IF purpose = "account" THEN end - t1 ELSE 0

\* What the locals mean at each label.
LocalsInv ==
  /\ pc \in Labels \ {"abort"} /\ purpose \in Purposes
  /\ clock \in 0..MaxClock
  /\ time \in 0..(WORD - 1) /\ t1 \in 0..(WORD - 1) /\ end \in 0..(WORD - 1)
  /\ purpose = "account" =>
       /\ pc \in {"roll", "shift", "add"} /\ time = t1 /\ end = millis
       /\ t1 <= end /\ t1 < LastMinute /\ end <= LastMinute /\ Left <= clock
       /\ \A c \in Accounted..clock :
            aired[c] = aired[Accounted] + (c - Accounted)
  /\ purpose # "account" => pc # "add" /\ (pc # "idle" => time = millis)
  /\ pc = "gate" => purpose = "gate"
  /\ purpose = "gate" /\ pc # "idle" => millis < LastMinute
  /\ pc # "idle" => Left <= Ago
  /\ pc \in {"gate", "add"} => Ago < Left + MINUTE

\* No airtime is accounted for after the current minute, give or take Slack.
CurrentInv ==
  LET over == LastUpdate + MINUTE + Slack
  IN  over <= Accounted => aired[Accounted] = aired[over]

\* The minutes of the buffer share the airtime among them: each holds what was
\* aired between an instant at most Slack after it began and that of the next.
Cuts(b) ==
  /\ b[N + 1] = Accounted
  /\ \A k \in 1..N :
       /\ Began(k) <= b[k] /\ b[k] <= Began(k) + Slack /\ b[k] <= Accounted
       /\ Contents(mBuf)[k] = OnAir(b[k + 1]) - OnAir(b[k])
  /\ mTime_ms = OnAir(Accounted) - OnAir(b[1])
SharesInv == \E b \in [1..N + 1 -> Int] : Cuts(b)

\* What the gate let pass fits in a minute, together with the message.
PassedInv == purpose = "account" /\ ~Aligned => mTime_ms + Left <= MINUTE

IInv == AiredInv /\ LocalsInv /\ MembersInv /\ CurrentInv /\ SharesInv /\ PassedInv
-----------------------------------------------------------------------------
(* Arithmetic. *)

(* Multiplication by a natural number is monotonic. *)
LEMMA TimesMono ==
  ASSUME NEW m \in Nat, NEW a \in Int, NEW b \in Int, a <= b
  PROVE  a * m <= b * m
OBVIOUS

(* Euclidean division. *)
LEMMA DivMod ==
  ASSUME NEW m \in Nat \ {0}, NEW x \in Nat
  PROVE  /\ x \div m \in Nat
         /\ (x \div m) * m <= x
         /\ x < (x \div m) * m + m
BY SMTT(30)

(* The quotient is the only multiple that fits. *)
LEMMA DivUnique ==
  ASSUME NEW m \in Nat \ {0}, NEW x \in Nat, NEW j \in Nat,
         j * m <= x, x < j * m + m
  PROVE  x \div m = j
<1>. DEFINE q == x \div m
<1>1. q \in Nat /\ q * m <= x /\ x < q * m + m
  BY DivMod
<1>. HIDE DEF q
<1>2. CASE q < j
  <2>1. (q + 1) * m <= j * m
    BY <1>1, <1>2, TimesMono
  <2>. QED
    BY <1>1, <2>1
<1>3. CASE j < q
  <2>1. (j + 1) * m <= q * m
    BY <1>1, <1>3, TimesMono
  <2>. QED
    BY <1>1, <2>1
<1>. QED
  BY <1>1, <1>2, <1>3 DEF q

(* The remainder is what the quotient leaves. *)
LEMMA Remainder ==
  ASSUME NEW m \in Nat \ {0}, NEW x \in Nat
  PROVE  x % m = x - (x \div m) * m /\ x % m \in 0..(m - 1)
BY SMTT(30)

(* The constants as numbers. *)
LEMMA Sizes ==
  /\ N \in Nat /\ N >= 2 /\ MINUTE \in Nat /\ MINUTE >= 1 /\ MaxClock \in Nat
  /\ HOUR \in Nat /\ 2 * MINUTE <= HOUR /\ HOUR = N * MINUTE
  /\ WORD \in Nat /\ HOUR < WORD /\ FULL \in Nat /\ LIMIT \in Nat
  /\ PPM_MAX \in Nat /\ LIMIT <= PPM_MAX /\ MaxTx \in Nat
<1>1. /\ N \in Nat /\ N >= 2 /\ MINUTE \in Nat \ {0} /\ MaxClock \in Nat
      /\ WORD \in Nat /\ HOUR < WORD /\ FULL \in Nat /\ LIMIT \in 0..PPM_MAX
      /\ PPM_MAX \in Nat /\ MaxTx \in Nat
  BY CapacityAssumption, TimeAssumption
<1>2. 2 * MINUTE <= N * MINUTE /\ N * MINUTE \in Nat
  BY <1>1, TimesMono
<1>. QED
  BY <1>1, <1>2 DEF HOUR

(* A difference of two times modulo WORD. *)
LEMMA Diff ==
  ASSUME NEW a \in 0..(WORD - 1), NEW b \in 0..(WORD - 1)
  PROVE  /\ (a - b) % WORD = IF a >= b THEN a - b ELSE a - b + WORD
         /\ (a - b) % WORD \in 0..(WORD - 1)
BY TimeAssumption, SMTT(30)

(* A time below WORD is its own remainder. *)
LEMMA Small ==
  ASSUME NEW x \in 0..(WORD - 1)
  PROVE  x % WORD = x
BY Sizes

(* A time some time on. *)
LEMMA Plus ==
  ASSUME NEW a \in Nat, NEW d \in 0..(WORD - 1)
  PROVE  /\ (a + d) % WORD = IF (a % WORD) + d < WORD THEN (a % WORD) + d
                             ELSE (a % WORD) + d - WORD
         /\ a % WORD \in 0..(WORD - 1) /\ (a + d) % WORD \in 0..(WORD - 1)
<1>. DEFINE q == a \div WORD
            r == a % WORD
            s == a + d
<1>1. WORD \in Nat \ {0} /\ d \in Nat /\ d < WORD /\ s \in Nat /\ s = a + d
  BY Sizes
<1>2. /\ q \in Nat /\ q * WORD <= a /\ a < q * WORD + WORD
      /\ r = a - q * WORD
  BY <1>1, DivMod, Remainder
<1>. HIDE DEF s
<1>3. s % WORD = s - (s \div WORD) * WORD
  BY <1>1, Remainder
<1>. HIDE DEF q, r
<1>4. CASE r + d < WORD
  <2>1. s \div WORD = q
    BY <1>1, <1>2, <1>4, DivUnique
  <2>. QED
    BY <1>1, <1>2, <1>3, <1>4, <2>1 DEF r, s
<1>5. CASE r + d >= WORD
  <2>1. (q + 1) * WORD = q * WORD + WORD
    BY <1>1, <1>2
  <2>2. s \div WORD = q + 1
    BY <1>1, <1>2, <1>5, <2>1, DivUnique
  <2>. QED
    BY <1>1, <1>2, <1>3, <1>5, <2>1, <2>2 DEF r, s
<1>6. r \in Int
  BY <1>1, <1>2
<1>. QED
  BY <1>1, <1>4, <1>5, <1>6

(* A time d further back, as long as that is no rollover. *)
LEMMA FurtherBack ==
  ASSUME NEW a \in 0..(WORD - 1), NEW b \in 0..(WORD - 1), NEW d \in Nat,
         ((a - b) % WORD) + d < WORD,
         NEW c, c = IF a + d < WORD THEN a + d ELSE a + d - WORD
  PROVE  c \in 0..(WORD - 1) /\ (c - b) % WORD = ((a - b) % WORD) + d
<1>. DEFINE s == (a - b) % WORD
<1>1. s = (IF a >= b THEN a - b ELSE a - b + WORD) /\ s \in 0..(WORD - 1)
  BY Diff
<1>2. s + d < WORD /\ WORD \in Nat
  BY Sizes
<1>. HIDE DEF s
<1>3. c \in 0..(WORD - 1)
  BY <1>1, <1>2
<1>4. (c - b) % WORD = IF c >= b THEN c - b ELSE c - b + WORD
  BY <1>3, Diff
<1>5. (c - b) % WORD = s + d
  BY <1>1, <1>2, <1>3, <1>4
<1>. QED
  BY <1>3, <1>5 DEF s

(* The time from d later on. *)
LEMMA Nearer ==
  ASSUME NEW a \in 0..(WORD - 1), NEW b \in 0..(WORD - 1), NEW d \in Nat,
         (a - b) % WORD >= d
  PROVE  /\ (b + d) % WORD \in 0..(WORD - 1)
         /\ (a - ((b + d) % WORD)) % WORD = ((a - b) % WORD) - d
<1>. DEFINE s == (a - b) % WORD
            c == (b + d) % WORD
<1>1. s = (IF a >= b THEN a - b ELSE a - b + WORD) /\ s \in 0..(WORD - 1)
  BY Diff
<1>2. s >= d /\ WORD \in Nat /\ WORD >= 1 /\ d \in 0..(WORD - 1)
  BY <1>1, Sizes
<1>. HIDE DEF s
<1>3. b % WORD = b /\ b \in Nat
  BY <1>2
<1>4. c = (IF b + d < WORD THEN b + d ELSE b + d - WORD) /\ c \in 0..(WORD - 1)
  BY <1>2, <1>3, Plus
<1>. HIDE DEF c
<1>5. (a - c) % WORD = IF a >= c THEN a - c ELSE a - c + WORD
  BY <1>4, Diff
<1>6. (a - c) % WORD = s - d
  BY <1>1, <1>2, <1>4, <1>5
<1>. QED
  BY <1>4, <1>6 DEF s, c
-----------------------------------------------------------------------------
(* Time. *)

(* millis() and how long ago the current minute began are times. *)
LEMMA Times ==
  ASSUME clock \in Nat, mLastUpdate_ms \in 0..(WORD - 1)
  PROVE  /\ millis \in 0..(WORD - 1) /\ Ago \in 0..(WORD - 1)
         /\ LastUpdate \in Int /\ LastUpdate + Ago = clock
         /\ Aligned => millis = clock
<1>1. WORD \in Nat \ {0} /\ MINUTE \in Nat
  BY Sizes
<1>2. millis \in 0..(WORD - 1)
  BY <1>1 DEF millis
<1>3. Ago \in 0..(WORD - 1)
  BY <1>2, Diff DEF Ago
<1>4. Aligned => millis = clock
  BY <1>1 DEF Aligned, millis
<1>. QED
  BY <1>1, <1>2, <1>3, <1>4 DEF LastUpdate

(* The minutes of the buffer follow each other, the current one last.        *)
LEMMA BeganFacts ==
  ASSUME LastUpdate \in Int
  PROVE  /\ \A k \in Int : Began(k) \in Int /\ Began(k + 1) = Began(k) + MINUTE
         /\ \A k, l \in Int : k <= l => Began(k) <= Began(l)
         /\ Began(N) = LastUpdate
         /\ Began(1) = LastUpdate + MINUTE - HOUR
<1>1. N \in Int /\ MINUTE \in Nat
  BY Sizes
<1>2. ASSUME NEW k \in Int
      PROVE  Began(k) \in Int /\ Began(k + 1) = Began(k) + MINUTE
  BY <1>1 DEF Began
<1>3. ASSUME NEW k \in Int, NEW l \in Int, k <= l
      PROVE  Began(k) <= Began(l)
  <2>1. (k - N) * MINUTE <= (l - N) * MINUTE
    BY <1>1, <1>3, TimesMono
  <2>. QED
    BY <1>1, <2>1 DEF Began
<1>4. Began(N) = LastUpdate
  BY <1>1 DEF Began
<1>5. Began(1) = LastUpdate + MINUTE - HOUR
  BY <1>1 DEF Began, HOUR
<1>. QED
  BY <1>2, <1>3, <1>4, <1>5

(* A minute boundary that moves on by whole minutes stays one. *)
LEMMA StaysBoundary ==
  ASSUME MembersInv, NEW n \in Nat
  PROVE  LET next == LastUpdate + n * MINUTE
         IN  next \in Nat /\ next = (next \div MINUTE) * MINUTE
<1>. DEFINE j == LastUpdate \div MINUTE
            next == (j + n) * MINUTE
<1>1. /\ LastUpdate \in Nat /\ LastUpdate = j * MINUTE /\ j \in Nat
      /\ MINUTE \in Nat \ {0}
  BY DivMod, TimeAssumption DEF MembersInv
<1>. HIDE DEF j
<1>2. next = LastUpdate + n * MINUTE /\ j + n \in Nat
  BY <1>1
<1>3. next \in Nat /\ next < next + MINUTE /\ next <= next
  BY <1>1, <1>2
<1>4. next \div MINUTE = j + n
  BY <1>1, <1>2, <1>3, DivUnique
<1>. QED
  BY <1>2, <1>3, <1>4

(* What the invariant says of the times, in one place. *)
LEMMA Clocks ==
  ASSUME IInv
  PROVE  /\ clock \in Nat /\ clock <= MaxClock
         /\ mLastUpdate_ms \in 0..(WORD - 1)
         /\ time \in 0..(WORD - 1) /\ t1 \in 0..(WORD - 1) /\ end \in 0..(WORD - 1)
         /\ millis \in 0..(WORD - 1) /\ Ago \in 0..(WORD - 1)
         /\ LastUpdate \in Nat /\ LastUpdate + Ago = clock
         /\ Aligned => millis = clock
         /\ Left \in Nat /\ Left <= Ago
         /\ Accounted \in Nat /\ Accounted + Left = clock
         /\ LastUpdate <= Accounted
         /\ Slack \in Nat /\ (Aligned => Slack = 0) /\ (~Aligned => Slack = MINUTE)
<1>1. /\ clock \in Nat /\ clock <= MaxClock /\ mLastUpdate_ms \in 0..(WORD - 1)
      /\ LastUpdate \in Nat
      /\ time \in 0..(WORD - 1) /\ t1 \in 0..(WORD - 1) /\ end \in 0..(WORD - 1)
  BY Sizes DEF IInv, LocalsInv, MembersInv
<1>2. /\ millis \in 0..(WORD - 1) /\ Ago \in 0..(WORD - 1)
      /\ LastUpdate + Ago = clock /\ (Aligned => millis = clock)
  BY <1>1, Times
<1>3. /\ Left \in Nat /\ Left <= Ago
      /\ Accounted = clock - Left /\ Left <= clock
  <2>1. CASE purpose = "account"
    <3>1. Left = end - t1 /\ Accounted = clock - (end - t1)
      BY <2>1 DEF Left, Accounted
    <3>2. t1 <= end /\ Left <= clock /\ pc # "idle"
      BY <2>1 DEF IInv, LocalsInv
    <3>3. Left <= Ago
      BY <3>2 DEF IInv, LocalsInv
    <3>. QED
      BY <1>1, <3>1, <3>2, <3>3, Sizes
  <2>2. CASE purpose # "account"
    <3>1. Left = 0 /\ Accounted = clock
      BY <2>2 DEF Left, Accounted
    <3>. QED
      BY <1>1, <1>2, <3>1
  <2>. QED
    BY <2>1, <2>2
<1>4. /\ Slack \in Nat /\ (Aligned => Slack = 0) /\ (~Aligned => Slack = MINUTE)
  BY Sizes DEF Slack
<1>. QED
  BY <1>1, <1>2, <1>3, <1>4

(* The time on air before a time grows with it, never faster. *)
LEMMA OnAirGrows ==
  ASSUME AiredInv, clock \in Nat, clock <= MaxClock
  PROVE  /\ \A x \in Int : x <= clock => OnAir(x) \in Nat
         /\ \A x, y \in Int :
              x <= y /\ y <= clock =>
                OnAir(x) <= OnAir(y) /\ OnAir(y) <= OnAir(x) + (y - x)
         /\ \A x \in Nat : x <= clock => OnAir(x) = aired[x]
         /\ \A x \in Nat : x <= clock => OnAir(x) <= x
<1>1. /\ aired[0] = 0 /\ MaxClock \in Nat
      /\ \A c \in 0..MaxClock : aired[c] \in Nat
      /\ \A c, d \in 0..MaxClock :
           c <= d => aired[c] <= aired[d] /\ aired[d] <= aired[c] + (d - c)
  BY Sizes DEF AiredInv
<1>2. ASSUME NEW x \in Int, x <= clock PROVE OnAir(x) \in Nat
  BY <1>1, <1>2 DEF OnAir
<1>3. ASSUME NEW x \in Int, NEW y \in Int, x <= y, y <= clock
      PROVE  OnAir(x) <= OnAir(y) /\ OnAir(y) <= OnAir(x) + (y - x)
  <2>. DEFINE cut(z) == IF z <= 0 THEN 0 ELSE z
  <2>1. ASSUME NEW z \in Int, z <= clock
        PROVE  cut(z) \in 0..MaxClock /\ OnAir(z) = aired[cut(z)]
    BY <1>1, <2>1 DEF OnAir
  <2>2. cut(x) <= cut(y) /\ cut(y) - cut(x) <= y - x /\ x <= clock
    BY <1>3
  <2>. HIDE DEF cut
  <2>3. /\ cut(x) \in 0..MaxClock /\ cut(y) \in 0..MaxClock
        /\ OnAir(x) = aired[cut(x)] /\ OnAir(y) = aired[cut(y)]
    BY <1>3, <2>1, <2>2
  <2>4. /\ aired[cut(x)] \in Nat /\ aired[cut(y)] \in Nat
        /\ aired[cut(x)] <= aired[cut(y)]
        /\ aired[cut(y)] <= aired[cut(x)] + (cut(y) - cut(x))
    BY <1>1, <2>2, <2>3
  <2>. QED
    BY <1>1, <1>3, <2>2, <2>3, <2>4
<1>4. ASSUME NEW x \in Nat, x <= clock PROVE OnAir(x) = aired[x]
  BY <1>1 DEF OnAir
<1>5. ASSUME NEW x \in Nat, x <= clock PROVE OnAir(x) <= x
  <2>1. OnAir(0) = 0
    BY DEF OnAir
  <2>2. OnAir(x) <= OnAir(0) + (x - 0) /\ OnAir(x) \in Nat
    BY <1>2, <1>3, <1>5
  <2>. QED
    BY <2>1, <2>2
<1>. QED
  BY <1>2, <1>3, <1>4, <1>5

(* Nothing is accounted for after the current minute, give or take Slack.    *)
LEMMA NothingAfterCurrent ==
  ASSUME IInv, NEW x \in Int, LastUpdate + MINUTE + Slack <= x, x <= Accounted
  PROVE  OnAir(x) = OnAir(Accounted)
<1>. DEFINE over == LastUpdate + MINUTE + Slack
<1>1. /\ Accounted \in Nat /\ Accounted <= clock /\ clock \in Nat
      /\ clock <= MaxClock /\ over \in Nat
  BY Clocks, Sizes
<1>2. aired[Accounted] = aired[over]
  <2>1. over <= Accounted
    BY <1>1
  <2>. QED
    BY <2>1 DEF IInv, CurrentInv
<1>. HIDE DEF over
<1>3. over <= x
  BY DEF over
<1>4. /\ OnAir(over) = aired[over] /\ OnAir(Accounted) = aired[Accounted]
      /\ OnAir(over) <= OnAir(x) /\ OnAir(x) <= OnAir(Accounted)
      /\ OnAir(x) \in Nat /\ OnAir(Accounted) \in Nat
  <2>1. /\ \A y \in Int : y <= clock => OnAir(y) \in Nat
        /\ \A y, z \in Int : y <= z /\ z <= clock => OnAir(y) <= OnAir(z)
        /\ \A y \in Nat : y <= clock => OnAir(y) = aired[y]
    BY <1>1, OnAirGrows DEF IInv
  <2>2. over <= Accounted /\ over <= clock /\ x <= clock
    BY <1>1, <1>3
  <2>. QED
    BY <1>1, <1>3, <2>1, <2>2
<1>. QED
  BY <1>2, <1>4

(* The buffer holds N minutes, each of at most MINUTE ms. *)
LEMMA FullBuffer ==
  ASSUME MembersInv
  PROVE  /\ ~isEmpty(mBuf) /\ size(mBuf) = N
         /\ Contents(mBuf) \in Seq(Item) /\ Len(Contents(mBuf)) = N
         /\ \A k \in 1..N : Contents(mBuf)[k] \in 0..MINUTE
<1>1. WellFormed(mBuf) /\ mBuf.mFull /\ N >= 1 /\ N \in Nat
  BY Sizes DEF MembersInv
<1>2. size(mBuf) = N /\ ~isEmpty(mBuf)
  BY <1>1 DEF size, isEmpty
<1>3. /\ Contents(mBuf) \in Seq(Item) /\ Len(Contents(mBuf)) = N
  BY <1>1, <1>2, ContentsType
<1>4. \A k \in 1..N : Contents(mBuf)[k] \in Item
  BY <1>1, <1>3
<1>. QED
  BY <1>2, <1>3, <1>4, SlotAssumption

(* A cut is a time that is accounted for. *)
LEMMA CutFacts ==
  ASSUME IInv, NEW b \in [1..N + 1 -> Int], Cuts(b)
  PROVE  /\ b[1] <= b[N] /\ b[N] <= Accounted /\ b[1] \in Int /\ b[N] \in Int
         /\ OnAir(b[1]) \in Nat /\ OnAir(b[1]) <= OnAir(b[N])
         /\ OnAir(b[N]) <= OnAir(Accounted) /\ OnAir(b[N]) \in Nat
         /\ OnAir(Accounted) \in Nat
         /\ Contents(mBuf)[N] = OnAir(Accounted) - OnAir(b[N])
         /\ LastUpdate <= b[N] /\ b[N] <= LastUpdate + Slack
         /\ LastUpdate + MINUTE - HOUR <= b[1]
         /\ b[1] <= LastUpdate + MINUTE - HOUR + Slack
<1>1. /\ clock \in Nat /\ clock <= MaxClock /\ Accounted \in Nat
      /\ Accounted <= clock /\ LastUpdate \in Nat
      /\ Slack \in Nat /\ Slack <= MINUTE
  <2>1. /\ clock \in Nat /\ clock <= MaxClock /\ LastUpdate \in Nat
        /\ Left \in Nat /\ Accounted \in Nat /\ Accounted + Left = clock
        /\ Slack \in Nat /\ (Aligned => Slack = 0) /\ (~Aligned => Slack = MINUTE)
    BY Clocks
  <2>2. MINUTE \in Nat
    BY Sizes
  <2>3. Accounted <= clock
    BY <2>1
  <2>4. Slack <= MINUTE
    BY <2>1, <2>2
  <2>. QED
    BY <2>1, <2>3, <2>4
<1>2. N \in Nat /\ N >= 2 /\ MINUTE \in Nat /\ HOUR \in Nat /\ 2 * MINUTE <= HOUR
  BY Sizes
<1>3. 1 \in 1..N /\ N \in 1..N /\ N + 1 \in 1..N + 1
  BY <1>2
<1>4. Began(N) = LastUpdate /\ Began(1) = LastUpdate + MINUTE - HOUR
  BY <1>1, BeganFacts
<1>5. /\ b[1] \in Int /\ b[N] \in Int /\ b[N] <= Accounted
      /\ LastUpdate <= b[N] /\ b[N] <= LastUpdate + Slack
      /\ LastUpdate + MINUTE - HOUR <= b[1]
      /\ b[1] <= LastUpdate + MINUTE - HOUR + Slack
      /\ Contents(mBuf)[N] = OnAir(Accounted) - OnAir(b[N])
  BY <1>2, <1>3, <1>4 DEF Cuts
<1>6. b[1] <= b[N]
  BY <1>1, <1>2, <1>5
<1>7. /\ OnAir(b[1]) \in Nat /\ OnAir(b[1]) <= OnAir(b[N])
      /\ OnAir(b[N]) <= OnAir(Accounted) /\ OnAir(b[N]) \in Nat
      /\ OnAir(Accounted) \in Nat
  <2>1. /\ \A x \in Int : x <= clock => OnAir(x) \in Nat
        /\ \A x, y \in Int : x <= y /\ y <= clock => OnAir(x) <= OnAir(y)
    BY <1>1, OnAirGrows DEF IInv
  <2>2. Accounted \in Int /\ b[N] <= clock /\ b[1] <= clock
    BY <1>1, <1>5, <1>6
  <2>. QED
    BY <1>1, <1>5, <1>6, <2>1, <2>2
<1>. QED
  BY <1>5, <1>6, <1>7
-----------------------------------------------------------------------------
(* One lemma per action: each preserves IInv. *)

(* The times do not change when neither the clock nor the members do. *)
LEMMA TimesFrame ==
  ASSUME clock' = clock, mLastUpdate_ms' = mLastUpdate_ms
  PROVE  /\ millis' = millis /\ Ago' = Ago /\ LastUpdate' = LastUpdate
         /\ (Aligned' <=> Aligned) /\ Slack' = Slack
         /\ \A k : Began(k)' = Began(k)
<1>1. millis' = millis /\ (Aligned' <=> Aligned)
  BY DEF millis, Aligned
<1>2. Ago' = Ago
  BY <1>1 DEF Ago
<1>3. LastUpdate' = LastUpdate
  BY <1>2 DEF LastUpdate
<1>. QED
  BY <1>1, <1>2, <1>3 DEF Slack, Began

(* The accounts stay right when only locals change. *)
LEMMA LocalsFrame ==
  ASSUME IInv, aired' = aired, clock' = clock, UNCHANGED members,
         Accounted' = Accounted, LocalsInv', PassedInv'
  PROVE  IInv'
<1>1. /\ mLastUpdate_ms' = mLastUpdate_ms /\ mBuf' = mBuf /\ mTime_ms' = mTime_ms
  BY DEF members
<1>2. /\ LastUpdate' = LastUpdate /\ Slack' = Slack
      /\ \A k : Began(k)' = Began(k)
  BY <1>1, TimesFrame
<1>3. AiredInv' /\ MembersInv' /\ CurrentInv'
  BY <1>1, <1>2 DEF IInv, AiredInv, MembersInv, CurrentInv
<1>4. SharesInv'
  <2>1. PICK b \in [1..N + 1 -> Int] : Cuts(b)
    BY DEF IInv, SharesInv
  <2>2. \A x : OnAir(x)' = OnAir(x)
    BY DEF OnAir
  <2>3. Cuts(b)'
    BY <1>1, <1>2, <2>1, <2>2 DEF Cuts
  <2>. QED
    BY <2>3 DEF SharesInv
<1>. QED
  BY <1>3, <1>4 DEF IInv

LEMMA SendMsgStep ==
  ASSUME IInv, SendMsg, millis < LastMinute
  PROVE  IInv'
<1>1. /\ purpose # "account" /\ pc = "idle" /\ pc' = "roll" /\ purpose' = "gate"
      /\ clock' = clock /\ aired' = aired /\ UNCHANGED members /\ time' = millis
      /\ t1' = t1 /\ end' = end
  BY DEF IInv, LocalsInv, SendMsg, CallUpdate
<1>2. millis' = millis /\ Ago' = Ago /\ millis \in 0..(WORD - 1) /\ Ago \in Nat
  BY <1>1, TimesFrame, Clocks DEF members
<1>3. Left' = 0 /\ Accounted' = Accounted
  BY <1>1 DEF Left, Accounted
<1>4. LocalsInv'
  BY <1>1, <1>2, <1>3 DEF IInv, LocalsInv, Labels, Purposes
<1>5. PassedInv'
  BY <1>1 DEF PassedInv
<1>. QED
  BY <1>1, <1>3, <1>4, <1>5, LocalsFrame

LEMMA LimitReachedStep ==
  ASSUME IInv, LimitReached
  PROVE  IInv'
<1>1. /\ pc = "gate" /\ pc' = "idle" /\ purpose = "gate" /\ purpose' = "gate"
      /\ clock' = clock /\ aired' = aired /\ UNCHANGED members /\ time' = time
      /\ t1' = t1 /\ end' = end
  BY DEF IInv, LocalsInv, LimitReached
<1>2. Accounted' = Accounted
  BY <1>1 DEF Accounted
<1>3. LocalsInv'
  BY <1>1 DEF IInv, LocalsInv, Labels, Purposes
<1>4. PassedInv'
  BY <1>1 DEF PassedInv
<1>. QED
  BY <1>1, <1>2, <1>3, <1>4, LocalsFrame

(* While update(time) runs, time is Left ago. *)
LEMMA ElapsedIs ==
  ASSUME IInv, pc \in {"roll", "shift"}
  PROVE  Elapsed = Ago - Left /\ Elapsed \in Nat /\ Elapsed \in 0..(WORD - 1)
<1>1. /\ millis \in 0..(WORD - 1) /\ mLastUpdate_ms \in 0..(WORD - 1)
      /\ Ago \in Nat /\ Left \in Nat /\ Left <= Ago /\ Ago < WORD
      /\ time \in 0..(WORD - 1)
  BY Clocks, Sizes
<1>2. time = millis - Left
  BY <1>1 DEF IInv, LocalsInv, Left
<1>3. Ago = IF millis >= mLastUpdate_ms THEN millis - mLastUpdate_ms
            ELSE millis - mLastUpdate_ms + WORD
  BY <1>1, Diff DEF Ago
<1>4. /\ Elapsed = IF time >= mLastUpdate_ms THEN time - mLastUpdate_ms
                   ELSE time - mLastUpdate_ms + WORD
      /\ Elapsed \in 0..(WORD - 1)
  BY <1>1, Diff DEF Elapsed
<1>. QED
  BY <1>1, <1>2, <1>3, <1>4, Sizes

LEMMA UpdateReturnsStep ==
  ASSUME IInv, UpdateReturns
  PROVE  IInv'
<1>1. /\ pc = "shift" /\ purpose' = purpose
      /\ clock' = clock /\ aired' = aired /\ UNCHANGED members /\ time' = time
      /\ t1' = t1 /\ end' = end /\ purpose \in Purposes
      /\ pc' = CASE purpose = "gate" -> "gate"
                 [] purpose = "account" -> "add"
                 [] purpose = "log" -> "idle"
  BY DEF UpdateReturns, IInv, LocalsInv
<1>2. Ago < Left + MINUTE /\ Left <= Ago
  <2>1. Elapsed < MINUTE /\ Elapsed = Ago - Left
    BY <1>1, ElapsedIs DEF UpdateReturns
  <2>. QED
    BY <2>1, Clocks, Sizes
<1>3. /\ millis' = millis /\ Ago' = Ago /\ (Aligned' <=> Aligned)
      /\ Left' = Left /\ Accounted' = Accounted
  BY <1>1, TimesFrame DEF members, Left, Accounted
<1>4. /\ purpose = "gate" => pc' = "gate"
      /\ purpose = "account" => pc' = "add"
      /\ purpose = "log" => pc' = "idle"
  BY <1>1
<1>5. LocalsInv'
  BY <1>1, <1>2, <1>3, <1>4 DEF IInv, LocalsInv, Labels, Purposes
<1>6. PassedInv'
  BY <1>1, <1>3 DEF IInv, PassedInv, members
<1>. QED
  BY <1>1, <1>3, <1>5, <1>6, LocalsFrame

(* As time goes on, the members still mean what they did. *)
LEMMA TimeGoesOn ==
  ASSUME IInv, NEW d \in Nat, clock' = clock + d, UNCHANGED members,
         millis' = IF millis + d < WORD THEN millis + d ELSE millis + d - WORD,
         Ago + d < WORD
  PROVE  /\ Ago' = Ago + d /\ Ago' \in 0..(WORD - 1)
         /\ LastUpdate' = LastUpdate
         /\ \A k : Began(k)' = Began(k)
         /\ Aligned' => Aligned
         /\ Slack \in Nat /\ Slack' \in Nat /\ Slack <= Slack'
         /\ MembersInv'
<1>1. /\ millis \in 0..(WORD - 1) /\ mLastUpdate_ms \in 0..(WORD - 1)
      /\ mLastUpdate_ms' = mLastUpdate_ms /\ mBuf' = mBuf /\ mTime_ms' = mTime_ms
      /\ clock \in Nat /\ MINUTE \in Nat /\ WORD \in Nat
      /\ LastUpdate \in Nat /\ LastUpdate + Ago = clock /\ Ago \in Nat
  BY Clocks, Sizes DEF members
<1>2. Ago = (millis - mLastUpdate_ms) % WORD
  BY DEF Ago
<1>3. Ago' = (millis' - mLastUpdate_ms) % WORD
  BY <1>1 DEF Ago
<1>4. Ago' = Ago + d
  BY <1>1, <1>2, <1>3, FurtherBack
<1>5. LastUpdate' = LastUpdate
  <2>1. LastUpdate = clock - Ago
    BY DEF LastUpdate
  <2>2. LastUpdate' = (clock + d) - (Ago + d)
    BY <1>4 DEF LastUpdate
  <2>. QED
    BY <1>1, <2>1, <2>2
<1>6. \A k : Began(k)' = Began(k)
  BY <1>5 DEF Began
<1>7. Aligned' => Aligned
  BY <1>1 DEF Aligned
<1>8. Slack \in Nat /\ Slack' \in Nat /\ Slack <= Slack'
  BY <1>1, <1>7 DEF Slack
<1>9. MembersInv'
  BY <1>1, <1>5 DEF IInv, MembersInv
<1>. QED
  BY <1>1, <1>4, <1>5, <1>6, <1>7, <1>8, <1>9

LEMMA TickStep ==
  ASSUME IInv, Tick, Ago < WORD - MINUTE
  PROVE  IInv'
<1>1. /\ purpose # "account" /\ purpose' = purpose /\ pc = "idle" /\ pc' = pc
      /\ clock' = clock + 1 /\ clock \in Nat /\ clock < MaxClock
      /\ MaxClock \in Nat /\ MINUTE \in Nat /\ MINUTE >= 1 /\ WORD \in Nat
      /\ aired' = aired /\ UNCHANGED members /\ UNCHANGED <<time, t1, end>>
      /\ LastUpdate \in Nat /\ LastUpdate <= clock
  BY Sizes, Clocks DEF IInv, LocalsInv, Tick
<1>2. /\ Ago' = Ago + 1 /\ LastUpdate' = LastUpdate
      /\ \A k : Began(k)' = Began(k)
      /\ Slack \in Nat /\ Slack' \in Nat /\ Slack <= Slack' /\ MembersInv'
  <2>1. Ago + 1 < WORD /\ 1 \in 0..(WORD - 1)
    BY <1>1, Clocks
  <2>2. millis' = IF millis + 1 < WORD THEN millis + 1 ELSE millis + 1 - WORD
    BY <1>1, <2>1, Plus DEF millis
  <2>. QED
    BY <1>1, <2>1, <2>2, TimeGoesOn
<1>3. Accounted = clock /\ Accounted' = clock + 1
  BY <1>1 DEF Accounted
<1>4. /\ \A c \in 0..MaxClock : clock <= c => aired[c] = aired[clock]
      /\ aired[clock + 1] = aired[clock] /\ aired[0] = 0
  BY <1>1 DEF IInv, AiredInv
<1>5. AiredInv'
  <2>1. \A c \in 0..MaxClock : clock + 1 <= c => aired[c] = aired[clock + 1]
    BY <1>1, <1>4
  <2>. QED
    BY <1>1, <2>1 DEF IInv, AiredInv
<1>6. LocalsInv'
  BY <1>1 DEF IInv, LocalsInv
<1>7. \A x : OnAir(x)' = OnAir(x)
  BY <1>1 DEF OnAir
<1>8. OnAir(clock + 1) = OnAir(clock) /\ OnAir(clock) = aired[clock]
  BY <1>1, <1>4 DEF OnAir
<1>9. CurrentInv'
  <2>1. PICK s \in Nat : s = Slack' /\ Slack <= s
    BY <1>2
  <2>. DEFINE over == LastUpdate + MINUTE + s
  <2>2. over \in Nat /\ over > 0 /\ LastUpdate + MINUTE + Slack <= over
    <3>1. Slack <= s /\ Slack \in Nat
      BY <1>2, <2>1
    <3>. QED
      BY <1>1, <3>1
  <2>3. over <= clock => aired[clock] = aired[over]
    <3>1. SUFFICES ASSUME over <= clock PROVE aired[clock] = aired[over]
      OBVIOUS
    <3>2. OnAir(over) = OnAir(clock)
      BY <1>3, <2>2, <3>1, NothingAfterCurrent
    <3>3. OnAir(over) = aired[over]
      BY <2>2 DEF OnAir
    <3>. QED
      BY <1>8, <3>2, <3>3
  <2>. HIDE DEF over
  <2>4. over <= clock + 1 => over <= clock \/ over = clock + 1
    <3>1. over \in Nat /\ clock \in Nat
      BY <1>1, <2>2
    <3>. QED
      BY <3>1
  <2>5. over <= clock + 1 => aired[clock + 1] = aired[over]
    BY <1>4, <2>3, <2>4
  <2>6. (LastUpdate + MINUTE + Slack)' = over
    BY <1>2, <2>1 DEF over
  <2>. QED
    BY <1>1, <1>3, <2>5, <2>6 DEF CurrentInv
<1>10. SharesInv'
  <2>1. PICK b \in [1..N + 1 -> Int] : Cuts(b)
    BY DEF IInv, SharesInv
  <2>b. PICK e \in [1..N + 1 -> Int] : e = [b EXCEPT ![N + 1] = clock + 1]
    <3>1. N + 1 \in 1..N + 1 /\ clock + 1 \in Int
      BY <1>1, Sizes
    <3>. QED
      BY <3>1
  <2>2. /\ e[N + 1] = clock + 1 /\ 1 \in 1..N
        /\ \A k \in 1..N : e[k] = b[k] /\ b[k] \in Int /\ Began(k) \in Int
    <3>1. e[N + 1] = clock + 1 /\ 1 \in 1..N
      BY <2>b, Sizes
    <3>2. ASSUME NEW k \in 1..N
          PROVE  e[k] = b[k] /\ b[k] \in Int /\ Began(k) \in Int
      <4>1. k \in 1..N + 1 /\ k # N + 1 /\ k \in Int
        BY Sizes
      <4>2. LastUpdate \in Int
        BY <1>1
      <4>3. Began(k) \in Int
        BY <4>1, <4>2, BeganFacts
      <4>. QED
        BY <2>b, <4>1, <4>3
    <3>. QED
      BY <3>1, <3>2
  <2>3. \A k \in 1..N + 1 : OnAir(e[k]) = OnAir(b[k])
    <3>1. b[N + 1] = clock /\ N \in Nat
      BY <1>3, <2>1, Sizes DEF Cuts
    <3>2. OnAir(e[N + 1]) = OnAir(b[N + 1])
      BY <1>8, <2>2, <3>1
    <3>3. \A k \in 1..N + 1 : k = N + 1 \/ k \in 1..N
      BY <3>1
    <3>. QED
      BY <2>2, <3>2, <3>3
  <2>4. ASSUME NEW k \in 1..N
        PROVE  /\ Began(k) <= e[k] /\ e[k] <= Began(k) + Slack'
               /\ e[k] <= clock + 1
               /\ Contents(mBuf)[k] = OnAir(e[k + 1]) - OnAir(e[k])
    <3>1. /\ Began(k) <= b[k] /\ b[k] <= Began(k) + Slack /\ b[k] <= clock
          /\ Contents(mBuf)[k] = OnAir(b[k + 1]) - OnAir(b[k])
      BY <1>3, <2>1 DEF Cuts
    <3>2. k \in 1..N + 1 /\ k + 1 \in 1..N + 1
      BY Sizes
    <3>3. e[k] = b[k] /\ b[k] \in Int /\ Began(k) \in Int
      BY <2>2
    <3>4. OnAir(e[k]) = OnAir(b[k]) /\ OnAir(e[k + 1]) = OnAir(b[k + 1])
      BY <2>3, <3>2
    <3>5. b[k] <= Began(k) + Slack' /\ b[k] <= clock + 1
      BY <1>1, <1>2, <3>1, <3>3
    <3>. QED
      BY <3>1, <3>3, <3>4, <3>5
  <2>5. mTime_ms = OnAir(clock + 1) - OnAir(e[1])
    BY <1>3, <1>8, <2>1, <2>2 DEF Cuts
  <2>6. mBuf' = mBuf /\ mTime_ms' = mTime_ms
    BY <1>1 DEF members
  <2>7. Cuts(e)'
    BY <1>2, <1>3, <1>7, <2>2, <2>4, <2>5, <2>6 DEF Cuts
  <2>. QED
    BY <2>2, <2>7 DEF SharesInv
<1>11. PassedInv'
  BY <1>1 DEF PassedInv
<1>. QED
  BY <1>2, <1>5, <1>6, <1>9, <1>10, <1>11 DEF IInv

(* Rounding to the nearest ppm is monotonic. *)
LEMMA RoundMono ==
  ASSUME NEW x \in Nat, NEW y \in Nat, x <= y
  PROVE  ppm(x) \in Nat /\ ppm(y) \in Nat /\ ppm(x) <= ppm(y)
<1>. DEFINE h == HOUR \div 2
            a == x * FULL + h
            b == y * FULL + h
            p == a \div HOUR
            q == b \div HOUR
<1>1. HOUR \in Nat \ {0} /\ FULL \in Nat
  BY Sizes
<1>2. h \in Nat
  BY <1>1
<1>. HIDE DEF h
<1>3. x * FULL <= y * FULL /\ x * FULL \in Nat /\ y * FULL \in Nat
  BY <1>1, TimesMono
<1>4. a \in Nat /\ b \in Nat /\ a <= b
  BY <1>2, <1>3
<1>. HIDE DEF a, b
<1>5. /\ p \in Nat /\ p * HOUR <= a /\ q \in Nat /\ b < q * HOUR + HOUR
  BY <1>1, <1>4, DivMod
<1>. HIDE DEF p, q
<1>6. ~(q + 1 <= p)
  <2>1. SUFFICES ASSUME q + 1 <= p PROVE FALSE
    OBVIOUS
  <2>2. (q + 1) * HOUR <= p * HOUR
    BY <1>1, <1>5, <2>1, TimesMono
  <2>3. (q + 1) * HOUR = q * HOUR + HOUR
    BY <1>1, <1>5
  <2>. QED
    BY <1>1, <1>4, <1>5, <2>2, <2>3
<1>7. ppm(x) = p /\ ppm(y) = q
  BY DEF ppm, p, q, a, b, h
<1>. QED
  BY <1>5, <1>6, <1>7

(* The gate compares the ppm of mTime_ms with the limit: saturation does not *)
(* matter, as no limit is above PPM_MAX.                                     *)
LEMMA GateCompares ==
  ASSUME mTime_ms \in Nat
  PROVE  isLimitReached <=> ppm(mTime_ms) >= LIMIT
<1>1. ppm(mTime_ms) \in Nat /\ LIMIT \in Nat /\ PPM_MAX \in Nat /\ LIMIT <= PPM_MAX
  BY RoundMono, Sizes
<1>. QED
  BY <1>1 DEF isLimitReached, getTime_ppm

(* What a transmission of d ms leaves of the history. *)
LEMMA TransmitAired ==
  ASSUME AiredInv, clock \in Nat, NEW d \in Nat, clock + d <= MaxClock,
         aired' = [c \in 0..MaxClock |->
                     IF c <= clock THEN aired[c]
                     ELSE aired[clock] + (IF c <= clock + d THEN c - clock ELSE d)],
         clock' = clock + d
  PROVE  /\ AiredInv'
         /\ \A x \in Int : x <= clock => OnAir(x)' = OnAir(x)
         /\ \A c \in clock..(clock + d) : aired'[c] = aired'[clock] + (c - clock)
<1>1. MaxClock \in Nat /\ clock <= MaxClock
  BY Sizes
<1>2. /\ \A c \in 0..MaxClock : aired[c] \in Nat
      /\ aired[0] = 0
      /\ \A a, c \in 0..MaxClock :
           a <= c => aired[a] <= aired[c] /\ aired[c] <= aired[a] + (c - a)
  BY DEF AiredInv
<1>3. \A c \in 0..MaxClock :
        aired'[c] = IF c <= clock THEN aired[c]
                    ELSE IF c <= clock + d THEN aired[clock] + (c - clock)
                    ELSE aired[clock] + d
  BY <1>1
<1>4. clock \in 0..MaxClock /\ aired[clock] \in Nat /\ clock + d \in 0..MaxClock
  BY <1>1, <1>2
<1>5. aired' \in [0..MaxClock -> Nat]
  <2>1. ASSUME NEW c \in 0..MaxClock PROVE aired'[c] \in Nat
    <3>1. c \in Int /\ aired[c] \in Nat /\ aired[clock] \in Nat
      BY <1>1, <1>2, <1>4
    <3>2. CASE c <= clock
      BY <1>3, <3>1, <3>2
    <3>3. CASE ~(c <= clock) /\ c <= clock + d
      BY <1>3, <3>1, <3>3
    <3>4. CASE ~(c <= clock) /\ ~(c <= clock + d)
      BY <1>3, <3>1, <3>4
    <3>. QED
      BY <3>2, <3>3, <3>4
  <2>. QED
    BY <2>1
<1>6. aired'[0] = 0
  BY <1>1, <1>2, <1>3
<1>7. ASSUME NEW a \in 0..MaxClock, NEW c \in 0..MaxClock, a <= c
      PROVE  aired'[a] <= aired'[c] /\ aired'[c] <= aired'[a] + (c - a)
  <2>1. a \in Nat /\ c \in Nat
    BY <1>1
  <2>2. /\ aired[a] \in Nat /\ aired[c] \in Nat
        /\ aired[a] <= aired[c] /\ aired[c] <= aired[a] + (c - a)
        /\ a <= clock => /\ aired[a] <= aired[clock]
                         /\ aired[clock] <= aired[a] + (clock - a)
    BY <1>2, <1>4, <1>7
  <2>3. /\ aired'[a] = IF a <= clock THEN aired[a]
                       ELSE IF a <= clock + d THEN aired[clock] + (a - clock)
                       ELSE aired[clock] + d
        /\ aired'[c] = IF c <= clock THEN aired[c]
                       ELSE IF c <= clock + d THEN aired[clock] + (c - clock)
                       ELSE aired[clock] + d
    BY <1>3
  <2>4. CASE c <= clock
    BY <1>1, <1>4, <1>7, <2>1, <2>2, <2>3, <2>4
  <2>5. CASE a <= clock /\ clock < c
    <3>1. aired'[a] = aired[a] /\ aired[a] <= aired[clock]
          /\ aired[clock] <= aired[a] + (clock - a)
      BY <2>2, <2>3, <2>5
    <3>2. aired'[c] >= aired[clock] /\ aired'[c] <= aired[clock] + (c - clock)
      BY <1>1, <1>4, <2>1, <2>3, <2>5
    <3>3. aired'[c] \in Nat
      BY <1>5
    <3>. QED
      BY <1>1, <1>4, <2>1, <2>2, <3>1, <3>2, <3>3
  <2>6. CASE clock < a
    BY <1>1, <1>4, <1>7, <2>1, <2>2, <2>3, <2>6
  <2>. QED
    BY <1>1, <1>7, <2>1, <2>4, <2>5, <2>6
<1>8. ASSUME NEW c \in 0..MaxClock, clock + d <= c
      PROVE  aired'[c] = aired'[clock + d]
  <2>1. aired'[clock + d] = aired[clock] + d
    BY <1>1, <1>3, <1>4
  <2>2. aired'[c] = aired[clock] + d
    BY <1>1, <1>3, <1>4, <1>8
  <2>. QED
    BY <2>1, <2>2
<1>9. AiredInv'
  <2>1. /\ aired' \in [0..MaxClock -> Nat] /\ aired'[0] = 0
        /\ \A a, c \in 0..MaxClock :
             a <= c => aired'[a] <= aired'[c] /\ aired'[c] <= aired'[a] + (c - a)
    BY <1>5, <1>6, <1>7
  <2>2. \A c \in 0..MaxClock : clock' <= c => aired'[c] = aired'[clock']
    BY <1>8
  <2>. QED
    BY <2>1, <2>2 DEF AiredInv
<1>10. \A x \in Int : x <= clock => OnAir(x)' = OnAir(x)
  BY <1>1, <1>3 DEF OnAir
<1>11. \A c \in clock..(clock + d) : aired'[c] = aired'[clock] + (c - clock)
  BY <1>1, <1>3, <1>4
<1>. QED
  BY <1>9, <1>10, <1>11

(* LastMinute is the last boundary before millis() rolls over. *)
LEMMA LastMinuteIs ==
  /\ LastMinute \in Nat /\ LastMinute < WORD
  /\ \E j \in Nat : LastMinute = j * MINUTE
<1>. DEFINE j == (WORD - 1) \div MINUTE
<1>1. MINUTE \in Nat \ {0} /\ WORD - 1 \in Nat /\ WORD \in Nat
  BY Sizes
<1>2. j \in Nat /\ j * MINUTE <= WORD - 1
  BY <1>1, DivMod
<1>. HIDE DEF j
<1>3. j * MINUTE \in Nat
  BY <1>1, <1>2
<1>4. LastMinute = j * MINUTE
  BY DEF LastMinute, j
<1>. QED
  BY <1>1, <1>2, <1>3, <1>4

LEMMA TransmitStep ==
  ASSUME IInv, NEW d \in 0..MaxTx, Transmit(d), millis + d <= LastMinute,
         Aligned' \/ Short(d)
  PROVE  IInv'
<1>1. /\ pc = "gate" /\ purpose = "gate" /\ clock' = clock + d
      /\ clock + d <= MaxClock /\ UNCHANGED members
      /\ pc' = "roll" /\ purpose' = "account" /\ time' = millis /\ t1' = millis
      /\ end' = (clock + d) % WORD
      /\ ~isLimitReached /\ d \in Nat /\ d \in Int
  BY Sizes DEF IInv, LocalsInv, Transmit, CallUpdate
<1>2. /\ clock \in Nat /\ millis \in 0..(WORD - 1) /\ millis \in Nat
      /\ LastUpdate \in Nat
      /\ LastUpdate + Ago = clock /\ Ago \in Nat /\ Left = 0 /\ Accounted = clock
      /\ Ago < MINUTE /\ millis < LastMinute /\ MINUTE \in Nat /\ WORD \in Nat
      /\ HOUR \in Nat /\ 2 * MINUTE <= HOUR /\ HOUR < WORD
      /\ LastMinute \in Nat /\ LastMinute < WORD
  <2>1. /\ Left = 0 /\ Accounted = clock
    BY <1>1 DEF Left, Accounted
  <2>2. Ago < Left + MINUTE /\ millis < LastMinute
    BY <1>1 DEF IInv, LocalsInv
  <2>3. millis \in 0..(WORD - 1) /\ Ago \in 0..(WORD - 1) /\ LastUpdate \in Nat
        /\ LastUpdate + Ago = clock /\ clock \in Nat
    BY Clocks
  <2>. QED
    BY <2>1, <2>2, <2>3, LastMinuteIs, Sizes
<1>3. Ago + d < WORD
  <2>1. CASE Aligned'
    <3>1. clock + d + MINUTE < WORD
      BY <1>1, <2>1 DEF Aligned
    <3>. QED
      BY <1>1, <1>2, <3>1
  <2>2. CASE Short(d)
    <3>1. d <= MINUTE
      BY <2>2 DEF Short
    <3>. QED
      BY <1>1, <1>2, <3>1
  <2>. QED
    BY <2>1, <2>2
<1>4. millis' = millis + d /\ end' = millis + d /\ millis + d < WORD
  <2>1. millis + d < WORD /\ d \in 0..(WORD - 1)
    BY <1>1, <1>2
  <2>2. (clock + d) % WORD = millis + d
    BY <1>2, <2>1, Plus DEF millis
  <2>. QED
    BY <1>1, <2>1, <2>2 DEF millis
<1>5. /\ Ago' = Ago + d /\ LastUpdate' = LastUpdate
      /\ \A k : Began(k)' = Began(k)
      /\ Slack \in Nat /\ Slack' \in Nat /\ Slack <= Slack' /\ MembersInv'
  BY <1>1, <1>3, <1>4, TimeGoesOn
<1>6. /\ AiredInv'
      /\ \A x \in Int : x <= clock => OnAir(x)' = OnAir(x)
      /\ \A c \in clock..(clock + d) : aired'[c] = aired'[clock] + (c - clock)
  BY <1>1, <1>2, TransmitAired DEF IInv, Transmit
<1>7. Left' = d /\ Accounted' = clock
  <2>1. /\ purpose' = "account" /\ end' = millis + d /\ t1' = millis
        /\ clock' = clock + d
    BY <1>1, <1>4
  <2>2. /\ Left' = (millis + d) - millis
        /\ Accounted' = (clock + d) - ((millis + d) - millis)
    BY <2>1 DEF Left, Accounted
  <2>. QED
    BY <1>1, <1>2, <2>2
<1>8. LocalsInv'
  <2>1. clock' \in 0..MaxClock /\ end' \in 0..(WORD - 1)
    BY <1>1, <1>2, <1>4, Sizes
  <2>2. t1' <= end' /\ t1' < LastMinute /\ end' <= LastMinute /\ Left' <= clock'
    BY <1>1, <1>2, <1>4, <1>7
  <2>3. \A c \in clock..clock' : aired'[c] = aired'[clock] + (c - clock)
    BY <1>1, <1>6
  <2>4. Left' <= Ago'
    BY <1>1, <1>2, <1>5, <1>7
  <2>5. LastMinute' = LastMinute
    BY DEF LastMinute
  <2>. QED
    BY <1>1, <1>2, <1>4, <1>7, <2>1, <2>2, <2>3, <2>4, <2>5
       DEF LocalsInv, Labels, Purposes
<1>9. CurrentInv'
  <2>1. PICK s \in Nat : s = Slack'
    BY <1>5
  <2>2. ~(LastUpdate + MINUTE + s <= clock)
    BY <1>2
  <2>3. (LastUpdate + MINUTE + Slack)' = LastUpdate + MINUTE + s
    BY <1>5, <2>1
  <2>. QED
    BY <1>7, <2>2, <2>3 DEF CurrentInv
<1>10. SharesInv'
  <2>1. PICK b \in [1..N + 1 -> Int] : Cuts(b)
    BY DEF IInv, SharesInv
  <2>2. PICK s \in Nat : s = Slack' /\ Slack <= s
    BY <1>5
  <2>3. PICK a \in Nat : a = clock
    BY <1>2
  <2>4. /\ b[N + 1] = a /\ 1 \in 1..N + 1
        /\ \A k \in 1..N + 1 : b[k] \in Int /\ b[k] <= a
    <3>1. b[N + 1] = a /\ (\A k \in 1..N : b[k] <= a)
      BY <1>2, <2>1, <2>3 DEF Cuts
    <3>2. \A k \in 1..N + 1 : k \in 1..N \/ k = N + 1
      BY Sizes
    <3>3. 1 \in 1..N + 1
      BY Sizes
    <3>. QED
      BY <3>1, <3>2, <3>3
  <2>5. /\ \A k \in 1..N + 1 : OnAir(b[k])' = OnAir(b[k])
        /\ OnAir(a)' = OnAir(a)
    BY <1>6, <2>3, <2>4
  <2>6. ASSUME NEW k \in 1..N
        PROVE  /\ Began(k)' <= b[k] /\ b[k] <= Began(k)' + s /\ b[k] <= a
               /\ Contents(mBuf')[k] = OnAir(b[k + 1])' - OnAir(b[k])'
    <3>1. /\ Began(k) <= b[k] /\ b[k] <= Began(k) + Slack
          /\ Contents(mBuf)[k] = OnAir(b[k + 1]) - OnAir(b[k])
      BY <2>1 DEF Cuts
    <3>2. /\ k \in 1..N + 1 /\ k + 1 \in 1..N + 1 /\ k \in Int
      BY Sizes
    <3>3. Began(k) \in Int
      <4>1. LastUpdate \in Int
        BY <1>2
      <4>. QED
        BY <3>2, <4>1, BeganFacts
    <3>4. b[k] <= Began(k) + s
      <4>1. Slack \in Nat /\ Slack <= s /\ b[k] \in Int
        BY <1>5, <2>2, <3>2
      <4>. QED
        BY <3>1, <3>3, <4>1
    <3>. QED
      BY <1>1, <1>5, <2>4, <2>5, <3>1, <3>2, <3>4 DEF members
  <2>7. mTime_ms' = OnAir(a)' - OnAir(b[1])'
    <3>1. mTime_ms = OnAir(a) - OnAir(b[1])
      BY <1>2, <2>1, <2>3 DEF Cuts
    <3>2. mTime_ms' = mTime_ms
      BY <1>1 DEF members
    <3>. QED
      BY <2>4, <2>5, <3>1, <3>2
  <2>8. Cuts(b)'
    BY <1>7, <2>2, <2>3, <2>4, <2>6, <2>7 DEF Cuts
  <2>. QED
    BY <2>8 DEF SharesInv
<1>11. PassedInv'
  <2>1. SUFFICES ASSUME ~Aligned' PROVE mTime_ms + d <= MINUTE
    BY <1>1, <1>7 DEF PassedInv, members
  <2>2. d <= MINUTE /\ ppm(MINUTE - d + 1) >= LIMIT
    BY <2>1 DEF Short
  <2>3. mTime_ms \in Nat
    BY Sizes DEF IInv, MembersInv
  <2>4. ~(ppm(mTime_ms) >= LIMIT)
    BY <1>1, <2>3, GateCompares
  <2>5. SUFFICES ASSUME MINUTE - d + 1 <= mTime_ms PROVE FALSE
    BY <1>1, <1>2, <2>3
  <2>6. MINUTE - d + 1 \in Nat
    BY <1>1, <1>2, <2>2
  <2>. HIDE DEF ppm
  <2>7. /\ ppm(MINUTE - d + 1) \in Nat /\ ppm(mTime_ms) \in Nat
        /\ ppm(MINUTE - d + 1) <= ppm(mTime_ms)
    BY <2>3, <2>5, <2>6, RoundMono
  <2>. QED
    BY <2>2, <2>4, <2>7, Sizes
<1>. QED
  BY <1>5, <1>6, <1>8, <1>9, <1>10, <1>11 DEF IInv
-----------------------------------------------------------------------------
(* update(time) moves the current minute on by w whole minutes. *)
LEMMA MinutesPass ==
  ASSUME IInv, NEW n \in Nat, NEW w \in Nat, w = n * MINUTE, Left + w <= Ago,
         pc \in {"roll", "shift"}, pc' = "shift",
         UNCHANGED <<purpose, time, t1, end, clock, aired>>,
         mLastUpdate_ms' = (mLastUpdate_ms + w) % WORD
  PROVE  /\ LastUpdate' = LastUpdate + w /\ LastUpdate + w <= Accounted
         /\ \A k : Began(k)' = LastUpdate + w + (k - N) * MINUTE
         /\ Slack' = Slack /\ Accounted' = Accounted
         /\ mLastUpdate_ms' \in 0..(WORD - 1)
         /\ LastUpdate' \in Nat /\ LastUpdate' = (LastUpdate' \div MINUTE) * MINUTE
         /\ AiredInv' /\ LocalsInv' /\ CurrentInv'
<1>1. /\ millis \in 0..(WORD - 1) /\ mLastUpdate_ms \in 0..(WORD - 1)
      /\ Ago \in Nat /\ Left \in Nat /\ LastUpdate \in Nat /\ clock \in Nat
      /\ LastUpdate + Ago = clock /\ Accounted + Left = clock
      /\ Accounted \in Nat /\ Slack \in Nat /\ MINUTE \in Nat /\ MINUTE >= 1
  BY Clocks, Sizes
<1>2. millis' = millis /\ Slack' = Slack /\ Accounted' = Accounted /\ Left' = Left
  BY DEF millis, Slack, Aligned, Accounted, Left
<1>3. mLastUpdate_ms' \in 0..(WORD - 1) /\ Ago' = Ago - w
  <2>1. Ago = (millis - mLastUpdate_ms) % WORD /\ Ago >= w
    BY <1>1 DEF Ago
  <2>2. Ago' = (millis - ((mLastUpdate_ms + w) % WORD)) % WORD
    BY <1>2 DEF Ago
  <2>. QED
    BY <1>1, <2>1, <2>2, Nearer
<1>4. LastUpdate' = LastUpdate + w
  <2>1. LastUpdate = clock - Ago /\ LastUpdate' = clock - (Ago - w)
    BY <1>3 DEF LastUpdate
  <2>. QED
    BY <1>1, <2>1
<1>5. \A k : Began(k)' = LastUpdate + w + (k - N) * MINUTE
  BY <1>4 DEF Began
<1>6. LastUpdate + w <= Accounted
  BY <1>1
<1>7. LastUpdate' \in Nat /\ LastUpdate' = (LastUpdate' \div MINUTE) * MINUTE
  <2>1. LastUpdate' = LastUpdate + n * MINUTE
    BY <1>4
  <2>. QED
    BY <2>1, StaysBoundary DEF IInv
<1>8. AiredInv'
  BY DEF IInv, AiredInv
<1>9. LocalsInv'
  <2>1. Left <= Ago - w
    BY <1>1
  <2>2. LastMinute' = LastMinute
    BY DEF LastMinute
  <2>. QED
    BY <1>2, <1>3, <2>1, <2>2 DEF IInv, LocalsInv, Labels
<1>10. CurrentInv'
  <2>. DEFINE over == LastUpdate + w + MINUTE + Slack
  <2>1. /\ over \in Nat /\ over > 0 /\ LastUpdate + MINUTE + Slack <= over
    BY <1>1
  <2>2. (LastUpdate + MINUTE + Slack)' = over
    BY <1>2, <1>4
  <2>. HIDE DEF over
  <2>3. over <= Accounted => aired[over] = aired[Accounted]
    <3>1. SUFFICES ASSUME over <= Accounted PROVE aired[over] = aired[Accounted]
      OBVIOUS
    <3>2. OnAir(over) = OnAir(Accounted)
      BY <2>1, <3>1, NothingAfterCurrent
    <3>3. Accounted > 0
      BY <1>1, <2>1, <3>1
    <3>. QED
      BY <1>1, <2>1, <3>2, <3>3 DEF OnAir
  <2>. QED
    BY <1>2, <2>2, <2>3 DEF CurrentInv
<1>. QED
  BY <1>2, <1>3, <1>4, <1>5, <1>6, <1>7, <1>8, <1>9, <1>10

LEMMA ShiftMinuteStep ==
  ASSUME IInv, ShiftMinute
  PROVE  IInv'
<1>. DEFINE c == Contents(mBuf)
            p == pop_back(mBuf)
<1>1. /\ pc = "shift" /\ pc' = "shift"
      /\ UNCHANGED <<purpose, time, t1, end, clock, aired>>
      /\ mLastUpdate_ms' = (mLastUpdate_ms + MINUTE) % WORD
      /\ Elapsed >= MINUTE
  BY DEF ShiftMinute
<1>2. /\ MINUTE \in Nat /\ MINUTE >= 1 /\ MINUTE = 1 * MINUTE /\ 1 \in Nat
      /\ N \in Nat /\ N >= 2 /\ WORD \in Nat
      /\ LastUpdate \in Nat /\ Slack \in Nat /\ Accounted \in Nat
      /\ clock \in Nat /\ clock <= MaxClock /\ Accounted <= clock
      /\ Left + MINUTE <= Ago
  <2>1. Elapsed = Ago - Left /\ Ago \in Nat /\ Left \in Nat
    BY <1>1, ElapsedIs, Clocks
  <2>. QED
    BY <1>1, <2>1, Clocks, Sizes
<1>3. /\ LastUpdate' = LastUpdate + MINUTE /\ LastUpdate + MINUTE <= Accounted
      /\ \A k : Began(k)' = LastUpdate + MINUTE + (k - N) * MINUTE
      /\ Slack' = Slack /\ Accounted' = Accounted
      /\ mLastUpdate_ms' \in 0..(WORD - 1)
      /\ LastUpdate' \in Nat /\ LastUpdate' = (LastUpdate' \div MINUTE) * MINUTE
      /\ AiredInv' /\ LocalsInv' /\ CurrentInv'
  BY <1>1, <1>2, MinutesPass
<1>4. \A x : OnAir(x)' = OnAir(x)
  BY <1>1 DEF OnAir
<1>5. /\ c \in Seq(Item) /\ Len(c) = N /\ WellFormed(mBuf) /\ ~isEmpty(mBuf)
      /\ \A k \in 1..N : c[k] \in Nat
  BY <1>2, FullBuffer DEF IInv, MembersInv
<1>6. /\ WellFormed(p) /\ Contents(p) = Tail(c) /\ back(mBuf) = c[1]
  <2>1. WellFormed(p) /\ Contents(p) = Tail(c)
    BY <1>5, PopBackContents
  <2>2. back(mBuf) = Head(c)
    BY <1>5, EndsAreBackAndFront
  <2>. QED
    BY <1>2, <1>5, <2>1, <2>2
<1>7. /\ WellFormed(mBuf') /\ Contents(mBuf') = Append(Tail(c), 0)
  <2>1. 0 \in Item /\ mBuf' = push_front(p, 0)
    BY SlotAssumption, Sizes DEF ShiftMinute
  <2>2. Len(Contents(p)) # N
    BY <1>2, <1>5, <1>6
  <2>. HIDE DEF p, c
  <2>. QED
    BY <1>6, <2>1, <2>2, PushFrontContents
<1>8. mTime_ms' = (mTime_ms - c[1]) % WORD
  BY <1>6 DEF ShiftMinute
<1>. HIDE DEF c, p
<1>9. Len(Contents(mBuf')) = N /\ mBuf'.mFull
  <2>1. Len(Contents(mBuf')) = N
    BY <1>2, <1>5, <1>7
  <2>2. size(mBuf') = N /\ (isFull(mBuf') <=> size(mBuf') = N)
    BY <1>7, <2>1, ContentsType, SizeCounts
  <2>. QED
    BY <2>1, <2>2 DEF isFull
<1>10. PICK b \in [1..N + 1 -> Int] : Cuts(b)
  BY DEF IInv, SharesInv
<1>11. /\ b[N + 1] = Accounted
       /\ \A k \in 1..N :
            /\ Began(k) <= b[k] /\ b[k] <= Began(k) + Slack /\ b[k] <= Accounted
            /\ c[k] = OnAir(b[k + 1]) - OnAir(b[k])
       /\ mTime_ms = OnAir(Accounted) - OnAir(b[1])
  BY <1>10 DEF Cuts, c
<1>12. PICK last \in Int :
         /\ LastUpdate + MINUTE <= last /\ last <= LastUpdate + MINUTE + Slack
         /\ last <= Accounted /\ OnAir(last) = OnAir(Accounted)
  <2>1. CASE Accounted <= LastUpdate + MINUTE + Slack
    BY <1>2, <1>3, <2>1
  <2>2. CASE LastUpdate + MINUTE + Slack <= Accounted
    <3>1. LastUpdate + MINUTE + Slack \in Int
      BY <1>2
    <3>2. OnAir(LastUpdate + MINUTE + Slack) = OnAir(Accounted)
      BY <1>2, <2>2, NothingAfterCurrent
    <3>. QED
      BY <1>2, <2>2, <3>1, <3>2
  <2>. QED
    BY <1>2, <2>1, <2>2
<1>13. PICK e \in [1..N + 1 -> Int] :
         e = [k \in 1..N + 1 |-> IF k = N + 1 THEN Accounted
                                 ELSE IF k = N THEN last ELSE b[k + 1]]
  <2>1. ASSUME NEW k \in 1..N + 1, k # N + 1, k # N PROVE b[k + 1] \in Int
    <3>1. k + 1 \in 1..N + 1
      BY <1>2, <2>1
    <3>. QED
      BY <3>1
  <2>2. Accounted \in Int /\ last \in Int
    BY <1>2
  <2>. QED
    BY <2>1, <2>2
<1>14. /\ e[N + 1] = Accounted /\ e[N] = last
       /\ \A k \in 1..N : k # N => e[k] = b[k + 1]
  <2>1. /\ N + 1 \in 1..N + 1 /\ N \in 1..N + 1 /\ N # N + 1
        /\ \A k \in 1..N : k \in 1..N + 1 /\ k # N + 1
    BY <1>2
  <2>. QED
    BY <1>13, <2>1
<1>15. ASSUME NEW k \in 1..N
       PROVE  /\ Began(k)' <= e[k] /\ e[k] <= Began(k)' + Slack
              /\ e[k] <= Accounted
              /\ Contents(mBuf')[k] = OnAir(e[k + 1]) - OnAir(e[k])
  <2>1. CASE k = N
    <3>1. Began(k)' = LastUpdate + MINUTE
      BY <1>2, <1>3, <2>1
    <3>2. Contents(mBuf')[k] = 0
      BY <1>2, <1>5, <1>7, <2>1
    <3>3. OnAir(last) \in Nat
      BY <1>2, <1>12, OnAirGrows DEF IInv
    <3>. QED
      BY <1>2, <1>12, <1>14, <2>1, <3>1, <3>2, <3>3
  <2>2. CASE k # N
    <3>1. k \in Int /\ k + 1 \in 1..N /\ k + 1 \in Int
      BY <1>2, <2>2
    <3>2. Began(k)' = Began(k + 1)
      <4>1. ((k + 1) - N) * MINUTE = MINUTE + (k - N) * MINUTE
        BY <1>2, <3>1
      <4>2. (k - N) * MINUTE \in Int
        BY <1>2, <3>1
      <4>. QED
        BY <1>2, <1>3, <4>1, <4>2 DEF Began
    <3>3. Contents(mBuf')[k] = c[k + 1]
      BY <1>2, <1>5, <1>7, <2>2, <3>1
    <3>4. c[k + 1] = OnAir(b[k + 2]) - OnAir(b[k + 1])
      BY <1>2, <1>11, <3>1
    <3>5. OnAir(e[k + 1]) = OnAir(b[k + 2])
      <4>1. CASE k + 1 = N
        <5>1. e[k + 1] = last
          BY <1>14, <4>1
        <5>2. k + 2 = N + 1 /\ b[N + 1] = Accounted
          BY <1>11, <3>1, <4>1
        <5>. QED
          BY <1>12, <5>1, <5>2
      <4>2. CASE k + 1 # N
        BY <1>2, <1>14, <3>1, <4>2
      <4>. QED
        BY <4>1, <4>2
    <3>. QED
      BY <1>11, <1>14, <2>2, <3>1, <3>2, <3>3, <3>4, <3>5
  <2>. QED
    BY <2>1, <2>2
<1>16. /\ mTime_ms' = OnAir(Accounted) - OnAir(e[1])
       /\ mTime_ms' \in 0..(WORD - 1) /\ mTime_ms' <= mTime_ms
  <2>1. 1 \in 1..N /\ 2 \in 1..N + 1 /\ 1 # N /\ 1 + 1 = 2
    BY <1>2
  <2>2. e[1] = b[2] /\ c[1] = OnAir(b[2]) - OnAir(b[1]) /\ c[1] \in Nat
    BY <1>5, <1>11, <1>14, <2>1
  <2>3. /\ b[2] \in Int /\ b[1] \in Int /\ b[2] <= clock /\ b[1] <= clock
        /\ b[2] <= Accounted
    <3>1. 2 \in 1..N /\ b[1] \in Int /\ b[2] \in Int
      BY <1>2
    <3>2. b[2] <= Accounted /\ b[1] <= Accounted
      BY <1>11, <2>1, <3>1
    <3>. QED
      BY <1>2, <3>1, <3>2
  <2>4. /\ OnAir(b[1]) \in Nat /\ OnAir(b[2]) \in Nat /\ OnAir(Accounted) \in Nat
        /\ OnAir(b[2]) <= OnAir(Accounted)
    <3>1. /\ \A x \in Int : x <= clock => OnAir(x) \in Nat
          /\ \A x, y \in Int : x <= y /\ y <= clock => OnAir(x) <= OnAir(y)
      BY <1>2, OnAirGrows DEF IInv
    <3>2. Accounted \in Int /\ Accounted <= clock
      BY <1>2
    <3>. QED
      BY <2>3, <3>1, <3>2
  <2>5. mTime_ms \in 0..(WORD - 1)
    BY DEF IInv, MembersInv
  <2>. DEFINE rest == OnAir(Accounted) - OnAir(b[2])
  <2>6. mTime_ms - c[1] = rest /\ rest \in 0..(WORD - 1) /\ rest <= mTime_ms
    <3>1. mTime_ms = OnAir(Accounted) - OnAir(b[1])
      BY <1>11
    <3>2. mTime_ms - c[1] = rest
      BY <2>2, <2>4, <3>1
    <3>3. rest \in Nat
      BY <2>4
    <3>. HIDE DEF rest
    <3>. QED
      BY <1>2, <2>2, <2>5, <3>2, <3>3
  <2>. HIDE DEF rest
  <2>7. mTime_ms' = rest
    BY <1>8, <2>6, Small
  <2>. USE DEF rest
  <2>. QED
    BY <2>2, <2>6, <2>7
<1>17. SharesInv'
  <2>1. Cuts(e)'
    BY <1>3, <1>4, <1>14, <1>15, <1>16 DEF Cuts
  <2>. QED
    BY <2>1 DEF SharesInv
<1>18. MembersInv'
  BY <1>3, <1>7, <1>9, <1>16 DEF MembersInv
<1>19. PassedInv'
  <2>1. purpose' = purpose /\ Left' = Left /\ (Aligned' <=> Aligned)
    BY <1>1 DEF Left, Aligned
  <2>2. SUFFICES ASSUME purpose = "account", ~Aligned
                 PROVE  mTime_ms' + Left <= MINUTE
    BY <2>1 DEF PassedInv
  <2>3. mTime_ms + Left <= MINUTE
    BY <2>2 DEF IInv, PassedInv
  <2>4. mTime_ms \in 0..(WORD - 1) /\ Left \in Nat
    BY Clocks DEF IInv, MembersInv
  <2>. QED
    BY <1>2, <1>16, <2>3, <2>4
<1>. QED
  BY <1>3, <1>17, <1>18, <1>19 DEF IInv

LEMMA RollStep ==
  ASSUME IInv, Roll
  PROVE  IInv'
<1>1. /\ pc = "roll" /\ pc' = "shift"
      /\ UNCHANGED <<purpose, time, t1, end, clock, aired>>
  BY DEF Roll
<1>2. /\ Elapsed = Ago - Left /\ Elapsed \in Nat /\ Ago \in Nat /\ Left \in Nat
      /\ clock \in Nat /\ clock <= MaxClock /\ Accounted \in Nat
      /\ Accounted <= clock /\ LastUpdate \in Nat /\ Slack \in Nat
      /\ N \in Nat /\ N >= 2 /\ MINUTE \in Nat /\ MINUTE >= 1
      /\ HOUR \in Nat /\ HOUR >= 1 /\ HOUR = N * MINUTE
  BY <1>1, ElapsedIs, Clocks, Sizes
<1>3. CASE Elapsed < HOUR /\ UNCHANGED members
  <2>1. Accounted' = Accounted /\ Left' = Left
    BY <1>1 DEF Accounted, Left
  <2>2. millis' = millis /\ Ago' = Ago /\ (Aligned' <=> Aligned)
    BY <1>1, <1>3, TimesFrame DEF members
  <2>3. LocalsInv'
    BY <1>1, <2>1, <2>2 DEF IInv, LocalsInv, Labels
  <2>4. PassedInv'
    BY <1>1, <1>3, <2>1, <2>2 DEF IInv, PassedInv, members
  <2>. QED
    BY <1>1, <1>3, <2>1, <2>3, <2>4, LocalsFrame
<1>4. CASE SkipHours
  <2>. DEFINE q == Elapsed \div HOUR
  <2>1. /\ q \in Nat /\ q >= 1 /\ HOUR * q \in Nat
        /\ HOUR <= HOUR * q /\ HOUR * q <= Elapsed
        /\ q * N \in Nat /\ HOUR * q = (q * N) * MINUTE
    <3>1. HOUR \in Nat \ {0} /\ Elapsed >= HOUR
      BY <1>2, <1>4 DEF SkipHours
    <3>2. q \in Nat /\ q * HOUR <= Elapsed /\ Elapsed < q * HOUR + HOUR
      BY <1>2, <3>1, DivMod
    <3>. HIDE DEF q
    <3>3. q >= 1
      BY <1>2, <3>1, <3>2
    <3>4. 1 * HOUR <= q * HOUR
      BY <3>1, <3>2, <3>3, TimesMono
    <3>5. q * N \in Nat /\ HOUR * q = (q * N) * MINUTE
      BY <1>2, <3>2
    <3>. QED
      BY <3>1, <3>2, <3>3, <3>4, <3>5
  <2>2. PICK w \in Nat : w = HOUR * q
    BY <2>1
  <2>3. /\ HOUR <= w /\ Left + w <= Ago
        /\ mLastUpdate_ms' = (mLastUpdate_ms + w) % WORD
        /\ mTime_ms' = 0 /\ mBuf' = fill(clear(mBuf), 0)
    BY <1>2, <1>4, <2>1, <2>2 DEF SkipHours
  <2>4. PICK n \in Nat : w = n * MINUTE
    BY <2>1, <2>2
  <2>. HIDE DEF q
  <2>5. /\ LastUpdate' = LastUpdate + w /\ LastUpdate + w <= Accounted
        /\ \A k : Began(k)' = LastUpdate + w + (k - N) * MINUTE
        /\ Slack' = Slack /\ Accounted' = Accounted
        /\ mLastUpdate_ms' \in 0..(WORD - 1)
        /\ LastUpdate' \in Nat /\ LastUpdate' = (LastUpdate' \div MINUTE) * MINUTE
        /\ AiredInv' /\ LocalsInv' /\ CurrentInv'
    BY <1>1, <2>3, <2>4, MinutesPass
  <2>6. \A x : OnAir(x)' = OnAir(x)
    BY <1>1 DEF OnAir
  <2>7. /\ WellFormed(mBuf') /\ mBuf'.mFull
        /\ Contents(mBuf') = [k \in 1..N |-> 0]
    <3>1. WellFormed(mBuf) /\ 0 \in Item
      BY SlotAssumption, Sizes DEF IInv, MembersInv
    <3>2. WellFormed(clear(mBuf)) /\ Contents(clear(mBuf)) = << >>
      BY <3>1, ClearContents
    <3>3. /\ WellFormed(mBuf')
          /\ Contents(mBuf') = << >> \o [k \in 1..(N - 0) |-> 0]
      <4>. DEFINE b == clear(mBuf)
      <4>1. Len(Contents(b)) = 0
        BY <3>2
      <4>. HIDE DEF b
      <4>. QED
        BY <2>3, <3>1, <3>2, <4>1, FillContents DEF b
    <3>4. mBuf'.mFull
      BY <2>3 DEF fill
    <3>5. [k \in 1..N |-> 0] \in Seq(Nat)
      BY <1>2
    <3>. QED
      BY <1>2, <3>3, <3>4, <3>5
  <2>8. ASSUME NEW k \in 1..N
        PROVE  /\ (k - N) * MINUTE \in Int
               /\ MINUTE - HOUR <= (k - N) * MINUTE /\ (k - N) * MINUTE <= 0
    <3>1. /\ (1 - N) * MINUTE <= (k - N) * MINUTE
          /\ (k - N) * MINUTE <= 0 * MINUTE
      BY <1>2, TimesMono
    <3>2. (1 - N) * MINUTE = MINUTE - HOUR
      BY <1>2
    <3>3. (k - N) * MINUTE \in Int
      BY <1>2
    <3>. QED
      BY <1>2, <3>1, <3>2, <3>3
  <2>9. \A k \in 1..N : \E x \in Int :
          /\ Began(k)' <= x /\ x <= Began(k)' + Slack /\ x <= Accounted
          /\ OnAir(x) = OnAir(Accounted)
    <3>1. SUFFICES ASSUME NEW k \in 1..N
                   PROVE  \E x \in Int :
                            /\ Began(k)' <= x /\ x <= Began(k)' + Slack
                            /\ x <= Accounted /\ OnAir(x) = OnAir(Accounted)
      OBVIOUS
    <3>2. PICK z \in Int : z = (k - N) * MINUTE /\ MINUTE - HOUR <= z /\ z <= 0
      BY <2>8
    <3>3. PICK y \in Int : y = Began(k)' /\ y = LastUpdate + w + z
      BY <1>2, <2>5, <3>2
    <3>4. y <= Accounted /\ LastUpdate + MINUTE + Slack <= y + Slack
      BY <1>2, <2>3, <2>5, <3>2, <3>3
    <3>5. CASE Accounted <= y + Slack
      BY <1>2, <3>3, <3>4, <3>5
    <3>6. CASE y + Slack <= Accounted
      <4>1. y + Slack \in Int
        BY <1>2
      <4>2. OnAir(y + Slack) = OnAir(Accounted)
        BY <3>4, <3>6, <4>1, NothingAfterCurrent
      <4>. QED
        BY <1>2, <3>3, <3>6, <4>1, <4>2
    <3>. QED
      BY <1>2, <3>5, <3>6
  <2>10. PICK e \in [1..N + 1 -> Int] :
           /\ e[N + 1] = Accounted
           /\ \A k \in 1..N :
                /\ Began(k)' <= e[k] /\ e[k] <= Began(k)' + Slack
                /\ e[k] <= Accounted
                /\ OnAir(e[k]) = OnAir(Accounted)
    <3>. DEFINE P(k, x) == IF k = N + 1 THEN x = Accounted
                           ELSE /\ Began(k)' <= x /\ x <= Began(k)' + Slack
                                /\ x <= Accounted /\ OnAir(x) = OnAir(Accounted)
                e == [k \in 1..N + 1 |-> CHOOSE x \in Int : P(k, x)]
    <3>1. ASSUME NEW k \in 1..N + 1 PROVE \E x \in Int : P(k, x)
      <4>1. CASE k = N + 1
        BY <1>2, <4>1
      <4>2. CASE k # N + 1
        <5>1. k \in 1..N
          BY <1>2, <4>2
        <5>. QED
          BY <2>9, <4>2, <5>1
      <4>. QED
        BY <4>1, <4>2
    <3>2. ASSUME NEW k \in 1..N + 1 PROVE e[k] \in Int /\ P(k, e[k])
      <4>. HIDE DEF P
      <4>. QED
        BY <3>1
    <3>3. e \in [1..N + 1 -> Int]
      BY <3>2
    <3>4. N + 1 \in 1..N + 1 /\ \A k \in 1..N : k \in 1..N + 1 /\ k # N + 1
      BY <1>2
    <3>. HIDE DEF e
    <3>. QED
      BY <3>2, <3>3, <3>4
  <2>11. OnAir(Accounted) \in Nat
    <3>1. Accounted \in Int
      BY <1>2
    <3>. QED
      BY <1>2, <3>1, OnAirGrows DEF IInv
  <2>12. SharesInv'
    <3>1. ASSUME NEW k \in 1..N
          PROVE  Contents(mBuf')[k] = OnAir(e[k + 1]) - OnAir(e[k])
      <4>1. OnAir(e[k]) = OnAir(Accounted) /\ OnAir(e[k + 1]) = OnAir(Accounted)
        <5>1. k + 1 \in 1..N \/ k + 1 = N + 1
          BY <1>2
        <5>. QED
          BY <2>10, <5>1
      <4>. QED
        BY <2>7, <2>11, <4>1
    <3>2. mTime_ms' = OnAir(Accounted) - OnAir(e[1])
      <4>1. 1 \in 1..N
        BY <1>2
      <4>. QED
        BY <2>3, <2>10, <2>11, <4>1
    <3>3. Cuts(e)'
      BY <2>5, <2>6, <2>10, <3>1, <3>2 DEF Cuts
    <3>. QED
      BY <3>3 DEF SharesInv
  <2>13. MembersInv'
    BY <2>3, <2>5, <2>7, Sizes DEF MembersInv
  <2>14. PassedInv'
    <3>1. purpose' = purpose /\ Left' = Left /\ (Aligned' <=> Aligned)
      BY <1>1 DEF Left, Aligned
    <3>2. SUFFICES ASSUME purpose = "account", ~Aligned PROVE 0 + Left <= MINUTE
      BY <2>3, <3>1 DEF PassedInv
    <3>3. mTime_ms + Left <= MINUTE
      BY <3>2 DEF IInv, PassedInv
    <3>4. mTime_ms \in 0..(WORD - 1)
      BY DEF IInv, MembersInv
    <3>. QED
      BY <1>2, <3>3, <3>4
  <2>. QED
    BY <2>5, <2>12, <2>13, <2>14 DEF IInv
<1>. QED
  BY <1>3, <1>4 DEF Roll
-----------------------------------------------------------------------------
(* The slice that update(start, end) is about to account for: it ends with a *)
(* minute or with the transmission and, until millis() rolls over, with the  *)
(* current minute at the latest.                                             *)
LEMMA SliceFacts ==
  ASSUME IInv, pc = "add"
  PROVE  /\ purpose = "account" /\ end = millis
         /\ SliceEnd \in 0..(WORD - 1) /\ t1 <= SliceEnd /\ SliceEnd <= end
         /\ SliceEnd < end => SliceEnd < LastMinute
         /\ t1 < end => t1 < SliceEnd
         /\ (SliceEnd - t1) % WORD = SliceEnd - t1
         /\ SliceEnd - t1 \in Nat /\ SliceEnd - t1 <= MINUTE
         /\ SliceEnd - t1 <= Left /\ Left = end - t1
         /\ Accounted + (SliceEnd - t1) <= clock
         /\ Aligned => Accounted + (SliceEnd - t1) <= LastUpdate + MINUTE
         /\ Accounted < LastUpdate + MINUTE
         /\ \A x \in Accounted..clock :
              aired[x] = aired[Accounted] + (x - Accounted)
<1>1. /\ purpose = "account" /\ end = millis /\ t1 <= end /\ t1 < LastMinute
      /\ end <= LastMinute /\ Left = end - t1 /\ Ago < Left + MINUTE
      /\ \A x \in Accounted..clock :
           aired[x] = aired[Accounted] + (x - Accounted)
  BY DEF IInv, LocalsInv, Left
<1>2. /\ t1 \in Nat /\ t1 < WORD /\ end \in Nat /\ end < WORD /\ WORD \in Nat
      /\ MINUTE \in Nat \ {0} /\ clock \in Nat
      /\ Ago \in Nat /\ Left \in Nat /\ LastUpdate \in Nat /\ Accounted \in Nat
      /\ LastUpdate + Ago = clock /\ Accounted + Left = clock
      /\ Aligned => millis = clock
      /\ LastUpdate <= Accounted
  <2>1. t1 \in 0..(WORD - 1) /\ end \in 0..(WORD - 1)
    BY Clocks
  <2>. QED
    BY <2>1, Clocks, Sizes
<1>3. Accounted < LastUpdate + MINUTE
  BY <1>1, <1>2
<1>. DEFINE j == t1 \div MINUTE
            boundary == (j + 1) * MINUTE
<1>4. j \in Nat /\ j * MINUTE <= t1 /\ t1 < j * MINUTE + MINUTE
  BY <1>2, DivMod
<1>5. boundary = j * MINUTE + MINUTE /\ boundary \in Nat
  <2>. HIDE DEF j
  <2>. QED
    BY <1>2, <1>4
<1>6. boundary <= LastMinute
  <2>1. PICK l \in Nat : LastMinute = l * MINUTE
    BY LastMinuteIs
  <2>. HIDE DEF j
  <2>2. CASE l <= j
    <3>1. l * MINUTE <= j * MINUTE
      BY <1>2, <1>4, <2>2, TimesMono
    <3>2. j * MINUTE \in Nat /\ l * MINUTE \in Nat
      BY <1>2, <1>4
    <3>. QED
      BY <1>1, <1>2, <1>4, <2>1, <3>1, <3>2
  <2>3. CASE j + 1 <= l
    BY <1>2, <1>4, <2>1, <2>3, TimesMono
  <2>. QED
    BY <1>4, <2>2, <2>3
<1>7. SliceEnd = IF boundary > end THEN end ELSE boundary
  <2>1. boundary \in 0..(WORD - 1)
    BY <1>2, <1>5, <1>6, LastMinuteIs
  <2>2. boundary % WORD = boundary
    BY <2>1, Small
  <2>3. SliceEnd = IF boundary % WORD > end THEN end ELSE boundary % WORD
    BY DEF SliceEnd
  <2>. QED
    BY <2>2, <2>3
<1>8. Aligned => boundary <= LastUpdate + MINUTE
  <2>1. SUFFICES ASSUME Aligned PROVE boundary <= LastUpdate + MINUTE
    OBVIOUS
  <2>2. t1 = Accounted
    BY <1>1, <1>2, <2>1
  <2>. DEFINE i == LastUpdate \div MINUTE
  <2>3. LastUpdate = i * MINUTE /\ i \in Nat
    BY <1>2, DivMod DEF IInv, MembersInv
  <2>. HIDE DEF i
  <2>4. t1 \div MINUTE = i
    BY <1>2, <1>3, <2>2, <2>3, DivUnique
  <2>5. j * MINUTE = LastUpdate
    BY <2>3, <2>4
  <2>. HIDE DEF j
  <2>. QED
    BY <1>2, <1>5, <2>5
<1>. HIDE DEF j, boundary
<1>9. t1 < boundary /\ boundary - t1 <= MINUTE
  <2>1. j * MINUTE \in Int
    BY <1>2, <1>4
  <2>. QED
    BY <1>2, <1>4, <1>5, <2>1
<1>10. CASE boundary > end
  <2>1. SliceEnd = end
    BY <1>7, <1>10
  <2>2. end - t1 \in 0..(WORD - 1)
    BY <1>1, <1>2
  <2>3. (end - t1) % WORD = end - t1
    BY <2>2, Small
  <2>4. Accounted + (end - t1) = clock /\ end - t1 <= MINUTE
    BY <1>1, <1>2, <1>5, <1>9, <1>10
  <2>5. Aligned => clock <= LastUpdate + MINUTE
    <3>1. SUFFICES ASSUME Aligned PROVE clock <= LastUpdate + MINUTE
      OBVIOUS
    <3>2. end = clock /\ boundary <= LastUpdate + MINUTE
      BY <1>1, <1>2, <1>8, <3>1
    <3>. QED
      BY <1>2, <1>5, <1>10, <3>2
  <2>. QED
    BY <1>1, <1>2, <1>3, <2>1, <2>2, <2>3, <2>4, <2>5
<1>11. CASE ~(boundary > end)
  <2>1. SliceEnd = boundary /\ boundary <= end
    BY <1>2, <1>5, <1>7, <1>11
  <2>2. boundary - t1 \in 0..(WORD - 1)
    BY <1>2, <1>5, <1>9, <2>1
  <2>3. (boundary - t1) % WORD = boundary - t1
    BY <2>2, Small
  <2>4. /\ Accounted + (boundary - t1) <= clock /\ boundary - t1 <= Left
        /\ boundary - t1 \in Nat
    BY <1>1, <1>2, <1>5, <1>9, <2>1
  <2>5. Aligned => Accounted + (boundary - t1) <= LastUpdate + MINUTE
    <3>1. SUFFICES ASSUME Aligned
                   PROVE  Accounted + (boundary - t1) <= LastUpdate + MINUTE
      OBVIOUS
    <3>2. t1 = Accounted
      BY <1>1, <1>2, <3>1
    <3>. QED
      BY <1>2, <1>5, <1>8, <3>1, <3>2
  <2>6. boundary < end => boundary < LastMinute
    BY <1>1, <1>2, <1>5, LastMinuteIs
  <2>7. boundary \in 0..(WORD - 1)
    BY <1>2, <1>5, <2>1
  <2>8. t1 <= boundary /\ (t1 < end => t1 < boundary)
    BY <1>2, <1>5, <1>9
  <2>. QED
    BY <1>1, <1>3, <1>9, <2>1, <2>3, <2>4, <2>5, <2>6, <2>7, <2>8
<1>. QED
  BY <1>10, <1>11

LEMMA AddSliceStep ==
  ASSUME IInv, AddSlice
  PROVE  IInv'
<1>. DEFINE c == Contents(mBuf)
            p == pop_front(mBuf)
<1>1. PICK t2 \in 0..(WORD - 1) : t2 = SliceEnd
  BY SliceFacts DEF AddSlice
<1>2. PICK td \in Nat : td = t2 - t1
  BY <1>1, SliceFacts DEF AddSlice
<1>3. PICK a \in Nat : a = Accounted
  BY Clocks
<1>4. /\ purpose = "account" /\ end = millis /\ t1 <= t2 /\ t2 <= end
      /\ t2 < end => t2 < LastMinute
      /\ (t2 - t1) % WORD = td /\ td <= MINUTE
      /\ td <= Left /\ Left = end - t1 /\ a + td <= clock
      /\ Aligned => a + td <= LastUpdate + MINUTE
      /\ a < LastUpdate + MINUTE
      /\ \A x \in a..clock : aired[x] = aired[a] + (x - a)
  BY <1>1, <1>2, <1>3, SliceFacts DEF AddSlice
<1>5. /\ clock \in Nat /\ clock <= MaxClock /\ millis \in 0..(WORD - 1)
      /\ t1 \in Nat /\ end \in Nat /\ t2 \in Nat
      /\ Left \in Nat /\ Left <= Ago /\ Ago \in Nat /\ LastUpdate \in Nat
      /\ a + Left = clock /\ LastUpdate <= a
      /\ Slack \in Nat /\ (Aligned => Slack = 0) /\ (~Aligned => Slack = MINUTE)
      /\ N \in Nat /\ N >= 2 /\ MINUTE \in Nat /\ HOUR \in Nat
      /\ 2 * MINUTE <= HOUR /\ WORD \in Nat /\ HOUR < WORD
  <2>1. t1 \in 0..(WORD - 1) /\ end \in 0..(WORD - 1)
    BY Clocks
  <2>. QED
    BY <1>3, <2>1, Clocks, Sizes
<1>6. /\ pc' = IF front(mBuf) + td > MINUTE THEN "abort" ELSE "roll"
      /\ mTime_ms' = (mTime_ms + td) % WORD /\ t1' = t2
      /\ UNCHANGED <<mLastUpdate_ms, end, clock, aired>>
      /\ front(mBuf) + td <= MINUTE =>
           /\ mBuf' = push_front(p, front(mBuf) + td)
           /\ IF t2 < end THEN purpose' = "account" /\ time' = t2
              ELSE purpose' = "log" /\ time' = millis
  <2>1. /\ mTime_ms' = (mTime_ms + td) % WORD /\ t1' = t2
        /\ IF front(mBuf) + td > MINUTE
           THEN pc' = "abort"
           ELSE /\ mBuf' = push_front(p, front(mBuf) + td)
                /\ IF t2 < end THEN CallUpdate("account", t2)
                   ELSE CallUpdate("log", millis)
        /\ UNCHANGED <<mLastUpdate_ms, end, clock, aired>>
    BY <1>1, <1>4 DEF AddSlice
  <2>2. front(mBuf) + td <= MINUTE => ~(front(mBuf) + td > MINUTE)
    <3>1. front(mBuf) \in Nat
      <4>1. /\ front(mBuf) = c[N] /\ \A k \in 1..N : c[k] \in 0..MINUTE
        <5>1. /\ ~isEmpty(mBuf) /\ WellFormed(mBuf) /\ Len(c) = N
              /\ \A k \in 1..N : c[k] \in 0..MINUTE
          BY FullBuffer DEF IInv, MembersInv
        <5>. QED
          BY <5>1, EndsAreBackAndFront
      <4>2. N \in 1..N
        BY <1>5
      <4>. QED
        BY <4>1, <4>2
    <3>. QED
      BY <1>5, <3>1
  <2>3. CASE front(mBuf) + td > MINUTE
    BY <2>1, <2>2, <2>3
  <2>4. CASE ~(front(mBuf) + td > MINUTE)
    BY <2>1, <2>4 DEF CallUpdate
  <2>. QED
    BY <2>3, <2>4
<1>7. PICK b \in [1..N + 1 -> Int] : Cuts(b)
  BY DEF IInv, SharesInv
<1>8. /\ b[1] <= b[N] /\ b[N] <= a /\ b[1] \in Int /\ b[N] \in Int
      /\ OnAir(b[1]) \in Nat /\ OnAir(b[1]) <= OnAir(b[N])
      /\ OnAir(b[N]) <= OnAir(a) /\ OnAir(b[N]) \in Nat /\ OnAir(a) \in Nat
      /\ c[N] = OnAir(a) - OnAir(b[N])
      /\ LastUpdate <= b[N] /\ b[N] <= LastUpdate + Slack
      /\ LastUpdate + MINUTE - HOUR <= b[1]
      /\ mTime_ms = OnAir(a) - OnAir(b[1])
  <2>1. mTime_ms = OnAir(a) - OnAir(b[1])
    BY <1>3, <1>7 DEF Cuts
  <2>. QED
    BY <1>3, <1>7, <2>1, CutFacts
<1>9. /\ OnAir(a + td) = OnAir(a) + td
      /\ OnAir(a + td) <= OnAir(b[N]) + (a + td - b[N])
      /\ OnAir(a + td) <= OnAir(b[1]) + (a + td - b[1])
  <2>1. /\ \A x, y \in Int : x <= y /\ y <= clock => OnAir(y) <= OnAir(x) + (y - x)
        /\ \A x \in Nat : x <= clock => OnAir(x) = aired[x]
    BY <1>5, OnAirGrows DEF IInv
  <2>2. a + td \in Nat /\ a + td \in a..clock /\ a <= clock /\ a + td \in Int
    BY <1>4, <1>5
  <2>3. aired[a + td] = aired[a] + ((a + td) - a) /\ (a + td) - a = td
    BY <1>4, <2>2
  <2>4. OnAir(a + td) = aired[a + td] /\ OnAir(a) = aired[a]
    BY <1>4, <2>1, <2>2
  <2>5. b[N] <= a + td /\ b[1] <= a + td /\ b[N] \in Int /\ b[1] \in Int
    BY <1>8, <2>2
  <2>6. OnAir(a + td) = OnAir(a) + td
    BY <2>3, <2>4
  <2>7. /\ OnAir(a + td) <= OnAir(b[N]) + (a + td - b[N])
        /\ OnAir(a + td) <= OnAir(b[1]) + (a + td - b[1])
    <3>1. a + td <= clock
      BY <1>4
    <3>. QED
      BY <2>1, <2>2, <2>5, <3>1
  <2>. QED
    BY <2>6, <2>7
<1>10. /\ c \in Seq(Item) /\ Len(c) = N /\ WellFormed(mBuf) /\ ~isEmpty(mBuf)
       /\ front(mBuf) = c[N]
  <2>1. /\ c \in Seq(Item) /\ Len(c) = N /\ WellFormed(mBuf) /\ ~isEmpty(mBuf)
    BY FullBuffer DEF IInv, MembersInv
  <2>. QED
    BY <2>1, EndsAreBackAndFront
<1>11. /\ c[N] + td \in 0..MINUTE /\ mTime_ms + td \in 0..(WORD - 1)
  <2>1. c[N] \in Nat /\ mTime_ms \in Nat /\ c[N] <= mTime_ms
    BY <1>8
  <2>2. CASE Aligned
    <3>1. PICK last \in Nat, now \in Nat, first \in Nat, x \in Nat :
            /\ last = LastUpdate /\ now = OnAir(a) /\ first = OnAir(b[1])
            /\ x = OnAir(b[N])
      BY <1>5, <1>8
    <3>2. a + td <= last + MINUTE /\ b[N] = last
      <4>1. Slack = 0
        BY <1>5, <2>2
      <4>2. a + td <= last + MINUTE
        BY <1>4, <2>2, <3>1
      <4>3. last <= b[N] /\ b[N] <= last + 0 /\ b[N] \in Int
        BY <1>8, <3>1, <4>1
      <4>. QED
        BY <4>2, <4>3
    <3>3. c[N] = now - x /\ mTime_ms = now - first /\ last + MINUTE - HOUR <= b[1]
      BY <1>8, <3>1
    <3>4. now + td <= x + (a + td - b[N]) /\ now + td <= first + (a + td - b[1])
      BY <1>9, <3>1
    <3>. HIDE DEF c
    <3>5. PICK h \in Nat, m \in Nat, b1 \in Int :
            h = HOUR /\ m = MINUTE /\ b1 = b[1]
      BY <1>5, <1>8
    <3>6. /\ c[N] = now - x /\ now + td <= x + (a + td - last)
          /\ a + td <= last + m
      BY <3>2, <3>3, <3>4, <3>5
    <3>7. c[N] + td <= MINUTE
      BY <3>5, <3>6
    <3>8. /\ mTime_ms = now - first /\ now + td <= first + (a + td - b1)
          /\ last + m - h <= b1
      BY <3>3, <3>4, <3>5
    <3>9. mTime_ms + td <= HOUR
      BY <3>5, <3>6, <3>8
    <3>. QED
      BY <1>5, <2>1, <3>7, <3>9
  <2>3. CASE ~Aligned
    <3>1. mTime_ms + Left <= MINUTE
      BY <1>4, <2>3 DEF IInv, PassedInv
    <3>2. mTime_ms + td <= MINUTE /\ c[N] + td <= MINUTE
      BY <1>4, <1>5, <2>1, <3>1
    <3>. QED
      BY <1>5, <2>1, <3>2
  <2>. QED
    BY <2>2, <2>3
<1>12. PICK minute \in 0..MINUTE : minute = c[N] + td
  BY <1>11
<1>13. /\ pc' = "roll" /\ mBuf' = push_front(p, minute)
       /\ mTime_ms' = mTime_ms + td /\ mTime_ms' \in 0..(WORD - 1)
       /\ IF t2 < end THEN purpose' = "account" /\ time' = t2
          ELSE purpose' = "log" /\ time' = millis
  <2>1. front(mBuf) + td = minute /\ minute <= MINUTE /\ ~(minute > MINUTE)
    BY <1>5, <1>10, <1>12
  <2>2. (mTime_ms + td) % WORD = mTime_ms + td
    BY <1>11, Small
  <2>. HIDE DEF p, c
  <2>. QED
    BY <1>6, <1>11, <2>1, <2>2
<1>14. /\ WellFormed(mBuf') /\ mBuf'.mFull
       /\ Contents(mBuf') = Append(SubSeq(c, 1, N - 1), minute)
  <2>1. /\ WellFormed(p) /\ Contents(p) = SubSeq(c, 1, N - 1)
    BY <1>10, PopFrontContents
  <2>2. Len(Contents(p)) = N - 1
    BY <1>5, <1>10, <2>1
  <2>3. minute \in Item
    BY SlotAssumption
  <2>. HIDE DEF p, c
  <2>4. /\ WellFormed(mBuf')
        /\ Contents(mBuf') = Append(SubSeq(c, 1, N - 1), minute)
    <3>1. Len(Contents(p)) # N
      BY <1>5, <2>2
    <3>. QED
      BY <1>13, <2>1, <2>3, <3>1, PushFrontContents
  <2>5. Len(Contents(mBuf')) = N
    BY <1>5, <2>1, <2>2, <2>4
  <2>6. size(mBuf') = N /\ (isFull(mBuf') <=> size(mBuf') = N)
    BY <2>4, <2>5, ContentsType, SizeCounts
  <2>. QED
    BY <2>4, <2>6 DEF isFull
<1>15. /\ millis' = millis /\ Ago' = Ago /\ LastUpdate' = LastUpdate
       /\ (Aligned' <=> Aligned) /\ Slack' = Slack
       /\ \A k : Began(k)' = Began(k)
  BY <1>6, TimesFrame
<1>16. /\ Accounted' = a + td
       /\ purpose' = "account" => Left' = Left - td
       /\ Left' \in Nat /\ Left' <= Left
  <2>1. CASE t2 < end
    <3>1. purpose' = "account"
      BY <1>13, <2>1
    <3>2. Accounted' = clock - (end - t2) /\ Left' = end - t2
      BY <1>6, <3>1 DEF Accounted, Left
    <3>. QED
      BY <1>2, <1>4, <1>5, <2>1, <3>2
  <2>2. CASE ~(t2 < end)
    <3>1. purpose' = "log"
      BY <1>13, <2>2
    <3>2. Accounted' = clock /\ Left' = 0
      BY <1>6, <3>1 DEF Accounted, Left
    <3>3. td = Left
      BY <1>2, <1>4, <1>5, <2>2
    <3>. QED
      BY <1>5, <3>1, <3>2, <3>3
  <2>. QED
    BY <2>1, <2>2
<1>17. \A x : OnAir(x)' = OnAir(x)
  BY <1>6 DEF OnAir
<1>. HIDE DEF c, p
<1>18. SharesInv'
  <2>1. PICK e \in [1..N + 1 -> Int] : e = [b EXCEPT ![N + 1] = a + td]
    <3>1. a + td \in Int
      BY <1>5
    <3>. QED
      BY <3>1
  <2>2. /\ e[N + 1] = a + td /\ (\A k \in 1..N : e[k] = b[k]) /\ 1 \in 1..N
    BY <1>5, <2>1
  <2>3. ASSUME NEW k \in 1..N
        PROVE  /\ Began(k) <= e[k] /\ e[k] <= Began(k) + Slack
               /\ e[k] <= a + td
               /\ Contents(mBuf')[k] = OnAir(e[k + 1]) - OnAir(e[k])
    <3>1. /\ Began(k) <= b[k] /\ b[k] <= Began(k) + Slack /\ b[k] <= a
          /\ c[k] = OnAir(b[k + 1]) - OnAir(b[k]) /\ b[k] \in Int
      <4>1. k \in 1..N + 1
        BY <1>5
      <4>. QED
        BY <1>3, <1>7, <4>1 DEF Cuts, c
    <3>2. e[k] <= a + td
      BY <1>2, <2>2, <3>1
    <3>3. CASE k = N
      <4>1. Contents(mBuf')[k] = minute
        BY <1>5, <1>10, <1>14, <3>3
      <4>2. minute = OnAir(a + td) - OnAir(b[N])
        BY <1>8, <1>9, <1>12
      <4>. QED
        BY <2>2, <3>1, <3>2, <3>3, <4>1, <4>2
    <3>4. CASE k # N
      <4>1. Contents(mBuf')[k] = c[k]
        BY <1>5, <1>10, <1>14, <3>4
      <4>2. k + 1 \in 1..N
        BY <1>5, <3>4
      <4>. QED
        BY <2>2, <3>1, <3>2, <4>1, <4>2
    <3>. QED
      BY <3>3, <3>4
  <2>4. mTime_ms' = OnAir(a + td) - OnAir(e[1])
    BY <1>8, <1>9, <1>13, <2>2
  <2>5. Cuts(e)'
    BY <1>15, <1>16, <1>17, <2>2, <2>3, <2>4 DEF Cuts
  <2>. QED
    BY <2>5 DEF SharesInv
<1>19. CurrentInv'
  <2>. DEFINE over == LastUpdate + MINUTE + Slack
  <2>1. over <= a + td => over = a + td
    <3>1. CASE Aligned
      BY <1>4, <1>5, <3>1
    <3>2. CASE ~Aligned
      BY <1>4, <1>5, <3>2
    <3>. QED
      BY <3>1, <3>2
  <2>. QED
    BY <1>6, <1>15, <1>16, <2>1 DEF CurrentInv
<1>20. LocalsInv'
  <2>1. \A x \in (a + td)..clock : aired[x] = aired[a + td] + (x - (a + td))
    <3>1. ASSUME NEW x \in (a + td)..clock
          PROVE  aired[x] = aired[a + td] + (x - (a + td))
      <4>1. x \in Int /\ x \in a..clock /\ a + td \in a..clock
        BY <1>4, <1>5
      <4>2. /\ aired[x] = aired[a] + (x - a)
            /\ aired[a + td] = aired[a] + ((a + td) - a)
        BY <1>4, <4>1
      <4>3. aired[a] \in Int
        <5>1. a \in 0..MaxClock
          BY <1>4, <1>5, Sizes
        <5>. QED
          BY <5>1 DEF IInv, AiredInv
      <4>. QED
        BY <4>1, <4>2, <4>3
    <3>. QED
      BY <3>1
  <2>2. LastMinute' = LastMinute
    BY DEF LastMinute
  <2>3. /\ clock \in 0..MaxClock /\ end \in 0..(WORD - 1)
        /\ millis \in 0..(WORD - 1)
    BY Clocks DEF IInv, LocalsInv
  <2>4. time' \in 0..(WORD - 1) /\ Left' <= Ago /\ Left' <= clock
    <3>1. time' \in 0..(WORD - 1)
      BY <1>13, <2>3
    <3>. QED
      BY <1>5, <1>16, <3>1
  <2>5. CASE t2 < end
    <3>1. end <= LastMinute
      BY <1>4 DEF IInv, LocalsInv
    <3>. QED
      BY <1>4, <1>6, <1>13, <1>15, <1>16, <2>1, <2>2, <2>3, <2>4, <2>5, <3>1
         DEF LocalsInv, Labels, Purposes
  <2>6. CASE ~(t2 < end)
    BY <1>4, <1>6, <1>13, <1>15, <1>16, <2>2, <2>3, <2>4, <2>6
       DEF LocalsInv, Labels, Purposes
  <2>. QED
    BY <2>5, <2>6
<1>21. MembersInv'
  BY <1>6, <1>13, <1>14, <1>15 DEF IInv, MembersInv
<1>22. AiredInv'
  BY <1>6 DEF IInv, AiredInv
<1>23. PassedInv'
  <2>1. SUFFICES ASSUME purpose' = "account", ~Aligned
                 PROVE  mTime_ms' + Left' <= MINUTE
    BY <1>15 DEF PassedInv
  <2>2. mTime_ms + Left <= MINUTE
    BY <1>4, <2>1 DEF IInv, PassedInv
  <2>3. mTime_ms \in Nat /\ mTime_ms' = mTime_ms + td /\ Left' = Left - td
    BY <1>8, <1>13, <1>16, <2>1
  <2>. QED
    BY <1>5, <2>2, <2>3
<1>. QED
  BY <1>18, <1>19, <1>20, <1>21, <1>22, <1>23 DEF IInv

(* The constructor establishes IInv. *)
LEMMA InitStep == Init => IInv
<1>. SUFFICES ASSUME Init PROVE IInv
  OBVIOUS
<1>. DEFINE zeros == [k \in 1..N |-> 0]
            f == fill(Empty, 0)
<1>1. /\ pc = "idle" /\ purpose = "gate" /\ time = 0 /\ t1 = 0 /\ end = 0
      /\ clock = 0 /\ mLastUpdate_ms = 0 /\ mTime_ms = 0
      /\ aired = [c \in 0..MaxClock |-> 0] /\ MaxClock \in Nat
      /\ N \in Nat /\ N >= 2 /\ MINUTE \in Nat /\ MINUTE >= 1 /\ 0 \in Item
      /\ WORD \in Nat /\ WORD >= 1
  BY SlotAssumption, Sizes DEF Init
<1>2. WellFormed(Empty) /\ Contents(Empty) = << >>
  <2>1. WellFormed(Empty)
    BY ZeroAssumption, CapacityAssumption
       DEF Empty, WellFormed, Buffer, Cells
  <2>2. size(Empty) = 0
    BY DEF Empty, size
  <2>. QED
    BY <2>1, <2>2, ContentsType
<1>3. WellFormed(f) /\ Contents(f) = zeros
  <2>1. Len(Contents(Empty)) = 0
    BY <1>2
  <2>2. WellFormed(f) /\ Contents(f) = << >> \o [k \in 1..(N - 0) |-> 0]
    BY <1>1, <1>2, <2>1, FillContents
  <2>3. zeros \in Seq(Nat)
    BY <1>1
  <2>. QED
    BY <1>1, <2>2, <2>3
<1>. HIDE DEF f
<1>4. WellFormed(mBuf) /\ Contents(mBuf) = zeros
  <2>1. zeros \in Seq(Nat) /\ Len(zeros) = N
    BY <1>1
  <2>2. mBuf = push_front(f, 0)
    BY DEF Init, f
  <2>3. WellFormed(mBuf) /\ Contents(mBuf) = Append(Tail(zeros), 0)
    BY <1>1, <1>3, <2>1, <2>2, PushFrontContents
  <2>4. Append(Tail(zeros), 0) = zeros
    BY <1>1, <2>1
  <2>. QED
    BY <2>3, <2>4
<1>5. mBuf.mFull
  <2>1. Len(Contents(mBuf)) = N
    BY <1>1, <1>4
  <2>2. size(mBuf) = N /\ (isFull(mBuf) <=> size(mBuf) = N)
    BY <1>4, <2>1, ContentsType, SizeCounts
  <2>. QED
    BY <2>2 DEF isFull
<1>6. AiredInv
  BY <1>1 DEF AiredInv
<1>7. millis = 0 /\ Ago = 0 /\ LastUpdate = 0 /\ Left = 0 /\ Accounted = 0
  <2>1. 0 % WORD = 0 /\ (0 - 0) % WORD = 0
    BY <1>1, Small
  <2>. QED
    BY <1>1, <2>1 DEF millis, Ago, LastUpdate, Left, Accounted
<1>8. MembersInv
  <2>1. 0 \div MINUTE = 0
    BY <1>1, DivUnique
  <2>. QED
    BY <1>1, <1>4, <1>5, <1>7, <2>1 DEF MembersInv
<1>9. LocalsInv
  <2>1. 0 \in 0..MaxClock /\ 0 \in 0..(WORD - 1)
    BY <1>1
  <2>2. (0 <= 0 + MINUTE) /\ 0 < 0 + MINUTE
    BY <1>1
  <2>. QED
    BY <1>1, <1>7, <2>1, <2>2 DEF LocalsInv, Labels, Purposes
<1>10. CurrentInv
  <2>1. Slack \in Nat
    BY <1>1 DEF Slack
  <2>2. ~(0 + MINUTE + Slack <= 0)
    BY <1>1, <2>1
  <2>. QED
    BY <1>7, <2>2 DEF CurrentInv
<1>11. SharesInv
  <2>1. PICK b \in [1..N + 1 -> Int] :
          b = [k \in 1..N + 1 |-> IF k = N + 1 THEN 0 ELSE (k - N) * MINUTE]
    <3>1. ASSUME NEW k \in 1..N + 1
          PROVE  (IF k = N + 1 THEN 0 ELSE (k - N) * MINUTE) \in Int
      BY <1>1
    <3>. QED
      BY <3>1
  <2>2. b[N + 1] = 0 /\ \A k \in 1..N : b[k] = (k - N) * MINUTE
    <3>1. N + 1 \in 1..N + 1
      BY <1>1
    <3>2. b[N + 1] = 0
      BY <2>1, <3>1
    <3>3. ASSUME NEW k \in 1..N PROVE b[k] = (k - N) * MINUTE
      <4>1. k \in 1..N + 1 /\ k # N + 1
        BY <1>1
      <4>. QED
        BY <2>1, <4>1, Zenon
    <3>. QED
      BY <3>2, <3>3
  <2>3. Slack \in Nat
    BY <1>1 DEF Slack
  <2>4. ASSUME NEW k \in 1..N
        PROVE  b[k] \in Int /\ b[k] <= 0 /\ Began(k) = b[k]
    <3>1. (k - N) * MINUTE <= 0 * MINUTE
      BY <1>1, TimesMono
    <3>. QED
      BY <1>1, <1>7, <2>2, <3>1 DEF Began
  <2>5. \A k \in 1..N + 1 : OnAir(b[k]) = 0
    BY <1>1, <2>2, <2>4 DEF OnAir
  <2>6. Cuts(b)
    <3>1. ASSUME NEW k \in 1..N
          PROVE  /\ Began(k) <= b[k] /\ b[k] <= Began(k) + Slack
                 /\ b[k] <= 0
                 /\ Contents(mBuf)[k] = OnAir(b[k + 1]) - OnAir(b[k])
      <4>1. k \in 1..N + 1 /\ k + 1 \in 1..N + 1 /\ Contents(mBuf)[k] = 0
        BY <1>1, <1>4
      <4>. QED
        BY <2>3, <2>4, <2>5, <4>1
    <3>2. OnAir(0) = 0 /\ OnAir(b[1]) = 0
      BY <1>1, <2>5 DEF OnAir
    <3>. QED
      BY <1>1, <1>7, <2>2, <3>1, <3>2 DEF Cuts
  <2>. QED
    BY <2>6 DEF SharesInv
<1>12. PassedInv
  BY <1>1 DEF PassedInv
<1>. QED
  BY <1>6, <1>8, <1>9, <1>10, <1>11, <1>12 DEF IInv

(* Every step of a long run preserves IInv. *)
LEMMA NextStep == IInv /\ [LongNext]_vars => IInv'
<1>. SUFFICES ASSUME IInv, [LongNext]_vars PROVE IInv'
  OBVIOUS
<1>1. CASE Roll
  BY <1>1, RollStep
<1>2. CASE ShiftMinute
  BY <1>2, ShiftMinuteStep
<1>3. CASE UpdateReturns
  BY <1>3, UpdateReturnsStep
<1>4. CASE AddSlice
  BY <1>4, AddSliceStep
<1>5. CASE SendMsg /\ millis < LastMinute
  BY <1>5, SendMsgStep
<1>6. CASE LimitReached
  BY <1>6, LimitReachedStep
<1>7. ASSUME NEW d \in 0..MaxTx, Transmit(d), millis + d <= LastMinute,
             Aligned' \/ Short(d)
      PROVE  IInv'
  BY <1>7, TransmitStep
<1>8. CASE Tick /\ Ago < WORD - MINUTE
  BY <1>8, TickStep
<1>9. CASE UNCHANGED vars
  <2>1. UNCHANGED <<mBuf, mLastUpdate_ms, mTime_ms, pc, purpose, time, t1, end,
                   clock, aired>>
    BY <1>9 DEF vars
  <2>2. /\ millis' = millis /\ Ago' = Ago /\ LastUpdate' = LastUpdate
        /\ (Aligned' <=> Aligned) /\ Slack' = Slack
        /\ \A k : Began(k)' = Began(k)
    BY <2>1, TimesFrame
  <2>3. Accounted' = Accounted /\ Left' = Left /\ \A x : OnAir(x)' = OnAir(x)
    BY <2>1 DEF Accounted, Left, OnAir
  <2>4. AiredInv' /\ MembersInv' /\ LocalsInv'
    BY <2>1, <2>2, <2>3 DEF IInv, AiredInv, MembersInv, LocalsInv, LastMinute
  <2>5. CurrentInv' /\ PassedInv'
    BY <2>1, <2>2, <2>3 DEF IInv, CurrentInv, PassedInv
  <2>6. SharesInv'
    <3>1. PICK b \in [1..N + 1 -> Int] : Cuts(b)
      BY DEF IInv, SharesInv
    <3>2. Cuts(b)'
      BY <2>1, <2>2, <2>3, <3>1 DEF Cuts
    <3>. QED
      BY <3>2 DEF SharesInv
  <2>. QED
    BY <2>4, <2>5, <2>6 DEF IInv
<1>. QED
  BY <1>1, <1>2, <1>3, <1>4, <1>5, <1>6, <1>7, <1>8, <1>9 DEF LongNext, Step

(* What the instants of SharesInv say, when the minutes are aligned, of the  *)
(* beginnings of the minutes themselves.                                     *)
LEMMA BeforeIs ==
  ASSUME IInv, NEW x \in Int
  PROVE  /\ Before_ms(x) \in Nat /\ Before_ms(x) <= OnAir(Accounted)
         /\ x <= Accounted => Before_ms(x) = OnAir(x)
         /\ x >= Accounted => Before_ms(x) = OnAir(Accounted)
<1>1. /\ Accounted \in Nat /\ Accounted <= clock /\ clock \in Nat
      /\ clock <= MaxClock
  BY Clocks
<1>2. /\ \A y \in Int : y <= clock => OnAir(y) \in Nat
      /\ \A y, z \in Int : y <= z /\ z <= clock => OnAir(y) <= OnAir(z)
  BY <1>1, OnAirGrows DEF IInv
<1>3. CASE x <= Accounted
  BY <1>1, <1>2, <1>3 DEF Before_ms
<1>4. CASE ~(x <= Accounted)
  BY <1>1, <1>2, <1>4 DEF Before_ms
<1>. QED
  BY <1>3, <1>4

LEMMA InvariantGives ==
  ASSUME IInv
  PROVE  TypeOK /\ AssertsHold /\ AccountingExact
<1>1. AssertsHold
  BY DEF IInv, LocalsInv, AssertsHold
<1>2. /\ clock \in 0..MaxClock /\ MaxClock \in Nat
      /\ Accounted \in Nat /\ LastUpdate \in Nat /\ Slack \in Nat
      /\ Aligned => Slack = 0
      /\ N \in Nat /\ N >= 2 /\ MINUTE \in Nat
  BY Sizes, Clocks
<1>3. aired \in [0..MaxClock -> 0..MaxClock]
  <2>1. ASSUME NEW c \in 0..MaxClock PROVE aired[c] \in 0..MaxClock
    <3>1. /\ aired \in [0..MaxClock -> Nat] /\ aired[0] = 0
          /\ \A x, y \in 0..MaxClock : x <= y => aired[y] <= aired[x] + (y - x)
      BY DEF IInv, AiredInv
    <3>2. 0 \in 0..MaxClock /\ 0 <= c /\ c <= MaxClock /\ c \in Int
      BY <1>2
    <3>3. aired[c] \in Nat
      BY <3>1
    <3>4. aired[c] <= aired[0] + (c - 0)
      BY <3>1, <3>2
    <3>. QED
      BY <1>2, <3>1, <3>2, <3>3, <3>4
  <2>2. aired \in [0..MaxClock -> Nat]
    BY DEF IInv, AiredInv
  <2>. QED
    BY <2>1, <2>2
<1>4. TypeOK
  BY <1>3 DEF TypeOK, IInv, LocalsInv, MembersInv, WellFormed
<1>5. PICK b \in [1..N + 1 -> Int] : Cuts(b)
  BY DEF IInv, SharesInv
<1>6. /\ b[1] \in Int /\ b[1] <= Accounted
      /\ Began(1) \in Int /\ Began(1) <= b[1] /\ b[1] <= Began(1) + Slack
      /\ mTime_ms = OnAir(Accounted) - OnAir(b[1])
      /\ OnAir(Accounted) \in Nat /\ OnAir(b[1]) \in Nat
  <2>1. 1 \in 1..N /\ 1 \in 1..N + 1
    BY <1>2
  <2>2. Began(1) \in Int
    BY <1>2, BeganFacts
  <2>. QED
    BY <1>5, <2>1, <2>2, CutFacts DEF Cuts
<1>7. /\ Before_ms(Accounted) = OnAir(Accounted) /\ Before_ms(b[1]) = OnAir(b[1])
  BY <1>2, <1>6, BeforeIs
<1>8. \A x, y \in Int : x <= y => Before_ms(x) <= Before_ms(y)
  <2>1. ASSUME NEW x \in Int, NEW y \in Int, x <= y
        PROVE  Before_ms(x) <= Before_ms(y)
    <3>1. CASE y <= Accounted
      <4>1. OnAir(x) <= OnAir(y)
        <5>1. clock \in Nat /\ clock <= MaxClock /\ y <= clock
          BY <1>2, <3>1, Clocks
        <5>2. \A v, w \in Int : v <= w /\ w <= clock => OnAir(v) <= OnAir(w)
          BY <5>1, OnAirGrows DEF IInv
        <5>. QED
          BY <2>1, <5>1, <5>2
      <4>2. Before_ms(x) = OnAir(x) /\ Before_ms(y) = OnAir(y)
        <5>1. Accounted \in Int /\ x <= Accounted
          BY <1>2, <2>1, <3>1
        <5>. QED
          BY <3>1, <5>1, BeforeIs
      <4>. QED
        BY <4>1, <4>2
    <3>2. CASE ~(y <= Accounted)
      <4>1. Before_ms(y) = OnAir(Accounted) /\ Before_ms(x) <= OnAir(Accounted)
        <5>1. y >= Accounted
          BY <1>2, <3>2
        <5>. QED
          BY <5>1, BeforeIs
      <4>. QED
        BY <4>1
    <3>. QED
      BY <3>1, <3>2
  <2>. QED
    BY <2>1
<1>9. /\ mTime_ms <= Before_ms(Accounted) - Before_ms(Began(1))
      /\ mTime_ms >= Before_ms(Accounted) - Before_ms(Began(1) + Slack)
  <2>1. PICK lo \in Nat, hi \in Nat, at \in Nat, all \in Nat :
          /\ lo = Before_ms(Began(1)) /\ hi = Before_ms(Began(1) + Slack)
          /\ at = Before_ms(b[1]) /\ all = Before_ms(Accounted)
    <3>1. Began(1) \in Int /\ Began(1) + Slack \in Int /\ Accounted \in Int
      BY <1>2, <1>6
    <3>. QED
      BY <1>6, <3>1, BeforeIs
  <2>2. lo <= at /\ at <= hi
    <3>1. Began(1) + Slack \in Int
      BY <1>2, <1>6
    <3>. QED
      BY <1>6, <1>8, <2>1, <3>1
  <2>3. mTime_ms = all - at
    BY <1>6, <1>7, <2>1
  <2>. QED
    BY <2>1, <2>2, <2>3
<1>10. ASSUME Aligned, NEW k \in 1..N
       PROVE  Contents(mBuf)[k] = Before_ms(Began(k + 1)) - Before_ms(Began(k))
  <2>1. /\ \A j \in Int : Began(j) \in Int /\ Began(j + 1) = Began(j) + MINUTE
        /\ Began(N) = LastUpdate
    <3>1. LastUpdate \in Int
      BY <1>2
    <3>. QED
      BY <3>1, BeganFacts
  <2>2. \A j \in 1..N : Began(j) = b[j] /\ b[j] <= Accounted
    <3>1. ASSUME NEW j \in 1..N PROVE Began(j) = b[j] /\ b[j] <= Accounted
      <4>1. /\ Began(j) <= b[j] /\ b[j] <= Began(j) + Slack /\ b[j] <= Accounted
            /\ Began(j) \in Int /\ b[j] \in Int /\ Slack = 0
        <5>1. j \in 1..N + 1 /\ j \in Int
          BY <1>2
        <5>. QED
          BY <1>2, <1>5, <1>10, <2>1, <5>1 DEF Cuts
      <4>. QED
        BY <4>1
    <3>. QED
      BY <3>1
  <2>3. Contents(mBuf)[k] = OnAir(b[k + 1]) - OnAir(b[k])
    BY <1>5 DEF Cuts
  <2>4. ASSUME NEW j \in 1..N PROVE Before_ms(Began(j)) = OnAir(b[j])
    <3>1. j \in Int /\ Began(j) = b[j] /\ b[j] <= Accounted
      BY <2>2
    <3>2. Began(j) \in Int
      BY <2>1, <3>1
    <3>3. Began(j) <= Accounted
      BY <3>1
    <3>4. Before_ms(Began(j)) = OnAir(Began(j))
      BY <3>2, <3>3, BeforeIs
    <3>. QED
      BY <3>1, <3>4
  <2>5. Before_ms(Began(k + 1)) = OnAir(b[k + 1])
    <3>1. CASE k = N
      <4>1. b[k + 1] = Accounted
        BY <1>5, <3>1 DEF Cuts
      <4>2. Began(k + 1) = LastUpdate + MINUTE
        BY <1>2, <2>1, <3>1
      <4>3. CASE LastUpdate + MINUTE <= Accounted
        <5>1. LastUpdate + MINUTE \in Int /\ LastUpdate + MINUTE + Slack = LastUpdate + MINUTE
          BY <1>2, <1>10
        <5>2. OnAir(LastUpdate + MINUTE) = OnAir(Accounted)
          BY <4>3, <5>1, NothingAfterCurrent
        <5>. QED
          BY <4>1, <4>2, <4>3, <5>1, <5>2, BeforeIs
      <4>4. CASE ~(LastUpdate + MINUTE <= Accounted)
        <5>1. LastUpdate + MINUTE \in Int /\ LastUpdate + MINUTE >= Accounted
          BY <1>2, <4>4
        <5>. QED
          BY <4>1, <4>2, <5>1, BeforeIs
      <4>. QED
        BY <4>3, <4>4
    <3>2. CASE k # N
      <4>1. k + 1 \in 1..N
        BY <1>2, <3>2
      <4>. QED
        BY <2>4, <4>1
    <3>. QED
      BY <3>1, <3>2
  <2>. QED
    BY <2>3, <2>4, <2>5
<1>11. AccountingExact
  BY <1>9, <1>10 DEF AccountingExact
<1>. QED
  BY <1>1, <1>4, <1>11

(* However often millis() rolls over, the asserts of addToCurrentMinute hold *)
(* and mTime_ms is the time on air of the minutes in the buffer - each slot  *)
(* exactly its minute until the first rollover, give or take one minute from *)
(* then on -, for every number and length of minutes and every schedule of   *)
(* messages and silences of a long run.                                      *)
THEOREM AirTimeIsExact ==
  LongSpec => []TypeOK /\ []AssertsHold /\ []AccountingExact
<1>1. Init => IInv
  BY InitStep
<1>2. IInv /\ [LongNext]_vars => IInv'
  BY NextStep
<1>3. IInv => TypeOK /\ AssertsHold /\ AccountingExact
  BY InvariantGives
<1>. QED
  BY <1>1, <1>2, <1>3, PTL DEF LongSpec
-----------------------------------------------------------------------------
(* The duty cycle. *)

\* How far back the gate is sure to see at clock c.
Sees(c) == (IF c + MINUTE < WORD THEN N - 1 ELSE N - 2) * MINUTE

\* All that was aired since the gate was last asked is one transmission.
GateInv ==
  \/ aired[clock] = 0
  \/ \E g \in 0..clock :
       aired[clock] <= aired[g] + MaxTx /\ ppm(WindowAt(g)) < LIMIT

(* A window begins no later than it ends, and a later one no earlier.        *)
LEMMA SeesFacts ==
  /\ \A c \in Nat : Sees(c) \in Nat
  /\ \A c \in Nat : WindowAt(c) = aired[c] - OnAir(c - Sees(c))
  /\ \A c, d \in Nat : c <= d => c - Sees(c) <= d - Sees(d)
<1>1. /\ N \in Nat /\ N >= 2 /\ MINUTE \in Nat /\ WORD \in Nat
  BY Sizes
<1>2. PICK long \in Nat, short \in Nat :
        long = (N - 1) * MINUTE /\ short = (N - 2) * MINUTE /\ short <= long
  <2>1. (N - 1) * MINUTE \in Nat /\ (N - 2) * MINUTE \in Nat
    BY <1>1
  <2>2. (N - 2) * MINUTE <= (N - 1) * MINUTE
    BY <1>1, TimesMono
  <2>. QED
    BY <2>1, <2>2
<1>3. ASSUME NEW c \in Nat
      PROVE  Sees(c) = IF c + MINUTE < WORD THEN long ELSE short
  BY <1>2 DEF Sees
<1>4. ASSUME NEW c \in Nat
      PROVE  WindowAt(c) = aired[c] - OnAir(c - Sees(c))
  BY DEF WindowAt, Sees
<1>5. ASSUME NEW c \in Nat, NEW d \in Nat, c <= d
      PROVE  c - Sees(c) <= d - Sees(d)
  BY <1>1, <1>2, <1>3, <1>5
<1>. QED
  BY <1>2, <1>3, <1>4, <1>5

(* A window is a time, and no window is larger than all before its end. *)
LEMMA WindowFacts ==
  ASSUME AiredInv, clock \in Nat, clock <= MaxClock, NEW c \in 0..clock
  PROVE  /\ Sees(c) \in Nat /\ aired[c] = OnAir(c) /\ OnAir(c) \in Nat
         /\ OnAir(c - Sees(c)) \in Nat
         /\ WindowAt(c) = OnAir(c) - OnAir(c - Sees(c))
         /\ WindowAt(c) \in Nat /\ WindowAt(c) <= aired[c]
<1>1. c \in Nat /\ c <= clock /\ Sees(c) \in Nat
      /\ WindowAt(c) = aired[c] - OnAir(c - Sees(c))
  BY SeesFacts
<1>2. c - Sees(c) \in Int /\ c - Sees(c) <= c /\ c - Sees(c) <= clock /\ c \in Int
  BY <1>1
<1>3. /\ aired[c] = OnAir(c) /\ OnAir(c) \in Nat
      /\ OnAir(c - Sees(c)) \in Nat /\ OnAir(c - Sees(c)) <= OnAir(c)
  <2>1. /\ \A x \in Int : x <= clock => OnAir(x) \in Nat
        /\ \A x, y \in Int : x <= y /\ y <= clock => OnAir(x) <= OnAir(y)
        /\ \A x \in Nat : x <= clock => OnAir(x) = aired[x]
    BY OnAirGrows
  <2>. QED
    BY <1>1, <1>2, <2>1
<1>. QED
  BY <1>1, <1>3

(* What the gate sees: no less than the minutes of WindowAt, and no more     *)
(* than an hour.                                                             *)
LEMMA GateSees ==
  ASSUME IInv, pc = "gate"
  PROVE  /\ mTime_ms \in Nat /\ Accounted = clock
         /\ WindowAt(clock) \in Nat /\ WindowAt(clock) <= mTime_ms
         /\ OnAir(clock - HOUR) \in Nat /\ OnAir(clock) \in Nat
         /\ OnAir(clock) = aired[clock]
         /\ mTime_ms <= OnAir(clock) - OnAir(clock - HOUR)
<1>1. /\ clock \in Nat /\ clock <= MaxClock /\ Ago \in Nat /\ LastUpdate \in Nat
      /\ LastUpdate + Ago = clock /\ Slack \in Nat
      /\ (Aligned => Slack = 0) /\ (~Aligned => Slack = MINUTE)
      /\ N \in Nat /\ N >= 2 /\ MINUTE \in Nat /\ HOUR \in Nat /\ WORD \in Nat
  BY Clocks, Sizes
<1>2. purpose = "gate" /\ Ago < MINUTE /\ Accounted = clock
  <2>1. purpose = "gate" /\ Ago < Left + MINUTE
    BY DEF IInv, LocalsInv
  <2>2. Left = 0 /\ Accounted = clock
    BY <2>1 DEF Left, Accounted
  <2>. QED
    BY <1>1, <2>1, <2>2
<1>3. PICK b \in [1..N + 1 -> Int] : Cuts(b)
  BY DEF IInv, SharesInv
<1>4. PICK first \in Int : first = b[1]
  BY <1>3, CutFacts
<1>5. /\ first <= clock /\ OnAir(first) \in Nat /\ OnAir(clock) \in Nat
      /\ LastUpdate + MINUTE - HOUR <= first
      /\ first <= LastUpdate + MINUTE - HOUR + Slack
      /\ mTime_ms = OnAir(clock) - OnAir(first)
  <2>1. /\ b[1] <= b[N] /\ b[N] <= Accounted /\ b[N] \in Int
        /\ OnAir(b[1]) \in Nat /\ OnAir(Accounted) \in Nat
        /\ LastUpdate + MINUTE - HOUR <= b[1]
        /\ b[1] <= LastUpdate + MINUTE - HOUR + Slack
    BY <1>3, CutFacts
  <2>2. mTime_ms = OnAir(Accounted) - OnAir(b[1])
    BY <1>3 DEF Cuts
  <2>3. first <= clock
    BY <1>1, <1>2, <1>4, <2>1
  <2>. QED
    BY <1>2, <1>4, <2>1, <2>2, <2>3
<1>6. /\ \A x \in Int : x <= clock => OnAir(x) \in Nat
      /\ \A x, y \in Int : x <= y /\ y <= clock => OnAir(x) <= OnAir(y)
  BY <1>1, OnAirGrows DEF IInv
<1>7. /\ OnAir(clock - HOUR) \in Nat /\ OnAir(clock - HOUR) <= OnAir(first)
  <2>1. clock - HOUR \in Int /\ clock - HOUR <= first /\ clock - HOUR <= clock
    BY <1>1, <1>2, <1>5
  <2>. QED
    BY <1>5, <1>6, <2>1
<1>8. mTime_ms \in Nat
  BY DEF IInv, MembersInv
<1>9. first <= clock - Sees(clock) /\ Sees(clock) \in Nat
  <2>1. HOUR = (N - 1) * MINUTE + MINUTE /\ HOUR = (N - 2) * MINUTE + 2 * MINUTE
        /\ (N - 1) * MINUTE \in Nat /\ (N - 2) * MINUTE \in Nat
    BY <1>1 DEF HOUR
  <2>2. CASE Aligned
    <3>1. Sees(clock) = (N - 1) * MINUTE
      BY <2>2 DEF Sees, Aligned
    <3>2. Slack = 0
      BY <1>1, <2>2
    <3>3. PICK s \in Nat : s = Sees(clock) /\ HOUR = s + MINUTE
      BY <2>1, <3>1
    <3>4. first <= LastUpdate + MINUTE - HOUR + 0
      BY <1>5, <3>2
    <3>5. PICK last \in Nat, h \in Nat, m \in Nat :
            last = LastUpdate /\ h = HOUR /\ m = MINUTE /\ last <= clock
      BY <1>1
    <3>6. first <= last + m - h + 0 /\ h = s + m
      BY <3>3, <3>4, <3>5
    <3>7. first <= clock - s
      <4>1. clock \in Nat
        BY <1>1
      <4>2. first <= last - s
        BY <3>5, <3>6
      <4>. QED
        BY <3>5, <4>1, <4>2
    <3>. QED
      BY <3>3, <3>7
  <2>3. CASE ~Aligned
    <3>1. Sees(clock) = (N - 2) * MINUTE
      BY <2>3 DEF Sees, Aligned
    <3>2. Slack = MINUTE
      BY <1>1, <2>3
    <3>3. PICK s \in Nat : s = Sees(clock) /\ HOUR = s + 2 * MINUTE
      BY <2>1, <3>1
    <3>4. first <= LastUpdate + MINUTE - HOUR + MINUTE
      BY <1>5, <3>2
    <3>5. PICK last \in Nat, h \in Nat, m \in Nat :
            last = LastUpdate /\ h = HOUR /\ m = MINUTE /\ last <= clock
      BY <1>1
    <3>6. first <= last + m - h + m /\ h = s + 2 * m
      BY <3>3, <3>4, <3>5
    <3>7. first <= clock - s
      <4>1. clock \in Nat
        BY <1>1
      <4>2. first <= last - s
        BY <3>5, <3>6
      <4>. QED
        BY <3>5, <4>1, <4>2
    <3>. QED
      BY <3>3, <3>7
  <2>. QED
    BY <2>2, <2>3
<1>10. WindowAt(clock) \in Nat /\ WindowAt(clock) <= mTime_ms
       /\ OnAir(clock) = aired[clock]
  <2>1. clock \in 0..clock
    BY <1>1
  <2>2. /\ WindowAt(clock) = OnAir(clock) - OnAir(clock - Sees(clock))
        /\ WindowAt(clock) \in Nat /\ aired[clock] = OnAir(clock)
        /\ OnAir(clock - Sees(clock)) \in Nat
    BY <1>1, <2>1, WindowFacts DEF IInv
  <2>3. OnAir(first) <= OnAir(clock - Sees(clock))
    <3>1. clock - Sees(clock) \in Int /\ clock - Sees(clock) <= clock
      BY <1>1, <1>9
    <3>. QED
      BY <1>6, <1>9, <3>1
  <2>. QED
    BY <1>5, <2>2, <2>3
<1>. QED
  BY <1>2, <1>5, <1>7, <1>8, <1>10

(* So it lets a message pass only if the window is below the limit, and      *)
(* drops one only if the hour is not.                                        *)
LEMMA GateDecides ==
  ASSUME IInv, pc = "gate"
  PROVE  /\ ~isLimitReached => ppm(WindowAt(clock)) < LIMIT
         /\ isLimitReached => ppm(aired[clock] - OnAir(clock - HOUR)) >= LIMIT
<1>1. /\ mTime_ms \in Nat /\ WindowAt(clock) \in Nat /\ WindowAt(clock) <= mTime_ms
      /\ aired[clock] - OnAir(clock - HOUR) \in Nat
      /\ mTime_ms <= aired[clock] - OnAir(clock - HOUR)
  BY GateSees
<1>2. /\ ppm(WindowAt(clock)) <= ppm(mTime_ms)
      /\ ppm(WindowAt(clock)) \in Nat /\ ppm(mTime_ms) \in Nat
  BY <1>1, RoundMono
<1>3. /\ ppm(mTime_ms) <= ppm(aired[clock] - OnAir(clock - HOUR))
      /\ ppm(aired[clock] - OnAir(clock - HOUR)) \in Nat
  BY <1>1, RoundMono
<1>4. isLimitReached <=> ppm(mTime_ms) >= LIMIT
  BY <1>1, GateCompares
<1>5. LIMIT \in Nat
  BY Sizes
<1>. QED
  BY <1>2, <1>3, <1>4, <1>5

(* What the past says does not change. *)
LEMMA WindowFrame ==
  ASSUME clock \in Nat, NEW g \in 0..clock,
         \A c \in 0..clock : aired'[c] = aired[c]
  PROVE  WindowAt(g)' = WindowAt(g)
<1>1. Sees(g) \in Nat /\ g \in Nat /\ g <= clock
      /\ WindowAt(g) = aired[g] - OnAir(g - Sees(g))
  BY SeesFacts
<1>2. WindowAt(g)' = aired'[g] - OnAir(g - Sees(g))'
  BY DEF WindowAt, Sees
<1>3. PICK x \in Int : x = g - Sees(g) /\ x <= clock
  BY <1>1
<1>4. OnAir(x)' = OnAir(x)
  <2>1. CASE x <= 0
    BY <2>1 DEF OnAir
  <2>2. CASE ~(x <= 0)
    <3>1. x \in 0..clock
      BY <1>3, <2>2
    <3>. QED
      BY <2>2, <3>1 DEF OnAir
  <2>. QED
    BY <2>1, <2>2
<1>5. OnAir(g - Sees(g))' = OnAir(x)'
  BY <1>3 DEF Sees, OnAir
<1>. QED
  BY <1>1, <1>2, <1>3, <1>4, <1>5

(* Only a transmission adds to the time on air, after the gate was asked.    *)
LEMMA GateStep == IInv /\ GateInv /\ [LongNext]_vars => GateInv'
<1>. SUFFICES ASSUME IInv, GateInv, [LongNext]_vars PROVE GateInv'
  OBVIOUS
<1>1. /\ clock \in 0..MaxClock /\ clock \in Nat /\ MaxClock \in Nat
      /\ clock \in 0..clock
      /\ \A c \in 0..MaxClock : aired[c] \in Nat
      /\ \A c \in 0..MaxClock : clock <= c => aired[c] = aired[clock]
  <2>1. clock \in 0..MaxClock /\ MaxClock \in Nat
    BY Sizes DEF IInv, LocalsInv
  <2>2. /\ aired \in [0..MaxClock -> Nat]
        /\ \A c \in 0..MaxClock : clock <= c => aired[c] = aired[clock]
    BY DEF IInv, AiredInv
  <2>. QED
    BY <2>1, <2>2
<1>2. CASE \E d \in 0..MaxTx : Transmit(d)
  <2>1. PICK d \in 0..MaxTx : Transmit(d)
    BY <1>2
  <2>2. /\ pc = "gate" /\ ~isLimitReached /\ clock' = clock + d
        /\ clock + d <= MaxClock /\ d \in Nat /\ d <= MaxTx /\ MaxTx \in Nat
        /\ aired' = [c \in 0..MaxClock |->
                       IF c <= clock THEN aired[c]
                       ELSE aired[clock] + (IF c <= clock + d THEN c - clock ELSE d)]
    BY <2>1, Sizes DEF Transmit
  <2>3. /\ \A c \in 0..clock : aired'[c] = aired[c]
        /\ aired'[clock + d] = aired[clock] + d
    BY <1>1, <2>2
  <2>4. ppm(WindowAt(clock)) < LIMIT
    BY <2>2, GateDecides
  <2>5. PICK h \in 0..clock : h = clock
    BY <1>1
  <2>6. WindowAt(h)' = WindowAt(h)
    BY <1>1, <2>3, WindowFrame
  <2>7. ppm(WindowAt(h))' < LIMIT
    BY <2>4, <2>5, <2>6 DEF ppm
  <2>8. aired'[clock'] <= aired'[h] + MaxTx /\ h \in 0..clock'
    BY <1>1, <2>2, <2>3, <2>5
  <2>. QED
    BY <2>7, <2>8 DEF GateInv
<1>3. CASE UNCHANGED aired /\ clock' \in clock..MaxClock
  <2>1. aired'[clock'] = aired[clock]
    BY <1>1, <1>3
  <2>2. CASE aired[clock] = 0
    BY <2>1, <2>2 DEF GateInv
  <2>3. CASE aired[clock] # 0
    <3>1. PICK g \in 0..clock :
            aired[clock] <= aired[g] + MaxTx /\ ppm(WindowAt(g)) < LIMIT
      BY <2>3 DEF GateInv
    <3>2. WindowAt(g)' = WindowAt(g)
      BY <1>1, <1>3, WindowFrame
    <3>3. g \in 0..clock' /\ aired'[clock'] <= aired'[g] + MaxTx
      BY <1>1, <1>3, <2>1, <3>1
    <3>4. ppm(WindowAt(g))' < LIMIT
      BY <3>1, <3>2 DEF ppm
    <3>. QED
      BY <3>3, <3>4 DEF GateInv
  <2>. QED
    BY <2>2, <2>3
<1>4. \/ \E d \in 0..MaxTx : Transmit(d)
      \/ UNCHANGED aired /\ clock' \in clock..MaxClock
  BY <1>1 DEF LongNext, Step, Roll, ShiftMinute, UpdateReturns, AddSlice, SendMsg,
              LimitReached, Tick, vars
<1>. QED
  BY <1>2, <1>3, <1>4

(* Since the last transmission began, windows have only moved on.            *)
LEMMA GateGives ==
  ASSUME IInv, GateInv
  PROVE  DutyCycle
<1>1. /\ clock \in 0..clock /\ clock \in Nat /\ MaxTx \in Nat /\ LIMIT \in Nat
      /\ clock <= MaxClock
  BY Sizes, Clocks
<1>2. PICK used \in Nat : used = WindowAt(clock) /\ used <= aired[clock]
  BY <1>1, WindowFacts DEF IInv
<1>3. SUFFICES ASSUME used > MaxTx PROVE ppm(used - MaxTx) < LIMIT
  BY <1>2 DEF DutyCycle
<1>4. PICK g \in 0..clock :
        aired[clock] <= aired[g] + MaxTx /\ ppm(WindowAt(g)) < LIMIT
  <2>1. aired[clock] # 0
    BY <1>1, <1>2, <1>3
  <2>. QED
    BY <2>1 DEF GateInv
<1>5. WindowAt(g) \in Nat /\ used - MaxTx \in Nat /\ used - MaxTx <= WindowAt(g)
  <2>1. /\ used = OnAir(clock) - OnAir(clock - Sees(clock))
        /\ OnAir(clock) = aired[clock] /\ OnAir(clock) \in Nat
        /\ OnAir(clock - Sees(clock)) \in Nat /\ Sees(clock) \in Nat
    BY <1>1, <1>2, WindowFacts DEF IInv
  <2>2. /\ WindowAt(g) = OnAir(g) - OnAir(g - Sees(g)) /\ WindowAt(g) \in Nat
        /\ OnAir(g) = aired[g] /\ OnAir(g) \in Nat
        /\ OnAir(g - Sees(g)) \in Nat /\ Sees(g) \in Nat
    BY <1>1, WindowFacts DEF IInv
  <2>3. g \in Nat /\ g <= clock
    BY <1>1
  <2>4. g - Sees(g) <= clock - Sees(clock)
    BY <1>1, <2>3, SeesFacts
  <2>5. OnAir(g - Sees(g)) <= OnAir(clock - Sees(clock))
    <3>1. /\ g - Sees(g) \in Int /\ clock - Sees(clock) \in Int
          /\ clock - Sees(clock) <= clock
      BY <1>1, <2>1, <2>2, <2>3
    <3>2. \A x, y \in Int : x <= y /\ y <= clock => OnAir(x) <= OnAir(y)
      BY <1>1, OnAirGrows DEF IInv
    <3>. QED
      BY <2>4, <3>1, <3>2
  <2>6. PICK now \in Nat, then \in Nat, from \in Nat, since \in Nat :
          /\ now = OnAir(clock) /\ then = OnAir(g)
          /\ from = OnAir(clock - Sees(clock)) /\ since = OnAir(g - Sees(g))
    BY <2>1, <2>2
  <2>7. now <= then + MaxTx /\ since <= from /\ used = now - from
        /\ WindowAt(g) = then - since
    BY <1>4, <2>1, <2>2, <2>5, <2>6
  <2>. QED
    BY <1>1, <1>3, <2>2, <2>6, <2>7
<1>6. /\ ppm(used - MaxTx) <= ppm(WindowAt(g))
      /\ ppm(used - MaxTx) \in Nat /\ ppm(WindowAt(g)) \in Nat
  BY <1>5, RoundMono
<1>. QED
  BY <1>1, <1>4, <1>6

(* The node keeps its duty cycle, however often millis() rolls over: no      *)
(* window of N - 1 minutes (N - 2 after the first rollover) holds more than  *)
(* the limit and one message, for every limit, every length of a message and *)
(* every schedule of a long run.                                             *)
THEOREM DutyCycleIsKept == LongSpec => []DutyCycle
<1>1. Init => IInv /\ GateInv
  <2>1. Init => GateInv
    <3>1. MaxClock \in Nat
      BY Sizes
    <3>. QED
      BY <3>1 DEF Init, GateInv
  <2>. QED
    BY <2>1, InitStep
<1>2. IInv /\ GateInv /\ [LongNext]_vars => IInv' /\ GateInv'
  BY NextStep, GateStep
<1>3. IInv /\ GateInv => DutyCycle
  BY GateGives
<1>. QED
  BY <1>1, <1>2, <1>3, PTL DEF LongSpec
-----------------------------------------------------------------------------
(* The abstract limiter. *)

(* Its share and its windows are AirTime's. *)
LEMMA LimiterWindows ==
  ASSUME clock \in Nat
  PROVE  /\ \A x : Limiter!ppm(x) = ppm(x)
         /\ Limiter!Window(Limiter!Sure) = WindowAt(clock)
         /\ Limiter!Window(N) = aired[clock] - OnAir(clock - HOUR)
<1>1. \A x : Limiter!ppm(x) = ppm(x)
  BY DEF Limiter!ppm, Limiter!HOUR, ppm, HOUR
<1>2. Limiter!Window(Limiter!Sure) = WindowAt(clock)
  BY DEF Limiter!Window, Limiter!Sure, WindowAt, OnAir
<1>3. Limiter!Window(N) = aired[clock] - OnAir(clock - HOUR)
  BY DEF Limiter!Window, OnAir, HOUR
<1>. QED
  BY <1>1, <1>2, <1>3

(* Every step of sendMsg is one of the limiter or changes nothing of it. *)
LEMMA StepIsALimiters ==
  ASSUME IInv, [LongNext]_vars
  PROVE  [Limiter!Next]_(Limiter!vars)
<1>. DEFINE phase == IF pc = "idle" THEN "idle"
                     ELSE IF purpose = "gate" THEN "asked" ELSE "sent"
<1>0. clock \in Nat
  BY Clocks
<1>1. CASE Step
  <2>1. UNCHANGED <<clock, aired>> /\ pc # "idle"
    BY <1>1 DEF Step, Roll, ShiftMinute, UpdateReturns, AddSlice
  <2>2. CASE UpdateReturns /\ purpose = "log"
    <3>1. pc' = "idle" /\ phase = "sent" /\ phase' = "idle"
      BY <2>2 DEF UpdateReturns
    <3>. QED
      BY <2>1, <3>1 DEF Limiter!Next, Limiter!Return
  <2>3. CASE ~(UpdateReturns /\ purpose = "log")
    <3>1. pc' # "idle" /\ (purpose' = "gate" <=> purpose = "gate")
      <4>1. CASE Roll
        BY <4>1 DEF Roll
      <4>2. CASE ShiftMinute
        BY <4>2 DEF ShiftMinute
      <4>3. CASE UpdateReturns
        <5>1. purpose \in {"gate", "account"}
          BY <2>3, <4>3 DEF IInv, LocalsInv, Purposes
        <5>. QED
          BY <4>3, <5>1 DEF UpdateReturns
      <4>4. CASE AddSlice
        <5>1. purpose = "account"
          BY <4>4 DEF AddSlice, IInv, LocalsInv
        <5>. QED
          BY <4>4, <5>1 DEF AddSlice, CallUpdate
      <4>. QED
        BY <1>1, <4>1, <4>2, <4>3, <4>4 DEF Step
    <3>2. phase' = phase
      BY <2>1, <3>1
    <3>. QED
      BY <2>1, <3>2 DEF Limiter!vars
  <2>. QED
    BY <2>2, <2>3
<1>2. CASE SendMsg
  <2>1. phase = "idle" /\ phase' = "asked" /\ UNCHANGED <<clock, aired>>
    BY <1>2 DEF SendMsg, CallUpdate
  <2>. QED
    BY <2>1 DEF Limiter!Next, Limiter!Ask
<1>3. CASE LimitReached
  <2>1. /\ pc = "gate" /\ isLimitReached /\ pc' = "idle"
        /\ UNCHANGED <<clock, aired>>
    BY <1>3 DEF LimitReached
  <2>2. phase = "asked" /\ phase' = "idle"
    BY <2>1 DEF IInv, LocalsInv
  <2>3. ppm(aired[clock] - OnAir(clock - HOUR)) >= LIMIT
    BY <2>1, GateDecides
  <2>. QED
    BY <1>0, <2>1, <2>2, <2>3, LimiterWindows DEF Limiter!Next, Limiter!Drop
<1>4. ASSUME NEW d \in 0..MaxTx, Transmit(d)
      PROVE  Limiter!Next
  <2>1. /\ pc = "gate" /\ ~isLimitReached /\ pc' = "roll" /\ purpose' = "account"
        /\ clock' = clock + d
        /\ aired' = [c \in 0..MaxClock |->
                       IF c <= clock THEN aired[c]
                       ELSE aired[clock] + (IF c <= clock + d THEN c - clock ELSE d)]
    BY <1>4 DEF Transmit, CallUpdate
  <2>2. phase = "asked" /\ phase' = "sent"
    BY <2>1 DEF IInv, LocalsInv
  <2>3. ppm(WindowAt(clock)) < LIMIT
    BY <2>1, GateDecides
  <2>4. Limiter!ppm(Limiter!Window(Limiter!Sure)) < LIMIT
    BY <1>0, <2>3, LimiterWindows
  <2>5. Limiter!Send(d)
    BY <2>1, <2>2, <2>4 DEF Limiter!Send
  <2>. QED
    BY <2>5 DEF Limiter!Next
<1>5. CASE Tick
  <2>1. phase = "idle" /\ phase' = phase /\ clock' = clock + 1 /\ aired' = aired
    BY <1>5 DEF Tick
  <2>. QED
    BY <2>1 DEF Limiter!Next, Limiter!Tick
<1>6. CASE UNCHANGED vars
  BY <1>6 DEF vars, Limiter!vars
<1>. QED
  BY <1>1, <1>2, <1>3, <1>4, <1>5, <1>6 DEF LongNext

(* With its minutes, AirTime decides as the limiter that knows all of the    *)
(* past: sendMsg never transmits when the window it can be sure of is at the *)
(* limit, and never drops a message when the real hour is below it.          *)
THEOREM SendMsgIsALimiter == LongSpec => LimiterSpec
<1>1. Init => Limiter!Init
  BY DEF Init, Limiter!Init
<1>2. IInv /\ [LongNext]_vars => [Limiter!Next]_(Limiter!vars)
  BY StepIsALimiters
<1>3. Init => IInv
  BY InitStep
<1>4. IInv /\ [LongNext]_vars => IInv'
  BY NextStep
<1>. QED
  BY <1>1, <1>2, <1>3, <1>4, PTL DEF LongSpec, LimiterSpec, Limiter!Spec
-----------------------------------------------------------------------------
(* Until the first rollover every run is a long run. *)
NoRollover == MaxClock + MINUTE < WORD

(* The conditions of LongNext hold of every step. *)
LEMMA StepIsLong ==
  ASSUME NoRollover, IInv, [Next]_vars
  PROVE  [LongNext]_vars
<1>1. /\ clock \in Nat /\ clock <= MaxClock /\ MaxClock \in Nat /\ MINUTE \in Nat
      /\ WORD \in Nat /\ MaxClock + MINUTE < WORD /\ MaxTx \in Nat
      /\ Aligned => millis = clock
      /\ Ago \in Nat /\ LastUpdate \in Nat /\ LastUpdate + Ago = clock
  BY Clocks, Sizes DEF NoRollover
<1>2. Aligned /\ millis = clock /\ Ago <= clock
  BY <1>1 DEF Aligned
<1>3. MaxClock < LastMinute /\ LastMinute \in Nat
  <2>. DEFINE j == (WORD - 1) \div MINUTE
  <2>1. MINUTE \in Nat \ {0} /\ WORD - 1 \in Nat
    BY <1>1, Sizes
  <2>2. j \in Nat /\ WORD - 1 < j * MINUTE + MINUTE
    BY <2>1, DivMod
  <2>3. LastMinute = j * MINUTE
    BY DEF LastMinute
  <2>. HIDE DEF j
  <2>4. PICK l \in Nat : l = j * MINUTE
    BY <1>1, <2>2
  <2>. QED
    BY <1>1, <2>2, <2>3, <2>4
<1>4. CASE SendMsg
  <2>1. millis < LastMinute
    BY <1>1, <1>2, <1>3
  <2>. QED
    BY <1>4, <2>1 DEF LongNext
<1>5. ASSUME NEW d \in 0..MaxTx, Transmit(d)
      PROVE  LongNext
  <2>1. clock' = clock + d /\ clock + d <= MaxClock /\ d \in Nat
    BY <1>1, <1>5 DEF Transmit
  <2>2. millis + d <= LastMinute
    BY <1>1, <1>2, <1>3, <2>1
  <2>3. Aligned'
    BY <1>1, <2>1 DEF Aligned
  <2>. QED
    BY <1>5, <2>2, <2>3 DEF LongNext
<1>6. CASE Tick
  <2>1. Ago < WORD - MINUTE
    BY <1>1, <1>2
  <2>. QED
    BY <1>6, <2>1 DEF LongNext
<1>. QED
  BY <1>4, <1>5, <1>6 DEF Next, LongNext

(* As long as millis() has not rolled over, nothing is asked of messages and *)
(* silences: all that is proved of long runs holds of every run.             *)
THEOREM FirstRunIsLong == ASSUME NoRollover PROVE Spec => LongSpec
<1>1. IInv /\ [Next]_vars => [LongNext]_vars
  BY StepIsLong
<1>2. Init => IInv
  BY InitStep
<1>3. IInv /\ [LongNext]_vars => IInv'
  BY NextStep
<1>. QED
  BY <1>1, <1>2, <1>3, PTL DEF Spec, LongSpec
-----------------------------------------------------------------------------
(* The loops of update(time) and update(start, end). *)

InCall == pc \in {"roll", "shift", "add"}

\* Until update(time) is back at its caller: a step for each ms it lags behind
\* is more than it takes.
Ahead == CASE pc = "roll" -> Elapsed + 3
           [] pc = "shift" -> Elapsed + 2
           [] pc = "add" -> 1
           [] OTHER -> 0

\* A round of update(start, end) takes no more than that, and each accounts for
\* at least a ms; the last is followed by one more call of update(time).
Rounds == IF InCall /\ purpose = "account" THEN (Left + 1) * (WORD + 4) ELSE 0

Work == Ahead + Rounds

GoesOn == InCall => Work' < Work

LEMMA AheadIs ==
  /\ pc = "roll" => Ahead = Elapsed + 3
  /\ pc = "shift" => Ahead = Elapsed + 2
  /\ pc = "add" => Ahead = 1
  /\ ~InCall => Ahead = 0 /\ Rounds = 0
  /\ pc' = "roll" => Ahead' = Elapsed' + 3
  /\ pc' = "shift" => Ahead' = Elapsed' + 2
  /\ pc' = "add" => Ahead' = 1
  /\ ~InCall' => Ahead' = 0 /\ Rounds' = 0
BY DEF Ahead, InCall, Rounds

(* Rounds left are a number, more by WORD + 4 for each ms. *)
LEMMA RoundsIs ==
  ASSUME NEW l \in Nat, NEW k \in Nat, k < l
  PROVE  /\ (l + 1) * (WORD + 4) \in Nat
         /\ (k + 1) * (WORD + 4) + (WORD + 4) <= (l + 1) * (WORD + 4)
<1>1. WORD + 4 \in Nat /\ l + 1 \in Nat
  BY Sizes
<1>2. PICK w \in Nat : w = WORD + 4
  BY <1>1
<1>3. (k + 2) * w <= (l + 1) * w
  BY <1>2, TimesMono
<1>4. (k + 2) * w = (k + 1) * w + w
  BY <1>2
<1>5. (l + 1) * w \in Nat
  BY <1>2
<1>. QED
  BY <1>2, <1>3, <1>4, <1>5

LEMMA WorkType ==
  ASSUME IInv
  PROVE  Ahead \in Nat /\ Rounds \in Nat /\ Work \in Nat
<1>1. Ahead \in Nat
  <2>1. pc \in {"roll", "shift"} => Elapsed \in Nat
    BY ElapsedIs
  <2>. QED
    BY <2>1, AheadIs DEF InCall
<1>2. Rounds \in Nat
  <2>1. Left \in Nat /\ WORD \in Nat
    BY Clocks, Sizes
  <2>2. PICK l \in Nat, w \in Nat : l = Left /\ w = WORD
    BY <2>1
  <2>3. (l + 1) * (w + 4) \in Nat
    BY <2>2
  <2>. QED
    BY <2>2, <2>3 DEF Rounds
<1>. QED
  BY <1>1, <1>2 DEF Work

(* A step of update(time) leaves the rounds of its caller alone. *)
LEMMA RoundsFrame ==
  ASSUME InCall, InCall', UNCHANGED <<purpose, t1, end>>
  PROVE  Rounds' = Rounds
BY DEF Rounds, Left

LEMMA RollWork ==
  ASSUME IInv, Roll
  PROVE  Work' < Work
<1>1. /\ pc = "roll" /\ pc' = "shift" /\ time' = time
      /\ UNCHANGED <<purpose, t1, end>>
  BY DEF Roll
<1>2. /\ time \in 0..(WORD - 1) /\ mLastUpdate_ms \in 0..(WORD - 1)
      /\ Elapsed \in Nat
  BY <1>1, Clocks, ElapsedIs
<1>3. PICK e \in Nat : e = Elapsed' /\ e <= Elapsed
  <2>1. CASE SkipHours
    <3>. DEFINE j == Elapsed \div HOUR
                h == j * HOUR
    <3>1. HOUR \in Nat \ {0}
      BY Sizes
    <3>2. j \in Nat /\ h <= Elapsed
      BY <1>2, <3>1, DivMod
    <3>3. mLastUpdate_ms' = (mLastUpdate_ms + HOUR * j) % WORD
      BY <2>1 DEF SkipHours
    <3>. HIDE DEF j
    <3>4. h \in Nat /\ HOUR * j = h
      BY <3>1, <3>2
    <3>. HIDE DEF h
    <3>5. (time - ((mLastUpdate_ms + h) % WORD)) % WORD = Elapsed - h
      BY <1>2, <3>2, <3>4, Nearer DEF Elapsed
    <3>6. Elapsed' = Elapsed - h
      BY <1>1, <3>3, <3>4, <3>5 DEF Elapsed
    <3>. QED
      BY <1>2, <3>2, <3>4, <3>6
  <2>2. CASE UNCHANGED members
    BY <1>1, <1>2, <2>2 DEF members, Elapsed
  <2>. QED
    BY <2>1, <2>2 DEF Roll
<1>4. Rounds' = Rounds
  BY <1>1, RoundsFrame DEF InCall
<1>5. Work = Elapsed + 3 + Rounds
  BY <1>1, AheadIs DEF Work
<1>6. Work' = e + 2 + Rounds
  BY <1>1, <1>3, <1>4, AheadIs DEF Work
<1>. QED
  BY <1>2, <1>3, <1>5, <1>6, WorkType

LEMMA ShiftMinuteWork ==
  ASSUME IInv, ShiftMinute
  PROVE  Work' < Work
<1>1. /\ pc = "shift" /\ pc' = "shift" /\ Elapsed >= MINUTE
      /\ time' = time /\ mLastUpdate_ms' = (mLastUpdate_ms + MINUTE) % WORD
      /\ UNCHANGED <<purpose, t1, end>>
  BY DEF ShiftMinute
<1>2. /\ time \in 0..(WORD - 1) /\ mLastUpdate_ms \in 0..(WORD - 1)
      /\ Elapsed \in Nat /\ MINUTE \in Nat /\ MINUTE >= 1
  BY <1>1, Clocks, ElapsedIs, Sizes
<1>3. (time - ((mLastUpdate_ms + MINUTE) % WORD)) % WORD = Elapsed - MINUTE
  BY <1>1, <1>2, Nearer DEF Elapsed
<1>4. PICK e \in Nat : e = Elapsed' /\ e < Elapsed
  BY <1>1, <1>2, <1>3 DEF Elapsed
<1>5. Rounds' = Rounds
  BY <1>1, RoundsFrame DEF InCall
<1>6. Work = Elapsed + 2 + Rounds
  BY <1>1, AheadIs DEF Work
<1>7. Work' = e + 2 + Rounds
  BY <1>1, <1>4, <1>5, AheadIs DEF Work
<1>. QED
  BY <1>2, <1>4, <1>6, <1>7, WorkType

LEMMA UpdateReturnsWork ==
  ASSUME IInv, UpdateReturns
  PROVE  Work' < Work
<1>1. /\ pc = "shift" /\ UNCHANGED <<purpose, t1, end>>
      /\ purpose \in {"gate", "account", "log"}
      /\ pc' = CASE purpose = "gate" -> "gate"
                 [] purpose = "account" -> "add"
                 [] purpose = "log" -> "idle"
  BY DEF UpdateReturns, IInv, LocalsInv, Purposes
<1>2. Elapsed \in Nat /\ Rounds \in Nat
  BY <1>1, ElapsedIs, WorkType
<1>3. Work = Elapsed + 2 + Rounds
  BY <1>1, AheadIs DEF Work
<1>4. CASE purpose = "account"
  <2>1. pc' = "add"
    BY <1>1, <1>4
  <2>2. Rounds' = Rounds
    BY <1>1, <2>1, RoundsFrame DEF InCall
  <2>3. Work' = 1 + Rounds
    BY <2>1, <2>2, AheadIs DEF Work
  <2>. QED
    BY <1>2, <1>3, <2>3
<1>5. CASE purpose # "account"
  <2>1. ~InCall'
    BY <1>1, <1>5 DEF InCall
  <2>2. Work' = 0
    BY <2>1, AheadIs DEF Work
  <2>. QED
    BY <1>2, <1>3, <2>2
<1>. QED
  BY <1>4, <1>5

(* A slice accounts for at least a ms if more are to come. *)
LEMMA AddSliceWork ==
  ASSUME IInv, AddSlice
  PROVE  Work' < Work
<1>1. /\ pc = "add" /\ t1' = SliceEnd /\ end' = end
      /\ mLastUpdate_ms' = mLastUpdate_ms
      /\ \/ pc' = "abort"
         \/ SliceEnd < end /\ CallUpdate("account", SliceEnd)
         \/ CallUpdate("log", millis)
  BY DEF AddSlice
<1>2. /\ purpose = "account" /\ SliceEnd \in 0..(WORD - 1) /\ Left = end - t1
      /\ t1 <= SliceEnd
      /\ t1 < end => t1 < SliceEnd
  BY <1>1, SliceFacts
<1>3. /\ WORD \in Nat /\ Left \in Nat /\ t1 \in 0..(WORD - 1)
      /\ end \in 0..(WORD - 1) /\ millis \in 0..(WORD - 1)
      /\ mLastUpdate_ms \in 0..(WORD - 1)
  BY Clocks, Sizes
<1>4. PICK w \in Nat, r \in Nat :
        /\ w = WORD /\ r = Rounds /\ Rounds = (Left + 1) * (WORD + 4)
        /\ Work = 1 + r
  BY <1>1, <1>2, <1>3, AheadIs, WorkType DEF Work, Rounds, InCall
<1>5. CASE pc' = "abort"
  <2>1. Work' = 0
    BY <1>5, AheadIs DEF Work, InCall
  <2>. QED
    BY <1>4, <2>1
<1>6. ASSUME time' \in 0..(WORD - 1)
      PROVE  \E e \in 0..(WORD - 1) : e = Elapsed'
  BY <1>1, <1>3, <1>6, Diff DEF Elapsed
<1>7. CASE SliceEnd < end /\ CallUpdate("account", SliceEnd)
  <2>1. pc' = "roll" /\ purpose' = "account" /\ time' = SliceEnd
    BY <1>7 DEF CallUpdate
  <2>2. PICK e \in 0..(WORD - 1) : e = Elapsed'
    BY <1>2, <1>6, <2>1
  <2>3. PICK k \in Nat : k = end - SliceEnd /\ k < Left
    BY <1>2, <1>3, <1>7
  <2>4. Left' = k
    BY <1>1, <2>1, <2>3 DEF Left
  <2>5. Rounds' = (k + 1) * (WORD + 4)
    BY <2>1, <2>4 DEF Rounds, InCall
  <2>6. Rounds' + (w + 4) <= r
    BY <1>3, <1>4, <2>3, <2>5, RoundsIs
  <2>7. PICK q \in Nat : q = Rounds'
    BY <2>3, <2>5, <1>4
  <2>8. Work' = e + 3 + q
    BY <2>1, <2>2, <2>7, AheadIs DEF Work
  <2>. QED
    BY <1>4, <2>2, <2>6, <2>7, <2>8
<1>8. CASE CallUpdate("log", millis)
  <2>1. pc' = "roll" /\ purpose' = "log" /\ time' = millis
    BY <1>8 DEF CallUpdate
  <2>2. PICK e \in 0..(WORD - 1) : e = Elapsed'
    BY <1>3, <1>6, <2>1
  <2>3. Rounds' = 0
    BY <2>1 DEF Rounds
  <2>4. Work' = e + 3
    BY <2>1, <2>2, <2>3, AheadIs DEF Work
  <2>5. r >= w + 4
    <3>1. PICK l \in Nat : l = Left
      BY <1>3
    <3>2. r = (l + 1) * (w + 4)
      BY <1>4, <3>1
    <3>3. 1 * (w + 4) <= (l + 1) * (w + 4)
      BY TimesMono
    <3>. QED
      BY <3>2, <3>3
  <2>. QED
    BY <1>4, <2>2, <2>4, <2>5
<1>. QED
  BY <1>1, <1>5, <1>7, <1>8

(* No call of update is stuck, wherever millis() stands: each iteration of a *)
(* loop (AirTime.cpp:20-24, 38-50) brings its end nearer, and no message, no *)
(* silence and no rollover makes a call longer than Work steps.              *)
THEOREM UpdateEnds == LongSpec => [](Work \in Nat) /\ [][GoesOn]_vars
<1>1. IInv => Work \in Nat
  BY WorkType
<1>2. IInv /\ [LongNext]_vars => [GoesOn]_vars
  <2>. SUFFICES ASSUME IInv, LongNext, InCall
                PROVE  Work' < Work
    BY DEF GoesOn
  <2>1. Step
    BY DEF LongNext, InCall, SendMsg, LimitReached, Transmit, Tick
  <2>. QED
    BY <2>1, RollWork, ShiftMinuteWork, UpdateReturnsWork, AddSliceWork DEF Step
<1>. QED
  BY <1>1, <1>2, InitStep, NextStep, PTL DEF LongSpec
=============================================================================
