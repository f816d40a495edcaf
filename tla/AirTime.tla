------------------------------ MODULE AirTime ------------------------------
(***************************************************************************)
(* The duty-cycle accountant (AirTime.h, AirTime.cpp) under its only       *)
(* client, LoRaHandler::sendMsg: ask isLimitReached, transmit, account the *)
(* transmission, and read the total back for the log line.                 *)
(*                                                                         *)
(* mBuf holds the milliseconds on air of each of the last N minutes, back  *)
(* (oldest) to front (the current minute); mTime_ms is meant to be their   *)
(* sum.  The loops of update(time) and update(start, end) take one step    *)
(* per iteration.  Times are milliseconds modulo WORD, as millis() is.     *)
(***************************************************************************)
EXTENDS RingBuffer

CONSTANTS
  MINUTE,    \* Util::MS_PER_MINUTE; N is Util::MINUTES_PER_HOUR
  WORD,      \* number of values of a uint32_t
  FULL,      \* 1000000: the ppm value of an hour on air
  LIMIT,     \* mLimit_ppm
  PPM_MAX,   \* UINT16_MAX, where getTime_ppm saturates
  MaxTx,     \* bound: the longest transmission, in ms
  MaxClock   \* bound: the clock stops here

HOUR == N * MINUTE

ASSUME TimeAssumption ==
  /\ N >= 2 /\ MINUTE \in Nat \ {0}
  /\ WORD \in Nat /\ HOUR < WORD
  /\ FULL \in Nat /\ PPM_MAX \in Nat /\ LIMIT \in 0..PPM_MAX
  /\ MaxTx \in Nat /\ MaxClock \in Nat
ASSUME SlotAssumption == Item = 0..MINUTE /\ Zero = 0

VARIABLES
  mBuf, mLastUpdate_ms, mTime_ms,   \* the members
  pc,       \* where the call in progress is
  purpose,  \* what update(time) was called for
  time,     \* the argument of update(time)
  t1, end,  \* the locals of update(start, end)
  clock,    \* real time since power-on; millis() is clock % WORD
  aired     \* history: aired[c] is the real time on air before clock c

members == <<mBuf, mLastUpdate_ms, mTime_ms>>
vars == <<mBuf, mLastUpdate_ms, mTime_ms, pc, purpose, time, t1, end, clock,
          aired>>

Purposes == {"gate", "account", "log"}
Labels == {"idle", "roll", "shift", "gate", "add", "abort"}

millis == clock % WORD
-----------------------------------------------------------------------------
\* The constructor fills the buffer and makes cell 0 the current minute.
Init ==
  /\ mBuf = push_front(fill(Empty, 0), 0)
  /\ mLastUpdate_ms = 0
  /\ mTime_ms = 0
  /\ pc = "idle" /\ purpose = "gate"
  /\ time = 0 /\ t1 = 0 /\ end = 0
  /\ clock = 0
  /\ aired = [c \in 0..MaxClock |-> 0]

\* Call update(t).
CallUpdate(why, t) == pc' = "roll" /\ purpose' = why /\ time' = t

Elapsed == (time - mLastUpdate_ms) % WORD

\* Faulty variant: an hour of silence leaves the old minutes in the buffer.
SkipHours_KeepsMinutes ==
  /\ Elapsed >= HOUR
  /\ mTime_ms' = 0
  /\ UNCHANGED mBuf
  /\ mLastUpdate_ms' = (mLastUpdate_ms + HOUR * (Elapsed \div HOUR)) % WORD

\* update(time), lines 11-18: nothing of the last hour is left.
SkipHours ==
  /\ Elapsed >= HOUR
  /\ mTime_ms' = 0
  /\ mBuf' = fill(clear(mBuf), 0)
  /\ mLastUpdate_ms' = (mLastUpdate_ms + HOUR * (Elapsed \div HOUR)) % WORD

Roll ==
  /\ pc = "roll"
  /\ SkipHours \/ (Elapsed < HOUR /\ UNCHANGED members)
  /\ pc' = "shift"
  /\ UNCHANGED <<purpose, time, t1, end, clock, aired>>

\* Faulty variant: the shift does not bring the buffer any nearer to time.
ShiftMinute_Stuck ==
  /\ pc = "shift"
  /\ Elapsed >= MINUTE
  /\ mTime_ms' = (mTime_ms - back(mBuf)) % WORD
  /\ mBuf' = push_front(pop_back(mBuf), 0)
  /\ UNCHANGED <<mLastUpdate_ms, pc, purpose, time, t1, end, clock, aired>>

\* update(time), one iteration of lines 20-24: the oldest minute leaves.
ShiftMinute ==
  /\ pc = "shift"
  /\ Elapsed >= MINUTE
  /\ mTime_ms' = (mTime_ms - back(mBuf)) % WORD
  /\ mBuf' = push_front(pop_back(mBuf), 0)
  /\ mLastUpdate_ms' = (mLastUpdate_ms + MINUTE) % WORD
  /\ UNCHANGED <<pc, purpose, time, t1, end, clock, aired>>

\* update(time) returns to its caller.
UpdateReturns ==
  /\ pc = "shift"
  /\ Elapsed < MINUTE
  /\ pc' = CASE purpose = "gate" -> "gate"
             [] purpose = "account" -> "add"
             [] purpose = "log" -> "idle"
  /\ UNCHANGED <<members, purpose, time, t1, end, clock, aired>>

\* getTime_ppm rounds to the nearest ppm and saturates.
ppm(ms) == (ms * FULL + HOUR \div 2) \div HOUR
getTime_ppm == IF ppm(mTime_ms) > PPM_MAX THEN PPM_MAX ELSE ppm(mTime_ms)

\* Faulty variant of isLimitReached: the limit is exclusive.
isLimitReached_Exclusive == getTime_ppm > LIMIT

isLimitReached == getTime_ppm >= LIMIT

\* Faulty variant: isLimitReached judges by the total of the last call.
SendMsg_NoUpdate ==
  /\ pc = "idle"
  /\ pc' = "gate" /\ purpose' = "gate" /\ time' = millis
  /\ UNCHANGED <<members, t1, end, clock, aired>>

\* sendMsg asks isLimitReached, which first brings the total up to date.
SendMsg ==
  /\ pc = "idle"
  /\ CallUpdate("gate", millis)
  /\ UNCHANGED <<members, t1, end, clock, aired>>

\* sendMsg drops the message.
LimitReached ==
  /\ pc = "gate"
  /\ isLimitReached
  /\ pc' = "idle"
  /\ UNCHANGED <<members, purpose, time, t1, end, clock, aired>>

\* sendMsg transmits for d ms and calls update(start, end).
Transmit(d) ==
  /\ pc = "gate"
  /\ ~isLimitReached
  /\ clock + d <= MaxClock
  /\ clock' = clock + d
  /\ aired' = [c \in 0..MaxClock |->
                 IF c <= clock THEN aired[c]
                 ELSE aired[clock] + (IF c <= clock + d THEN c - clock ELSE d)]
  /\ t1' = millis
  /\ end' = (clock + d) % WORD
  /\ CallUpdate("account", millis)
  /\ UNCHANGED members

\* Faulty variant: a slice may run past the end of the minute.
SliceEnd_NoBoundary == end

\* update(start, end), lines 40-44: the slice ends with the minute or with
\* the transmission.
SliceEnd ==
  LET boundary == ((t1 \div MINUTE + 1) * MINUTE) % WORD
  IN  IF boundary > end THEN end ELSE boundary

\* update(start, end), one iteration from line 40 on; the asserts of
\* addToCurrentMinute are the guards, and "abort" is where they fail.
AddSlice ==
  /\ pc = "add"
  /\ LET t2 == SliceEnd
         td == (t2 - t1) % WORD
         minute == front(mBuf) + td
     IN  /\ mTime_ms' = (mTime_ms + td) % WORD
         /\ t1' = t2
         /\ IF minute > MINUTE
            THEN /\ pc' = "abort"
                 /\ mBuf' = pop_front(mBuf)
                 /\ UNCHANGED <<purpose, time>>
            ELSE /\ mBuf' = push_front(pop_front(mBuf), minute)
                 /\ IF t2 < end THEN CallUpdate("account", t2)
                    ELSE CallUpdate("log", millis)
  /\ UNCHANGED <<mLastUpdate_ms, end, clock, aired>>

\* Time passes between two calls.
Tick ==
  /\ pc = "idle"
  /\ clock < MaxClock
  /\ clock' = clock + 1
  /\ UNCHANGED <<members, pc, purpose, time, t1, end, aired>>

Step == Roll \/ ShiftMinute \/ UpdateReturns \/ AddSlice

Next ==
  \/ Step
  \/ SendMsg
  \/ LimitReached
  \/ \E d \in 0..MaxTx : Transmit(d)
  \/ Tick

Spec == Init /\ [][Next]_vars

\* The minutes of update(start, end) begin at multiples of MINUTE of millis(),
\* this is the last before it rolls over: then what is left is no whole minute.
LastMinute == ((WORD - 1) \div MINUTE) * MINUTE

\* Until millis() rolls over, they are the minutes of update(time).
Aligned == clock + MINUTE < WORD

\* A message of d ms on top of what the gate lets pass fits in a minute.
Short(d) == d <= MINUTE /\ ppm(MINUTE - d + 1) >= LIMIT

\* How long ago the current minute began.
Ago == (millis - mLastUpdate_ms) % WORD

\* A run across rollovers, given that no message is sent during the last,
\* incomplete minute before one, that messages are short once minutes are not
\* aligned, and that no silence is within a minute of a turn of millis().
LongNext ==
  \/ Step
  \/ SendMsg /\ millis < LastMinute
  \/ LimitReached
  \/ \E d \in 0..MaxTx :
       /\ Transmit(d)
       /\ millis + d <= LastMinute
       /\ Aligned' \/ Short(d)
  \/ Tick /\ Ago < WORD - MINUTE

LongSpec == Init /\ [][LongNext]_vars

\* The firmware is one thread: a call in progress runs to its end.
FairSpec == LongSpec /\ WF_vars(Step)
-----------------------------------------------------------------------------
(* Members and locals have values of their types. *)
TypeOK ==
  /\ mBuf \in Buffer
  /\ mLastUpdate_ms \in 0..(WORD - 1) /\ mTime_ms \in 0..(WORD - 1)
  /\ pc \in Labels /\ purpose \in Purposes
  /\ time \in 0..(WORD - 1) /\ t1 \in 0..(WORD - 1) /\ end \in 0..(WORD - 1)
  /\ clock \in 0..MaxClock
  /\ aired \in [0..MaxClock -> 0..MaxClock]

(* The asserts of addToCurrentMinute hold (AirTime.cpp:28,30): no minute is  *)
(* charged more than a minute of airtime.                                    *)
AssertsHold == pc # "abort"

\* Time on air before clock c.
OnAir(c) == IF c <= 0 THEN 0 ELSE aired[c]

\* When the current minute began in real time.
LastUpdate == clock - Ago

\* Real time up to which update(start, end) has been told of the airtime.
Accounted == IF purpose = "account" THEN clock - (end - t1) ELSE clock
Before_ms(c) == OnAir(IF c <= Accounted THEN c ELSE Accounted)

\* When minute k of the buffer began, k = N being the current one.
Began(k) == LastUpdate + (k - N) * MINUTE

\* How far a slice may reach into the minute after the one it is charged to.
Slack == IF Aligned THEN 0 ELSE MINUTE

(* Until millis() rolls over, each minute of the buffer is exactly the time  *)
(* the radio was on air during that minute, however many minutes a           *)
(* transmission spans and however long the node was silent, and mTime_ms is  *)
(* exactly the time on air since the oldest of them began; after rollovers,  *)
(* with minutes that are cut differently, mTime_ms still is the time since   *)
(* some instant of the oldest minute (AirTime.cpp:10-51).  A slot shifted    *)
(* too early or late, a slice put in the wrong minute or a sum out of step   *)
(* with the buffer would break it.                                           *)
AccountingExact ==
  pc # "abort" =>
    /\ Aligned =>
         \A k \in 1..N :
           Contents(mBuf)[k] = Before_ms(Began(k + 1)) - Before_ms(Began(k))
    /\ mTime_ms <= Before_ms(Accounted) - Before_ms(Began(1))
    /\ mTime_ms >= Before_ms(Accounted) - Before_ms(Began(1) + Slack)

\* Time on air during the minutes before clock c that the gate is sure to see.
WindowAt(c) ==
  aired[c] - OnAir(c - (IF c + MINUTE < WORD THEN N - 1 ELSE N - 2) * MINUTE)

(* The duty cycle is kept: at any time the radio has been on air, during     *)
(* the last N - 1 minutes, less than the limit plus one message (the gate of *)
(* sendMsg is asked before the message, LoRaHandler.cpp:215, and the         *)
(* current minute is the only one that is not complete); after a rollover,   *)
(* during the last N - 2.                                                    *)
DutyCycle == WindowAt(clock) > MaxTx => ppm(WindowAt(clock) - MaxTx) < LIMIT

Limiter == INSTANCE DutyLimiter WITH
  phase <- IF pc = "idle" THEN "idle" ELSE IF purpose = "gate" THEN "asked" ELSE "sent"

(* The bookkeeping decides as one that knows all of the past would: sendMsg  *)
(* transmits only while the real time on air is below the limit, and drops a *)
(* message only when that of the last hour is not (LoRaHandler.cpp:215-219,  *)
(* AirTime.cpp:53-67), whatever was skipped, shifted or rounded before.      *)
LimiterSpec == Limiter!Spec

(* update(time) and update(start, end) return to sendMsg: their loops end.   *)
UpdateReturnsEventually == (pc \in {"roll", "shift", "add"}) ~> (pc \in {"idle", "gate"})
=============================================================================
