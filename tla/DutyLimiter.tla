---------------------------- MODULE DutyLimiter ----------------------------
(***************************************************************************)
(* What sendMsg promises of the radio, said of the real time on air: a     *)
(* message is sent only while the share of the last minutes is below the   *)
(* limit, and dropped only when that of the last hour is not.  AirTime     *)
(* decides both from its minutes; this specification knows the past.       *)
(***************************************************************************)
EXTENDS Integers

CONSTANTS
  N, MINUTE,  \* minutes of an hour, milliseconds of a minute
  WORD,       \* number of values of millis()
  FULL,       \* the ppm value of an hour on air
  LIMIT,      \* the share allowed, in ppm
  MaxTx,      \* bound: the longest transmission
  MaxClock    \* bound: the clock stops here

VARIABLES
  phase,  \* what sendMsg is about
  clock,  \* real time
  aired   \* aired[c] is the time on air before clock c

vars == <<phase, clock, aired>>

HOUR == N * MINUTE

\* A time on air within an hour as a share of it, rounded to the nearest ppm.
ppm(ms) == (ms * FULL + HOUR \div 2) \div HOUR

\* Time on air during the last k minutes.
Window(k) ==
  LET since == clock - k * MINUTE
  IN  aired[clock] - (IF since <= 0 THEN 0 ELSE aired[since])

\* The minutes that the gate is sure to see: of the N it keeps, the current one
\* has only begun; after a rollover of millis(), slices of another may be
\* charged to the minute before it.
Sure == IF clock + MINUTE < WORD THEN N - 1 ELSE N - 2

Init == phase = "idle" /\ clock = 0 /\ aired = [c \in 0..MaxClock |-> 0]

Ask == phase = "idle" /\ phase' = "asked" /\ UNCHANGED <<clock, aired>>

Drop ==
  /\ phase = "asked" /\ phase' = "idle"
  /\ ppm(Window(N)) >= LIMIT
  /\ UNCHANGED <<clock, aired>>

Send(d) ==
  /\ phase = "asked" /\ phase' = "sent"
  /\ ppm(Window(Sure)) < LIMIT
  /\ clock' = clock + d
  /\ aired' = [c \in 0..MaxClock |->
                 IF c <= clock THEN aired[c]
                 ELSE aired[clock] + (IF c <= clock + d THEN c - clock ELSE d)]

Return == phase = "sent" /\ phase' = "idle" /\ UNCHANGED <<clock, aired>>

Tick == phase = "idle" /\ clock' = clock + 1 /\ UNCHANGED <<phase, aired>>

Next == Ask \/ Drop \/ (\E d \in 0..MaxTx : Send(d)) \/ Return \/ Tick

Spec == Init /\ [][Next]_vars
=============================================================================
