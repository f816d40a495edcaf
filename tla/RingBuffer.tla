---------------------------- MODULE RingBuffer ----------------------------
(***************************************************************************)
(* The class template RingBuffer<T, N> of include/RingBuffer.h: an array   *)
(* of N cells, the index mFront of the cell the next push_front writes,    *)
(* the index mBack of the oldest item, and the flag mFull that tells the   *)
(* full buffer from the empty one when the two indices are equal.          *)
(*                                                                         *)
(* The member functions are operators on a buffer object: RingBufferCalls  *)
(* calls them in any order, and AirTime holds such an object as a member.  *)
(***************************************************************************)
EXTENDS Integers, Sequences

CONSTANTS
  N,     \* capacity, the template parameter
  Item,  \* the values of type T
  Zero   \* T{}, the value-initialised cell

ASSUME CapacityAssumption == N \in Nat \ {0}
ASSUME ZeroAssumption == Zero \in Item

Cells == 0..(N - 1)

\* The values a buffer object can hold.
Buffer == [mRb : [Cells -> Item], mFront : Cells, mBack : Cells,
           mFull : BOOLEAN]

\* A default-constructed buffer.
Empty == [mRb |-> [c \in Cells |-> Zero], mFront |-> 0, mBack |-> 0,
          mFull |-> FALSE]
-----------------------------------------------------------------------------
\* Faulty variant of After: the index does not wrap.
AfterNoWrap(c) == c + 1

\* The cell after c and the cell before c in the ring.
After(c) == (c + 1) % N
Before(c) == IF c > 0 THEN c - 1 ELSE N - 1

size(b) ==
  IF b.mFull THEN N
  ELSE IF b.mFront >= b.mBack THEN b.mFront - b.mBack
  ELSE N + b.mFront - b.mBack

isEmpty(b) == ~b.mFull /\ b.mFront = b.mBack
isFull(b) == b.mFull

back(b) == b.mRb[b.mBack]
front(b) == b.mRb[Before(b.mFront)]

\* Faulty variant of pop_back: the full flag is not cleared.
pop_back_StaysFull(b) == [b EXCEPT !.mBack = After(@)]

\* pop_back and pop_front return back(b), respectively front(b), and leave:
pop_back(b) == [b EXCEPT !.mBack = After(@), !.mFull = FALSE]
pop_front(b) == [b EXCEPT !.mFront = Before(@), !.mFull = FALSE]

\* Faulty variant of push_front: a full buffer does not drop its oldest item.
push_front_NoDrop(b, x) ==
  [mRb |-> [b.mRb EXCEPT ![b.mFront] = x], mFront |-> After(b.mFront),
   mBack |-> b.mBack, mFull |-> After(b.mFront) = b.mBack]

push_front(b, x) ==
  LET f == After(b.mFront)
      k == IF b.mFull THEN After(b.mBack) ELSE b.mBack
  IN  [mRb |-> [b.mRb EXCEPT ![b.mFront] = x], mFront |-> f, mBack |-> k,
       mFull |-> f = k]

push_back(b, x) ==
  LET k == Before(b.mBack)
      f == IF b.mFull THEN Before(b.mFront) ELSE b.mFront
  IN  [mRb |-> [b.mRb EXCEPT ![k] = x], mFront |-> f, mBack |-> k,
       mFull |-> f = k]

\* Cell c holds one of the size(b) items that start at mBack.
Occupied(b, c) ==
  \/ b.mFull
  \/ b.mBack <= c /\ c < b.mFront
  \/ b.mFront < b.mBack /\ (b.mBack <= c \/ c < b.mFront)

\* Faulty variant of fill: the items already present are overwritten.
fill_Overwrites(b, x) ==
  [mRb |-> [c \in Cells |-> x], mFront |-> b.mBack, mBack |-> b.mBack,
   mFull |-> TRUE]

\* What the loop "push_front until full" leaves (FillIsTheLoop checks it).
fill(b, x) ==
  [mRb |-> [c \in Cells |-> IF Occupied(b, c) THEN b.mRb[c] ELSE x],
   mFront |-> b.mBack, mBack |-> b.mBack, mFull |-> TRUE]

clear(b) ==
  [mRb |-> [b.mRb EXCEPT ![0] = Zero], mFront |-> 0, mBack |-> 0,
   mFull |-> FALSE]
-----------------------------------------------------------------------------
\* mFull is only ever set with mFront = mBack: otherwise size() would count N
\* items although fewer are between the indices.
WellFormed(b) == b \in Buffer /\ (b.mFull => b.mFront = b.mBack)

\* The cell of the k-th item counted from the back, k \in 1..size(b).
CellOf(b, k) == (b.mBack + k - 1) % N

\* The items of a buffer, back to front.
Contents(b) == [k \in 1..size(b) |-> b.mRb[CellOf(b, k)]]
=============================================================================
