-------------------------- MODULE RingBufferCalls --------------------------
(***************************************************************************)
(* A RingBuffer object under any sequence of calls of its member           *)
(* functions, and what those calls promise.  pop_*, back and front are     *)
(* undefined on an empty buffer (RingBuffer.h:124,132): they are called    *)
(* on a non-empty one only.                                                *)
(***************************************************************************)
EXTENDS RingBuffer

VARIABLES
  rb,    \* the buffer object
  ret    \* what the last pop_*, back or front returned

vars == <<rb, ret>>
-----------------------------------------------------------------------------
Init == rb = Empty /\ ret = Zero

PushFront(x) == rb' = push_front(rb, x) /\ UNCHANGED ret
PushBack(x) == rb' = push_back(rb, x) /\ UNCHANGED ret
Fill(x) == rb' = fill(rb, x) /\ UNCHANGED ret
PopBack == ~isEmpty(rb) /\ ret' = back(rb) /\ rb' = pop_back(rb)
PopFront == ~isEmpty(rb) /\ ret' = front(rb) /\ rb' = pop_front(rb)
Clear == rb' = clear(rb) /\ UNCHANGED ret
Back == ~isEmpty(rb) /\ ret' = back(rb) /\ UNCHANGED rb
Front == ~isEmpty(rb) /\ ret' = front(rb) /\ UNCHANGED rb

Next ==
  \/ \E x \in Item : PushFront(x) \/ PushBack(x) \/ Fill(x)
  \/ PopBack \/ PopFront \/ Clear \/ Back \/ Front

Spec == Init /\ [][Next]_vars
-----------------------------------------------------------------------------
(* Every cell, index and flag has a value of its type. *)
TypeOK == rb \in Buffer /\ ret \in Item

(* In every reachable state a set full flag comes with equal indices, the    *)
(* condition size(), isEmpty() and the overwriting pushes rest on            *)
(* (RingBuffer.h:21-45, 87, 105): no order of calls leaves the flag stale.   *)
FullHasEqualIndices == rb.mFull => rb.mFront = rb.mBack

\* The inductive invariant the refinement rests on.
Inv == TypeOK /\ FullHasEqualIndices

Deque == INSTANCE BoundedDeque WITH q <- Contents(rb)

(* RingBuffer implements a bounded deque: in whatever order the member       *)
(* functions are called, wrapped indices, overwriting pushes and the full    *)
(* flag included, each call does to the items between mBack and mFront what  *)
(* its comment in RingBuffer.h says and returns the item it says.            *)
DequeSpec == Deque!Spec

\* The loop of fill: at most N pushes, each while the buffer is not full.
FillLoop(b, x) ==
  LET loop[k \in 0..N] ==
        IF k = 0 THEN b
        ELSE IF loop[k - 1].mFull THEN loop[k - 1]
        ELSE push_front(loop[k - 1], x)
  IN  loop[N]

(* fill leaves what its loop "while not full, push_front" leaves, down to    *)
(* the cells and the indices (RingBuffer.h:116-120), and the loop ends       *)
(* after at most N pushes.                                                   *)
FillIsTheLoop ==
  \A x \in Item : FillLoop(rb, x) = fill(rb, x) /\ isFull(fill(rb, x))
=============================================================================
