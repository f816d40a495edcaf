--------------------------- MODULE BoundedDeque ---------------------------
(***************************************************************************)
(* What RingBuffer<T, N> (include/RingBuffer.h) promises its callers: a    *)
(* double-ended queue of at most N items.  The first element of the        *)
(* sequence is the back of the buffer, the last one its front.  A push on  *)
(* a full queue succeeds and drops the item at the opposite end.           *)
(***************************************************************************)
EXTENDS Naturals, Sequences

CONSTANTS
  N,     \* capacity, the template parameter
  Item   \* the values of type T

VARIABLES
  q,     \* contents, back to front
  ret    \* what the last call returned to the caller

PushFront(x) ==
  /\ q' = IF Len(q) = N THEN Append(Tail(q), x) ELSE Append(q, x)
  /\ UNCHANGED ret

PushBack(x) ==
  /\ q' = <<x>> \o (IF Len(q) = N THEN SubSeq(q, 1, N - 1) ELSE q)
  /\ UNCHANGED ret

PopBack ==
  /\ q # <<>>
  /\ ret' = Head(q)
  /\ q' = Tail(q)

PopFront ==
  /\ q # <<>>
  /\ ret' = q[Len(q)]
  /\ q' = SubSeq(q, 1, Len(q) - 1)

Fill(x) ==
  /\ q' = q \o [i \in 1..(N - Len(q)) |-> x]
  /\ UNCHANGED ret

Clear ==
  /\ q' = <<>>
  /\ UNCHANGED ret

Back ==
  /\ q # <<>>
  /\ ret' = Head(q)
  /\ UNCHANGED q

Front ==
  /\ q # <<>>
  /\ ret' = q[Len(q)]
  /\ UNCHANGED q

Init ==
  /\ q = <<>>
  /\ ret \in Item

Next ==
  \/ \E x \in Item : PushFront(x) \/ PushBack(x) \/ Fill(x)
  \/ PopBack \/ PopFront \/ Clear \/ Back \/ Front

Spec == Init /\ [][Next]_<<q, ret>>
=============================================================================
