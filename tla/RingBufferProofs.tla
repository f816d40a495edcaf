-------------------------- MODULE RingBufferProofs --------------------------
(***************************************************************************)
(* What each member function of RingBuffer does to a well-formed buffer,   *)
(* in terms of its Contents; and that the buffer implements the bounded    *)
(* deque: for every capacity and every set of items.                       *)
(***************************************************************************)
EXTENDS RingBufferCalls, SequenceTheorems, WellFoundedInduction, TLAPS

(* An index that runs at most once past the end of the ring comes back N     *)
(* cells earlier: the only fact about % that the member functions need.      *)
LEMMA Wrap ==
  \A i \in 0..(2 * N - 1) : i % N = IF i < N THEN i ELSE i - N
BY CapacityAssumption, SMTT(30)

(* The neighbours of a cell are cells, found without a division. *)
LEMMA Neighbours ==
  ASSUME NEW c \in Cells
  PROVE  /\ After(c) = IF c = N - 1 THEN 0 ELSE c + 1
         /\ Before(c) = IF c = 0 THEN N - 1 ELSE c - 1
         /\ After(c) \in Cells
         /\ Before(c) \in Cells
<1>1. (c + 1) % N = IF c + 1 < N THEN c + 1 ELSE c + 1 - N
  BY CapacityAssumption, Wrap DEF Cells
<1>. QED
  BY <1>1, CapacityAssumption DEF Cells, After, Before

(* size() counts the items of a well-formed buffer: between 0 and N, 0       *)
(* exactly when isEmpty() and N exactly when isFull() (RingBuffer.h:21-45).  *)
LEMMA SizeCounts ==
  ASSUME NEW b, WellFormed(b)
  PROVE  /\ size(b) \in 0..N
         /\ isEmpty(b) <=> size(b) = 0
         /\ isFull(b) <=> size(b) = N
BY CapacityAssumption DEF WellFormed, Buffer, Cells, size, isEmpty, isFull

(* The k-th item is k - 1 cells after mBack, counted round the ring. *)
LEMMA CellOfItem ==
  ASSUME NEW b, WellFormed(b), NEW k \in 1..N
  PROVE  /\ CellOf(b, k) \in Cells
         /\ CellOf(b, k) = IF b.mBack + k - 1 < N THEN b.mBack + k - 1
                           ELSE b.mBack + k - 1 - N
<1>. DEFINE i == b.mBack + k - 1
<1>1. b.mBack \in Int /\ i \in 0..(2 * N - 1)
  BY CapacityAssumption DEF WellFormed, Buffer, Cells
<1>2. i % N = IF i < N THEN i ELSE i - N
  BY <1>1, Wrap
<1>3. CellOf(b, k) = i % N
  BY DEF CellOf
<1>. HIDE DEF i
<1>4. CellOf(b, k) = IF i < N THEN i ELSE i - N
  BY <1>2, <1>3
<1>5. CellOf(b, k) \in Cells
  BY <1>1, <1>4, CapacityAssumption DEF Cells
<1>. QED
  BY <1>1, <1>4, <1>5, CapacityAssumption DEF i

(* Contents is a sequence of size(b) items. *)
LEMMA ContentsType ==
  ASSUME NEW b, WellFormed(b)
  PROVE  /\ Contents(b) \in Seq(Item)
         /\ Len(Contents(b)) = size(b)
         /\ \A k \in 1..size(b) : Contents(b)[k] = b.mRb[CellOf(b, k)]
<1>1. size(b) \in 0..N
  BY SizeCounts
<1>2. \A k \in 1..size(b) : b.mRb[CellOf(b, k)] \in Item
  BY <1>1, CellOfItem, CapacityAssumption DEF WellFormed, Buffer
<1>. QED
  BY <1>1, <1>2, CapacityAssumption DEF Contents
-----------------------------------------------------------------------------
(* push_front appends at the front; on a full buffer the back item goes.     *)
LEMMA PushFrontContents ==
  ASSUME NEW b, WellFormed(b), NEW x \in Item
  PROVE  /\ WellFormed(push_front(b, x))
         /\ Contents(push_front(b, x)) =
              IF Len(Contents(b)) = N THEN Append(Tail(Contents(b)), x)
              ELSE Append(Contents(b), x)
<1>. DEFINE p == push_front(b, x)
<1>1. /\ b.mFront \in Cells /\ b.mBack \in Cells /\ b.mFull \in BOOLEAN
      /\ b.mRb \in [Cells -> Item]
      /\ b.mFull => b.mFront = b.mBack
  BY DEF WellFormed, Buffer
<1>2. /\ p.mRb = [b.mRb EXCEPT ![b.mFront] = x]
      /\ p.mFront = IF b.mFront = N - 1 THEN 0 ELSE b.mFront + 1
      /\ p.mBack = IF b.mFull THEN p.mFront ELSE b.mBack
      /\ p.mFull <=> p.mFront = p.mBack
      /\ WellFormed(p)
  BY <1>1, Neighbours DEF WellFormed, Buffer, push_front
<1>. HIDE DEF p
<1>3. /\ size(b) \in 0..N
      /\ size(p) = IF size(b) = N THEN N ELSE size(b) + 1
      /\ size(b) = N <=> b.mFull
  <2>1. size(b) \in 0..N /\ (size(b) = N <=> b.mFull)
    BY SizeCounts DEF isFull
  <2>2. CASE b.mFull
    BY <1>1, <1>2, <2>1, <2>2 DEF size
  <2>3. CASE ~b.mFull
    <3>1. CASE b.mFront = N - 1
      BY <1>1, <1>2, <2>1, <2>3, <3>1, CapacityAssumption DEF size, Cells
    <3>2. CASE b.mFront # N - 1
      BY <1>1, <1>2, <2>1, <2>3, <3>2, CapacityAssumption DEF size, Cells
    <3>. QED
      BY <3>1, <3>2
  <2>. QED
    BY <2>1, <2>2, <2>3
<1>4. \A k \in 1..size(p) :
        p.mRb[CellOf(p, k)] = IF k = size(p) THEN x
                              ELSE IF size(b) = N THEN b.mRb[CellOf(b, k + 1)]
                              ELSE b.mRb[CellOf(b, k)]
  <2>. SUFFICES ASSUME NEW k \in 1..size(p)
                PROVE  p.mRb[CellOf(p, k)] =
                         IF k = size(p) THEN x
                         ELSE IF size(b) = N THEN b.mRb[CellOf(b, k + 1)]
                         ELSE b.mRb[CellOf(b, k)]
    OBVIOUS
  <2>1. k \in 1..N /\ (k # size(p) => k + 1 \in 1..N)
    BY <1>3, CapacityAssumption
  <2>2. /\ CellOf(p, k) \in Cells
        /\ k # size(p) /\ size(b) = N => CellOf(p, k) = CellOf(b, k + 1)
        /\ k # size(p) /\ size(b) # N => CellOf(p, k) = CellOf(b, k)
        /\ CellOf(p, k) = b.mFront <=> k = size(p)
    <3>1. /\ CellOf(p, k) \in Cells
          /\ CellOf(p, k) = IF p.mBack + k - 1 < N THEN p.mBack + k - 1
                            ELSE p.mBack + k - 1 - N
      BY <1>2, <2>1, CellOfItem
    <3>2. CellOf(b, k) = IF b.mBack + k - 1 < N THEN b.mBack + k - 1
                            ELSE b.mBack + k - 1 - N
      BY <2>1, CellOfItem
    <3>3. k # size(p) =>
            CellOf(b, k + 1) = IF b.mBack + k < N THEN b.mBack + k
                               ELSE b.mBack + k - N
      <4>. HAVE k # size(p)
      <4>1. k + 1 \in 1..N
        BY <2>1
      <4>2. CellOf(b, k + 1) =
              IF b.mBack + (k + 1) - 1 < N THEN b.mBack + (k + 1) - 1
              ELSE b.mBack + (k + 1) - 1 - N
        BY <4>1, CellOfItem
      <4>. QED
        BY <1>1, <4>2, CapacityAssumption DEF Cells
    <3>4. ~b.mFull => size(b) = IF b.mFront >= b.mBack THEN b.mFront - b.mBack
                                ELSE N + b.mFront - b.mBack
      BY DEF size
    <3>5. CASE b.mFull
      BY <1>1, <1>2, <1>3, <2>1, <3>1, <3>3, <3>5,
         CapacityAssumption DEF Cells
    <3>6. CASE ~b.mFull
      BY <1>1, <1>2, <1>3, <2>1, <3>1, <3>2, <3>4, <3>6,
         CapacityAssumption, SMTT(30) DEF Cells
    <3>. QED
      BY <1>1, <3>5, <3>6
  <2>. QED
    BY <1>1, <1>2, <2>2
<1>5. /\ Contents(b) \in Seq(Item) /\ Contents(p) \in Seq(Item)
      /\ Len(Contents(b)) = size(b) /\ Len(Contents(p)) = size(p)
      /\ \A k \in 1..size(b) : Contents(b)[k] = b.mRb[CellOf(b, k)]
      /\ \A k \in 1..size(p) : Contents(p)[k] = p.mRb[CellOf(p, k)]
  BY <1>2, ContentsType
<1>6. CASE size(b) = N
  <2>1. Contents(p) = Append(Tail(Contents(b)), x)
    BY <1>3, <1>4, <1>5, <1>6, CapacityAssumption
  <2>. QED
    BY <1>2, <1>5, <1>6, <2>1 DEF p
<1>7. CASE size(b) # N
  <2>1. Contents(p) = Append(Contents(b), x)
    BY <1>3, <1>4, <1>5, <1>7, CapacityAssumption
  <2>. QED
    BY <1>2, <1>5, <1>7, <2>1 DEF p
<1>. QED
  BY <1>6, <1>7

(* back() and front() are the two ends of a non-empty buffer. *)
LEMMA EndsAreBackAndFront ==
  ASSUME NEW b, WellFormed(b), ~isEmpty(b)
  PROVE  /\ Contents(b) # <<>>
         /\ back(b) = Head(Contents(b))
         /\ front(b) = Contents(b)[Len(Contents(b))]
<1>1. /\ b.mFront \in Cells /\ b.mBack \in Cells /\ b.mFull \in BOOLEAN
      /\ b.mFull => b.mFront = b.mBack
  BY DEF WellFormed, Buffer
<1>2. size(b) \in 1..N
  BY SizeCounts, CapacityAssumption
<1>3. /\ CellOf(b, 1) = b.mBack
      /\ CellOf(b, size(b)) = IF b.mBack + size(b) - 1 < N
                              THEN b.mBack + size(b) - 1
                              ELSE b.mBack + size(b) - 1 - N
  <2>1. 1 \in 1..N
    BY CapacityAssumption
  <2>2. CellOf(b, 1) = IF b.mBack + 1 - 1 < N THEN b.mBack + 1 - 1
                       ELSE b.mBack + 1 - 1 - N
    BY <2>1, CellOfItem
  <2>. QED
    BY <1>1, <1>2, <2>2, CellOfItem, CapacityAssumption DEF Cells
<1>4. CellOf(b, size(b)) = Before(b.mFront)
  <2>1. Before(b.mFront) = IF b.mFront = 0 THEN N - 1 ELSE b.mFront - 1
    BY <1>1, Neighbours
  <2>2. size(b) = IF b.mFull THEN N
                  ELSE IF b.mFront >= b.mBack THEN b.mFront - b.mBack
                  ELSE N + b.mFront - b.mBack
    BY DEF size
  <2>. QED
    BY <1>1, <1>2, <1>3, <2>1, <2>2, CapacityAssumption DEF Cells
<1>. QED
  BY <1>2, <1>3, <1>4, ContentsType, CapacityAssumption DEF back, front

(* pop_back removes the back item. *)
LEMMA PopBackContents ==
  ASSUME NEW b, WellFormed(b), ~isEmpty(b)
  PROVE  /\ WellFormed(pop_back(b))
         /\ Contents(pop_back(b)) = Tail(Contents(b))
<1>. DEFINE p == pop_back(b)
<1>1. /\ b.mFront \in Cells /\ b.mBack \in Cells /\ b.mFull \in BOOLEAN
      /\ b.mFull => b.mFront = b.mBack
  BY DEF WellFormed, Buffer
<1>2. /\ p.mRb = b.mRb /\ p.mFront = b.mFront /\ p.mFull = FALSE
      /\ p.mBack = IF b.mBack = N - 1 THEN 0 ELSE b.mBack + 1
      /\ WellFormed(p)
  BY <1>1, Neighbours DEF WellFormed, Buffer, pop_back
<1>. HIDE DEF p
<1>3. size(b) \in 1..N /\ size(p) = size(b) - 1
  <2>1. size(b) \in 1..N
    BY SizeCounts, CapacityAssumption
  <2>2. CASE b.mBack = N - 1
    BY <1>1, <1>2, <2>1, <2>2, CapacityAssumption DEF size, Cells
  <2>3. CASE b.mBack # N - 1
    BY <1>1, <1>2, <2>1, <2>3, CapacityAssumption DEF size, Cells
  <2>. QED
    BY <2>1, <2>2, <2>3
<1>4. ASSUME NEW k \in 1..size(p)
      PROVE  CellOf(p, k) = CellOf(b, k + 1)
  <2>1. k \in 1..N /\ k + 1 \in 1..N
    BY <1>3, CapacityAssumption
  <2>2. CellOf(p, k) = IF p.mBack + k - 1 < N THEN p.mBack + k - 1
                       ELSE p.mBack + k - 1 - N
    BY <1>2, <2>1, CellOfItem
  <2>3. CellOf(b, k + 1) = IF b.mBack + (k + 1) - 1 < N
                           THEN b.mBack + (k + 1) - 1
                           ELSE b.mBack + (k + 1) - 1 - N
    BY <2>1, CellOfItem
  <2>. QED
    BY <1>1, <1>2, <2>1, <2>2, <2>3, CapacityAssumption DEF Cells
<1>5. Contents(p) = Tail(Contents(b))
  <2>1. /\ Contents(b) \in Seq(Item) /\ Contents(p) \in Seq(Item)
        /\ Len(Contents(b)) = size(b) /\ Len(Contents(p)) = size(p)
        /\ \A k \in 1..size(b) : Contents(b)[k] = b.mRb[CellOf(b, k)]
        /\ \A k \in 1..size(p) : Contents(p)[k] = p.mRb[CellOf(p, k)]
    BY <1>2, ContentsType
  <2>. QED
    BY <1>2, <1>3, <1>4, <2>1
<1>. QED
  BY <1>2, <1>5 DEF p

(* pop_front removes the front item. *)
LEMMA PopFrontContents ==
  ASSUME NEW b, WellFormed(b), ~isEmpty(b)
  PROVE  /\ WellFormed(pop_front(b))
         /\ Contents(pop_front(b)) =
              SubSeq(Contents(b), 1, Len(Contents(b)) - 1)
<1>. DEFINE p == pop_front(b)
<1>1. /\ b.mFront \in Cells /\ b.mBack \in Cells /\ b.mFull \in BOOLEAN
      /\ b.mFull => b.mFront = b.mBack
  BY DEF WellFormed, Buffer
<1>2. /\ p.mRb = b.mRb /\ p.mBack = b.mBack /\ p.mFull = FALSE
      /\ p.mFront = IF b.mFront = 0 THEN N - 1 ELSE b.mFront - 1
      /\ WellFormed(p)
  BY <1>1, Neighbours DEF WellFormed, Buffer, pop_front
<1>. HIDE DEF p
<1>3. size(b) \in 1..N /\ size(p) = size(b) - 1
  <2>1. size(b) \in 1..N
    BY SizeCounts, CapacityAssumption
  <2>2. CASE b.mFront = 0
    BY <1>1, <1>2, <2>1, <2>2, CapacityAssumption DEF size, Cells
  <2>3. CASE b.mFront # 0
    BY <1>1, <1>2, <2>1, <2>3, CapacityAssumption DEF size, Cells
  <2>. QED
    BY <2>1, <2>2, <2>3
<1>4. \A k : CellOf(p, k) = CellOf(b, k)
  BY <1>2 DEF CellOf
<1>5. Contents(p) = SubSeq(Contents(b), 1, Len(Contents(b)) - 1)
  <2>1. /\ Contents(b) \in Seq(Item) /\ Contents(p) \in Seq(Item)
        /\ Len(Contents(b)) = size(b) /\ Len(Contents(p)) = size(p)
        /\ \A k \in 1..size(b) : Contents(b)[k] = b.mRb[CellOf(b, k)]
        /\ \A k \in 1..size(p) : Contents(p)[k] = p.mRb[CellOf(p, k)]
    BY <1>2, ContentsType
  <2>. QED
    BY <1>2, <1>3, <1>4, <2>1
<1>. QED
  BY <1>2, <1>5 DEF p

(* push_back prepends at the back; on a full buffer the front item goes.     *)
LEMMA PushBackContents ==
  ASSUME NEW b, WellFormed(b), NEW x \in Item
  PROVE  /\ WellFormed(push_back(b, x))
         /\ Contents(push_back(b, x)) =
              <<x>> \o (IF Len(Contents(b)) = N
                        THEN SubSeq(Contents(b), 1, N - 1)
                        ELSE Contents(b))
<1>. DEFINE p == push_back(b, x)
            old == IF Len(Contents(b)) = N
                   THEN SubSeq(Contents(b), 1, N - 1) ELSE Contents(b)
<1>1. /\ b.mFront \in Cells /\ b.mBack \in Cells /\ b.mFull \in BOOLEAN
      /\ b.mRb \in [Cells -> Item]
      /\ b.mFull => b.mFront = b.mBack
  BY DEF WellFormed, Buffer
<1>2. /\ p.mBack = IF b.mBack = 0 THEN N - 1 ELSE b.mBack - 1
      /\ p.mFront = IF b.mFull THEN p.mBack ELSE b.mFront
      /\ p.mRb = [b.mRb EXCEPT ![p.mBack] = x]
      /\ p.mFull <=> p.mFront = p.mBack
      /\ WellFormed(p)
  BY <1>1, Neighbours DEF WellFormed, Buffer, push_back
<1>. HIDE DEF p
<1>3. /\ size(b) \in 0..N
      /\ size(p) = IF size(b) = N THEN N ELSE size(b) + 1
      /\ size(b) = N <=> b.mFull
  <2>1. size(b) \in 0..N /\ (size(b) = N <=> b.mFull)
    BY SizeCounts DEF isFull
  <2>2. CASE b.mFull
    BY <1>1, <1>2, <2>1, <2>2 DEF size
  <2>3. CASE ~b.mFull
    <3>1. CASE b.mBack = 0
      BY <1>1, <1>2, <2>1, <2>3, <3>1, CapacityAssumption DEF size, Cells
    <3>2. CASE b.mBack # 0
      BY <1>1, <1>2, <2>1, <2>3, <3>2, CapacityAssumption, SMTT(30) DEF size, Cells
    <3>. QED
      BY <3>1, <3>2
  <2>. QED
    BY <2>1, <2>2, <2>3
<1>4. \A k \in 1..size(p) :
        p.mRb[CellOf(p, k)] = IF k = 1 THEN x ELSE b.mRb[CellOf(b, k - 1)]
  <2>. SUFFICES ASSUME NEW k \in 1..size(p)
                PROVE  p.mRb[CellOf(p, k)] =
                         IF k = 1 THEN x ELSE b.mRb[CellOf(b, k - 1)]
    OBVIOUS
  <2>1. k \in 1..N /\ (k # 1 => k - 1 \in 1..N)
    BY <1>3, CapacityAssumption
  <2>2. /\ CellOf(p, k) \in Cells
        /\ CellOf(p, k) = IF p.mBack + k - 1 < N THEN p.mBack + k - 1
                          ELSE p.mBack + k - 1 - N
    BY <1>2, <2>1, CellOfItem
  <2>3. k # 1 =>
          CellOf(b, k - 1) = IF b.mBack + k - 2 < N THEN b.mBack + k - 2
                             ELSE b.mBack + k - 2 - N
    <3>. HAVE k # 1
    <3>1. k - 1 \in 1..N
      BY <2>1
    <3>2. CellOf(b, k - 1) = IF b.mBack + (k - 1) - 1 < N
                             THEN b.mBack + (k - 1) - 1
                             ELSE b.mBack + (k - 1) - 1 - N
      BY <3>1, CellOfItem
    <3>. QED
      BY <1>1, <2>1, <3>2, CapacityAssumption DEF Cells
  <2>4. /\ k # 1 => CellOf(p, k) = CellOf(b, k - 1)
        /\ CellOf(p, k) = p.mBack <=> k = 1
    BY <1>1, <1>2, <2>1, <2>2, <2>3, CapacityAssumption DEF Cells
  <2>. QED
    BY <1>1, <1>2, <2>2, <2>4
<1>5. /\ Contents(b) \in Seq(Item) /\ Contents(p) \in Seq(Item)
      /\ Len(Contents(b)) = size(b) /\ Len(Contents(p)) = size(p)
      /\ \A k \in 1..size(b) : Contents(b)[k] = b.mRb[CellOf(b, k)]
      /\ \A k \in 1..size(p) : Contents(p)[k] = p.mRb[CellOf(p, k)]
  BY <1>2, ContentsType
<1>6. /\ old \in Seq(Item)
      /\ Len(old) = size(p) - 1
      /\ \A k \in 1..Len(old) : old[k] = Contents(b)[k]
  BY <1>3, <1>5, CapacityAssumption
<1>. HIDE DEF old
<1>7. Contents(p) = <<x>> \o old
  <2>. DEFINE one == <<x>>
  <2>1. one \in Seq(Item) /\ Len(one) = 1 /\ one[1] = x
    OBVIOUS
  <2>. HIDE DEF one
  <2>2. /\ one \o old \in Seq(Item)
        /\ Len(one \o old) = Len(one) + Len(old)
        /\ \A k \in 1..(Len(one) + Len(old)) :
             (one \o old)[k] = IF k <= Len(one) THEN one[k]
                               ELSE old[k - Len(one)]
    BY <1>6, <2>1, ConcatProperties
  <2>3. ASSUME NEW k \in 1..size(p)
        PROVE  Contents(p)[k] = (one \o old)[k]
    <3>1. k # 1 => /\ k - 1 \in 1..Len(old) /\ k - 1 \in 1..size(b)
                   /\ old[k - 1] = b.mRb[CellOf(b, k - 1)]
      BY <1>3, <1>5, <1>6, CapacityAssumption
    <3>2. Contents(p)[k] = IF k = 1 THEN x ELSE b.mRb[CellOf(b, k - 1)]
      BY <1>4, <1>5
    <3>3. (one \o old)[k] = IF k = 1 THEN x ELSE old[k - 1]
      BY <1>3, <1>6, <2>1, <2>2, CapacityAssumption
    <3>. QED
      BY <3>1, <3>2, <3>3
  <2>4. Contents(p) = one \o old
    <3>1. Len(one \o old) = size(p)
      BY <1>3, <1>6, <2>1, <2>2, CapacityAssumption
    <3>. QED
      BY <1>5, <2>2, <2>3, <3>1
  <2>. QED
    BY <2>4 DEF one
<1>. QED
  BY <1>2, <1>7 DEF p, old

(* clear leaves an empty buffer. *)
LEMMA ClearContents ==
  ASSUME NEW b, WellFormed(b)
  PROVE  /\ WellFormed(clear(b))
         /\ isEmpty(clear(b))
         /\ Contents(clear(b)) = <<>>
<1>1. WellFormed(clear(b)) /\ isEmpty(clear(b))
  BY ZeroAssumption, CapacityAssumption
     DEF WellFormed, Buffer, Cells, clear, isEmpty
<1>. QED
  BY <1>1, SizeCounts, ContentsType

(* fill keeps the items and puts x in every free place at the front. *)
LEMMA FillContents ==
  ASSUME NEW b, WellFormed(b), NEW x \in Item
  PROVE  /\ WellFormed(fill(b, x))
         /\ Contents(fill(b, x)) =
              Contents(b) \o [k \in 1..(N - Len(Contents(b))) |-> x]
<1>. DEFINE p == fill(b, x)
            new == [k \in 1..(N - Len(Contents(b))) |-> x]
<1>1. /\ b.mFront \in Cells /\ b.mBack \in Cells /\ b.mFull \in BOOLEAN
      /\ b.mRb \in [Cells -> Item]
      /\ b.mFull => b.mFront = b.mBack
  BY DEF WellFormed, Buffer
<1>2. /\ p.mRb = [c \in Cells |-> IF Occupied(b, c) THEN b.mRb[c] ELSE x]
      /\ p.mFront = b.mBack /\ p.mBack = b.mBack /\ p.mFull = TRUE
      /\ WellFormed(p)
  BY <1>1 DEF WellFormed, Buffer, fill
<1>. HIDE DEF p
<1>3. size(b) \in 0..N /\ size(p) = N
  BY <1>2, SizeCounts DEF isFull
<1>4. ASSUME NEW k \in 1..N
      PROVE  p.mRb[CellOf(p, k)] = IF k <= size(b) THEN b.mRb[CellOf(b, k)]
                                   ELSE x
  <2>1. CellOf(p, k) = CellOf(b, k)
    BY <1>2 DEF CellOf
  <2>2. /\ CellOf(b, k) \in Cells
        /\ CellOf(b, k) = IF b.mBack + k - 1 < N THEN b.mBack + k - 1
                          ELSE b.mBack + k - 1 - N
    BY CellOfItem
  <2>3. size(b) = IF b.mFull THEN N
                  ELSE IF b.mFront >= b.mBack THEN b.mFront - b.mBack
                  ELSE N + b.mFront - b.mBack
    BY DEF size
  <2>4. Occupied(b, CellOf(b, k)) <=> k <= size(b)
    BY <1>1, <2>2, <2>3, CapacityAssumption DEF Cells, Occupied
  <2>. QED
    BY <1>2, <2>1, <2>2, <2>4
<1>5. /\ Contents(b) \in Seq(Item) /\ Contents(p) \in Seq(Item)
      /\ Len(Contents(b)) = size(b) /\ Len(Contents(p)) = N
      /\ \A k \in 1..size(b) : Contents(b)[k] = b.mRb[CellOf(b, k)]
      /\ \A k \in 1..N : Contents(p)[k] = p.mRb[CellOf(p, k)]
  BY <1>2, <1>3, ContentsType
<1>6. /\ new \in Seq(Item) /\ Len(new) = N - size(b)
      /\ \A k \in 1..(N - size(b)) : new[k] = x
  BY <1>3, <1>5, CapacityAssumption
<1>. HIDE DEF new
<1>7. Contents(p) = Contents(b) \o new
  <2>1. /\ Contents(b) \o new \in Seq(Item) /\ Len(Contents(b) \o new) = N
        /\ \A k \in 1..N : (Contents(b) \o new)[k] =
             IF k <= size(b) THEN Contents(b)[k] ELSE new[k - size(b)]
    BY <1>3, <1>5, <1>6, CapacityAssumption
  <2>2. ASSUME NEW k \in 1..N
        PROVE  Contents(p)[k] = (Contents(b) \o new)[k]
    <3>1. Contents(p)[k] = IF k <= size(b) THEN b.mRb[CellOf(b, k)] ELSE x
      BY <1>4, <1>5
    <3>2. k <= size(b) => Contents(b)[k] = b.mRb[CellOf(b, k)]
      BY <1>3, <1>5, CapacityAssumption
    <3>3. ~(k <= size(b)) => new[k - size(b)] = x
      BY <1>3, <1>6, CapacityAssumption
    <3>. QED
      BY <2>1, <3>1, <3>2, <3>3
  <2>. QED
    BY <1>5, <2>1, <2>2, CapacityAssumption
<1>. QED
  BY <1>2, <1>7 DEF p, new
-----------------------------------------------------------------------------
(* The loop of fill, for a capacity of any size: by induction on the number  *)
(* of its iterations.                                                        *)

(* A set of numbers has a least element. *)
LEMMA LeastNumber ==
  ASSUME NEW S, S \subseteq Nat, S # {}
  PROVE  \E m \in S : \A k \in S : m <= k
<1>. DEFINE Less == {ss \in Nat \X Nat : ss[1] < ss[2]}
<1>1. IsWellFoundedOn(Less, Nat)
  <2>1. OpToRel(<, Nat) = Less
    BY Zenon DEF OpToRel
  <2>2. IsWellFoundedOn(OpToRel(<, Nat), Nat)
    BY NatLessThanWellFounded
  <2>. QED
    BY <2>1, <2>2
<1>2. PICK m \in S : \A k \in S : <<k, m>> \notin Less
  <2>. HIDE DEF Less
  <2>. QED
    BY <1>1, WFMin
<1>3. ASSUME NEW k \in S PROVE m <= k
  <2>1. k \in Nat /\ m \in Nat
    OBVIOUS
  <2>2. <<k, m>> \in Less <=> k < m
    BY <2>1
  <2>. QED
    BY <1>2, <2>1, <2>2
<1>. QED
  BY <1>3

(* So what holds of 0, and of n + 1 if of n, holds of every number. *)
LEMMA NumberInduction ==
  ASSUME NEW S, 0 \in S, \A n \in Nat : n \in S => n + 1 \in S
  PROVE  Nat \subseteq S
<1>. DEFINE Rest == {n \in Nat : n \notin S}
<1>1. SUFFICES ASSUME Rest # {} PROVE FALSE
  OBVIOUS
<1>2. PICK m \in Rest : \A k \in Rest : m <= k
  BY <1>1, LeastNumber
<1>3. m \in Nat /\ m # 0
  BY <1>2
<1>4. m - 1 \in Nat /\ ~(m <= m - 1)
  BY <1>3
<1>5. m - 1 \in S
  BY <1>2, <1>4
<1>. QED
  BY <1>3, <1>4, <1>5

\* One iteration of fill.
Iteration(b, x) == IF b.mFull THEN b ELSE push_front(b, x)

\* The buffers that n iterations go through.
IsLoop(loop, b, x, n) ==
  loop = [k \in 0..n |-> IF k = 0 THEN b ELSE Iteration(loop[k - 1], x)]

(* A loop has an iteration after each. *)
LEMMA LoopsExist ==
  ASSUME NEW b, NEW x
  PROVE  \A n \in Nat : \E loop : IsLoop(loop, b, x, n)
<1>. DEFINE S == {n \in Nat : \E loop : IsLoop(loop, b, x, n)}
<1>1. 0 \in S
  <2>1. IsLoop([k \in 0..0 |-> b], b, x, 0)
    BY DEF IsLoop
  <2>. QED
    BY <2>1
<1>2. ASSUME NEW n \in Nat, n \in S PROVE n + 1 \in S
  <2>1. PICK loop : IsLoop(loop, b, x, n)
    BY <1>2
  <2>. DEFINE more == [k \in 0..(n + 1) |-> IF k = n + 1 THEN Iteration(loop[n], x) ELSE loop[k]]
  <2>2. \A k \in 0..n : loop[k] = IF k = 0 THEN b ELSE Iteration(loop[k - 1], x)
    BY <2>1 DEF IsLoop
  <2>3. ASSUME NEW k \in 0..(n + 1)
        PROVE  more[k] = IF k = 0 THEN b ELSE Iteration(more[k - 1], x)
    <3>1. CASE k = n + 1
      <4>1. k # 0 /\ k - 1 \in 0..(n + 1) /\ k - 1 # n + 1 /\ k - 1 = n
        BY <3>1
      <4>. QED
        BY <3>1, <4>1
    <3>2. CASE k = 0
      BY <2>2, <3>2
    <3>3. CASE k \in 1..n
      <4>1. k # 0 /\ k \in 0..n /\ k # n + 1 /\ k - 1 \in 0..(n + 1) /\ k - 1 # n + 1
        BY <3>3
      <4>. QED
        BY <2>2, <4>1
    <3>. QED
      BY <3>1, <3>2, <3>3
  <2>4. IsLoop(more, b, x, n + 1)
    BY <2>3 DEF IsLoop
  <2>. QED
    BY <2>4
<1>. HIDE DEF S
<1>3. Nat \subseteq S
  BY <1>1, <1>2, NumberInduction
<1>. QED
  BY <1>3 DEF S

(* An iteration makes the buffer longer, unless it is full, and leaves what  *)
(* fill makes of it.                                                         *)
LEMMA IterationFills ==
  ASSUME NEW b, WellFormed(b), NEW x \in Item
  PROVE  /\ WellFormed(Iteration(b, x))
         /\ b.mFull \/ size(Iteration(b, x)) = size(b) + 1
         /\ fill(Iteration(b, x), x) = fill(b, x)
         /\ b.mFull => Iteration(b, x) = b /\ fill(b, x) = b
<1>0. /\ b.mRb \in [Cells -> Item] /\ b.mFront \in Cells /\ b.mBack \in Cells
      /\ b.mFull \in BOOLEAN
      /\ b = [mRb |-> b.mRb, mFront |-> b.mFront, mBack |-> b.mBack, mFull |-> b.mFull]
  BY DEF WellFormed, Buffer
<1>1. CASE b.mFull
  <2>1. fill(b, x) = b
    <3>1. [c \in Cells |-> IF Occupied(b, c) THEN b.mRb[c] ELSE x] = b.mRb
      BY <1>0, <1>1 DEF Occupied
    <3>2. b.mFront = b.mBack /\ b.mFull = TRUE
      BY <1>0, <1>1 DEF WellFormed
    <3>. QED
      BY <1>0, <3>1, <3>2 DEF fill
  <2>. QED
    BY <1>1, <2>1 DEF Iteration
<1>2. CASE ~b.mFull
  <2>. DEFINE p == push_front(b, x)
  <2>1. Iteration(b, x) = p
    BY <1>2 DEF Iteration
  <2>2. WellFormed(p)
    BY PushFrontContents
  <2>3. /\ p.mRb = [b.mRb EXCEPT ![b.mFront] = x] /\ p.mFront = After(b.mFront)
        /\ p.mBack = b.mBack /\ p.mFull = (After(b.mFront) = b.mBack)
    BY <1>2 DEF push_front
  <2>. DEFINE f == After(b.mFront)
  <2>7. f = (IF b.mFront = N - 1 THEN 0 ELSE b.mFront + 1) /\ f \in Cells
    BY <1>0, Neighbours
  <2>. HIDE DEF f, p
  <2>8. p.mFront = f /\ p.mBack = b.mBack /\ (p.mFull <=> f = b.mBack)
    BY <2>3 DEF f
  <2>9. N \in Nat /\ N >= 1 /\ b.mFront \in 0..(N - 1) /\ b.mBack \in 0..(N - 1)
    BY <1>0, CapacityAssumption DEF Cells
  <2>4. size(p) = size(b) + 1
    <3>1. size(p) = IF f = b.mBack THEN N ELSE IF f >= b.mBack THEN f - b.mBack ELSE N + f - b.mBack
      BY <2>8 DEF size
    <3>2. size(b) = IF b.mFront >= b.mBack THEN b.mFront - b.mBack ELSE N + b.mFront - b.mBack
      BY <1>2 DEF size
    <3>. QED
      BY <2>7, <2>9, <3>1, <3>2
  <2>5. ASSUME NEW c \in Cells
        PROVE  (IF Occupied(p, c) THEN p.mRb[c] ELSE x) = (IF Occupied(b, c) THEN b.mRb[c] ELSE x)
    <3>1. Occupied(p, c) <=> Occupied(b, c) \/ c = b.mFront
      <4>1. Occupied(p, c) <=> \/ f = b.mBack
                               \/ b.mBack <= c /\ c < f
                               \/ f < b.mBack /\ (b.mBack <= c \/ c < f)
        BY <2>8 DEF Occupied
      <4>2. Occupied(b, c) <=> \/ b.mBack <= c /\ c < b.mFront
                               \/ b.mFront < b.mBack /\ (b.mBack <= c \/ c < b.mFront)
        BY <1>2 DEF Occupied
      <4>3. c \in 0..(N - 1)
        BY DEF Cells
      <4>. QED
        BY <2>7, <2>9, <4>1, <4>2, <4>3
    <3>2. ~Occupied(b, b.mFront)
      BY <1>0, <1>2 DEF Occupied, Cells
    <3>3. p.mRb[c] = IF c = b.mFront THEN x ELSE b.mRb[c]
      BY <1>0, <2>3
    <3>. QED
      BY <3>1, <3>2, <3>3
  <2>6. fill(p, x) = fill(b, x)
    BY <2>3, <2>5 DEF fill
  <2>. QED
    BY <1>2, <2>1, <2>2, <2>4, <2>6
<1>. QED
  BY <1>1, <1>2

(* fill in closed form is the loop of fill: its N iterations fill a buffer   *)
(* with any number of items in it.                                           *)
LEMMA FillDoesTheLoop ==
  ASSUME NEW b, WellFormed(b), NEW x \in Item
  PROVE  FillLoop(b, x) = fill(b, x)
<1>. DEFINE loop == CHOOSE l : IsLoop(l, b, x, N)
<1>1. FillLoop(b, x) = loop[N]
  <2>1. \A l : IsLoop(l, b, x, N) <=>
          l = [k \in 0..N |-> IF k = 0 THEN b
                              ELSE IF l[k - 1].mFull THEN l[k - 1]
                              ELSE push_front(l[k - 1], x)]
    BY DEF IsLoop, Iteration
  <2>. QED
    BY <2>1 DEF FillLoop
<1>2. IsLoop(loop, b, x, N)
  BY LoopsExist, CapacityAssumption
<1>. HIDE DEF loop
<1>3. /\ loop[0] = b
      /\ \A k \in 1..N : loop[k] = Iteration(loop[k - 1], x)
  <2>1. \A k \in 0..N : loop[k] = IF k = 0 THEN b ELSE Iteration(loop[k - 1], x)
    BY <1>2 DEF IsLoop
  <2>2. 0 \in 0..N /\ \A k \in 1..N : k \in 0..N /\ k # 0
    BY CapacityAssumption
  <2>. QED
    BY <2>1, <2>2
<1>. DEFINE Filling(c, k) == /\ WellFormed(c) /\ fill(c, x) = fill(b, x)
                             /\ c.mFull \/ size(c) = size(b) + k
            S == {k \in Nat : k <= N => Filling(loop[k], k)}
<1>4. 0 \in S
  BY <1>3, SizeCounts
<1>5. ASSUME NEW k \in Nat, k \in S PROVE k + 1 \in S
  <2>. SUFFICES ASSUME k + 1 <= N PROVE Filling(loop[k + 1], k + 1)
    OBVIOUS
  <2>1. Filling(loop[k], k) /\ loop[k + 1] = Iteration(loop[k], x)
    BY <1>3, <1>5, CapacityAssumption
  <2>. DEFINE c == loop[k]
  <2>2. WellFormed(c) /\ size(c) \in 0..N /\ size(b) \in 0..N
    BY <2>1, SizeCounts
  <2>. HIDE DEF c
  <2>3. Filling(Iteration(c, x), k + 1)
    BY <2>1, <2>2, IterationFills DEF c
  <2>. QED
    BY <2>1, <2>3 DEF c
<1>6. N \in S
  <2>. HIDE DEF S
  <2>. QED
    BY <1>4, <1>5, NumberInduction, CapacityAssumption
<1>7. Filling(loop[N], N)
  BY <1>6, CapacityAssumption
<1>. DEFINE last == loop[N]
<1>8. WellFormed(last) /\ size(last) \in 0..N /\ size(b) \in 0..N
      /\ (isFull(last) <=> size(last) = N)
  BY <1>7, SizeCounts
<1>. HIDE DEF last
<1>9. last.mFull
  BY <1>7, <1>8, CapacityAssumption DEF last, isFull
<1>. QED
  BY <1>1, <1>7, <1>8, <1>9, IterationFills DEF last

-----------------------------------------------------------------------------
(* The buffer as an object that is called. *)

(* The invariant says that the buffer object is well formed. *)
LEMMA InvIsWellFormed == Inv <=> WellFormed(rb) /\ ret \in Item
BY DEF Inv, TypeOK, FullHasEqualIndices, WellFormed

(* back() and front() of a non-empty buffer return items. *)
LEMMA EndsAreItems ==
  ASSUME WellFormed(rb)
  PROVE  back(rb) \in Item /\ front(rb) \in Item
BY Neighbours DEF WellFormed, Buffer, back, front

(* Inv holds initially and every call preserves it. *)
LEMMA InvInductive ==
  /\ Init => Inv
  /\ Inv /\ [Next]_vars => Inv'
<1>1. Init => Inv
  BY CapacityAssumption, ZeroAssumption
     DEF Init, Inv, TypeOK, FullHasEqualIndices, Empty,
         Buffer, Cells
<1>2. ASSUME Inv, [Next]_vars
      PROVE  WellFormed(rb') /\ ret' \in Item
  <2>. USE <1>2, InvIsWellFormed
  <2>1. ASSUME NEW x \in Item, PushFront(x) PROVE WellFormed(rb') /\ ret' \in Item
    BY <2>1, PushFrontContents DEF PushFront
  <2>2. ASSUME NEW x \in Item, PushBack(x) PROVE WellFormed(rb') /\ ret' \in Item
    BY <2>2, PushBackContents DEF PushBack
  <2>3. ASSUME NEW x \in Item, Fill(x) PROVE WellFormed(rb') /\ ret' \in Item
    BY <2>3, FillContents DEF Fill
  <2>4. CASE PopBack
    BY <2>4, PopBackContents, EndsAreItems DEF PopBack
  <2>5. CASE PopFront
    BY <2>5, PopFrontContents, EndsAreItems DEF PopFront
  <2>6. CASE Clear
    BY <2>6, ClearContents DEF Clear
  <2>7. CASE Back \/ Front
    BY <2>7, EndsAreItems DEF Back, Front
  <2>8. CASE UNCHANGED vars
    BY <2>8 DEF vars
  <2>. QED
    BY <2>1, <2>2, <2>3, <2>4, <2>5, <2>6, <2>7, <2>8 DEF Next
<1>. QED
  BY <1>1, <1>2 DEF Inv, TypeOK, FullHasEqualIndices, WellFormed

(* Every member function keeps the cells, indices and flag in their types    *)
(* and never leaves a set full flag with different indices.                  *)
THEOREM RingBufferInvariant == Spec => []TypeOK /\ []FullHasEqualIndices
<1>1. Spec => []Inv
  BY InvInductive, PTL DEF Spec
<1>. QED
  BY <1>1, PTL DEF Inv

(* Each call is the call of the same name on the deque of the contents.      *)
LEMMA StepRefines == Inv /\ [Next]_vars => [Deque!Next]_<<Contents(rb), ret>>
<1>. SUFFICES ASSUME Inv, [Next]_vars
              PROVE  Deque!Next \/ UNCHANGED <<Contents(rb), ret>>
  BY Zenon
<1>. USE InvIsWellFormed
<1>1. ASSUME NEW x \in Item, PushFront(x) PROVE Deque!PushFront(x)
  BY <1>1, PushFrontContents DEF PushFront, Deque!PushFront
<1>2. ASSUME NEW x \in Item, PushBack(x) PROVE Deque!PushBack(x)
  BY <1>2, PushBackContents DEF PushBack, Deque!PushBack
<1>3. ASSUME NEW x \in Item, Fill(x) PROVE Deque!Fill(x)
  BY <1>3, FillContents DEF Fill, Deque!Fill
<1>4. CASE PopBack
  BY <1>4, PopBackContents, EndsAreBackAndFront DEF PopBack, Deque!PopBack,
     Deque!Next
<1>5. CASE PopFront
  BY <1>5, PopFrontContents, EndsAreBackAndFront DEF PopFront,
     Deque!PopFront, Deque!Next
<1>6. CASE Clear
  BY <1>6, ClearContents DEF Clear, Deque!Clear, Deque!Next
<1>7. CASE Back
  BY <1>7, EndsAreBackAndFront DEF Back, Deque!Back, Deque!Next
<1>8. CASE Front
  BY <1>8, EndsAreBackAndFront DEF Front, Deque!Front, Deque!Next
<1>9. CASE UNCHANGED vars
  BY <1>9 DEF vars
<1>. QED
  BY <1>1, <1>2, <1>3, <1>4, <1>5, <1>6, <1>7, <1>8, <1>9
     DEF Next, Deque!Next

(* RingBuffer implements the bounded deque (property DequeSpec) for every    *)
(* capacity N >= 1 and every item type.                                      *)
THEOREM RingBufferIsDeque == Spec => DequeSpec
<1>1. Init => Deque!Init
  <2>. SUFFICES ASSUME Init PROVE Deque!Init
    OBVIOUS
  <2>1. WellFormed(rb) /\ ret \in Item
    BY InvInductive, InvIsWellFormed
  <2>2. isEmpty(rb)
    BY DEF Init, Empty, isEmpty
  <2>3. Contents(rb) = <<>>
    BY <2>1, <2>2, SizeCounts, ContentsType
  <2>. QED
    BY <2>1, <2>3 DEF Deque!Init
<1>. QED
  BY <1>1, InvInductive, StepRefines, PTL DEF Spec, DequeSpec, Deque!Spec

(* fill in closed form is the loop of the code, from every buffer that any   *)
(* sequence of calls leaves, for every capacity (RingBuffer.h:116-120).      *)
THEOREM FillIsItsLoop == Spec => []FillIsTheLoop
<1>1. Inv => FillIsTheLoop
  BY InvIsWellFormed, FillDoesTheLoop DEF FillIsTheLoop, isFull, fill
<1>. QED
  BY <1>1, InvInductive, PTL DEF Spec
=============================================================================
