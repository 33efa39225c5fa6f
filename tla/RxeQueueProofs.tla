--------------------------- MODULE RxeQueueProofs ---------------------------
(***************************************************************************)
(* Lemmas about the circular buffer of rxe_queue.h, for every number of    *)
(* slots and every pair of indices: what the masked indices count, and     *)
(* what filling, advancing and resizing do to the elements it holds.       *)
(***************************************************************************)
EXTENDS RxeQueue, SequenceTheorems, TLAPS

\* A queue whose slots hold members of E.
IsQueue(q, E) ==
  /\ q.slots \in Nat \ {0}
  /\ q.prod \in 0 .. q.slots - 1
  /\ q.cons \in 0 .. q.slots - 1
  /\ q.data \in [0 .. q.slots - 1 -> E]
  /\ q = [slots |-> q.slots, prod |-> q.prod, cons |-> q.cons, data |-> q.data]

-----------------------------------------------------------------------------
(* Arithmetic modulo the number of slots *)

\* A masked index is the index of a slot.
LEMMA MaskRange ==
  ASSUME NEW n \in Nat \ {0}, NEW i \in Int
  PROVE  i % n \in 0 .. n - 1
  OBVIOUS

\* The masked sum of an index and an offset wraps at most once.
LEMMA MaskSum ==
  ASSUME NEW n \in Nat \ {0}, NEW i \in 0 .. n - 1, NEW k \in 0 .. n
  PROVE  (i + k) % n = IF i + k < n THEN i + k ELSE i + k - n
  OBVIOUS

\* The next index.
LEMMA MaskNext ==
  ASSUME NEW n \in Nat \ {0}, NEW i \in 0 .. n - 1
  PROVE  (i + 1) % n = IF i + 1 < n THEN i + 1 ELSE 0
  OBVIOUS

\* So does the masked difference of two indices.
LEMMA MaskDiff ==
  ASSUME NEW n \in Nat \ {0}, NEW i \in 0 .. n - 1, NEW j \in 0 .. n - 1
  PROVE  (i - j) % n = IF i >= j THEN i - j ELSE i - j + n
  OBVIOUS

-----------------------------------------------------------------------------
\* The types of the indices.
LEMMA IndexTypes ==
  ASSUME NEW E, NEW q, IsQueue(q, E)
  PROVE  q.slots \in Nat \ {0} /\ q.prod \in 0 .. q.slots - 1 /\ q.cons \in 0 .. q.slots - 1
  BY DEF IsQueue

\* queue_count, with the wrap of the indices spelled out.
LEMMA CountIs ==
  ASSUME NEW E, NEW q, IsQueue(q, E)
  PROVE  /\ queue_count(q) = IF q.prod >= q.cons THEN q.prod - q.cons
                                                 ELSE q.prod - q.cons + q.slots
         /\ queue_count(q) \in 0 .. q.slots - 1
  <1>1. q.slots \in Nat \ {0} /\ q.prod \in 0 .. q.slots - 1 /\ q.cons \in 0 .. q.slots - 1
    BY IndexTypes
  <1>2. queue_count(q) = (q.prod - q.cons) % q.slots
    BY DEF queue_count, masked
  <1>3. (q.prod - q.cons) % q.slots = IF q.prod >= q.cons THEN q.prod - q.cons
                                                          ELSE q.prod - q.cons + q.slots
    BY <1>1, MaskDiff
  <1> QED
    BY <1>1, <1>2, <1>3

\* queue_empty and queue_full are the two ends of queue_count: one slot is
\* never used, which is what tells a full queue from an empty one.
LEMMA EmptyFull ==
  ASSUME NEW E, NEW q, IsQueue(q, E)
  PROVE  /\ queue_empty(q) <=> queue_count(q) = 0
         /\ queue_full(q)  <=> queue_count(q) = q.slots - 1
  <1>0. /\ q.slots \in Nat \ {0} /\ q.prod \in 0 .. q.slots - 1 /\ q.cons \in 0 .. q.slots - 1
        /\ queue_count(q) = IF q.prod >= q.cons THEN q.prod - q.cons
                                                ELSE q.prod - q.cons + q.slots
    BY IndexTypes, CountIs
  <1>1. queue_empty(q) <=> queue_count(q) = 0
    BY DEF queue_empty, queue_count
  <1>2. queue_full(q) <=> (q.prod + 1 - q.cons) % q.slots = 0
    BY DEF queue_full, masked
  <1> DEFINE full == (q.prod + 1 - q.cons) % q.slots = 0
  <1>3. ASSUME q.prod + 1 < q.slots PROVE full <=> queue_count(q) = q.slots - 1
    <2>1. q.prod + 1 \in 0 .. q.slots - 1
      BY <1>0, <1>3
    <2>2. ((q.prod + 1) - q.cons) % q.slots
            = IF q.prod + 1 >= q.cons THEN (q.prod + 1) - q.cons
                                      ELSE (q.prod + 1) - q.cons + q.slots
      BY <1>0, <2>1, MaskDiff
    <2> QED
      BY <1>0, <1>3, <2>2
  <1>4. ASSUME q.prod + 1 = q.slots PROVE full <=> queue_count(q) = q.slots - 1
    <2>1. (q.slots - q.cons) % q.slots = IF q.cons = 0 THEN 0 ELSE q.slots - q.cons
      BY <1>0
    <2>2. (q.prod + 1 - q.cons) % q.slots = (q.slots - q.cons) % q.slots
      <3>1. q.prod + 1 - q.cons = q.slots - q.cons
        BY <1>0, <1>4
      <3> QED
        BY <3>1
    <2>3. full <=> q.cons = 0
      BY <1>0, <2>1, <2>2
    <2>4. q.cons = 0 <=> queue_count(q) = q.slots - 1
      BY <1>0, <1>4
    <2> QED
      BY <2>3, <2>4
  <1>5. full <=> queue_count(q) = q.slots - 1
    BY <1>0, <1>3, <1>4
  <1> QED
    BY <1>1, <1>2, <1>5

\* The i-th element, with the wrap spelled out.
LEMMA ElemIs ==
  ASSUME NEW E, NEW q, IsQueue(q, E), NEW i \in 0 .. q.slots
  PROVE  elem_at(q, i) = q.data[IF q.cons + i < q.slots THEN q.cons + i
                                ELSE q.cons + i - q.slots]
  <1>1. q.slots \in Nat \ {0} /\ q.cons \in 0 .. q.slots - 1
    BY IndexTypes
  <1>2. (q.cons + i) % q.slots = IF q.cons + i < q.slots THEN q.cons + i
                                                         ELSE q.cons + i - q.slots
    BY <1>1, MaskSum
  <1> QED
    BY <1>2 DEF elem_at, masked

-----------------------------------------------------------------------------
(* rxe_cq_post: fill the slot at the producer index, then advance it *)

\* Filling the producer's slot changes nothing that the queue holds.
LEMMA FillKeeps ==
  ASSUME NEW E, NEW q, IsQueue(q, E), NEW e \in E
  PROVE  LET r == fill_producer(q, e)
         IN  /\ IsQueue(r, E)
             /\ r.slots = q.slots /\ r.prod = q.prod /\ r.cons = q.cons
             /\ r.data[q.prod] = e
             /\ queue_count(r) = queue_count(q)
             /\ \A i \in 0 .. queue_count(q) - 1 : elem_at(r, i) = elem_at(q, i)
  <1> DEFINE r == fill_producer(q, e)
  <1>0. /\ q.slots \in Nat \ {0} /\ q.prod \in 0 .. q.slots - 1 /\ q.cons \in 0 .. q.slots - 1
        /\ queue_count(q) = IF q.prod >= q.cons THEN q.prod - q.cons
                                                ELSE q.prod - q.cons + q.slots
        /\ queue_count(q) \in 0 .. q.slots - 1
    BY IndexTypes, CountIs
  <1>1. masked(q, q.prod) = q.prod
    BY MaskSum DEF IsQueue, masked
  <1>2. r = [q EXCEPT !.data[q.prod] = e]
    BY <1>1 DEF fill_producer
  <1>3. r = [slots |-> q.slots, prod |-> q.prod, cons |-> q.cons,
             data |-> [q.data EXCEPT ![q.prod] = e]]
    BY <1>2 DEF IsQueue
  <1> HIDE DEF r
  <1>4. IsQueue(r, E) /\ r.slots = q.slots /\ r.prod = q.prod /\ r.cons = q.cons
    BY <1>3 DEF IsQueue
  <1>5. queue_count(r) = queue_count(q)
    BY <1>4 DEF queue_count, masked
  <1>6. r.data[q.prod] = e
    BY <1>3 DEF IsQueue
  <1>7. ASSUME NEW i \in 0 .. queue_count(q) - 1
        PROVE  elem_at(r, i) = elem_at(q, i)
    <2> DEFINE j == IF q.cons + i < q.slots THEN q.cons + i
                                            ELSE q.cons + i - q.slots
    <2>1. i \in 0 .. q.slots /\ j \in 0 .. q.slots - 1 /\ j # q.prod
      BY <1>0, <1>7
    <2>2. elem_at(q, i) = q.data[j] /\ elem_at(r, i) = r.data[j]
      BY <1>4, <2>1, ElemIs
    <2> HIDE DEF j
    <2>3. r.data[j] = q.data[j]
      BY <1>3, <2>1 DEF IsQueue
    <2> QED
      BY <2>2, <2>3
  <1> QED
    BY <1>4, <1>5, <1>6, <1>7 DEF r

\* Advancing the producer of a queue that is not full adds one element, the
\* one in the producer's slot, after the ones that were there.
LEMMA AdvanceProducerAdds ==
  ASSUME NEW E, NEW q, IsQueue(q, E), queue_count(q) < q.slots - 1
  PROVE  LET r == advance_producer(q)
         IN  /\ IsQueue(r, E)
             /\ r.slots = q.slots /\ r.cons = q.cons /\ r.data = q.data
             /\ queue_count(r) = queue_count(q) + 1
             /\ \A i \in 0 .. queue_count(q) - 1 : elem_at(r, i) = elem_at(q, i)
             /\ elem_at(r, queue_count(q)) = q.data[q.prod]
  <1> DEFINE r == advance_producer(q)
  <1>0. /\ q.slots \in Nat \ {0} /\ q.prod \in 0 .. q.slots - 1 /\ q.cons \in 0 .. q.slots - 1
        /\ queue_count(q) = IF q.prod >= q.cons THEN q.prod - q.cons
                                                ELSE q.prod - q.cons + q.slots
        /\ queue_count(q) \in 0 .. q.slots - 1
    BY IndexTypes, CountIs
  <1>1. r = [slots |-> q.slots, prod |-> masked(q, q.prod + 1), cons |-> q.cons,
             data |-> q.data]
    BY DEF IsQueue, advance_producer
  <1>2. masked(q, q.prod + 1) = IF q.prod + 1 < q.slots THEN q.prod + 1 ELSE 0
    BY <1>0, MaskNext DEF masked
  <1> HIDE DEF r
  <1>3. /\ IsQueue(r, E) /\ r.slots = q.slots /\ r.cons = q.cons /\ r.data = q.data
        /\ r.prod = IF q.prod + 1 < q.slots THEN q.prod + 1 ELSE 0
    BY <1>1, <1>2 DEF IsQueue
  <1>4. queue_count(r) = queue_count(q) + 1
    <2>1. /\ queue_count(r) = IF r.prod >= r.cons THEN r.prod - r.cons
                                                  ELSE r.prod - r.cons + r.slots
      BY <1>3, CountIs
    <2> QED
      BY <1>0, <1>3, <2>1
  <1>5. \A i \in 0 .. queue_count(q) - 1 : elem_at(r, i) = elem_at(q, i)
    BY <1>3 DEF elem_at, masked
  <1>6. elem_at(r, queue_count(q)) = q.data[q.prod]
    <2>1. queue_count(q) \in 0 .. r.slots
      BY <1>0, <1>3
    <2>2. elem_at(r, queue_count(q))
            = r.data[IF r.cons + queue_count(q) < r.slots THEN r.cons + queue_count(q)
                     ELSE r.cons + queue_count(q) - r.slots]
      BY <1>3, <2>1, ElemIs
    <2> QED
      BY <1>0, <1>3, <2>2
  <1> QED
    BY <1>3, <1>4, <1>5, <1>6 DEF r

\* Full or not, the producer index stays the index of a slot.
LEMMA AdvanceProducerTypes ==
  ASSUME NEW E, NEW q, IsQueue(q, E)
  PROVE  IsQueue(advance_producer(q), E) /\ advance_producer(q).slots = q.slots
  <1>1. masked(q, q.prod + 1) \in 0 .. q.slots - 1
    BY MaskRange DEF IsQueue, masked
  <1> QED
    BY <1>1 DEF IsQueue, advance_producer

-----------------------------------------------------------------------------
(* poll_cq: advance the consumer *)

\* Advancing the consumer of a queue that is not empty drops its first element
\* and no other.
LEMMA AdvanceConsumerDrops ==
  ASSUME NEW E, NEW q, IsQueue(q, E)
  PROVE  LET r == advance_consumer(q)
         IN  /\ IsQueue(r, E)
             /\ r.slots = q.slots /\ r.prod = q.prod /\ r.data = q.data
             /\ queue_count(q) > 0 =>
                  /\ queue_count(r) = queue_count(q) - 1
                  /\ \A i \in 0 .. queue_count(q) - 2 :
                        elem_at(r, i) = elem_at(q, i + 1)
  <1> DEFINE r == advance_consumer(q)
  <1>0. /\ q.slots \in Nat \ {0} /\ q.prod \in 0 .. q.slots - 1 /\ q.cons \in 0 .. q.slots - 1
        /\ queue_count(q) = IF q.prod >= q.cons THEN q.prod - q.cons
                                                ELSE q.prod - q.cons + q.slots
        /\ queue_count(q) \in 0 .. q.slots - 1
    BY IndexTypes, CountIs
  <1>1. r = [slots |-> q.slots, prod |-> q.prod, cons |-> masked(q, q.cons + 1),
             data |-> q.data]
    BY DEF IsQueue, advance_consumer
  <1>2. masked(q, q.cons + 1) = IF q.cons + 1 < q.slots THEN q.cons + 1 ELSE 0
    BY <1>0, MaskNext DEF masked
  <1> HIDE DEF r
  <1>3. /\ IsQueue(r, E) /\ r.slots = q.slots /\ r.prod = q.prod /\ r.data = q.data
        /\ r.cons = IF q.cons + 1 < q.slots THEN q.cons + 1 ELSE 0
    BY <1>1, <1>2 DEF IsQueue
  <1>4. ASSUME queue_count(q) > 0 PROVE queue_count(r) = queue_count(q) - 1
    <2>1. /\ queue_count(r) = IF r.prod >= r.cons THEN r.prod - r.cons
                                                  ELSE r.prod - r.cons + r.slots
      BY <1>3, CountIs
    <2> QED
      BY <1>0, <1>3, <1>4, <2>1
  <1>5. ASSUME queue_count(q) > 0, NEW i \in 0 .. queue_count(q) - 2
        PROVE  elem_at(r, i) = elem_at(q, i + 1)
    <2>1. i \in 0 .. q.slots /\ i + 1 \in 0 .. q.slots
      BY <1>0, <1>5
    <2>2. /\ elem_at(r, i) = q.data[IF r.cons + i < q.slots THEN r.cons + i
                                    ELSE r.cons + i - q.slots]
          /\ elem_at(q, i + 1) = q.data[IF q.cons + (i + 1) < q.slots THEN q.cons + (i + 1)
                                        ELSE q.cons + (i + 1) - q.slots]
      BY <1>3, <2>1, ElemIs
    <2>3. (IF r.cons + i < q.slots THEN r.cons + i ELSE r.cons + i - q.slots)
            = (IF q.cons + (i + 1) < q.slots THEN q.cons + (i + 1)
               ELSE q.cons + (i + 1) - q.slots)
      BY <1>0, <1>3, <1>5, <2>1
    <2> QED
      BY <2>2, <2>3
  <1> QED
    BY <1>3, <1>4, <1>5 DEF r

-----------------------------------------------------------------------------
(* resize_finish *)

\* rxe_queue_init makes an empty queue of at least the size asked for.
LEMMA InitEmpty ==
  ASSUME NEW E, NEW blank \in E, NEW n \in Nat,
         roundup_pow_of_two(n + 1) \in Nat, roundup_pow_of_two(n + 1) >= n + 1
  PROVE  LET q == queue_init(n, blank)
         IN  /\ IsQueue(q, E) /\ queue_count(q) = 0
             /\ q.prod = 0 /\ q.cons = 0 /\ q.slots >= n + 1
  <1> DEFINE q == queue_init(n, blank)
             k == roundup_pow_of_two(n + 1)
  <1>1. q = [slots |-> k, prod |-> 0, cons |-> 0, data |-> [i \in 0 .. k - 1 |-> blank]]
    BY DEF queue_init
  <1> HIDE DEF q, k
  <1>2. IsQueue(q, E) /\ q.prod = 0 /\ q.cons = 0 /\ q.slots >= n + 1
    BY <1>1 DEF IsQueue, k
  <1>3. queue_count(q) = 0
    <2>1. queue_count(q) = IF q.prod >= q.cons THEN q.prod - q.cons
                                               ELSE q.prod - q.cons + q.slots
      BY <1>2, CountIs
    <2> QED
      BY <1>2, <2>1
  <1> QED
    BY <1>2, <1>3 DEF q

\* Whether or not there is room, the result is a queue of the new size; if
\* resize_finish does not fail it holds what the old one held, in its order.
LEMMA ResizeMoves ==
  ASSUME NEW E, NEW q, IsQueue(q, E), NEW new_q, IsQueue(new_q, E),
         new_q.cons = 0, ~resize_fails(q, new_q)
  PROVE  LET r == resize_finish(q, new_q)
         IN  /\ IsQueue(r, E) /\ r.slots = new_q.slots
             /\ queue_count(r) = queue_count(q)
             /\ \A i \in 0 .. queue_count(q) - 1 : elem_at(r, i) = elem_at(q, i)
  <1> DEFINE r == resize_finish(q, new_q)
             n == queue_count(q)
             d == [i \in DOMAIN new_q.data |->
                     IF i < n THEN elem_at(q, i) ELSE new_q.data[i]]
  <1>0. /\ q.slots \in Nat \ {0} /\ new_q.slots \in Nat \ {0}
        /\ n \in 0 .. q.slots - 1
        /\ queue_empty(q) <=> n = 0
    BY IndexTypes, CountIs, EmptyFull
  <1>1. n \in 0 .. new_q.slots - 1
    BY <1>0 DEF resize_fails, capacity
  <1>2. r = [new_q EXCEPT !.prod = masked(new_q, n), !.data = d]
    BY DEF resize_finish
  <1>3. masked(new_q, n) = n
    <2>1. (0 + n) % new_q.slots = n
      BY <1>0, <1>1
    <2> QED
      BY <1>0, <1>1, <2>1 DEF masked
  <1>4. d \in [0 .. new_q.slots - 1 -> E]
    <2>1. ASSUME NEW i \in 0 .. new_q.slots - 1, i < n PROVE elem_at(q, i) \in E
      <3>1. i \in 0 .. q.slots /\ masked(q, q.cons + i) \in 0 .. q.slots - 1
        BY <1>0, <2>1, MaskRange DEF IsQueue, masked
      <3> QED
        BY <3>1 DEF IsQueue, elem_at
    <2> QED
      BY <2>1 DEF IsQueue
  <1>5. r = [slots |-> new_q.slots, prod |-> n, cons |-> 0, data |-> d]
    <2> HIDE DEF r, n, d
    <2> QED
      BY <1>2, <1>3 DEF IsQueue
  <1>6. \A i \in 0 .. n - 1 : d[i] = elem_at(q, i)
    BY <1>1 DEF IsQueue
  <1> HIDE DEF r, d, n
  <1>7. IsQueue(r, E) /\ r.slots = new_q.slots /\ r.cons = 0 /\ r.prod = n /\ r.data = d
    BY <1>1, <1>4, <1>5 DEF IsQueue
  <1>8. queue_count(r) = n
    <2>1. queue_count(r) = IF r.prod >= r.cons THEN r.prod - r.cons
                                               ELSE r.prod - r.cons + r.slots
      BY <1>7, CountIs
    <2> QED
      BY <1>0, <1>1, <1>7, <2>1
  <1>9. ASSUME NEW i \in 0 .. n - 1 PROVE elem_at(r, i) = elem_at(q, i)
    <2>1. i \in 0 .. r.slots /\ i < r.slots
      BY <1>0, <1>1, <1>7, <1>9
    <2>2. elem_at(r, i) = d[i]
      <3>1. elem_at(r, i) = r.data[IF r.cons + i < r.slots THEN r.cons + i
                                   ELSE r.cons + i - r.slots]
        BY <1>7, <2>1, ElemIs
      <3> QED
        BY <1>7, <2>1, <3>1
    <2> QED
      BY <1>6, <2>2
  <1> QED
    BY <1>7, <1>8, <1>9 DEF r, n

-----------------------------------------------------------------------------
(* The queue as a sequence *)

\* contents is a sequence of queue_count elements.
LEMMA ContentsIs ==
  ASSUME NEW E, NEW q, IsQueue(q, E)
  PROVE  /\ contents(q) \in Seq(E)
         /\ Len(contents(q)) = queue_count(q)
         /\ \A i \in 1 .. queue_count(q) : contents(q)[i] = elem_at(q, i - 1)
  <1>1. queue_count(q) \in Nat
    BY IndexTypes, CountIs
  <1>2. ASSUME NEW i \in 1 .. queue_count(q) PROVE elem_at(q, i - 1) \in E
    <2>1. masked(q, q.cons + (i - 1)) \in 0 .. q.slots - 1
      BY <1>1, <1>2, MaskRange DEF IsQueue, masked
    <2> QED
      BY <2>1 DEF IsQueue, elem_at
  <1> QED
    BY <1>1, <1>2 DEF contents

\* Queues with the same elements have the same contents.
LEMMA ContentsSame ==
  ASSUME NEW E, NEW q, NEW r, IsQueue(q, E), IsQueue(r, E),
         queue_count(r) = queue_count(q),
         \A i \in 0 .. queue_count(q) - 1 : elem_at(r, i) = elem_at(q, i)
  PROVE  contents(r) = contents(q)
  <1>1. queue_count(q) \in Nat
    BY IndexTypes, CountIs
  <1> QED
    BY <1>1 DEF contents

\* One more element at the end appends it.
LEMMA ContentsAppend ==
  ASSUME NEW E, NEW q, NEW r, IsQueue(q, E), IsQueue(r, E),
         queue_count(r) = queue_count(q) + 1,
         \A i \in 0 .. queue_count(q) - 1 : elem_at(r, i) = elem_at(q, i)
  PROVE  contents(r) = Append(contents(q), elem_at(r, queue_count(q)))
  <1> DEFINE n == queue_count(q)
             e == elem_at(r, n)
             s == Append(contents(q), e)
  <1>1. n \in Nat
    BY IndexTypes, CountIs
  <1>2. /\ contents(q) \in Seq(E) /\ Len(contents(q)) = n
        /\ \A i \in 1 .. n : contents(q)[i] = elem_at(q, i - 1)
        /\ contents(r) \in Seq(E) /\ Len(contents(r)) = n + 1
        /\ \A i \in 1 .. n + 1 : contents(r)[i] = elem_at(r, i - 1)
    BY ContentsIs
  <1>3. contents(r)[n + 1] = e
    BY <1>1, <1>2
  <1>4. e \in E
    BY <1>1, <1>2, <1>3, ElementOfSeq
  <1>5. /\ s \in Seq(E) /\ Len(s) = n + 1 /\ s[n + 1] = e
        /\ \A i \in 1 .. n : s[i] = contents(q)[i]
    BY <1>2, <1>4, AppendProperties
  <1> HIDE DEF n, e, s
  <1>6. ASSUME NEW i \in 1 .. n + 1 PROVE contents(r)[i] = s[i]
    <2>1. CASE i = n + 1
      BY <1>3, <1>5, <2>1
    <2>2. CASE i \in 1 .. n
      BY <1>1, <1>2, <1>5, <2>2 DEF n
    <2> QED
      BY <1>1, <2>1, <2>2
  <1> QED
    BY <1>2, <1>5, <1>6, SeqEqual DEF n, e, s

\* One element fewer at the front leaves the tail.
LEMMA ContentsTail ==
  ASSUME NEW E, NEW q, NEW r, IsQueue(q, E), IsQueue(r, E), queue_count(q) > 0,
         queue_count(r) = queue_count(q) - 1,
         \A i \in 0 .. queue_count(q) - 2 : elem_at(r, i) = elem_at(q, i + 1)
  PROVE  contents(q) # <<>> /\ contents(r) = Tail(contents(q))
  <1> DEFINE n == queue_count(q)
             s == Tail(contents(q))
  <1>1. n \in Nat /\ n > 0
    BY IndexTypes, CountIs
  <1>2. /\ contents(q) \in Seq(E) /\ Len(contents(q)) = n
        /\ \A i \in 1 .. n : contents(q)[i] = elem_at(q, i - 1)
        /\ contents(r) \in Seq(E) /\ Len(contents(r)) = n - 1
        /\ \A i \in 1 .. n - 1 : contents(r)[i] = elem_at(r, i - 1)
    BY ContentsIs
  <1>3. contents(q) # <<>>
    BY <1>1, <1>2
  <1>4. /\ s \in Seq(E) /\ Len(s) = n - 1
        /\ \A i \in 1 .. n - 1 : s[i] = contents(q)[i + 1]
    BY <1>2, <1>3, HeadTailProperties
  <1> HIDE DEF n, s
  <1>5. ASSUME NEW i \in 1 .. n - 1 PROVE contents(r)[i] = s[i]
    <2>1. /\ i + 1 \in 1 .. n /\ (i + 1) - 1 = (i - 1) + 1 /\ i - 1 \in 0 .. n - 2
      BY <1>1
    <2>2. elem_at(r, i - 1) = elem_at(q, (i - 1) + 1)
      BY <2>1 DEF n
    <2>3. s[i] = elem_at(q, (i + 1) - 1)
      BY <1>2, <1>4, <2>1
    <2> QED
      BY <1>2, <2>1, <2>2, <2>3
  <1> QED
    BY <1>2, <1>3, <1>4, <1>5, SeqEqual DEF n, s
=============================================================================
