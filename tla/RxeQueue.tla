------------------------------ MODULE RxeQueue ------------------------------
(***************************************************************************)
(* The circular buffer of rxe_queue.h and rxe_queue.c (and of the          *)
(* identical user-space copy in librxe), as operators on a record          *)
(*                                                                         *)
(*   [slots, prod, cons, data]                                             *)
(*                                                                         *)
(* slots is index_mask + 1.  The code masks with index_mask, which is      *)
(* arithmetic modulo slots because slots is a power of two; the C indices  *)
(* are unsigned 32-bit numbers, and slots divides 2^32, so the difference  *)
(* of two indices masked to the mask is TLA+'s (non-negative) %.           *)
(***************************************************************************)
EXTENDS Integers, Sequences

masked(q, i) == i % q.slots

queue_empty(q) == masked(q, q.prod - q.cons) = 0

\* Mutant: every slot may be used, none is kept free.
queue_full_off_by_one(q) == masked(q, q.prod - q.cons) = q.slots

queue_full(q) == masked(q, q.prod + 1 - q.cons) = 0

queue_count(q) == masked(q, q.prod - q.cons)

\* Mutant: the index is not masked.
advance_producer_unmasked(q) == [q EXCEPT !.prod = q.prod + 1]

advance_producer(q) == [q EXCEPT !.prod = masked(q, q.prod + 1)]

advance_consumer(q) == [q EXCEPT !.cons = masked(q, q.cons + 1)]

\* memcpy(producer_addr(q), elem, ...): fills the slot at the producer index.
fill_producer(q, elem) == [q EXCEPT !.data[masked(q, q.prod)] = elem]

\* The i-th element (from 0) that the queue holds.
elem_at(q, i) == q.data[masked(q, q.cons + i)]

roundup_pow_of_two(n) ==
  CHOOSE p \in {2^k : k \in 0..n} :
     /\ p >= n
     /\ \A r \in {2^k : k \in 0..n} : r >= n => p <= r

\* A fresh queue that can hold at least num_elem elements.
queue_init(num_elem, blank) ==
  LET num_slots == roundup_pow_of_two(num_elem + 1)
  IN  [slots |-> num_slots, prod |-> 0, cons |-> 0,
       data  |-> [i \in 0 .. num_slots - 1 |-> blank]]

\* The capacity rxe_queue_init reports back through *num_elem.
capacity(q) == q.slots - 1

\* Mutant: the new size is not compared with the count again.
resize_fails_unchecked(q, new_q) == FALSE

\* resize_finish: fails when the new queue is too small for what q holds.
resize_fails(q, new_q) == ~queue_empty(q) /\ capacity(new_q) < queue_count(q)

\* resize_finish: the elements of q moved, oldest first, into the empty new_q.
resize_finish(q, new_q) ==
  [new_q EXCEPT
     !.prod = masked(new_q, queue_count(q)),
     !.data = [i \in DOMAIN new_q.data |->
                 IF i < queue_count(q) THEN elem_at(q, i) ELSE new_q.data[i]]]

\* What the queue holds, as a sequence: the abstraction of the buffer.
contents(q) == [i \in 1 .. queue_count(q) |-> elem_at(q, i - 1)]
=============================================================================
