---------------------------- MODULE RxeCQProofs ----------------------------
(***************************************************************************)
(* Theorems about RxeCQ, for any number of posters and consumers, any      *)
(* queue size and any sequence of resizes.  The types hold for every       *)
(* consumer.  That nothing is lost, nothing is delivered twice and the     *)
(* queue is a bounded FIFO is proved for consumers that poll and resize    *)
(* under one lock, as librxe does; the run CQ_two_pollers shows that it    *)
(* fails for the unlocked rxe_poll_cq of the kernel.                       *)
(***************************************************************************)
EXTENDS RxeCQ, RxeQueueProofs

\* A slot address held by a consumer is in the buffer, unless that was freed.
PtrOK ==
  \A c \in Consumers :
     /\ cptr[c].buf <= buf
     /\ cptr[c].buf = buf /\ cpc[c] = "copy" => cptr[c].index < queue.slots

\* A queue keeps room for at least one element.
RoomOK == queue.slots >= 2

TypeInv == TypeOK /\ PtrOK /\ RoomOK

-----------------------------------------------------------------------------
(* Types *)

\* QueueTypeOK says that queue is a circular buffer of rxe_queue.h.
LEMMA QueueIs == QueueTypeOK <=> IsQueue(queue, Nat)
  BY DEF QueueTypeOK, IsQueue

\* rxe_queue_init makes an empty queue for every size that is asked for.
LEMMA NewQueue ==
  ASSUME NEW n \in ResizeTo \cup {Cqe}
  PROVE  LET q == queue_init(n, Torn)
         IN  /\ IsQueue(q, Nat) /\ queue_count(q) = 0
             /\ q.prod = 0 /\ q.cons = 0 /\ q.slots >= n + 1
  <1>1. /\ n \in Nat /\ Torn \in Nat
        /\ roundup_pow_of_two(n + 1) \in Nat /\ roundup_pow_of_two(n + 1) >= n + 1
    BY RoundupAssumption DEF Torn
  <1> QED
    BY <1>1, InitEmpty

\* rxe_create_cq leaves every variable with its type.
LEMMA TypeInit == Init => TypeInv
  <1> SUFFICES ASSUME Init PROVE TypeInv
    OBVIOUS
  <1>1. IsQueue(queue, Nat) /\ queue.slots >= Cqe + 1
    BY NewQueue DEF Init
  <1>2. QueueTypeOK /\ RoomOK
    BY <1>1, QueueIs, CQAssumption DEF RoomOK, IsQueue
  <1>3. TypeOK
    <2>1. cpc \in [Consumers -> {"idle", "arm", "head", "copy", "advance"}]
      BY DEF Init
    <2>2. cptr \in [Consumers -> [buf : Nat, index : Nat]]
      BY DEF Init, NULL
    <2>3. /\ ppc \in [Posters -> {"idle", "advance", "test", "signal"}]
          /\ pcqe \in [Posters -> Nat] /\ pnotify \in [Posters -> Nat]
          /\ solicited \in [Posters -> BOOLEAN] /\ cwc \in [Consumers -> Nat]
      BY DEF Init
    <2>4. /\ buf \in Nat /\ notify \in 0..255 /\ tnotify \in 0..255 /\ nposts \in Nat
          /\ tpc \in {"idle", "handler"} /\ cq_lock \in Posters \cup {Free}
          /\ user_lock \in Consumers \cup {Free, Resizer} /\ rcqe \in ResizeTo \cup {0}
      BY DEF Init
    <2>5. sched \in BOOLEAN /\ posted \in Seq(Nat) /\ delivered \in Seq(Nat)
      <3>1. <<>> \in Seq(Nat)
        OBVIOUS
      <3> QED
        BY <3>1 DEF Init
    <2> QED
      BY <1>2, <2>1, <2>2, <2>3, <2>4, <2>5 DEF TypeOK
  <1>4. PtrOK
    BY <1>2 DEF Init, PtrOK, NULL, QueueTypeOK
  <1> QED
    BY <1>2, <1>3, <1>4 DEF TypeInv

\* The queue of the next state, for the actions that touch it.
LEMMA QueueStep ==
  ASSUME TypeInv, Next
  PROVE  /\ QueueTypeOK' /\ RoomOK'
         /\ queue.slots' = queue.slots \/ buf' = buf + 1
         /\ buf' = buf \/ buf' = buf + 1
  <1>0. IsQueue(queue, Nat) /\ RoomOK /\ TypeOK
    BY QueueIs DEF TypeInv, TypeOK
  <1>s. IsQueue(queue', Nat) /\ queue.slots' = queue.slots => QueueTypeOK' /\ RoomOK'
    BY <1>0 DEF QueueTypeOK, IsQueue, RoomOK
  <1>1. ASSUME NEW p \in Posters, PostFill(p) PROVE IsQueue(queue', Nat) /\ queue.slots' = queue.slots
    BY <1>0, <1>1, FillKeeps DEF PostFill, Torn
  <1>2. ASSUME NEW p \in Posters, PostAdvance(p)
        PROVE  IsQueue(queue', Nat) /\ queue.slots' = queue.slots
    <2> DEFINE r == fill_producer(queue, pcqe[p])
    <2>1. pcqe[p] \in Nat
      BY <1>0 DEF TypeOK
    <2>2. IsQueue(r, Nat) /\ r.slots = queue.slots
      BY <1>0, <2>1, FillKeeps
    <2>3. queue' = advance_producer(r)
      BY <1>2 DEF PostAdvance
    <2> HIDE DEF r
    <2> QED
      BY <2>2, <2>3, AdvanceProducerTypes
  <1>3. ASSUME NEW c \in Consumers, PollAdvance(c)
        PROVE  IsQueue(queue', Nat) /\ queue.slots' = queue.slots
    BY <1>0, <1>3, AdvanceConsumerDrops DEF PollAdvance
  <1>4. ASSUME ResizeFinish
        PROVE  /\ QueueTypeOK' /\ RoomOK'
               /\ queue' = queue \/ buf' = buf + 1
               /\ buf' = buf \/ buf' = buf + 1
    <2> DEFINE new_q == queue_init(rcqe, Torn)
    <2>1. rcqe \in ResizeTo /\ rcqe \in Nat /\ rcqe # 0
      BY <1>0, <1>4, CQAssumption DEF ResizeFinish, TypeOK
    <2>2. IsQueue(new_q, Nat) /\ new_q.cons = 0 /\ new_q.slots >= rcqe + 1
      BY <2>1, NewQueue
    <2>r. new_q.slots >= 2
      BY <2>1, <2>2, IndexTypes
    <2>3. CASE resize_fails(queue, new_q)
      BY <1>0, <1>4, <2>3 DEF ResizeFinish, QueueTypeOK, RoomOK, TypeOK
    <2>4. CASE ~resize_fails(queue, new_q)
      <3>1. queue' = resize_finish(queue, new_q) /\ buf' = buf + 1
        BY <1>4, <2>4 DEF ResizeFinish
      <3> HIDE DEF new_q
      <3>2. IsQueue(queue', Nat) /\ queue'.slots = new_q.slots
        BY <1>0, <2>2, <2>4, <3>1, ResizeMoves
      <3> QED
        BY <2>r, <3>1, <3>2 DEF QueueTypeOK, IsQueue, RoomOK
    <2> QED
      BY <2>3, <2>4
  <1>5. CASE UNCHANGED <<queue, buf>>
    BY <1>0, <1>5 DEF QueueTypeOK, RoomOK, TypeOK
  <1>6. ASSUME NEW p \in Posters, PostFull(p) \/ PostFill(p) \/ PostStep(p)
        PROVE  UNCHANGED buf /\ (UNCHANGED queue \/ PostFill(p) \/ PostAdvance(p))
    BY <1>6 DEF PostFull, PostFill, PostStep, PostAdvance, PostTest, PostSignal
  <1>7. ASSUME NEW c \in Consumers, PollStep(c)
        PROVE  UNCHANGED buf /\ (UNCHANGED queue \/ PollAdvance(c))
    BY <1>7 DEF PollStep, Arm, PollEmpty, PollHead, PollCopy, PollAdvance
  <1>8. ASSUME \/ \E c \in Pollers : PollAgain(c)
               \/ \E cqe \in ResizeTo : ResizeCheck(cqe)
               \/ CompTask \/ CompTest
        PROVE  UNCHANGED <<queue, buf>>
    BY <1>8 DEF PollAgain, ResizeCheck, CompTask, CompTest
  <1> QED
    BY <1>s, <1>1, <1>2, <1>3, <1>4, <1>5, <1>6, <1>7, <1>8 DEF Next

\* No step of a poster, a consumer, a resize or the tasklet disturbs a type.
LEMMA TypeStep == TypeInv /\ [Next]_vars => TypeInv'
  <1> SUFFICES ASSUME TypeInv, [Next]_vars PROVE TypeInv'
    OBVIOUS
  <1>0. TypeOK /\ PtrOK /\ RoomOK /\ QueueTypeOK
    BY DEF TypeInv, TypeOK
  <1>t. queue.slots \in Nat /\ buf \in Nat
    BY <1>0 DEF QueueTypeOK, TypeOK
  <1>q. ASSUME Next PROVE /\ QueueTypeOK' /\ RoomOK'
                          /\ queue.slots' = queue.slots \/ buf' = buf + 1
                          /\ buf' = buf \/ buf' = buf + 1
    BY <1>q, QueueStep
  <1>1. ASSUME NEW p \in Posters, PostFull(p) PROVE TypeOK' /\ UNCHANGED cvars
    <2>1. QueueTypeOK'
      BY <1>1, <1>q DEF Next
    <2> QED
      BY <1>0, <1>1, <2>1 DEF TypeOK, PostFull, pvars, cvars, tvars
  <1>2. ASSUME NEW p \in Posters, PostFill(p) PROVE TypeOK' /\ UNCHANGED cvars
    <2>1. QueueTypeOK'
      BY <1>2, <1>q DEF Next
    <2>2. /\ pcqe' \in [Posters -> Nat] /\ ppc' \in [Posters -> {"idle", "advance", "test", "signal"}]
          /\ cq_lock' \in Posters \cup {Free} /\ nposts' \in Nat
      BY <1>0, <1>2 DEF TypeOK, PostFill
    <2>3. solicited' \in [Posters -> BOOLEAN]
      BY <1>0, <1>2, CQAssumption DEF TypeOK, PostFill
    <2> QED
      BY <1>0, <1>2, <2>1, <2>2, <2>3 DEF TypeOK, PostFill, cvars, tvars
  <1>3. ASSUME NEW p \in Posters, PostAdvance(p) PROVE TypeOK' /\ UNCHANGED cvars
    <2>1. QueueTypeOK'
      BY <1>3, <1>q DEF Next, PostStep
    <2>2. /\ pcqe' \in [Posters -> Nat] /\ ppc' \in [Posters -> {"idle", "advance", "test", "signal"}]
          /\ cq_lock' \in Posters \cup {Free} /\ posted' \in Seq(Nat)
      BY <1>0, <1>3 DEF TypeOK, PostAdvance
    <2> QED
      BY <1>0, <1>3, <2>1, <2>2 DEF TypeOK, PostAdvance, cvars, tvars
  <1>4. ASSUME NEW p \in Posters, PostTest(p) PROVE TypeOK' /\ UNCHANGED cvars
    <2>1. QueueTypeOK'
      BY <1>4, <1>q DEF Next, PostStep
    <2>2. /\ pnotify' \in [Posters -> Nat] /\ ppc' \in [Posters -> {"idle", "advance", "test", "signal"}]
      BY <1>0, <1>4 DEF TypeOK, PostTest
    <2> QED
      BY <1>0, <1>4, <2>1, <2>2 DEF TypeOK, PostTest, cvars, tvars, hvars
  <1>5. ASSUME NEW p \in Posters, PostSignal(p) PROVE TypeOK' /\ UNCHANGED cvars
    <2>1. QueueTypeOK'
      BY <1>5, <1>q DEF Next, PostStep
    <2>2. /\ pnotify' \in [Posters -> Nat] /\ ppc' \in [Posters -> {"idle", "advance", "test", "signal"}]
          /\ sched' \in BOOLEAN
      BY <1>0, <1>5 DEF TypeOK, PostSignal
    <2>3. notify' \in 0..255
      BY <1>0, <1>5, MaskRange DEF TypeOK, PostSignal
    <2> QED
      BY <1>0, <1>5, <2>1, <2>2, <2>3 DEF TypeOK, PostSignal, cvars, hvars
  <1>6. ASSUME NEW c \in Consumers, Arm(c)
        PROVE  TypeOK' /\ UNCHANGED <<buf, queue, cptr>> /\ cpc' = [cpc EXCEPT ![c] = "head"]
    <2>1. notify' \in 0..255
      BY <1>0, <1>6, CQAssumption
         DEF TypeOK, Arm, rxe_req_notify_cq, IB_CQ_SOLICITED, IB_CQ_NEXT_COMP
    <2> QED
      BY <1>0, <1>6, <2>1 DEF TypeOK, QueueTypeOK, Arm, pvars, tvars, hvars
  <1>7. ASSUME NEW c \in Consumers, PollEmpty(c)
        PROVE  TypeOK' /\ UNCHANGED <<buf, queue, cptr>> /\ cpc' = [cpc EXCEPT ![c] = "idle"]
    BY <1>0, <1>7 DEF TypeOK, QueueTypeOK, PollEmpty, pvars, tvars, hvars
  <1>8. ASSUME NEW c \in Consumers, PollHead(c) PROVE TypeOK' /\ PtrOK'
    <2>1. masked(queue, queue.cons) \in 0 .. queue.slots - 1
      BY <1>0, MaskRange DEF QueueTypeOK, masked
    <2>2. cptr' \in [Consumers -> [buf : Nat, index : Nat]]
      BY <1>0, <1>8, <1>t, <2>1 DEF TypeOK, PollHead
    <2>3. /\ cpc' \in [Consumers -> {"idle", "arm", "head", "copy", "advance"}]
          /\ user_lock' \in Consumers \cup {Free, Resizer}
      BY <1>0, <1>8 DEF TypeOK, PollHead
    <2>4. TypeOK'
      BY <1>0, <1>8, <2>2, <2>3 DEF TypeOK, QueueTypeOK, PollHead, pvars, tvars, hvars
    <2>5. PtrOK'
      BY <1>0, <1>8, <1>t, <2>1 DEF TypeOK, PtrOK, PollHead
    <2> QED
      BY <2>4, <2>5
  <1>9. ASSUME NEW c \in Consumers, PollCopy(c) PROVE TypeOK' /\ PtrOK'
    <2>1. cwc' \in [Consumers -> Nat]
      <3>1. cptr[c].buf = buf => queue.data[cptr[c].index] \in Nat
        BY <1>0, <1>9, SMTT(30) DEF TypeOK, QueueTypeOK, PtrOK, PollCopy
      <3> QED
        BY <1>0, <1>9, <3>1 DEF TypeOK, PollCopy, Torn
    <2>2. /\ cptr' \in [Consumers -> [buf : Nat, index : Nat]]
          /\ cpc' \in [Consumers -> {"idle", "arm", "head", "copy", "advance"}]
      BY <1>0, <1>9 DEF TypeOK, PollCopy, NULL
    <2>3. TypeOK'
      BY <1>0, <1>9, <2>1, <2>2 DEF TypeOK, QueueTypeOK, PollCopy, pvars, tvars, hvars
    <2>4. PtrOK'
      BY <1>0, <1>9, <1>t DEF TypeOK, PtrOK, PollCopy, NULL
    <2> QED
      BY <2>3, <2>4
  <1>10. ASSUME NEW c \in Consumers, PollAdvance(c)
         PROVE  TypeOK' /\ UNCHANGED <<buf, cptr>> /\ cpc' = [cpc EXCEPT ![c] = "head"]
    <2>1. QueueTypeOK'
      BY <1>10, <1>q DEF Next, PollStep
    <2>2. /\ cwc' \in [Consumers -> Nat] /\ delivered' \in Seq(Nat)
          /\ cpc' \in [Consumers -> {"idle", "arm", "head", "copy", "advance"}]
          /\ user_lock' \in Consumers \cup {Free, Resizer}
      BY <1>0, <1>10 DEF TypeOK, PollAdvance
    <2> QED
      BY <1>0, <1>10, <2>1, <2>2 DEF TypeOK, PollAdvance, pvars, tvars
  <1>11. ASSUME NEW c \in Pollers, PollAgain(c)
         PROVE  TypeOK' /\ UNCHANGED <<buf, queue, cptr>> /\ cpc' = [cpc EXCEPT ![c] = "arm"]
    BY <1>0, <1>11 DEF TypeOK, QueueTypeOK, PollAgain, pvars, tvars, hvars, Consumers
  <1>12. ASSUME NEW cqe \in ResizeTo, ResizeCheck(cqe)
         PROVE  TypeOK' /\ UNCHANGED cvars
    BY <1>0, <1>12 DEF TypeOK, QueueTypeOK, ResizeCheck, pvars, cvars, tvars, hvars
  <1>13. ASSUME ResizeFinish PROVE TypeOK' /\ UNCHANGED cvars
    <2>1. QueueTypeOK'
      BY <1>13, <1>q DEF Next
    <2>2. /\ buf' \in Nat /\ rcqe' \in ResizeTo \cup {0}
          /\ user_lock' \in Consumers \cup {Free, Resizer}
      BY <1>0, <1>13 DEF TypeOK, ResizeFinish
    <2>3. UNCHANGED <<cq_lock, pvars, cvars, notify, tvars, hvars>>
      BY <1>13 DEF ResizeFinish
    <2> QED
      BY <1>0, <2>1, <2>2, <2>3 DEF TypeOK, pvars, cvars, tvars, hvars
  <1>14. ASSUME CompTask
         PROVE  TypeOK' /\ UNCHANGED <<buf, queue, cptr>> /\ cpc' = [cpc EXCEPT ![Handler] = "arm"]
    BY <1>0, <1>14 DEF TypeOK, QueueTypeOK, CompTask, pvars, hvars
  <1>15. ASSUME CompTest
         PROVE  /\ TypeOK' /\ UNCHANGED <<buf, queue, cptr>>
                /\ cpc' = cpc \/ cpc' = [cpc EXCEPT ![Handler] = "arm"]
    <2>1. /\ tpc' \in {"idle", "handler"} /\ tnotify' \in 0..255
          /\ cpc' = cpc \/ cpc' = [cpc EXCEPT ![Handler] = "arm"]
      BY <1>0, <1>15 DEF TypeOK, CompTest
    <2>2. cpc' \in [Consumers -> {"idle", "arm", "head", "copy", "advance"}]
      BY <1>0, <2>1 DEF TypeOK
    <2>3. UNCHANGED <<rcqe, queue, buf, cq_lock, user_lock, pvars, cptr, cwc, notify,
                      sched, hvars>>
      BY <1>15 DEF CompTest
    <2> QED
      BY <1>0, <2>1, <2>2, <2>3 DEF TypeOK, QueueTypeOK, pvars, hvars
  <1>16. CASE UNCHANGED vars
    BY <1>0, <1>16
       DEF TypeInv, TypeOK, QueueTypeOK, PtrOK, RoomOK, vars, pvars, cvars, tvars, hvars
  <1>17. ASSUME Next, UNCHANGED cvars PROVE PtrOK'
    <2>1. /\ queue.slots' = queue.slots \/ buf' = buf + 1
          /\ buf' = buf \/ buf' = buf + 1
      BY <1>17, <1>q
    <2> QED
      BY <1>0, <1>17, <1>t, <2>1 DEF TypeOK, PtrOK, cvars
  <1>18. ASSUME Next, UNCHANGED <<buf, cptr>>, NEW c, NEW step \in {"head", "idle", "arm"},
                cpc' = cpc \/ cpc' = [cpc EXCEPT ![c] = step]
         PROVE  PtrOK'
    <2>1. queue.slots' = queue.slots
      BY <1>18, <1>q, <1>t
    <2> QED
      BY <1>0, <1>18, <1>t, <2>1 DEF TypeOK, PtrOK
  <1>19. CASE Next
    <2>1. TypeOK' /\ PtrOK'
      BY <1>19, <1>1, <1>2, <1>3, <1>4, <1>5, <1>6, <1>7, <1>8, <1>9, <1>10, <1>11,
         <1>12, <1>13, <1>14, <1>15, <1>17, <1>18
         DEF Next, PostStep, PollStep
    <2> QED
      BY <1>19, <1>q, <2>1 DEF TypeInv
  <1> QED
    BY <1>16, <1>19

\* The strengthened type invariant holds in every reachable state.
LEMMA TypeAlways == Spec => []TypeInv
  BY TypeInit, TypeStep, PTL DEF Spec

(* The variables of rxe_cq.c keep their types, locked consumers or not: the  *)
(* indices always point at a slot of the buffer, whatever a resize does      *)
(* while a consumer holds an address in the old one.                         *)
THEOREM TypeCorrect == Spec => []TypeOK
  <1>1. TypeInv => TypeOK
    BY DEF TypeInv
  <1> QED
    BY <1>1, TypeAlways, PTL

-----------------------------------------------------------------------------
(* The inductive invariant behind NothingLost *)

\* Who holds which lock is told by where everybody is.
LockInv ==
  /\ \A p \in Posters : ppc[p] = "advance" <=> cq_lock = p
  /\ \A c \in Consumers : cpc[c] \in {"copy", "advance"} <=> user_lock = c
  /\ rcqe # 0 <=> user_lock = Resizer
  /\ tpc = "idle" => cpc[Handler] = "idle"

\* What a poster or a consumer found when it took its lock is still so when
\* it acts on it: there is a free slot, and the head has not moved.
HandInv ==
  /\ \A p \in Posters :
        ppc[p] = "advance" => queue_count(queue) < queue.slots - 1
  /\ \A c \in Consumers :
        cpc[c] = "copy" => /\ cptr[c] = [buf |-> buf, index |-> queue.cons]
                           /\ queue_count(queue) > 0
  /\ \A c \in Consumers :
        cpc[c] = "advance" => /\ cwc[c] = elem_at(queue, 0)
                              /\ queue_count(queue) > 0

\* Completions are numbered in the order in which the posters take cq_lock.
OrderInv ==
  /\ nposts <= MaxPosts
  /\ \A i \in 1 .. Len(posted) : posted[i] \in 1 .. nposts
  /\ \A i, j \in 1 .. Len(posted) : i < j => posted[i] < posted[j]
  /\ \A p \in Posters :
        ppc[p] = "advance" => /\ pcqe[p] = nposts /\ nposts > 0
                              /\ \A i \in 1 .. Len(posted) : posted[i] < nposts

SafeInv == TypeInv /\ LockInv /\ HandInv /\ OrderInv /\ NothingLost

\* The lock holders are told apart by their names.
LEMMA Names ==
  /\ \A p \in Posters : p # Free
  /\ \A c \in Consumers : c # Free /\ c # Resizer
  /\ Free # Resizer /\ Handler \in Consumers /\ Handler \notin Pollers
  /\ Pollers \subseteq Consumers
  BY CQAssumption DEF Free, Resizer, Consumers

\* Every step keeps the locks and the places together.
LEMMA LockStep ==
  ASSUME ConsumersLocked, TypeOK, LockInv, Next PROVE LockInv'
  <1>1. ASSUME NEW p \in Posters, PostFull(p) PROVE LockInv'
    BY <1>1 DEF LockInv, PostFull, pvars, cvars, tvars
  <1>2. ASSUME NEW p \in Posters, PostFill(p) PROVE LockInv'
    BY <1>2, Names DEF TypeOK, LockInv, PostFill, cvars, tvars
  <1>3. ASSUME NEW p \in Posters, PostAdvance(p) PROVE LockInv'
    BY <1>3, Names DEF TypeOK, LockInv, PostAdvance, cvars, tvars
  <1>4. ASSUME NEW p \in Posters, PostTest(p) PROVE LockInv'
    BY <1>4 DEF TypeOK, LockInv, PostTest, cvars, tvars
  <1>5. ASSUME NEW p \in Posters, PostSignal(p) PROVE LockInv'
    BY <1>5 DEF TypeOK, LockInv, PostSignal, cvars
  <1>6. ASSUME NEW c \in Consumers, Arm(c) PROVE LockInv'
    BY <1>6, Names DEF TypeOK, LockInv, Arm, pvars, tvars
  <1>7. ASSUME NEW c \in Consumers, PollEmpty(c) PROVE LockInv'
    BY <1>7, Names DEF TypeOK, LockInv, PollEmpty, pvars, tvars
  <1>8. ASSUME NEW c \in Consumers, PollHead(c) PROVE LockInv'
    BY <1>8, Names, SMTT(30) DEF TypeOK, LockInv, PollHead, pvars, tvars
  <1>9. ASSUME NEW c \in Consumers, PollCopy(c) PROVE LockInv'
    BY <1>9, Names DEF TypeOK, LockInv, PollCopy, pvars, tvars
  <1>10. ASSUME NEW c \in Consumers, PollAdvance(c) PROVE LockInv'
    BY <1>10, Names DEF TypeOK, LockInv, PollAdvance, pvars, tvars
  <1>11. ASSUME NEW c \in Pollers, PollAgain(c) PROVE LockInv'
    BY <1>11, Names DEF TypeOK, LockInv, PollAgain, pvars, tvars
  <1>12. ASSUME NEW cqe \in ResizeTo, ResizeCheck(cqe) PROVE LockInv'
    BY <1>12, Names DEF TypeOK, LockInv, ResizeCheck, pvars, cvars, tvars
  <1>13. ASSUME ResizeFinish PROVE LockInv'
    BY <1>13, Names DEF TypeOK, LockInv, ResizeFinish, pvars, cvars, tvars
  <1>14. ASSUME CompTask PROVE LockInv'
    BY <1>14, Names DEF TypeOK, LockInv, CompTask, pvars
  <1>15. ASSUME CompTest PROVE LockInv'
    BY <1>15, Names DEF TypeOK, LockInv, CompTest, pvars
  <1> QED
    BY <1>1, <1>2, <1>3, <1>4, <1>5, <1>6, <1>7, <1>8, <1>9, <1>10, <1>11, <1>12,
       <1>13, <1>14, <1>15 DEF Next, PostStep, PollStep

-----------------------------------------------------------------------------
(* What the four actions that touch the queue do to its elements *)

\* The first half of rxe_cq_post.
LEMMA FillEffect ==
  ASSUME TypeOK, NEW p \in Posters, PostFill(p)
  PROVE  /\ queue_count(queue') = queue_count(queue)
         /\ queue_count(queue) < queue.slots - 1
         /\ queue'.slots = queue.slots /\ queue'.cons = queue.cons
         /\ \A i \in 0 .. queue_count(queue) - 1 : elem_at(queue', i) = elem_at(queue, i)
  <1>0. IsQueue(queue, Nat) /\ Torn \in Nat
    BY QueueIs DEF TypeOK, Torn
  <1>1. queue_count(queue) < queue.slots - 1
    <2>1. queue_count(queue) # queue.slots - 1
      BY <1>0, EmptyFull DEF PostFill
    <2> QED
      BY <1>0, <2>1, CountIs, IndexTypes
  <1> QED
    BY <1>0, <1>1, FillKeeps DEF PostFill

\* The second half, under cq_lock: the completion becomes the last element.
LEMMA PutEffect ==
  ASSUME TypeOK, HandInv, NEW p \in Posters, PostAdvance(p)
  PROVE  /\ queue_count(queue') = queue_count(queue) + 1
         /\ queue'.slots = queue.slots /\ queue'.cons = queue.cons
         /\ \A i \in 0 .. queue_count(queue) - 1 : elem_at(queue', i) = elem_at(queue, i)
         /\ elem_at(queue', queue_count(queue)) = pcqe[p]
  <1> DEFINE r == fill_producer(queue, pcqe[p])
  <1>0. IsQueue(queue, Nat) /\ pcqe[p] \in Nat
    BY QueueIs DEF TypeOK
  <1>1. queue_count(queue) < queue.slots - 1
    BY DEF PostAdvance, HandInv
  <1>2. /\ IsQueue(r, Nat) /\ r.slots = queue.slots /\ r.prod = queue.prod
        /\ r.cons = queue.cons /\ r.data[queue.prod] = pcqe[p]
        /\ queue_count(r) = queue_count(queue)
        /\ \A i \in 0 .. queue_count(queue) - 1 : elem_at(r, i) = elem_at(queue, i)
    BY <1>0, FillKeeps
  <1>3. queue' = advance_producer(r)
    BY DEF PostAdvance
  <1> HIDE DEF r
  <1>4. /\ queue'.slots = r.slots /\ queue'.cons = r.cons
        /\ queue_count(queue') = queue_count(r) + 1
        /\ \A i \in 0 .. queue_count(r) - 1 : elem_at(queue', i) = elem_at(r, i)
        /\ elem_at(queue', queue_count(r)) = r.data[r.prod]
    BY <1>1, <1>2, <1>3, AdvanceProducerAdds, ZenonT(60)
  <1> QED
    BY <1>2, <1>4

\* advance_consumer, under the consumers' lock.
LEMMA TakeEffect ==
  ASSUME TypeOK, HandInv, NEW c \in Consumers, PollAdvance(c)
  PROVE  /\ queue_count(queue) > 0 /\ cwc[c] = elem_at(queue, 0)
         /\ queue_count(queue') = queue_count(queue) - 1
         /\ queue'.slots = queue.slots
         /\ \A i \in 0 .. queue_count(queue) - 2 :
               elem_at(queue', i) = elem_at(queue, i + 1)
  <1>0. IsQueue(queue, Nat)
    BY QueueIs DEF TypeOK
  <1>1. queue_count(queue) > 0 /\ cwc[c] = elem_at(queue, 0)
    BY DEF PollAdvance, HandInv
  <1> QED
    BY <1>0, <1>1, AdvanceConsumerDrops DEF PollAdvance

\* A resize keeps the elements, whether it fails or not.
LEMMA ResizeEffect ==
  ASSUME TypeOK, ResizeFinish
  PROVE  /\ queue_count(queue') = queue_count(queue)
         /\ \A i \in 0 .. queue_count(queue) - 1 : elem_at(queue', i) = elem_at(queue, i)
  <1> DEFINE new_q == queue_init(rcqe, Torn)
  <1>0. IsQueue(queue, Nat)
    BY QueueIs DEF TypeOK
  <1>1. rcqe \in ResizeTo
    BY DEF ResizeFinish, TypeOK
  <1>2. IsQueue(new_q, Nat) /\ new_q.cons = 0
    BY <1>1, NewQueue
  <1>3. CASE resize_fails(queue, new_q)
    BY <1>3 DEF ResizeFinish
  <1>4. CASE ~resize_fails(queue, new_q)
    <2>1. queue' = resize_finish(queue, new_q)
      BY <1>4 DEF ResizeFinish
    <2> HIDE DEF new_q
    <2> QED
      BY <1>0, <1>2, <1>4, <2>1, ResizeMoves
  <1> QED
    BY <1>3, <1>4

\* All other steps leave the queue alone.
LEMMA QueueUntouched ==
  ASSUME Next
  PROVE  \/ UNCHANGED <<queue, buf, posted, delivered>>
         \/ \E p \in Posters : PostFill(p) \/ PostAdvance(p)
         \/ \E c \in Consumers : PollAdvance(c)
         \/ ResizeFinish
  BY DEF Next, PostStep, PollStep, PostFull, PostTest, PostSignal, Arm, PollEmpty,
         PollHead, PollCopy, PollAgain, ResizeCheck, CompTask, CompTest, hvars

-----------------------------------------------------------------------------
\* What a lock holder found stays true while it holds its lock.
LEMMA HandStep ==
  ASSUME ConsumersLocked, TypeInv, LockInv, HandInv, Next PROVE HandInv'
  <1>0. /\ TypeOK /\ IsQueue(queue, Nat)
        /\ queue.slots \in Nat \ {0} /\ queue_count(queue) \in 0 .. queue.slots - 1
        /\ queue_empty(queue) <=> queue_count(queue) = 0
    BY QueueIs, IndexTypes, CountIs, EmptyFull DEF TypeInv, TypeOK
  <1>h. masked(queue, queue.cons) = queue.cons /\ elem_at(queue, 0) = queue.data[queue.cons]
    <2>1. queue.cons \in Int /\ queue.cons + 0 = queue.cons
      BY <1>0 DEF IsQueue
    <2>2. queue.cons % queue.slots = queue.cons
      BY <1>0 DEF IsQueue
    <2> QED
      BY <2>1, <2>2 DEF masked, elem_at
  <1>1. ASSUME NEW p \in Posters, PostFull(p) PROVE HandInv'
    BY <1>1 DEF HandInv, PostFull, pvars, cvars
  <1>2. ASSUME NEW p \in Posters, PostFill(p) PROVE HandInv'
    <2>1. /\ queue_count(queue') = queue_count(queue)
          /\ queue_count(queue) < queue.slots - 1
          /\ queue'.slots = queue.slots /\ queue'.cons = queue.cons
          /\ queue_count(queue) > 0 => elem_at(queue', 0) = elem_at(queue, 0)
      BY <1>0, <1>2, FillEffect
    <2>2. UNCHANGED <<buf, cpc, cptr, cwc>>
      BY <1>2 DEF PostFill, cvars
    <2> QED
      BY <2>1, <2>2 DEF HandInv
  <1>3. ASSUME NEW p \in Posters, PostAdvance(p) PROVE HandInv'
    <2>1. /\ queue_count(queue') = queue_count(queue) + 1
          /\ queue'.cons = queue.cons
          /\ queue_count(queue) > 0 => elem_at(queue', 0) = elem_at(queue, 0)
      BY <1>0, <1>3, PutEffect
    <2>2. UNCHANGED <<buf, cpc, cptr, cwc>>
      BY <1>3 DEF PostAdvance, cvars
    <2>3. \A o \in Posters : ppc'[o] # "advance"
      BY <1>0, <1>3 DEF TypeOK, LockInv, PostAdvance
    <2> QED
      BY <1>0, <2>1, <2>2, <2>3 DEF HandInv
  <1>4. ASSUME NEW p \in Posters, PostTest(p) PROVE HandInv'
    BY <1>0, <1>4 DEF TypeOK, HandInv, PostTest, cvars
  <1>5. ASSUME NEW p \in Posters, PostSignal(p) PROVE HandInv'
    BY <1>0, <1>5 DEF TypeOK, HandInv, PostSignal, cvars
  <1>6. ASSUME NEW c \in Consumers, Arm(c) PROVE HandInv'
    BY <1>0, <1>6 DEF TypeOK, HandInv, Arm, pvars
  <1>7. ASSUME NEW c \in Consumers, PollEmpty(c) PROVE HandInv'
    BY <1>0, <1>7 DEF TypeOK, HandInv, PollEmpty, pvars
  <1>8. ASSUME NEW c \in Consumers, PollHead(c) PROVE HandInv'
    <2>1. queue_count(queue) > 0
      BY <1>0, <1>8 DEF PollHead
    <2> QED
      BY <1>0, <1>h, <1>8, <2>1 DEF TypeOK, HandInv, PollHead, pvars
  <1>9. ASSUME NEW c \in Consumers, PollCopy(c) PROVE HandInv'
    <2>1. cptr[c] = [buf |-> buf, index |-> queue.cons] /\ queue_count(queue) > 0
      BY <1>9 DEF HandInv, PollCopy
    <2>2. cwc' = [cwc EXCEPT ![c] = elem_at(queue, 0)]
      <3>1. cptr[c].buf = buf /\ cptr[c].index = queue.cons
        BY <2>1
      <3> QED
        BY <1>h, <1>9, <3>1 DEF PollCopy
    <2>3. \A d \in Consumers : d # c => cptr'[d] = cptr[d] /\ cpc'[d] = cpc[d] /\ cwc'[d] = cwc[d]
      BY <1>0, <1>9, <2>2 DEF TypeOK, PollCopy
    <2>4. cpc'[c] = "advance" /\ cwc'[c] = elem_at(queue, 0)
      BY <1>0, <1>9, <2>2 DEF TypeOK, PollCopy
    <2>5. UNCHANGED <<queue, buf, ppc>>
      BY <1>9 DEF PollCopy, pvars
    <2> QED
      BY <2>1, <2>3, <2>4, <2>5 DEF HandInv
  <1>10. ASSUME NEW c \in Consumers, PollAdvance(c) PROVE HandInv'
    <2>1. queue_count(queue') = queue_count(queue) - 1 /\ queue'.slots = queue.slots
      BY <1>0, <1>10, TakeEffect
    <2>2. \A d \in Consumers : cpc'[d] \notin {"copy", "advance"}
      BY <1>0, <1>10 DEF TypeOK, LockInv, PollAdvance
    <2>3. UNCHANGED ppc
      BY <1>10 DEF PollAdvance, pvars
    <2> QED
      BY <1>0, <2>1, <2>2, <2>3 DEF HandInv
  <1>11. ASSUME NEW c \in Pollers, PollAgain(c) PROVE HandInv'
    BY <1>0, <1>11 DEF TypeOK, HandInv, PollAgain, pvars
  <1>12. ASSUME NEW cqe \in ResizeTo, ResizeCheck(cqe) PROVE HandInv'
    BY <1>12 DEF HandInv, ResizeCheck, pvars, cvars
  <1>13. ASSUME ResizeFinish PROVE HandInv'
    <2>1. \A p \in Posters : ppc'[p] # "advance"
      BY <1>13, Names DEF LockInv, ResizeFinish, pvars
    <2>2. \A c \in Consumers : cpc'[c] \notin {"copy", "advance"}
      BY <1>13, Names DEF LockInv, ResizeFinish, cvars
    <2> QED
      BY <2>1, <2>2 DEF HandInv
  <1>14. ASSUME CompTask PROVE HandInv'
    BY <1>0, <1>14 DEF TypeOK, HandInv, CompTask, pvars
  <1>15. ASSUME CompTest PROVE HandInv'
    BY <1>0, <1>15 DEF TypeOK, HandInv, CompTest, pvars
  <1> QED
    BY <1>1, <1>2, <1>3, <1>4, <1>5, <1>6, <1>7, <1>8, <1>9, <1>10, <1>11, <1>12,
       <1>13, <1>14, <1>15 DEF Next, PostStep, PollStep

\* The numbers of the completions grow along posted.
LEMMA OrderStep ==
  ASSUME TypeOK, LockInv, OrderInv, Next PROVE OrderInv'
  <1>0. MaxPosts \in Nat /\ nposts \in Nat /\ Len(posted) \in Nat
    BY CQAssumption DEF TypeOK
  <1>1. ASSUME NEW p \in Posters, PostFull(p) PROVE OrderInv'
    BY <1>0, <1>1, Names DEF TypeOK, LockInv, OrderInv, PostFull, pvars
  <1>2. ASSUME NEW p \in Posters, PostFill(p) PROVE OrderInv'
    <2>1. \A o \in Posters : ppc[o] # "advance"
      BY <1>2, Names DEF LockInv, PostFill
    <2>2. nposts' = nposts + 1 /\ nposts < MaxPosts /\ posted' = posted /\ pcqe'[p] = nposts + 1
      BY <1>2 DEF TypeOK, PostFill
    <2>3. \A o \in Posters : o # p => ppc'[o] # "advance"
      BY <1>2, <2>1 DEF TypeOK, PostFill
    <2> QED
      <3>1. /\ nposts + 1 <= MaxPosts
            /\ \A i \in 1 .. Len(posted) : posted[i] \in 1 .. nposts + 1 /\ posted[i] < nposts + 1
        BY <1>0, <2>2 DEF OrderInv
      <3> QED
        BY <1>0, <2>2, <2>3, <3>1 DEF OrderInv
  <1>3. ASSUME NEW p \in Posters, PostAdvance(p) PROVE OrderInv'
    <2>1. pcqe[p] = nposts /\ nposts > 0 /\ \A i \in 1 .. Len(posted) : posted[i] < nposts
      BY <1>3 DEF OrderInv, PostAdvance
    <2>2. /\ Len(posted') = Len(posted) + 1 /\ posted'[Len(posted) + 1] = nposts
          /\ \A i \in 1 .. Len(posted) : posted'[i] = posted[i]
      BY <1>3, <2>1 DEF TypeOK, PostAdvance
    <2>3. \A o \in Posters : ppc'[o] # "advance"
      BY <1>3 DEF TypeOK, LockInv, PostAdvance
    <2>4. nposts' = nposts
      BY <1>3 DEF PostAdvance
    <2>5. \A i \in 1 .. Len(posted') : posted'[i] \in 1 .. nposts
      BY <1>0, <2>1, <2>2 DEF OrderInv
    <2>6. \A i, j \in 1 .. Len(posted') : i < j => posted'[i] < posted'[j]
      BY <1>0, <2>1, <2>2 DEF OrderInv
    <2> QED
      BY <2>3, <2>4, <2>5, <2>6 DEF OrderInv
  <1>4. ASSUME NEW p \in Posters, PostTest(p) \/ PostSignal(p) PROVE OrderInv'
    BY <1>4, SMTT(30) DEF TypeOK, OrderInv, PostTest, PostSignal, hvars
  <1>5. ASSUME UNCHANGED <<nposts, posted, ppc, pcqe>> PROVE OrderInv'
    BY <1>5 DEF OrderInv
  <1>6. ASSUME \/ \E c \in Consumers : PollStep(c)
               \/ \E c \in Pollers : PollAgain(c)
               \/ \E cqe \in ResizeTo : ResizeCheck(cqe)
               \/ ResizeFinish \/ CompTask \/ CompTest
        PROVE  UNCHANGED <<nposts, posted, ppc, pcqe>>
    BY <1>6 DEF PollStep, Arm, PollEmpty, PollHead, PollCopy, PollAdvance, PollAgain,
                ResizeCheck, ResizeFinish, CompTask, CompTest, pvars, hvars
  <1> QED
    BY <1>1, <1>2, <1>3, <1>4, <1>5, <1>6 DEF Next, PostStep

\* What has been posted is what has been delivered followed by the queue.
LEMMA LostStep ==
  ASSUME TypeOK, HandInv, NothingLost, Next PROVE NothingLost'
  <1>0. /\ queue_count(queue) \in Nat /\ Len(posted) \in Nat /\ Len(delivered) \in Nat
        /\ posted \in Seq(Nat) /\ delivered \in Seq(Nat)
    BY QueueIs, CountIs, IndexTypes DEF TypeOK
  <1>1. ASSUME UNCHANGED <<posted, delivered>>, queue_count(queue') = queue_count(queue),
               \A i \in 0 .. queue_count(queue) - 1 : elem_at(queue', i) = elem_at(queue, i)
        PROVE  NothingLost'
    BY <1>1 DEF NothingLost
  <1>2. CASE UNCHANGED <<queue, buf, posted, delivered>>
    BY <1>2 DEF NothingLost
  <1>3. ASSUME NEW p \in Posters, PostFill(p) PROVE NothingLost'
    BY <1>1, <1>3, FillEffect DEF PostFill
  <1>4. ASSUME NEW p \in Posters, PostAdvance(p) PROVE NothingLost'
    <2>1. /\ queue_count(queue') = queue_count(queue) + 1
          /\ \A i \in 0 .. queue_count(queue) - 1 : elem_at(queue', i) = elem_at(queue, i)
          /\ elem_at(queue', queue_count(queue)) = pcqe[p]
      BY <1>4, PutEffect
    <2>2. /\ Len(posted') = Len(posted) + 1 /\ posted'[Len(posted) + 1] = pcqe[p]
          /\ \A i \in 1 .. Len(posted) : posted'[i] = posted[i]
          /\ delivered' = delivered
      BY <1>0, <1>4 DEF TypeOK, PostAdvance
    <2>3. \A i \in 1 .. Len(delivered') : delivered'[i] = posted'[i]
      BY <1>0, <2>2 DEF NothingLost
    <2>4. ASSUME NEW i \in 0 .. queue_count(queue') - 1
          PROVE  elem_at(queue', i) = posted'[Len(delivered') + 1 + i]
      <3>1. CASE i = queue_count(queue)
        <4>1. Len(delivered') + 1 + i = Len(posted) + 1
          BY <1>0, <2>2, <3>1 DEF NothingLost
        <4> QED
          BY <2>1, <2>2, <3>1, <4>1
      <3>2. CASE i \in 0 .. queue_count(queue) - 1
        <4>1. Len(delivered) + 1 + i \in 1 .. Len(posted)
          BY <1>0, <3>2 DEF NothingLost
        <4>2. elem_at(queue, i) = posted[Len(delivered) + 1 + i]
          BY <3>2 DEF NothingLost
        <4> QED
          BY <2>1, <2>2, <3>2, <4>1, <4>2
      <3> QED
        BY <1>0, <2>1, <3>1, <3>2
    <2>5. Len(posted') = Len(delivered') + queue_count(queue')
      BY <1>0, <2>1, <2>2 DEF NothingLost
    <2> QED
      BY <2>3, <2>4, <2>5 DEF NothingLost
  <1>5. ASSUME NEW c \in Consumers, PollAdvance(c) PROVE NothingLost'
    <2>1. /\ queue_count(queue) > 0 /\ cwc[c] = elem_at(queue, 0)
          /\ queue_count(queue') = queue_count(queue) - 1
          /\ \A i \in 0 .. queue_count(queue) - 2 :
                elem_at(queue', i) = elem_at(queue, i + 1)
      BY <1>5, TakeEffect
    <2>2. /\ Len(delivered') = Len(delivered) + 1
          /\ delivered'[Len(delivered) + 1] = cwc[c]
          /\ \A i \in 1 .. Len(delivered) : delivered'[i] = delivered[i]
          /\ posted' = posted
      BY <1>0, <1>5 DEF TypeOK, PollAdvance
    <2>3. cwc[c] = posted[Len(delivered) + 1]
      <3>1. 0 \in 0 .. queue_count(queue) - 1
        BY <1>0, <2>1
      <3>2. elem_at(queue, 0) = posted[Len(delivered) + 1 + 0]
        BY <3>1 DEF NothingLost
      <3>3. Len(delivered) + 1 + 0 = Len(delivered) + 1
        BY <1>0
      <3> QED
        BY <2>1, <3>2, <3>3
    <2>4. ASSUME NEW i \in 1 .. Len(delivered') PROVE delivered'[i] = posted'[i]
      <3>1. CASE i = Len(delivered) + 1
        BY <2>2, <2>3, <3>1
      <3>2. CASE i \in 1 .. Len(delivered)
        BY <2>2, <3>2 DEF NothingLost
      <3> QED
        BY <1>0, <2>2, <3>1, <3>2
    <2>5. ASSUME NEW i \in 0 .. queue_count(queue') - 1
          PROVE  elem_at(queue', i) = posted'[Len(delivered') + 1 + i]
      <3>1. i + 1 \in 0 .. queue_count(queue) - 1 /\ i \in 0 .. queue_count(queue) - 2
        BY <1>0, <2>1
      <3>2. elem_at(queue', i) = posted[Len(delivered) + 1 + (i + 1)]
        BY <2>1, <3>1 DEF NothingLost
      <3>3. Len(delivered) + 1 + (i + 1) = Len(delivered') + 1 + i
        BY <1>0, <2>2
      <3> QED
        BY <2>2, <3>2, <3>3
    <2>6. Len(posted') = Len(delivered') + queue_count(queue')
      BY <1>0, <2>1, <2>2 DEF NothingLost
    <2> QED
      BY <2>4, <2>5, <2>6 DEF NothingLost
  <1>6. ASSUME ResizeFinish PROVE NothingLost'
    BY <1>1, <1>6, ResizeEffect DEF ResizeFinish, hvars
  <1> QED
    BY <1>2, <1>3, <1>4, <1>5, <1>6, QueueUntouched

-----------------------------------------------------------------------------
(* Safety with locked consumers *)

\* A new completion queue is empty, unlocked and idle.
LEMMA SafeInit == Init => SafeInv
  <1> SUFFICES ASSUME Init PROVE SafeInv
    OBVIOUS
  <1>1. queue_count(queue) = 0
    BY NewQueue DEF Init
  <1>2. NothingLost
    BY <1>1 DEF Init, NothingLost
  <1>3. LockInv
    BY Names DEF Init, LockInv
  <1>4. HandInv /\ OrderInv
    BY CQAssumption DEF Init, HandInv, OrderInv
  <1> QED
    BY <1>2, <1>3, <1>4, TypeInit DEF SafeInv

\* With one lock for the consumers the invariant is inductive.
LEMMA SafeStep ==
  ASSUME ConsumersLocked PROVE SafeInv /\ [Next]_vars => SafeInv'
  <1>1. ASSUME SafeInv, Next PROVE SafeInv'
    BY <1>1, TypeStep, LockStep, HandStep, OrderStep, LostStep DEF SafeInv, TypeInv
  <1>2. ASSUME SafeInv, UNCHANGED vars PROVE SafeInv'
    <2>1. TypeInv'
      BY <1>2, TypeStep DEF SafeInv
    <2>2. LockInv' /\ HandInv' /\ OrderInv' /\ NothingLost'
      BY <1>2 DEF SafeInv, LockInv, HandInv, OrderInv, NothingLost, vars, pvars, cvars,
                  tvars, hvars
    <2> QED
      BY <2>1, <2>2 DEF SafeInv
  <1> QED
    BY <1>1, <1>2

\* It holds in every reachable state.
LEMMA SafeAlways == ASSUME ConsumersLocked PROVE Spec => []SafeInv
  BY SafeInit, SafeStep, PTL DEF Spec

(* What rxe_cq_post accepted is delivered once, whole and in order, or is    *)
(* still in the buffer: for any number of posters and of consumers that take *)
(* one lock, any queue size, and resizes at any time.                        *)
THEOREM QueueKeepsAll == ASSUME ConsumersLocked PROVE Spec => []NothingLost
  <1>1. SafeInv => NothingLost
    BY DEF SafeInv
  <1> QED
    BY <1>1, SafeAlways, PTL

(* With the lock that librxe takes around its poll no completion is handed   *)
(* to two callers.  rxe_poll_cq in the kernel takes none, and there it is.   *)
THEOREM NeverTwice == ASSUME ConsumersLocked PROVE Spec => []DeliveredOnce
  <1>1. SafeInv => DeliveredOnce
    <2> SUFFICES ASSUME SafeInv, NEW i \in 1 .. Len(delivered), NEW j \in 1 .. Len(delivered),
                        i # j
                 PROVE  delivered[i] # delivered[j]
      BY DEF DeliveredOnce
    <2>1. /\ queue_count(queue) \in Nat /\ Len(delivered) \in Nat
          /\ Len(posted) = Len(delivered) + queue_count(queue)
          /\ posted \in Seq(Nat)
      BY QueueIs, CountIs, IndexTypes DEF SafeInv, TypeInv, TypeOK, NothingLost
    <2>2. i \in 1 .. Len(posted) /\ j \in 1 .. Len(posted) /\ (i < j \/ j < i)
      BY <2>1
    <2>3. posted[i] \in Nat /\ posted[j] \in Nat /\ (posted[i] < posted[j] \/ posted[j] < posted[i])
      BY <2>1, <2>2 DEF SafeInv, OrderInv
    <2> QED
      BY <2>3 DEF SafeInv, NothingLost
  <1> QED
    BY <1>1, SafeAlways, PTL

-----------------------------------------------------------------------------
(* Refinement *)

\* A new completion queue is an empty FIFO with room for something.
LEMMA FifoInit == Init => Fifo!Init
  <1> SUFFICES ASSUME Init PROVE Fifo!Init
    OBVIOUS
  <1>1. IsQueue(queue, Nat) /\ queue_count(queue) = 0
    BY NewQueue DEF Init
  <1>2. contents(queue) = <<>>
    BY <1>1 DEF contents
  <1>3. capacity(queue) \in Nat \ {0}
    BY TypeInit DEF TypeInv, TypeOK, QueueTypeOK, RoomOK, capacity
  <1> QED
    BY <1>2, <1>3 DEF Fifo!Init

\* Every step is a put, a take or a resize of the FIFO, or leaves it alone.
LEMMA FifoStep ==
  ASSUME SafeInv, SafeInv', [Next]_vars
  PROVE  [Fifo!Next]_<<contents(queue), capacity(queue)>>
  <1> DEFINE n == queue_count(queue)
  <1>0. /\ IsQueue(queue, Nat) /\ IsQueue(queue', Nat) /\ n \in Nat
        /\ Len(contents(queue)) = n /\ queue.slots \in Nat /\ queue'.slots \in Nat
        /\ queue_count(queue') \in 0 .. queue'.slots - 1
    <2>1. IsQueue(queue, Nat) /\ IsQueue(queue', Nat)
      BY DEF SafeInv, TypeInv, TypeOK, QueueTypeOK, IsQueue
    <2> QED
      BY <2>1, CountIs, IndexTypes, ContentsIs
  <1>1. ASSUME NEW p \in Posters, PostFill(p)
        PROVE  contents(queue') = contents(queue) /\ capacity(queue') = capacity(queue)
    <2>1. /\ queue_count(queue') = queue_count(queue) /\ queue'.slots = queue.slots
          /\ \A i \in 0 .. queue_count(queue) - 1 : elem_at(queue', i) = elem_at(queue, i)
      BY <1>1, FillEffect DEF SafeInv, TypeInv
    <2> QED
      BY <1>0, <2>1, ContentsSame DEF capacity
  <1>2. ASSUME NEW p \in Posters, PostAdvance(p) PROVE Fifo!Put
    <2>1. /\ queue_count(queue') = queue_count(queue) + 1 /\ queue'.slots = queue.slots
          /\ \A i \in 0 .. queue_count(queue) - 1 : elem_at(queue', i) = elem_at(queue, i)
          /\ elem_at(queue', queue_count(queue)) = pcqe[p]
      BY <1>2, PutEffect DEF SafeInv, TypeInv
    <2>2. contents(queue') = Append(contents(queue), pcqe[p])
      BY <1>0, <2>1, ContentsAppend
    <2>3. pcqe[p] \in 1 .. MaxPosts
      BY <1>2, CQAssumption DEF SafeInv, TypeInv, TypeOK, OrderInv, PostAdvance
    <2>4. Len(contents(queue)) < capacity(queue) /\ capacity(queue') = capacity(queue)
      BY <1>0, <2>1 DEF capacity
    <2> QED
      BY <2>2, <2>3, <2>4 DEF Fifo!Put
  <1>3. ASSUME NEW c \in Consumers, PollAdvance(c) PROVE Fifo!Take
    <2>1. /\ queue_count(queue) > 0 /\ queue'.slots = queue.slots
          /\ queue_count(queue') = queue_count(queue) - 1
          /\ \A i \in 0 .. queue_count(queue) - 2 :
                elem_at(queue', i) = elem_at(queue, i + 1)
      BY <1>3, TakeEffect DEF SafeInv, TypeInv
    <2>2. contents(queue) # <<>> /\ contents(queue') = Tail(contents(queue))
      BY <1>0, <2>1, ContentsTail
    <2> QED
      BY <2>1, <2>2 DEF Fifo!Take, capacity
  <1>4. ASSUME ResizeFinish PROVE Fifo!Resize
    <2>1. /\ queue_count(queue') = queue_count(queue)
          /\ \A i \in 0 .. queue_count(queue) - 1 : elem_at(queue', i) = elem_at(queue, i)
      BY <1>4, ResizeEffect DEF SafeInv, TypeInv
    <2>2. contents(queue') = contents(queue)
      BY <1>0, <2>1, ContentsSame
    <2>3. queue'.slots >= 2
      BY DEF SafeInv, TypeInv, RoomOK
    <2>4. capacity(queue') \in Nat \ {0} /\ capacity(queue') >= Len(contents(queue))
      BY <1>0, <2>1, <2>3 DEF capacity
    <2> QED
      BY <2>2, <2>4 DEF Fifo!Resize
  <1>5. CASE UNCHANGED queue
    BY <1>5 DEF contents, capacity
  <1> QED
    BY <1>1, <1>2, <1>3, <1>4, <1>5, QueueUntouched DEF Fifo!Next, vars

(* The circular buffer with its locks, its two-step posts and three-step     *)
(* polls, and a resize that moves it to other memory, implements a bounded   *)
(* FIFO, for consumers that take one lock.                                   *)
THEOREM QueueIsFifo == ASSUME ConsumersLocked PROVE Spec => ImplementsFifo
  <1>1. SafeInv /\ SafeInv' /\ [Next]_vars
          => [Fifo!Next]_<<contents(queue), capacity(queue)>>
    BY FifoStep
  <1> QED
    BY <1>1, FifoInit, SafeAlways, PTL DEF Spec, ImplementsFifo, Fifo!Spec
=============================================================================
