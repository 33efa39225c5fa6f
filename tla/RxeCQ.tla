-------------------------------- MODULE RxeCQ --------------------------------
(***************************************************************************)
(* A completion queue: rxe_cq.c, the poll / resize / request-notification  *)
(* verbs of rxe_verbs.c (kernel) and librxe (user space).                  *)
(*                                                                         *)
(* Posters are the completer and responder tasks that call rxe_cq_post.    *)
(* They are serialised by cq_lock.  Pollers are threads of the consumer    *)
(* that call the poll verb; Handler stands for the consumer's completion   *)
(* handler, called from the comp_task tasklet.  A consumer follows the     *)
(* discipline of the verbs API: it requests a notification and then polls  *)
(* until the queue is empty.                                               *)
(*                                                                         *)
(* ConsumersLocked says which consumer this is.  TRUE is librxe, which     *)
(* polls and resizes under cq->lock.  FALSE is a kernel consumer: the      *)
(* kernel's rxe_poll_cq takes no lock at all.                              *)
(***************************************************************************)
EXTENDS RxeQueue, FiniteSets

CONSTANTS Posters,          \* tasks that post completions
          Pollers,          \* consumer threads that poll
          Handler,          \* the consumer's completion handler
          Cqe,              \* cqe asked for by create_cq
          ResizeTo,         \* cqe values a resize may ask for
          SolicitedKinds,   \* completions posted: solicited, not, or both
          ArmFlags,         \* flags the consumer passes to req_notify_cq
          ConsumersLocked,  \* TRUE: librxe's cq->lock; FALSE: kernel verbs
          MaxPosts,         \* bound: completions posted
          MaxResizes        \* bound: resizes

Consumers == Pollers \cup {Handler}

Free == "free"              \* nobody holds the lock
Resizer == "resizer"        \* a caller of resize_cq
NULL == [buf |-> 0, index |-> 0]   \* no pointer held
Torn == 0                   \* a slot that is being written, or freed memory

IB_CQ_SOLICITED == 1
IB_CQ_NEXT_COMP == 2

ASSUME CQAssumption ==
  /\ Handler \notin Pollers
  /\ {Free, Resizer} \cap (Posters \cup Consumers) = {}
  /\ ConsumersLocked \in BOOLEAN
  /\ MaxPosts \in Nat /\ MaxResizes \in Nat
  /\ ArmFlags \subseteq {IB_CQ_SOLICITED, IB_CQ_NEXT_COMP}
  /\ SolicitedKinds \subseteq BOOLEAN
  /\ ResizeTo \subseteq Nat /\ Cqe \in Nat \ {0}

\* roundup_pow_of_two returns at least its argument for the sizes in use.
ASSUME RoundupAssumption ==
  \A n \in ResizeTo \cup {Cqe} :
     /\ n \in Nat
     /\ roundup_pow_of_two(n + 1) \in Nat
     /\ roundup_pow_of_two(n + 1) >= n + 1

VARIABLES
  queue,      \* the buffer shared with the consumer
  buf,        \* identity of its memory: a resize allocates a new one
  cq_lock,    \* kernel lock: posters and resize
  rcqe,       \* size asked for by the resize in progress, 0 if none
  user_lock,  \* librxe's cq->lock: polls and resize
  ppc, pcqe, pnotify,   \* per poster: step, completion, value of notify read
  solicited,            \* per poster: the completion is a solicited one
  cpc, cptr, cwc,       \* per consumer: step, slot pointer, completion copied
  notify,     \* cq->notify
  sched,      \* comp_task is scheduled (TASKLET_STATE_SCHED)
  tpc,        \* comp_task: step of rxe_send_complete
  tnotify,    \* comp_task: its copy of notify
  nposts,     \* history: calls of rxe_cq_post
  posted,     \* history: completions put in the queue, in order
  delivered   \* history: completions polled, in order

pvars == <<ppc, pcqe, pnotify, solicited>>
cvars == <<cpc, cptr, cwc>>
tvars == <<sched, tpc, tnotify>>
hvars == <<nposts, posted, delivered>>
vars  == <<queue, buf, cq_lock, user_lock, rcqe, pvars, cvars, notify, tvars, hvars>>

Init ==
  /\ queue = queue_init(Cqe, Torn)
  /\ buf = 0
  /\ cq_lock = Free /\ user_lock = Free /\ rcqe = 0
  /\ ppc = [p \in Posters |-> "idle"]
  /\ pcqe = [p \in Posters |-> 0]
  /\ pnotify = [p \in Posters |-> 0]
  /\ solicited = [p \in Posters |-> FALSE]
  /\ cpc = [c \in Consumers |-> IF c = Handler THEN "idle" ELSE "arm"]
  /\ cptr = [c \in Consumers |-> NULL]
  /\ cwc = [c \in Consumers |-> 0]
  /\ notify = 0
  /\ sched = FALSE /\ tpc = "idle" /\ tnotify = 0
  /\ nposts = 0 /\ posted = <<>> /\ delivered = <<>>

-----------------------------------------------------------------------------
(* rxe_cq_post *)

\* The call finds the queue full: -EBUSY and an IB_EVENT_CQ_ERR event.
PostFull(p) ==
  /\ ppc[p] = "idle" /\ nposts < MaxPosts
  /\ cq_lock = Free
  /\ queue_full(queue)
  /\ nposts' = nposts + 1
  /\ UNCHANGED <<rcqe, queue, buf, cq_lock, user_lock, pvars, cvars, notify, tvars,
                 posted, delivered>>

\* There is room: the lock is held and memcpy has begun to fill the slot.
PostFill(p) ==
  /\ ppc[p] = "idle" /\ nposts < MaxPosts
  /\ cq_lock = Free
  /\ ~queue_full(queue)
  /\ cq_lock' = p
  /\ queue' = fill_producer(queue, Torn)
  /\ nposts' = nposts + 1
  /\ pcqe' = [pcqe EXCEPT ![p] = nposts + 1]
  /\ \E s \in SolicitedKinds : solicited' = [solicited EXCEPT ![p] = s]
  /\ ppc' = [ppc EXCEPT ![p] = "advance"]
  /\ UNCHANGED <<rcqe, buf, user_lock, pnotify, cvars, notify, tvars, posted, delivered>>

\* memcpy is done; wmb; advance_producer; unlock.
PostAdvance(p) ==
  /\ ppc[p] = "advance"
  /\ queue' = advance_producer(fill_producer(queue, pcqe[p]))
  /\ posted' = Append(posted, pcqe[p])
  /\ cq_lock' = Free
  /\ pcqe' = [pcqe EXCEPT ![p] = 0]
  /\ ppc' = [ppc EXCEPT ![p] = "test"]
  /\ UNCHANGED <<rcqe, buf, user_lock, pnotify, solicited, cvars, notify, tvars,
                 nposts, delivered>>

\* The test of notify, made after the unlock.
signals(p) == \/ notify = IB_CQ_NEXT_COMP
              \/ notify = IB_CQ_SOLICITED /\ solicited[p]

PostTest(p) ==
  /\ ppc[p] = "test"
  /\ pnotify' = [pnotify EXCEPT ![p] = IF signals(p) THEN notify ELSE 0]
  /\ ppc' = [ppc EXCEPT ![p] = IF signals(p) THEN "signal" ELSE "idle"]
  /\ UNCHANGED <<rcqe, queue, buf, cq_lock, user_lock, pcqe, solicited, cvars, notify,
                 tvars, hvars>>

\* Mutant: a tasklet that is running is not scheduled again.
PostSignal_if_not_running(p) ==
  /\ ppc[p] = "signal"
  /\ notify' \in {(pnotify[p] + 1) % 256, (notify + 1) % 256}
  /\ sched' = (sched \/ tpc = "idle")
  /\ pnotify' = [pnotify EXCEPT ![p] = 0]
  /\ ppc' = [ppc EXCEPT ![p] = "idle"]
  /\ UNCHANGED <<rcqe, queue, buf, cq_lock, user_lock, pcqe, solicited, cvars,
                 tpc, tnotify, hvars>>

\* cq->notify++ is not atomic: it may use the value tested or a later one.
PostSignal(p) ==
  /\ ppc[p] = "signal"
  /\ notify' \in {(pnotify[p] + 1) % 256, (notify + 1) % 256}
  /\ sched' = TRUE
  /\ pnotify' = [pnotify EXCEPT ![p] = 0]
  /\ ppc' = [ppc EXCEPT ![p] = "idle"]
  /\ UNCHANGED <<rcqe, queue, buf, cq_lock, user_lock, pcqe, solicited, cvars,
                 tpc, tnotify, hvars>>

-----------------------------------------------------------------------------
(* The consumer: req_notify_cq, then poll_cq until nothing is left *)

rxe_req_notify_cq(flags) ==
  notify' = IF notify # IB_CQ_NEXT_COMP THEN flags ELSE notify

Arm(c) ==
  /\ cpc[c] = "arm"
  /\ \E flags \in ArmFlags : rxe_req_notify_cq(flags)
  /\ cpc' = [cpc EXCEPT ![c] = "head"]
  /\ UNCHANGED <<rcqe, queue, buf, cq_lock, user_lock, pvars, cptr, cwc, tvars, hvars>>

\* poll_cq finds the queue empty.
PollEmpty(c) ==
  /\ cpc[c] = "head"
  /\ ConsumersLocked => user_lock = Free
  /\ queue_empty(queue)
  /\ cpc' = [cpc EXCEPT ![c] = "idle"]
  /\ UNCHANGED <<rcqe, queue, buf, cq_lock, user_lock, pvars, cptr, cwc, notify, tvars,
                 hvars>>

\* poll_cq takes the address of the head element.
PollHead(c) ==
  /\ cpc[c] = "head"
  /\ ConsumersLocked => user_lock = Free
  /\ ~queue_empty(queue)
  /\ user_lock' = IF ConsumersLocked THEN c ELSE user_lock
  /\ cptr' = [cptr EXCEPT ![c] = [buf |-> buf, index |-> masked(queue, queue.cons)]]
  /\ cpc' = [cpc EXCEPT ![c] = "copy"]
  /\ UNCHANGED <<rcqe, queue, buf, cq_lock, pvars, cwc, notify, tvars, hvars>>

\* memcpy from that address.
PollCopy(c) ==
  /\ cpc[c] = "copy"
  /\ cwc' = [cwc EXCEPT ![c] =
               IF cptr[c].buf = buf THEN queue.data[cptr[c].index] ELSE Torn]
  /\ cptr' = [cptr EXCEPT ![c] = NULL]
  /\ cpc' = [cpc EXCEPT ![c] = "advance"]
  /\ UNCHANGED <<rcqe, queue, buf, cq_lock, user_lock, pvars, notify, tvars, hvars>>

\* advance_consumer; librxe then unlocks.
PollAdvance(c) ==
  /\ cpc[c] = "advance"
  /\ queue' = advance_consumer(queue)
  /\ delivered' = Append(delivered, cwc[c])
  /\ cwc' = [cwc EXCEPT ![c] = 0]
  /\ user_lock' = IF ConsumersLocked THEN Free ELSE user_lock
  /\ cpc' = [cpc EXCEPT ![c] = "head"]
  /\ UNCHANGED <<rcqe, buf, cq_lock, pvars, cptr, notify, tvars, nposts, posted>>

\* A consumer thread comes back to the queue.
PollAgain(c) ==
  /\ cpc[c] = "idle"
  /\ cpc' = [cpc EXCEPT ![c] = "arm"]
  /\ UNCHANGED <<rcqe, queue, buf, cq_lock, user_lock, pvars, cptr, cwc, notify, tvars,
                 hvars>>

\* rxe_cq_chk_attr: the size asked for is compared, without cq_lock, with what
\* the queue holds now.
ResizeCheck(cqe) ==
  /\ rcqe = 0 /\ buf < MaxResizes
  /\ ConsumersLocked => user_lock = Free
  /\ cqe > 0 /\ cqe >= queue_count(queue)
  /\ rcqe' = cqe
  /\ user_lock' = IF ConsumersLocked THEN Resizer ELSE user_lock
  /\ UNCHANGED <<queue, buf, cq_lock, pvars, cvars, notify, tvars, hvars>>

\* rxe_cq_resize_queue: under cq_lock the elements are moved to a new buffer
\* and the old one is freed, or the call fails and nothing changes.
ResizeFinish ==
  LET new_q == queue_init(rcqe, Torn)
      fails == resize_fails(queue, new_q)
  IN
  /\ rcqe # 0
  /\ cq_lock = Free
  /\ queue' = IF fails THEN queue ELSE resize_finish(queue, new_q)
  /\ buf' = IF fails THEN buf ELSE buf + 1
  /\ rcqe' = 0
  /\ user_lock' = IF ConsumersLocked THEN Free ELSE user_lock
  /\ UNCHANGED <<cq_lock, pvars, cvars, notify, tvars, hvars>>

-----------------------------------------------------------------------------
(* The tasklet comp_task, running rxe_send_complete *)

\* The softirq clears SCHED and calls rxe_send_complete.
CompTask ==
  /\ sched /\ tpc = "idle"
  /\ sched' = FALSE
  /\ tpc' = "handler" /\ tnotify' = notify
  /\ cpc' = [cpc EXCEPT ![Handler] = "arm"]
  /\ UNCHANGED <<rcqe, queue, buf, cq_lock, user_lock, pvars, cptr, cwc, notify, hvars>>

\* comp_handler has returned: return if notify has not changed, else again.
CompTest ==
  /\ tpc = "handler" /\ cpc[Handler] = "idle"
  /\ IF notify = tnotify
       THEN tpc' = "idle" /\ UNCHANGED <<tnotify, cpc>>
       ELSE /\ tnotify' = notify
            /\ cpc' = [cpc EXCEPT ![Handler] = "arm"]
            /\ UNCHANGED tpc
  /\ UNCHANGED <<rcqe, queue, buf, cq_lock, user_lock, pvars, cptr, cwc, notify, sched,
                 hvars>>

-----------------------------------------------------------------------------
PostStep(p) == PostAdvance(p) \/ PostTest(p) \/ PostSignal(p)

PollStep(c) == Arm(c) \/ PollEmpty(c) \/ PollHead(c) \/ PollCopy(c) \/ PollAdvance(c)

Next ==
  \/ \E p \in Posters : PostFull(p) \/ PostFill(p) \/ PostStep(p)
  \/ \E c \in Consumers : PollStep(c)
  \/ \E c \in Pollers : PollAgain(c)
  \/ \E cqe \in ResizeTo : ResizeCheck(cqe)
  \/ ResizeFinish
  \/ CompTask
  \/ CompTest

Spec == Init /\ [][Next]_vars

\* A task, a consumer call and the tasklet run to their end once begun, and a
\* scheduled tasklet is run; nothing obliges anyone to post or to poll again.
Fairness ==
  /\ \A p \in Posters : WF_vars(PostStep(p))
  /\ \A c \in Consumers : WF_vars(PollStep(c))
  /\ WF_vars(ResizeFinish) /\ WF_vars(CompTask) /\ WF_vars(CompTest)

FairSpec == Spec /\ Fairness

-----------------------------------------------------------------------------
(* Properties *)

QueueTypeOK ==
  /\ queue.slots \in Nat \ {0}
  /\ queue.prod \in 0 .. queue.slots - 1
  /\ queue.cons \in 0 .. queue.slots - 1
  /\ queue.data \in [0 .. queue.slots - 1 -> Nat]
  /\ queue = [slots |-> queue.slots, prod |-> queue.prod, cons |-> queue.cons,
              data |-> queue.data]

(* Types of the variables: the indices rxe_queue.h keeps in the shared       *)
(* buffer always point at one of its slots, whatever a resize did to it.     *)
TypeOK ==
  /\ QueueTypeOK
  /\ buf \in Nat
  /\ cq_lock \in Posters \cup {Free}
  /\ user_lock \in Consumers \cup {Free, Resizer}
  /\ rcqe \in ResizeTo \cup {0}
  /\ ppc \in [Posters -> {"idle", "advance", "test", "signal"}]
  /\ pcqe \in [Posters -> Nat]
  /\ pnotify \in [Posters -> Nat]
  /\ solicited \in [Posters -> BOOLEAN]
  /\ cpc \in [Consumers -> {"idle", "arm", "head", "copy", "advance"}]
  /\ cptr \in [Consumers -> [buf : Nat, index : Nat]]
  /\ cwc \in [Consumers -> Nat]
  /\ notify \in 0..255
  /\ sched \in BOOLEAN
  /\ tpc \in {"idle", "handler"}
  /\ tnotify \in 0..255
  /\ nposts \in Nat
  /\ posted \in Seq(Nat)
  /\ delivered \in Seq(Nat)

(* What rxe_cq_post accepted is delivered by poll_cq once, whole and in the  *)
(* order it was posted; what has not been delivered yet is in the buffer.    *)
(* Wrapping indices, a full queue, a resize in the middle and the lock-free  *)
(* hand-over between producer and consumer must not break this.              *)
NothingLost ==
  /\ Len(posted) = Len(delivered) + queue_count(queue)
  /\ \A i \in 1 .. Len(delivered) : delivered[i] = posted[i]
  /\ \A i \in 0 .. queue_count(queue) - 1 :
        elem_at(queue, i) = posted[Len(delivered) + 1 + i]

(* The queue implements a bounded FIFO: every step of rxe_cq_post, poll_cq   *)
(* and resize_cq is a put, a take or a resize of it, or changes nothing a    *)
(* consumer can see.                                                         *)
Fifo == INSTANCE RxeFifo WITH Elem <- 1 .. MaxPosts, fifo <- contents(queue),
                              bound <- capacity(queue)

ImplementsFifo == Fifo!Spec

(* Under the API's discipline (request a notification, then poll until       *)
(* empty) every completion rxe_cq_post accepted is delivered in the end: the *)
(* unlocked test of notify, the tasklet and the loop of rxe_send_complete    *)
(* (whose comment asks whether there is a race) never lose the last event.   *)
EventuallyDelivered ==
  \A i \in 1 .. MaxPosts : (Len(posted) >= i) ~> (Len(delivered) >= i)

(* core_locking.txt: a consumer may poll on several CPUs at once.  So no     *)
(* completion may be handed to two callers of rxe_poll_cq.                   *)
DeliveredOnce ==
  \A i, j \in 1 .. Len(delivered) : i # j => delivered[i] # delivered[j]
=============================================================================
