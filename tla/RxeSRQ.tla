-------------------------------- MODULE RxeSRQ --------------------------------
(***************************************************************************)
(* A shared receive queue and the buffers behind it: rxe_srq.c, rxe_mmap.c, *)
(* get_srq_wqe (rxe_resp.c), the SRQ verbs (rxe_verbs.c) and their librxe  *)
(* counterparts.                                                           *)
(*                                                                         *)
(* Posters add receive WQEs, the responders of several QPs take them, an   *)
(* application thread resizes the queue and arms its limit.  The SRQ of a  *)
(* user process is posted to from user space, through a mapping of the     *)
(* buffer: a resize makes a new buffer, moves the WQEs and drops the old   *)
(* one, and librxe then exchanges its mapping, all under its own lock.  A  *)
(* buffer lives as long as the SRQ or a mapping of it (the process's, or a *)
(* forked child's) refers to it.  The SRQ of a kernel consumer is posted   *)
(* to under producer_lock and has no mappings.                             *)
(*                                                                         *)
(* Failures names the steps that may fail: "alloc" (no memory for the new  *)
(* buffer), "small" (the queue holds more than the new one could), "remap" *)
(* (remap_vmalloc_range).                                                  *)
(***************************************************************************)
EXTENDS Naturals, Sequences, FiniteSets, RxeQueue

CONSTANTS
  Posters, Responders,
  Kinds,        \* subset of {"user", "kernel"}
  MaxWr,        \* size of the first queue
  ResizeTo,     \* sizes asked for
  Limits,       \* limits armed
  Failures,     \* what may fail
  MaxPosts, MaxResizes, MaxArms   \* bounds

ASSUME SRQAssumption ==
  /\ Kinds \subseteq {"user", "kernel"}
  /\ Posters \cap Responders = {}
  /\ {"nobody", "modifier"} \cap (Posters \cup Responders) = {}
  /\ MaxWr \in Nat \ {0} /\ ResizeTo \subseteq Nat \ {0} /\ Limits \subseteq Nat
  /\ Failures \subseteq {"alloc", "small", "remap"}
  /\ MaxPosts \in Nat /\ MaxResizes \in Nat /\ MaxArms \in Nat

\* roundup_pow_of_two returns at least its argument for the sizes in use.
ASSUME RoundupAssumption ==
  \A n \in ResizeTo \cup {MaxWr} :
     /\ roundup_pow_of_two(n + 1) \in Nat
     /\ roundup_pow_of_two(n + 1) >= n + 1

VARIABLES
  kind,     \* whose SRQ it is
  handler,  \* was an event handler given for it?
  buf,      \* buffers made so far: ring, kref of the mmap info, on pending_mmaps?, freed?
  kq,       \* srq->rq.queue->buf: number of the kernel's buffer, 0 for none
  limit,    \* srq->limit
  lock,     \* rq.lock of librxe, or producer_lock: who holds it
  clock,    \* consumer_lock
  pc,       \* where each poster and responder is
  copy,     \* qp->resp.srq_wqe
  uq,       \* the buffer the process has mapped, 0 for none
  child,    \* the buffer a forked child has mapped
  mod,      \* the modifying thread: pc and the new buffer's size
  posted, taken,        \* WQEs posted and taken, in order
  armed, tookSince,     \* armed and no event since; a WQE taken since
  arms

queue == <<buf, kq>>
user == <<uq, child>>
sent == <<posted, taken>>
alarm == <<armed, tookSince, arms>>
vars == <<kind, handler, queue, limit, lock, clock, pc, copy, user, mod, sent, alarm>>

Nobody == "nobody"
Modifier == "modifier"
Blank == 0

ring == buf[kq].q
PostTo == IF kind = "user" THEN uq ELSE kq   \* the buffer a poster writes to
latest == Len(buf)

-----------------------------------------------------------------------------
(* Buffers and their mmap info (rxe_mmap.c)                                *)

(* kref_put with rxe_mmap_release.  The buffer of a kernel consumer has no *)
(* mmap info and is freed at once: its one reference.                      *)
put(b, n) ==
  LET last == b[n].ref = 1
  IN [b EXCEPT ![n] = [q |-> b[n].q, ref |-> b[n].ref - 1,
                       pending |-> b[n].pending /\ ~last, freed |-> last]]

get(b, n) == [b EXCEPT ![n].ref = @ + 1]

NewBuf(size) ==
  [q |-> queue_init(size, Blank), ref |-> 1, pending |-> kind = "user", freed |-> FALSE]

(* The SRQ is created; librxe maps the buffer in the same call.            *)
Init ==
  /\ kind \in Kinds /\ handler \in BOOLEAN
  /\ buf = <<[NewBuf(MaxWr) EXCEPT !.ref = IF kind = "user" THEN 2 ELSE 1, !.pending = FALSE]>>
  /\ kq = 1 /\ limit = 0
  /\ lock = Nobody /\ clock = Nobody
  /\ pc = [t \in Posters \union Responders |-> "idle"]
  /\ copy = [c \in Responders |-> Blank]
  /\ uq = (IF kind = "user" THEN 1 ELSE 0) /\ child = 0
  /\ mod = [pc |-> "idle", size |-> 0]
  /\ posted = <<>> /\ taken = <<>>
  /\ armed = FALSE /\ tookSince = FALSE /\ arms = 0

-----------------------------------------------------------------------------
(* rxe_post_srq_recv, in the kernel or in librxe.  Once a failed resize    *)
(* has freed a queue, whoever uses it works on freed memory or a null      *)
(* pointer: such a thread takes no further step here.                      *)

PostLock(p) ==
  /\ pc[p] = "idle" /\ PostTo # 0 /\ mod.pc # "destroyed"
  /\ Len(posted) < MaxPosts
  /\ lock = Nobody
  /\ lock' = p
  /\ pc' = [pc EXCEPT ![p] = "post"]
  /\ UNCHANGED <<kind, handler, queue, limit, clock, copy, user, mod, sent, alarm>>

PostFull(p) ==
  /\ pc[p] = "post" /\ PostTo # 0 /\ queue_full(buf[PostTo].q)
  /\ lock' = Nobody
  /\ pc' = [pc EXCEPT ![p] = "idle"]
  /\ UNCHANGED <<kind, handler, queue, limit, clock, copy, user, mod, sent, alarm>>

PostFill(p) ==
  /\ pc[p] = "post" /\ PostTo # 0 /\ ~queue_full(buf[PostTo].q)
  /\ buf' = [buf EXCEPT ![PostTo].q = fill_producer(@, Len(posted) + 1)]
  /\ pc' = [pc EXCEPT ![p] = "advance"]
  /\ UNCHANGED <<kind, handler, kq, limit, lock, clock, copy, user, mod, sent, alarm>>

PostAdvance(p) ==
  /\ pc[p] = "advance" /\ PostTo # 0
  /\ buf' = [buf EXCEPT ![PostTo].q = advance_producer(@)]
  /\ posted' = Append(posted, Len(posted) + 1)
  /\ lock' = Nobody
  /\ pc' = [pc EXCEPT ![p] = "idle"]
  /\ UNCHANGED <<kind, handler, kq, limit, clock, copy, user, mod, taken, alarm>>

-----------------------------------------------------------------------------
(* get_srq_wqe                                                             *)

GetHead(c) ==
  /\ pc[c] = "idle" /\ kq # 0
  /\ clock = Nobody
  /\ ~queue_empty(ring)
  /\ clock' = c
  /\ copy' = [copy EXCEPT ![c] = elem_at(ring, 0)]
  /\ pc' = [pc EXCEPT ![c] = "advance"]
  /\ UNCHANGED <<kind, handler, queue, limit, lock, user, mod, sent, alarm>>

GetAdvance(c) ==
  /\ pc[c] = "advance" /\ kq # 0
  /\ buf' = [buf EXCEPT ![kq].q = advance_consumer(@)]
  /\ taken' = Append(taken, copy[c])
  /\ tookSince' = TRUE
  /\ pc' = [pc EXCEPT ![c] = "limit"]
  /\ UNCHANGED <<kind, handler, kq, limit, lock, clock, copy, user, mod, posted, armed, arms>>

\* Mutant: only the step across the limit counts.
below_limit_exactly == limit # 0 /\ handler /\ queue_count(ring) = limit - 1

below_limit == limit # 0 /\ handler /\ queue_count(ring) < limit

GetTest(c) ==
  /\ pc[c] = "limit" /\ kq # 0
  /\ IF below_limit
     THEN pc' = [pc EXCEPT ![c] = "disarm"] /\ UNCHANGED clock
     ELSE pc' = [pc EXCEPT ![c] = "idle"] /\ clock' = Nobody
  /\ UNCHANGED <<kind, handler, queue, limit, lock, copy, user, mod, sent, alarm>>

GetDisarm(c) ==
  /\ pc[c] = "disarm"
  /\ limit' = 0
  /\ clock' = Nobody
  /\ pc' = [pc EXCEPT ![c] = "event"]
  /\ UNCHANGED <<kind, handler, queue, lock, copy, user, mod, sent, alarm>>

(* IB_EVENT_SRQ_LIMIT_REACHED                                              *)
GetEvent(c) ==
  /\ pc[c] = "event"
  /\ armed' = FALSE
  /\ pc' = [pc EXCEPT ![c] = "idle"]
  /\ UNCHANGED <<kind, handler, queue, limit, lock, clock, copy, user, mod, sent, tookSince, arms>>

-----------------------------------------------------------------------------
(* rxe_modify_srq, rxe_srq_chk_attr and rxe_srq_from_attr                  *)

Arm(l) ==
  /\ kq # 0 /\ arms < MaxArms
  /\ l <= capacity(ring)
  /\ limit' = l
  /\ armed' = (l # 0) /\ tookSince' = FALSE /\ arms' = arms + 1
  /\ UNCHANGED <<kind, handler, queue, lock, clock, pc, copy, user, mod, sent>>

(* Unless "small" may happen, the application asks for a size that holds   *)
(* what the queue can contain when the WQEs are moved.                     *)
Roomy(size) ==
  LET new == queue_init(size, Blank)
  IN \/ "small" \in Failures
     \/ capacity(new) >= IF kind = "user" THEN queue_count(ring) ELSE capacity(ring)

\* Mutant: librxe does not keep posters out.
ResizeBegin_unlocked(size) ==
  /\ mod.pc = "idle" /\ kq # 0 /\ latest <= MaxResizes
  /\ limit = 0 \/ size >= limit
  /\ Roomy(size)
  /\ mod' = [pc |-> "init", size |-> size]
  /\ UNCHANGED <<kind, handler, queue, limit, lock, clock, pc, copy, user, sent, alarm>>

ResizeBegin(size) ==
  /\ mod.pc = "idle" /\ kq # 0 /\ latest <= MaxResizes
  /\ kind = "user" => lock = Nobody
  /\ lock' = IF kind = "user" THEN Modifier ELSE lock
  /\ limit = 0 \/ size >= limit
  /\ Roomy(size)
  /\ mod' = [pc |-> "init", size |-> size]
  /\ UNCHANGED <<kind, handler, queue, limit, clock, pc, copy, user, sent, alarm>>

ResizeInit ==
  /\ mod.pc = "init"
  /\ buf' = Append(buf, NewBuf(mod.size))
  /\ mod' = [mod EXCEPT !.pc = "finish"]
  /\ UNCHANGED <<kind, handler, kq, limit, lock, clock, pc, copy, user, sent, alarm>>

unlocked == IF kind = "user" THEN Nobody ELSE lock

(* rxe_queue_resize: the WQEs move under both locks, the old buffer goes.  *)
ResizeFinish ==
  LET moved == resize_finish(ring, buf[latest].q)
  IN /\ mod.pc = "finish"
     /\ clock = Nobody /\ (kind = "kernel" => lock = Nobody)
     /\ ~resize_fails(ring, buf[latest].q)
     /\ buf' = put([buf EXCEPT ![latest].q = moved], kq)
     /\ kq' = latest
     /\ mod' = [mod EXCEPT !.pc = IF kind = "user" THEN "munmap" ELSE "idle"]
     /\ UNCHANGED <<kind, handler, limit, lock, clock, pc, copy, user, sent, alarm>>

(* A failed resize: rxe_srq_from_attr frees the queue it could not resize. *)
ResizeNoMemory ==
  /\ mod.pc = "init" /\ "alloc" \in Failures
  /\ buf' = put(buf, kq) /\ kq' = 0
  /\ mod' = [mod EXCEPT !.pc = "idle"] /\ lock' = unlocked
  /\ UNCHANGED <<kind, handler, limit, clock, pc, copy, user, sent, alarm>>

ResizeTooSmall ==
  /\ mod.pc = "finish"
  /\ clock = Nobody /\ (kind = "kernel" => lock = Nobody)
  /\ resize_fails(ring, buf[latest].q)
  /\ mod' = [mod EXCEPT !.pc = "cleanup"]
  /\ UNCHANGED <<kind, handler, queue, limit, lock, clock, pc, copy, user, sent, alarm>>

(* The spin locks are released: the new queue and the old one are freed    *)
(* under posters and responders that may have gone on meanwhile.           *)
ResizeCleanup ==
  /\ mod.pc = "cleanup"
  /\ buf' = put(put(buf, latest), kq) /\ kq' = 0
  /\ mod' = [mod EXCEPT !.pc = "idle"] /\ lock' = unlocked
  /\ UNCHANGED <<kind, handler, limit, clock, pc, copy, user, sent, alarm>>

(* librxe exchanges its mapping: rxe_vma_close, then rxe_mmap.  After a    *)
(* mapping that failed there is nothing to unmap.                          *)
Munmap ==
  /\ mod.pc = "munmap"
  /\ buf' = (IF uq = 0 THEN buf ELSE put(buf, uq)) /\ uq' = 0
  /\ mod' = [mod EXCEPT !.pc = "mmap"]
  /\ UNCHANGED <<kind, handler, kq, limit, lock, clock, pc, copy, child, sent, alarm>>

MmapFind ==
  /\ mod.pc = "mmap" /\ buf[latest].pending
  /\ buf' = [buf EXCEPT ![latest].pending = FALSE]
  /\ mod' = [mod EXCEPT !.pc = "remap"]
  /\ UNCHANGED <<kind, handler, kq, limit, lock, clock, pc, copy, user, sent, alarm>>

\* Mutant: rxe_vma_open is not called for the first mapping.
MmapDone_unopened ==
  /\ mod.pc = "remap"
  /\ uq' = latest
  /\ mod' = [mod EXCEPT !.pc = "idle"] /\ lock' = Nobody
  /\ UNCHANGED <<kind, handler, queue, limit, clock, pc, copy, child, sent, alarm>>

MmapDone ==
  /\ mod.pc = "remap"
  /\ buf' = get(buf, latest) /\ uq' = latest
  /\ mod' = [mod EXCEPT !.pc = "idle"] /\ lock' = Nobody
  /\ UNCHANGED <<kind, handler, kq, limit, clock, pc, copy, child, sent, alarm>>

MmapFails ==
  /\ mod.pc = "remap" /\ "remap" \in Failures
  /\ mod' = [mod EXCEPT !.pc = "idle"] /\ lock' = Nobody
  /\ UNCHANGED <<kind, handler, queue, limit, clock, pc, copy, user, sent, alarm>>

-----------------------------------------------------------------------------
(* fork and exit of a child that inherits the mapping; destruction         *)

Fork ==
  /\ uq # 0 /\ child = 0
  /\ buf' = get(buf, uq) /\ child' = uq
  /\ UNCHANGED <<kind, handler, kq, limit, lock, clock, pc, copy, uq, mod, sent, alarm>>

ChildExit ==
  /\ child # 0
  /\ buf' = put(buf, child) /\ child' = 0
  /\ UNCHANGED <<kind, handler, kq, limit, lock, clock, pc, copy, uq, mod, sent, alarm>>

(* No QP uses the SRQ any more (ib_destroy_srq refuses otherwise).         *)
Destroy ==
  /\ mod.pc = "idle" /\ kq # 0
  /\ \A t \in DOMAIN pc : pc[t] = "idle"
  /\ buf' = put(buf, kq) /\ kq' = 0
  /\ mod' = [mod EXCEPT !.pc = "destroyed"]
  /\ UNCHANGED <<kind, handler, limit, lock, clock, pc, copy, user, sent, alarm>>

DestroyUnmap ==
  /\ mod.pc = "destroyed" /\ uq # 0
  /\ buf' = put(buf, uq) /\ uq' = 0
  /\ UNCHANGED <<kind, handler, kq, limit, lock, clock, pc, copy, child, mod, sent, alarm>>

-----------------------------------------------------------------------------
Next ==
  \/ \E p \in Posters : PostLock(p) \/ PostFull(p) \/ PostFill(p) \/ PostAdvance(p)
  \/ \E c \in Responders :
       GetHead(c) \/ GetAdvance(c) \/ GetTest(c) \/ GetDisarm(c) \/ GetEvent(c)
  \/ \E l \in Limits : Arm(l)
  \/ \E s \in ResizeTo : ResizeBegin(s)
  \/ ResizeInit \/ ResizeFinish \/ ResizeNoMemory \/ ResizeTooSmall \/ ResizeCleanup
  \/ Munmap \/ MmapFind \/ MmapDone \/ MmapFails
  \/ Fork \/ ChildExit \/ Destroy \/ DestroyUnmap

Spec == Init /\ [][Next]_vars

-----------------------------------------------------------------------------
(* Every receive WQE that was posted is either still in the queue or was   *)
(* taken by one responder, in the order of posting: through full and empty *)
(* queues, concurrent responders, and a resize that moves the WQEs to      *)
(* another buffer while user space posts through its mapping of the first. *)
EachTakenOnce == kq # 0 => posted = taken \o contents(ring)

(* get_srq_wqe and rxe_srq_from_attr share limit without a common lock: an *)
(* armed limit is not lost without an event, and if the SRQ has an event   *)
(* handler, as soon as a WQE taken after the arming leaves fewer than      *)
(* limit the event is on its way.                                          *)
LimitSignalled ==
  /\ armed => limit # 0 \/ \E c \in Responders : pc[c] = "event"
  /\ handler /\ kq # 0 /\ limit # 0 /\ tookSince /\ clock = Nobody => queue_count(ring) >= limit

(* A buffer is freed exactly when neither the SRQ nor a mapping refers to  *)
(* it (rxe_queue_cleanup, rxe_vma_open, rxe_vma_close, rxe_mmap_release),  *)
(* and only a live buffer waits to be mapped.                              *)
at(m, n) == IF m = n THEN 1 ELSE 0

Users(n) ==
  at(kq, n) + at(uq, n) + at(child, n)
    + at(IF mod.pc \in {"finish", "cleanup"} THEN latest ELSE 0, n)

BuffersCounted ==
  \A n \in 1..latest : /\ buf[n].ref = Users(n)
                       /\ buf[n].freed <=> Users(n) = 0
                       /\ buf[n].pending => ~buf[n].freed

(* The SRQ has a queue until it is destroyed, and when librxe's lock is    *)
(* free the process has that queue mapped.                                 *)
Usable ==
  mod.pc # "destroyed" =>
    kq # 0 /\ (kind = "user" /\ lock # Modifier => uq = kq)
=============================================================================
