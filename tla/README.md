# TLA+ models of the rxe driver

This directory holds a verification project for the software RDMA-over-Ethernet
driver that this repository adds to its Linux tree
(`src/linux/drivers/infiniband/hw/rxe`) and for its user-space half
(`src/librxe-1.0.0`). The rest of the repository is vendored (the kernel, libibverbs,
perftest) or has no logic of its own (scripts, benchmark results, a module that sets
a performance register). All source paths below are relative to the `rxe` directory
unless they say otherwise.

## 1. The system

| component | state | operations | how it interacts | what makes it correct |
|---|---|---|---|---|
| shared queue (`rxe_queue.h/.c`) | producer and consumer index, slots | put, take, full/empty/count, resize | one buffer shared by kernel and user space, no lock between its two ends | a FIFO: nothing lost, repeated, torn or reordered, also over wraps and resizes |
| completion queue (`rxe_cq.c`, verbs, librxe) | queue, `notify`, tasklet `comp_task` | `rxe_cq_post`, poll, resize, request notification | posted to by completers and responders, polled by the consumer, events through a tasklet | every completion delivered once; no lost event |
| task (`rxe_task.c`) | `state`, tasklet | `rxe_run_task`, `rxe_do_task`, disable/enable | runs requester, completer, responder, arbiter; in the caller (fast path) or in a tasklet | one runner at a time; no work left behind |
| arbiter (`rxe_arbiter.c`) | `qp_list`, `send_pkts`, `req_skb_out`/`resp_skb_out` | queue a packet, pick a QP, transmit, account | fed by all QPs, feeds the network interface, wakes throttled requesters | packets leave, in order, and the accounts are exact |
| requester (`rxe_req.c`) | `req.psn`, `wqe_index`, `need_retry`, `wait_*`, `rd_atomic` | next WQE, build packet, retry | reads the send queue, sends through the arbiter, woken by completer and timers | sends everything, resends what is lost |
| completer (`rxe_comp.c`) | `comp.psn`, retry counters, timers | match a response to the oldest WQE, complete, retry, fail | takes responses, posts completions, restarts the requester | completes each WQE once, truthfully, in order |
| responder (`rxe_resp.c`) | `resp.psn`, `resp.res`, responder resources | check, execute, acknowledge, replay | takes requests, writes memory, sends responses | executes each request once, in order |
| QP state machine (`rxe_qp.c`) | `req.state`, `resp.state`, `valid` | modify, reset, drain, error, destroy | disables, flushes and re-enables the tasks | tasks and queues are quiescent where the code relies on it |
| object pools (`rxe_pool.c`), device (`rxe.c`) | reference counts, index bitmap, trees | allocate, look up, drop, remove the device | every other component looks objects up here | no use after free, no index twice, no leak; the device goes last |
| multicast groups (`rxe_mcast.c`, `rxe_recv.c`) | groups by mgid, two lists of memberships, the interface's filter | attach, detach, deliver, leave all | verbs, received packets and the cleanup of QPs meet in a group | members get their packets; lists and counts agree |
| memory regions (`rxe_mr.c`) | registered range, maps of buffers | register, check, translate, copy, move along a list | requester and responder copy every byte through them | each byte to its place, nothing outside |
| shared receive queue (`rxe_srq.c`), mmap (`rxe_mmap.c`) | queue, limit, mmap info and pending list | post, take, arm, resize, map, unmap | posted to from user space through a mapping, taken by all responders | each WQE once; no lost limit event; buffers live as long as their users |
| receive path, network, opcodes, AV, ICRC (`rxe_recv.c`, `rxe_net.c`, ...) | counters | check and dispatch packets | drops what does not fit | only well-formed packets reach a QP |

What is hard: the three task functions of a QP run concurrently and share `req`,
`comp` and the send queue with hardly a lock; wake-ups are flags tested and set
without atomicity; packets are lost and repeated while timers run; the fast path and
the control path bypass the tasklet each in its own way; the interface queue may stop; objects are looked up while
their last reference is being dropped.
`PROJECT.json` lists these places line by line under `hazards`.

## 2. Modules

| module | models | kind |
|---|---|---|
| `RxeQueue` | `rxe_queue.h`, `rxe_queue.c` | operators on a record `[slots, prod, cons, data]` |
| `RxeFifo` | what a CQ promises: a bounded FIFO with resize | abstract specification |
| `RxeCQ` | `rxe_cq.c` and the CQ verbs, over `RxeQueue` | component |
| `RxeQueueProofs` | lemmas about `RxeQueue`, for every size and every pair of indices | TLAPS |
| `RxeCQProofs` | theorems about `RxeCQ` | TLAPS |
| `RxeTask` | `rxe_task.c` and its use by `rxe_qp_reset` | component |
| `RxeTaskProofs` | theorems about `RxeTask` | TLAPS |
| `RxeArbiter` | `rxe_arbiter.c`, the throttle in `rxe_req.c`, the drain in `rxe_qp_destroy` | component |
| `RxeArbiterProofs` | theorems about `RxeArbiter` | TLAPS |
| `RxeCompleter` | `rxe_completer`, called by its task and by the requester | component of `RxeRC`, which instantiates it twice |
| `RxeRC` | a reliable connection: `rxe_req.c`, `rxe_comp.c`, `rxe_resp.c`, timers, a lossy network | composition of three components |
| `RxeRCProofs` | theorems about `RxeRC`: for any scenario, and for orderly ones | TLAPS |
| `RxePool` | an indexed pool of `rxe_pool.c`, its verbs and lookups, `rxe_remove` and `rxe_release` | component |
| `RxePoolProofs` | theorems about `RxePool` | TLAPS |
| `RxeMcast` | `rxe_mcast.c` over the keyed pool of `rxe_pool.c`, `rxe_rcv_mcast_pkt`, `rxe_qp_cleanup` | composition |
| `RxeMcastProofs` | theorems about `RxeMcast`, for groups with a lasting member | TLAPS |
| `RxeMem` | `rxe_mr.c` under `fill_packet`, `req_retry`, `check_rkey`, `send_data_in`, `write_data_in`, `process_atomic`, `do_atomic` | algorithms and a message that uses them |
| `RxeSRQ` | `rxe_srq.c`, `rxe_mmap.c`, `get_srq_wqe`, the SRQ verbs and librxe, over `RxeQueue` | composition |
| `RxeSRQProofs` | theorems about `RxeSRQ`, on the lemmas of `RxeQueueProofs` | TLAPS |
| `MCRxe...` | instances for TLC of the module they are named after | model checking |

Definitions keep the names of the C functions they translate where TLA+ allows it; a
name with a capital letter is an action, and `PROJECT.json` maps each definition to its
lines. A definition whose comment begins with "Mutant:" is a deliberately wrong variant
of the next one: the property it is listed with must fail when it is put in place.

**RxeCQ.** `queue` is the shared buffer, `buf` its identity. `rxe_cq_post` is split where
other actors can see the difference: begin of `memcpy` (the slot is `Torn`), advance and
unlock, test of `notify`, increment and `tasklet_schedule`. The increment is not atomic,
so it uses either the value tested or the current one. Polling is split into taking the
head, copying and advancing. `ConsumersLocked` selects librxe (which polls and resizes
under `cq->lock`) or kernel consumers (`rxe_poll_cq` takes no lock). Resize is its
unlocked size check followed by the move under `cq_lock`. The tasklet runs
`rxe_send_complete` and through it the consumer's handler, which requests a notification
and then polls until the queue is empty, as the API asks.

**RxeTask.** The function run by the task is abstracted to "does one unit of work and
returns 0, or finds none and returns non-zero". `rxe_do_task` has three steps, its two
critical sections and the call between them. `fast` is the module parameter. The control
process is `rxe_qp_reset`: disable (which waits for a running tasklet), call the function
until it returns non-zero, enable.

**RxeArbiter.** A packet is counted where the code counts it, when its skb is built (`Build`:
rxe_req.c:406, rxe_resp.c:618, 977, 1117), and enqueued in a later step, `arbiter_skb_queue`
(`Queue`). In between a requester may fail to fill it (`FillFails`), and `BuildFails` is an skb
that could not be had. The reply to an atomic is counted a second time and its copy is kept for duplicates
(`SaveReply`). `unqueued` is a history variable: the packets counted that never reach
`send_pkts`. One step per critical section of `arbiter_skb_queue` and `rxe_arbiter`;
the interface may stop its queue or refuse a packet; a QP may leave the READY state; a
second arbiter runs inside `rxe_qp_destroy`. The requester's throttle is two steps, the test
of `req_skb_out` (`ThrottleTest`) and the setting of `need_req_skb` (`ThrottleSet`). A
scenario gives the packets of each producer and the number of stops, refusals, failures (of memory, of filling a
packet, of the QP), atomics and destructions. Rate control is only delay and is left out.

**RxeRC.** One QP sends (requester, completer, timers) and its peer receives (responder).
Lengths are counted in packets, addresses are offsets, PSNs wrap at `PsnMod`. A call of
the requester is one step, except that testing for a fence or a closed window and setting
`wait_fence` or `wait_psn` are two; a call of the completer is one step per WQE it looks
at, after one that fetches the packet. The completer is `RxeCompleter`, and there are two
instances of it: the task, and the call that the requester makes itself when it cannot read the
data of a WQE (rxe_req.c:690). That one, `Direct`, runs next to the task with no lock: it looks up
the oldest WQE in one step and acts on it in another. `run` holds the tasks that will be called, which is
what `RxeTask` guarantees. The network keeps order and may lose packets from either
direction. The application may move the QP to SQD and back to RTS (`Drain`, `Resume`): while
`req.state` is DRAIN only the message begun goes on, requester and completer each look for the
end of the drain, and `xmit_one_packet` drops requests that are still queued (`DropRequest`); it drops responses
that are queued when the responder has left READY (`DropResponse`).
A scenario gives the work requests, how many are posted per call, how many packets may be
lost, timeouts may come early and receives may be posted late, the driver's limits
(`max_rd_atomic`, `retry_cnt`, `rnr_retry`, `max_gap` for `rxe_max_req_comp_gap`) and whether
the queue is drained. Retries are counted as in the code (7 means no limit).

**RxePool.** Each context runs a create verb, a destroy verb, or a lookup followed by a use,
step by step between atomic operations and critical sections; one of them may remove the
device. `live`, `tree`, `table` and `ref` are the memory, the red-black tree, the bitmap and
the counters. `rxe_alloc` is a step per atomic operation (the pool's reference, the device's,
`num_elem`, the memory); when there is no memory it goes on with NULL (rxe_pool.c:413-427), and the
context dies (`ZallocFails`, `oops`). A packet may be forgotten together with its reference
(`Leak`): `rxe_completer` leaves by `goto exit` after a retry (rxe_comp.c:688, 705, 715).
`rxe_elem_release` is four steps (free, `num_elem`, device, pool), because the
device may be freed in the middle of it. `ib_unregister_device` is external: it returns when
the consumers have destroyed their objects and left the verbs.

**RxeMcast.** Attach, detach, delivery and the cleanup of a QP, with the group's reference
count; `filter` is what the interface was told by `mcast_add` and `mcast_delete`. `rb_erase`
of a node that was never linked (all zero) sets the root to NULL, so `DropKey` empties the tree
then. `rxe_alloc` of a group or of a membership may fail. A mode says which contexts work on
which mgids (`on`), which memberships last, how many packets come, whether a QP may be destroyed
while it is attached and how often the interface refuses a group.

**RxeMem.** Memory is a function from addresses to bytes, and a byte is named by where it was
first: a byte out of place is seen. Regions are records of maps of buffers; `mem_init_phys`
never gets a page shift (its `max_size` stays -1, section 5), `mem_init_user` and `mem_map_pages`
do; `lookup_iova` shifts or walks as in the code, `iova_to_vaddr` tests the state first, `rxe_mem_copy` gives the sequence of addresses it touches,
`copy_data` and `advance_dma_data` move along a scatter/gather list with the code's early
exits. On top of them a message is sent packet by packet, lost, resent from any acknowledged
packet and received, with regions deregistered at any moment. An atomic is checked (`check_rkey`), done in place
(`process_atomic`) and answered into the requester's list (`do_atomic`). The reference definition is
independent of all that: a region is the concatenation of its buffers, a list that of its
entries. The module uses RECURSIVE operators, so it is for TLC only.

**RxeSRQ.** The ring is that of `RxeQueue`. Posting and taking are split between filling (or
copying) and advancing; `get_srq_wqe` tests, clears and reports the limit in three steps, if the SRQ has an event handler. A
buffer carries the reference count of its `rxe_mmap_info` and whether it is on the pending
list; the kernel, the process and a forked child refer to buffers by number. Resizing follows
librxe (its lock, the command, munmap, mmap) and the kernel (new buffer, move under both
locks, drop of the old one), with a failure possible at each allocation. A move that finds the
new ring too small (`ResizeTooSmall`) releases the locks first and frees the queue in use after
that (`ResizeCleanup`).

## 3. Runs

Every constant whose name begins with `Max`, and the numbers of a scenario or mode, are bounds
of the model, except `MaxSkb`, `MaxElem`, `MaxAttach` and `MaxWr`, which are parameters of the
driver.

| run | result | what it shows |
|---|---|---|
| `CQ_run` | holds | two posters, a poller, the handler, one resize, librxe's lock: `NothingLost`, the refinement `ImplementsFifo`, `EventuallyDelivered` |
| `CQ_two_pollers` | violated | two kernel pollers get the same completion |
| `Task_run` | holds | three callers: with the fast path and no reset, and with two resets and no fast path |
| `Task_fast_reset` | violated | the default fast path together with a reset: two contexts in the function |
| `Arbiter_run` | holds | a QP that throttles, fails and is destroyed, alone and beside another; two QPs and an interface that stops and refuses: accounts exact up to the packets counted and never queued, which the throttle, an skb that cannot be had, a failed fill and saved atomic replies meet in scenarios of their own; order kept, no stranded QP, every packet leaves (unless the interface has refused one), a throttled requester resumes |
| `Arbiter_stopped` | violated | after `RXE_QUEUE_STOPPED` the QP is off the list and its packet stays (`StoppedRecovers`) |
| `RC_run` | holds | nineteen scenarios: five lossy, five with every limit at one or with failures, two with drains, and seven with unlimited retries that fence, close the window, exhaust `rd_atomic`, lose the last acknowledgement or part of a read, or have a timer that fires early: messages execute once and in order, completions are true, failures flush the rest; with valid keys and unlimited retries everything completes, unless a wake-up was missed (`WakeUpMissed`) or a retry refused (`RetryRefused`) |
| `RC_nak_as_ack` | violated | a NAK completes a write that never arrived |
| `Pool_run` | holds | three contexts, two objects, limit two, three indices, a forgotten packet, want of memory, removal of the device: unique indices, nothing found is being freed, exact counts, the device last, and freed unless a forgotten packet or a dead context keeps it |
| `Mcast_run` | holds | three QPs and two groups with a lasting member under attach, detach, destroy and a packet; one context with a group that comes and goes and an interface that refuses it; two contexts that create and release a group each next to each other, in one tree; memory may be short in all of them |
| `Mem_run` | holds | 40 messages and 30 atomics over 5 regions: every byte in place, refusals only with a reason, an atomic changes its own word and no other byte |
| `SRQ_run` | holds | a poster, two responders, limits, resizes with all failures, fork, destruction; kernel and user SRQ |

The four violated runs contradict a line of the repository each; `findings` in
`PROJECT.json` quotes it.

**Why the bounds are enough.** The CQ has at most four posts over buffers of two, three
or four slots, so the indices wrap, the queue fills, and a resize happens with any
contents. Three callers of a task are needed for START, BUSY and ARMED to be met by
different callers, and four units of work for a caller to come back. The arbiter needs one
QP with both sides to race its own re-insertion and two to interleave on the list; with
`MaxSkb = 2` the throttle closes on the fourth packet. In the RC runs the first PSN is 60
of 64, so PSNs wrap in every scenario, messages have one to three packets (first, middle,
last, only), and losses hit any of them. In the pool three contexts let one look up what a
second destroys while a third takes the index given back; the third index is the one that
makes the search start again at the first bit. A group limit of two with three QPs is reached
while members come and go. In `Mem_run` packets of four bytes meet pages of four that are not
adjacent, two buffers per map, buffers of 1 to 5 bytes, entries of length zero and ranges
that end with, and one byte past, their region. The SRQ's first ring has four slots and
four WQEs wrap it; two resizes reach the third buffer, with the first still mapped by a child.

**What the passing runs do not claim.** Their scenarios are the ones in which the code keeps
its promises. Around them TLC finds others in which it does not. The modules define the
scenarios and the properties; to see one, put the scenario in place of that of a run, with
the property below as its only one (temporal ones under `FairSpec`):

| module, scenario | property | what happens |
|---|---|---|
| `MCRxeRC`, `ReadAgain` | `ExecutedOnceInOrder` | the replay of a duplicate read ends by setting `resp.psn` back to the PSN behind it (rxe_resp.c:761), and the repeated write that follows is in sequence again and is executed twice; the comment above `execute` says a retried request never gets there |
| `MCRxeRC`, `Fenced` | `AllComplete` | the completer completes the last WQE between the fence test and `wait_fence = 1` (rxe_req.c:174-178): nobody wakes the requester |
| `MCRxeRC`, `SmallWindow` | `AllComplete` | the same between the window test and `wait_psn = 1` (rxe_req.c:628-630) |
| `MCRxeRC`, `AtomicLost` | `SuccessIsTrue` | the result of an atomic is stored under a PSN that is one too high (rxe_resp.c:970): a repeated atomic is answered with the result of the one before it, or not at all |
| `MCRxeRC`, `LongRead` | `AllComplete` | a read of several packets that loses a response is never completed |
| `MCRxeRC`, `Patient` | `AllComplete` | the gaps of `Fenced` and `SmallWindow`, with `rd_atomic` exhausted as well |
| `MCRxeRC`, `BadLocalKey` | `ErrorThenFlush` | the requester cannot read the data of a WQE and calls `rxe_completer` while its task runs (rxe_req.c:690): both complete the same WQE and both advance the queue, so a WQE is skipped, and the consumer's index can even pass the producer's |
| `MCRxeRC`, `EarlyAtomic` | `EverythingCompletes` | after an early timeout the repeated atomic is not answered, because its resource is kept under the next PSN (rxe_resp.c:970) |
| `MCRxeRC`, `EarlyAndLost` | `AckedWasExecuted` | an early timeout and a lost request: a NAK is taken for an acknowledgement of what it refuses |
| `MCRxeRC`, `ReadPastAck` | `SuccessIsTrue` | the acknowledgement of a write is lost; the read response behind it completes both, and the read without its data |
| `MCRxeRC`, `LastAckLost` | `AllComplete` | a repeated cumulative acknowledgement brings `comp.psn` up to `req.psn`; the last WQE is then neither completed nor retried (rxe_comp.c:678) |
| `MCRxeRC`, `Resent` | `RetryHasWork` | an acknowledgement arrives while its WQE is being sent again after an early timeout: nothing is left to resend, and an empty packet with a new PSN follows |
| `MCRxeRC`, `LateReceives` | `SuccessIsTrue` | receiver-not-ready NAKs let two retries overlap; the acknowledgement of a write that is about to be sent again is dropped (`COMPST_DONE` for a WQE still posted), and the next RNR NAK, past that WQE, completes it and then, as in `RC_nak_as_ack`, the send it refused |
| `MCRxeRC`, `PostedLate` | `AckedWasExecuted` | the timer has fired and a new WQE is sent before the completer acts on it: packets ahead of the retry draw a NAK, two retries overlap, and a later NAK moves `comp.psn` past what the responder has executed |
| `MCRxeRC`, `DrainOne` | `DrainedIsIdle` | requests still in the arbiter's queue are dropped because the QP is in DRAIN; the retry resets the WQE to posted, and `req_next_wqe` reports SQ_DRAINED with the message half executed |
| `MCRxeRC`, `DrainOne` | `DrainEnds` | `complete_ack` compares `comp.psn` with `req.psn` before it advances `comp.psn` (rxe_comp.c:453) and does not run the requester: with a single WQE outstanding the QP stays in DRAIN, and RTS is refused |
| `MCRxeArbiter`, `Throttled` | `AllBuilt` | the last packet leaves between the throttle's test and its flag (rxe_req.c:639-640), which is never reset, so the first throttle only |
| `MCRxeArbiter`, `Unfilled` | `AllBuilt` | requests whose `fill_packet` fails stay on the account (rxe_req.c:687-691); when there are as many as the limit the requester is throttled for ever |
| `MCRxePool`, as in `Pool_run` | `AlwaysFreed` | after one forgotten packet (rxe_comp.c:688) its QP and the device are never freed |
| `MCRxePool`, as in `Pool_run` | `PoolOutlivesUse` | `rxe_elem_release` drops the device before the pool inside it (rxe_pool.c:443-444) |
| `MCRxeMcast`, `FirstAttach` | `MembersReached` | two attaches to a new group create it twice; the second is not linked and its member gets nothing (rxe_mcast.c:50) |
| `MCRxeMcast`, `LastDetach` | `NothingDangling` | `rxe_pool_get_key` takes a reference to a group whose count is already zero (rxe_pool.c:506) |
| `MCRxeMcast`, `FreedMember` | `NothingDangling` | a packet takes a reference to a QP that is being freed (rxe_recv.c:335) |
| `MCRxeMcast`, `AddFails` | `MembersReached` | after a refused `mcast_add` the release of the new group erases a node that was never linked, and with it the root of the tree: all other groups are unreachable |
| `MCRxeMem`, `Unreturned` | `AtomicReturned` | the copy of an atomic's result fails in `do_atomic`; the WQE is completed with its status unset, which is success (rxe_comp.c:381) |
| `MCRxeSRQ`, as in `SRQ_run` | `Usable` | a failed resize frees the queue in use (rxe_srq.c:201), and a failed mapping cannot be repeated (rxe_mmap.c:122) |

**Fairness.** Weak fairness throughout: code that has begun runs on, a scheduled tasklet is
run by the softirq, a pending timer fires, a packet that is not lost arrives, a stopped
interface queue is started again (the network core does so when descriptors are free), and
the application posts the rest of its scenario. The requester's fairness covers
the call of the completer it makes itself. In the pool a context that has begun goes on, which
does not mean that it drops what it holds: it finishes its verb or its packet, or forgets the packet (`Leak`,
at most `MaxLeaks` times), or dies (`ZallocFails`). Nothing obliges a thread to poll again, a
poster to post, or a reset to happen. Deadlock checking is off where the bounded work simply
ends; `CQ_run` keeps it on, because a polling thread can always come back.

## 4. Proofs

`RxeTaskProofs` proves for every set of callers, every amount of work and every mode:

* `TypeCorrect`: `Spec => []TypeOK`.
* `NoWorkForgotten`: `Spec => []WorkNotForgotten`. The property is not inductive. The
  inductive invariant adds `PcOK` (each context stays in its own part of the code),
  `StateTellsRunner` (`task->state` is not START exactly when somebody is between the
  critical sections) and `OneRunner` (at most one context is): when a caller leaves because
  the state is BUSY or ARMED, they give the runner that will see ARMED and call the function
  once more.
* `FunctionExclusive`: under `SafeModes` (no mode has both the fast path and resets)
  `Spec => []FuncExclusive`. `ModeInv` adds that without the fast path callers never enter
  the function, and that a reset which has waited for the tasklet keeps it out. Without
  `SafeModes` the statement is false: `Task_fast_reset`.

The only assumption is `TaskAssumption`: the contexts are distinct and the bounds are
natural numbers; TLC evaluates it in `Task_run`.

`RxeQueueProofs` shows what the masked indices of `rxe_queue.h` mean for every number of
slots: `queue_count` with its wrap, that `queue_empty` and `queue_full` are its two ends,
and that filling a slot, advancing either index and `resize_finish` change the elements in
the way their names say. `RxeCQProofs` rests on these lemmas and proves, for any posters and
consumers, any sizes and any number of resizes:

* `TypeCorrect`: `Spec => []TypeOK`, for locked and for unlocked consumers. It needs `PtrOK`:
  an address that a consumer holds is inside the buffer unless a resize has freed it.
* `QueueKeepsAll`: with `ConsumersLocked`, `Spec => []NothingLost`. The inductive invariant
  adds `LockInv` (who holds `cq_lock` and librxe's `cq->lock` is told by where everybody is)
  and `HandInv` (the free slot a poster found, and the head a consumer found, are still there
  when it acts). They are what the two locks are for: the two ends of the queue share none.
* `NeverTwice`: with `ConsumersLocked`, `Spec => []DeliveredOnce`, the property that the
  unlocked kernel poll violates in `CQ_two_pollers`. `OrderInv` adds that the completions in
  `posted` are numbered in the order in which the posters took `cq_lock`.
* `QueueIsFifo`: with `ConsumersLocked`, `Spec => ImplementsFifo`. The mapping is
  `contents(queue)` and `capacity(queue)`: a post takes effect at `PostAdvance`, a poll at
  `PollAdvance`, a resize at `ResizeFinish`, and all other steps stutter.

Their assumptions are `CQAssumption` (distinct names, a positive size as `rxe_cq_chk_attr`
demands) and `RoundupAssumption`: the kernel's `roundup_pow_of_two` returns at least its
argument, for the sizes in use. TLC evaluates both in `CQ_run`.

`RxePoolProofs` proves the five safety properties of `Pool_run` for any contexts and objects,
any limit, any range of indices and any number of forgotten packets (which the counts in
`RefsExact` and `Counters` include as `leaked`): `TypeCorrect`, `ObjectsReachable`, `LookupsFindLive`,
`CountsExact`, `DeviceOutlivesObjects`. The inductive invariant `PoolInv` adds to `TypeOK`,
`Reachable` and `RefsExact`

* `Hands`: what each context has in its hands at each step, that nobody else makes, unlinks
  or releases it, and that the tree holds what consumers own and what is between its two index
  calls. With it a lookup finds only objects that somebody still refers to.
* `Counters`: `num_elem`, the device's and the pool's `ref_cnt` counted in objects and in
  contexts at the steps in between. It gives that `rxe_release` runs once and last.

That `alloc_index` always finds a clear bit inside the table is a pigeonhole argument
(`IndexLeft`): each set bit belongs to an object, and there are fewer objects than indices.
`PoolAssumption` says that there are at least `max_elem` indices, which `rxe_pool_init_index`
checks (rxe_pool.c:179), and that contexts and objects are finite.

`RxeArbiterProofs` proves for any QPs and any scenario `TypeCorrect`, `AccountExact`
(`SkbAccounted`), `NobodyStranded` (`NoStrandedQP`) and `LeaveInOrder` (`SentInOrder`).
`ArbInv` adds `HandsOK`: an arbiter has a QP in its hands exactly between the two critical
sections, and a packet between dequeuing and accounting for it. An account is then the number
of packets of one side that are being built, in the QP's queue and in both arbiters' hands, plus
`unqueued`: the requests that could not be filled and the saved replies, which nothing takes off it.
The account is exact only up to these. The
order needs `AllInOrder`, which says of the packets that wait, too, that they are the next
ones in order, and `DrainAfterFailure`: only `rxe_qp_destroy` runs a second arbiter, and only
after the QP has left READY, so while order is promised there is one. `ArbiterAssumption` gives
the scenarios their types and `MaxSkb` a positive value.

`RxeSRQProofs` proves for any posters, responders, sizes, failures and numbers of resizes:

* `BuffersExact`: `Spec => []BuffersCounted`. `BufInv` adds the types, `Locked` (who holds the
  two locks is told by where everybody is) and `Placed` (which buffers the SRQ and the process
  refer to at each step of a resize, a failing one included).
* `TakenOnceInOrder`: `Spec => []EachTakenOnce`, with `InHand`: between filling a slot and
  advancing the index the slot is still free, and between copying the head and advancing the
  other index the copy is still the head, in spite of resizes.
* `LimitNotMissed`: `Spec => []LimitSignalled`, with `Settled`: while nobody holds
  `consumer_lock` the queue is not below an armed limit that a WQE was taken under, provided that
  the SRQ has an event handler (without one the code neither signals nor disarms, rxe_resp.c:358).

`SRQAssumption` keeps names apart and sizes positive (`rxe_srq_chk_attr`); the module has its
own `RoundupAssumption`.

`RxeRCProofs` proves for every set of scenarios (any losses, early timeouts, limits, drains and
remote keys) and any even PSN space, as long as every send and write has valid local keys
(`LocalKeys`, a condition on the initial state). The requester can then read its data, so it never
calls the completer itself. Without the condition both theorems are false: see `BadLocalKey` in section 3,
where the two calls of the completer meet, complete one WQE twice and take the consumer's index past the
producer's.

* `TypeCorrect`: `Spec /\ LocalKeys => []TypeOK`. The bounds in it are not local. `rd_atomic` is taken by
  the requester and given back by the completer, `dma.resid` is set back by a retry, and a
  receive is taken where the responder has tested for one earlier. `RCInv` holds what they
  rest on: `DepthExact` counts `rd_atomic` in the WQEs that have taken a unit, `Indices` orders
  the three indices of the send queue, `Statuses` ties the state of a WQE to its place, and
  `ReqNet`, `RespNet` and `ResTypes` bound what is in the packets and the responder's resources.
* `FailureThenFlush`: `Spec /\ LocalKeys => [](~env.drains => ErrorThenFlush)`. `FailedIsError` says that
  after a failed completion the QP is in the error state, and `RCInv` that the completer then
  never has a packet in its hands, so it can only flush. The condition on drains is needed: `rxe_qp_error`
  (rxe_qp.c:558) leaves `attr.qp_state` alone, so a QP that has failed can be moved to SQD and
  from there to RTS, and then completes what follows the failure.

The other five invariants of `RC_run` do not hold in every scenario (section 3). They are
proved for the scenarios that are `Orderly`, a condition on the initial state:

* any number of sends and writes of any length up to half of the PSN space, with valid local keys, with or
  without fences and valid remote keys, any window and retry limit;
* any loss of requests, but no lost response and no timer that fires early;
* a receive WQE for every send, from the start;
* no drain, and, if the timer is in use, nothing posted after it may have fired (the scenario's
  lists are longer than half of its work, so that only one call of `post_send` can happen);
* a PSN space of at least 8 (the code's has 2^24), so that the window is below half of it.

Five of these conditions keep out a failure that TLC finds: invalid local keys `BadLocalKey`, lost
responses `NakAsAck`, early timers `Resent`, receives that come late `LateReceives`, posting past the timer `PostedLate`. The two others,
sends and writes only and no drains, are limits of the proof: with lost requests alone
TLC finds no counterexample with reads and atomics (all lists of up to three messages, two losses) or
drains (up to two messages, one loss); `ReadAgain` and `AtomicLost` need an early timer and a lost
response. The theorems are

* `ExecutionInOrder`: `Spec /\ Orderly => []ExecutedOnceInOrder`;
* `SuccessTrue`: `Spec /\ Orderly => []SuccessIsTrue`;
* `AckedExecuted`: `Spec /\ Orderly => []AckedWasExecuted`;
* `RetryWork`: `Spec /\ Orderly => []RetryHasWork`;
* `NoErrorCause`: `Spec /\ Orderly => []NoErrorWithoutCause`.

They share one inductive invariant, `OrderInv`. The messages together are one stream of
packets; `b[m]` is the position of message `m` in it, and `OrderInv` says that there are positions
`c`, `r` of the completer and the requester and a number `a` of acknowledgements such that

* `Positions`: `comp.psn`, `req.psn` and `resp.psn` are the positions `c`, `r` and the number of
  packets executed, taken modulo the PSN space, and all lie within one window. With
  `max_gap` below half of the PSN space `psn_compare` is then the difference of positions
  (`WrapCompare`): the PSNs may wrap any number of times;
* `WqesAt` and `NetAt`: which part of each WQE has been sent, and that the request packets under way are
  in order. The exception is `Stale`: packets left from before a retry, which the
  responder drops because it has sent its NAK and still waits for an earlier one;
* `ExecutedAt`, `ExpectedAt`, `Receives`: the execution log is the stream up to the
  responder's position, `resp.opcode` and `resp.va` continue it, and there is a receive for each
  send whose end is still to come;
* `AnswersAt` and `InStep`: the responses under way are the acknowledgements of the oldest uncompleted
  messages, in order, and at most one NAK behind them. This is what makes the test of
  rxe_comp.c:202 harmless here: a NAK reaches the completer when nothing before it is left to complete;
* `Retrying` and `Timing`: when a retry is pending, or the timer has fired, no response is under way and no
  request packet that would draw one, so two retries never overlap;
* `Calls` and `CompletedAt`: who is scheduled, and that every successful completion is of a
  message the responder has passed.

A responder that has refused a remote key is in error and has no sequence NAK outstanding (`ExpectedAt`);
from then on it may be ahead of what is acknowledged (`InStep`).
`AnswersAt`, `InStep`, `Retrying` and `Timing` hold until the requester is in error; the rest survives
the error state, where the completer flushes and the responder may still execute what is under way.
`OrderInit` and `OrderStep` (one lemma per action) prove it inductive. Before that, TLC checked
`OrderInv` with the positions computed, over all lists of up to three sends and writes of one or two packets
and two lost requests, and smaller ones with failing keys, a window of one and late posts. Of the
scenarios of `RC_run`, `[quietly(SendsWrites, 4) EXCEPT !.req = 3]` is orderly: it loses three requests
of four messages.

`RCAssumption` gives the scenarios their types (`Scenario`), an atomic one packet, and the PSNs
an even modulus.

`RxeMcastProofs` proves for any contexts, QPs, groups and limit on members, in every mode in
which each mgid has a member that stays (`Steady`): `MembersFound`, `ListsConsistent`,
`ReferencesReturned`, and, when in addition the mode lets nobody destroy an attached QP or has
no packets, `NothingFreedIsHeld`. In `McastInv` a group's count is the number of its members
plus what each context holds of it (`RefsCounted`), so a context that is about to drop a
reference never drops the last one (`NotTheLast`); the groups therefore stay as they are, and
the rest of the invariant (`Keys`, `Lasting`, `Hands`) says that one group per mgid is found
and what each context works on. For freed QPs there are two arguments: a consumer that detaches first
leaves no destroyed QP on a list (`Careful`), and without packets the context that drops the
last reference is the only one that cleans up (`Dry`). Neither condition can be dropped: the scenarios
`FirstAttach`, `LastDetach` and `AddFails` of section 3 refute the properties for groups that
come and go, and `FreedMember` for a QP freed under a packet. `McastAssumption` asks that the
contexts, QPs and groups are finite and that the members of the start keep the limit.

TLC evaluates every assumption in the run of its module.

Only model-checked:

* all liveness: fairness and ENABLED are beyond the prover;
* `ExecutedOnceInOrder`, `SuccessIsTrue`, `AckedWasExecuted`, `RetryHasWork` and
  `NoErrorWithoutCause` of `RxeRC` in scenarios that are not orderly. The first four are false in
  some of them (section 3), so no theorem for every scenario can state them; the last has no known
  counterexample, but its proof rests on the same invariant. Reads, atomics and drains with lost requests
  alone are where the theorems could still be widened;
* multicast groups that are created and released, in the modes of `Mcast_run` where one
  context does all of it, or two contexts do it for a group each;
* the direct call of the completer (`Direct` in `RxeRC`), in the scenario of `RC_run` with an
  invalid local key in its first work request;
* `RxeMem`: what its recursive operators compute for every input is beyond the prover.

## 5. Not modelled

UC and UD service, immediate data, inline data, long messages that ask for intermediate
acknowledgements, a full receive CQ, the destruction of a CQ under its tasklet, the header
checks of the receive path (a packet they drop is a lost packet here), rate control, the
attribute checks of `rxe_qp_chk_attr` and `rxe_init_device_param`, registration of the device,
and the `poll_option` patch of the USB host drivers (a few lines in vendored code). In `RxeRC`
a duplicate read that finds the resource of an atomic, or the reverse, is dropped; the code
reads the wrong member of a union, which is undefined. A `do_read` whose copy fails is left out of
`RxeRC` (its data always fit). `RxeMem` leaves the wrap of `iova + length` at 2^64 out of its
instances (the sum is taken modulo `AddrMod`, and no message of `MCRxeMem` is near it).

The rest of the repository is the Linux kernel and other upstream code, some 14.8 million
lines: the models cover the driver this repository is about, which is a very small share of it.

Noticed while reading, outside the models: the comment of `rxe_get_key` speaks of an LFSR of
period 255 (rxe_mr.c:38), its taps give 15; `rxe_release` uses `rxe->ifc_ops` after
`ib_dealloc_device`; `rxe_mem_init_user` sets `umem` before `rxe_mem_init` clears the region;
`min_t(int, (size_t)-1, size)` in `rxe_mem_init_phys` (rxe_mr.c:185, 203) keeps -1, so the test at
line 214 never holds and `page_shift` is never set; `do_read` and `do_atomic` complete a WQE whose copy
failed with its status unset (rxe_comp.c:359, 381); `read_reply` ignores the result of `rxe_mem_copy`; `rxe_qp_error` leaves `attr.qp_state` alone, so
a later modify from RTS leaves the error state.

## 6. Plan

1. `RxeMcast` without `Steady`, when each mgid has one context: groups that come and go. It needs the steps of
   creation and release in `Hands`, and the filter counted in groups.
2. A wider condition than `Orderly` for the theorems about `RxeRC`: reads and atomics need the
   responder's resources in `ExpectedAt` and read responses in `AnswersAt`; drains need the states
   DRAIN and DRAINED in `Calls`.
3. The destruction of a CQ under its tasklet.
