------------------------------ MODULE RxeArbiter ------------------------------
(***************************************************************************)
(* The arbiter (rxe_arbiter.c): the requesters and responders of all QPs   *)
(* queue packets on their QP's send_pkts, and one task per device takes    *)
(* QPs round robin from qp_list and hands one packet of each to the        *)
(* network interface.                                                      *)
(*                                                                         *)
(* A producer is one side of a QP, <<q, "req">> or <<q, "resp">>.  The     *)
(* arbiter function is run by its task and, while a QP is being destroyed, *)
(* also by rxe_qp_destroy itself (without the task's state machine), so    *)
(* Arbs has two members.  What RxeTask shows of a task is used here: runs  *)
(* of the task do not overlap, and a run follows every rxe_run_task.       *)
(***************************************************************************)
EXTENDS Naturals, Sequences, FiniteSets, Functions

CONSTANTS QPs,
          MaxSkb,       \* rxe_max_skb_per_qp
          Scenarios     \* what the producers send and what may go wrong, see below

Sides     == {"req", "resp"}
Producers == QPs \X Sides
Arbs      == {"task", "destroy"}
None      == "none"

\* A scenario: the packets of each producer, and bounds on how often the interface
\* queue stops, how many sends it refuses, how often there is no memory for a packet,
\* how many requests cannot be filled, how many replies answer an atomic, and how many
\* QPs fail and are destroyed.
ASSUME ArbiterAssumption ==
  /\ MaxSkb \in Nat \ {0} /\ None \notin QPs
  /\ Scenarios \subseteq [pkts : [Producers -> Nat], stops : Nat, errors : Nat,
                          no_skb : Nat, bad_fills : Nat, atomics : Nat,
                          fails : Nat, destroys : Nat]

VARIABLES
  send_pkts,    \* per QP: packets waiting, each <<side, number>>
  qp_list,      \* rxe->arbiter.qp_list
  skb_out,      \* per producer: req_skb_out, resp_skb_out
  need_req_skb, \* per QP
  run_req,      \* per QP: the requester task is scheduled
  ready,        \* per QP: req.state and resp.state are READY, and valid
  ppc,          \* per producer: its step, up to the end of arbiter_skb_queue
  made,         \* per producer: packets queued so far
  unqueued,     \* history, per producer: packets counted that are never queued
  run_arb,      \* the arbiter task has been told to run
  apc, aqp,     \* per arbiter: step, and the QP taken from the list
  askb,         \* per arbiter: the packet it has dequeued, in a sequence
  stopped,      \* the interface queue is stopped
  wire,         \* history, per producer: its packets sent or dropped, in order
  refused,      \* history: the interface has not taken some packet
  destroyed,    \* QPs whose rxe_qp_destroy has returned
  env           \* the scenario, its bounds less what has happened
qpvars == <<need_req_skb, run_req, ready, destroyed>>
avars  == <<run_arb, apc, aqp, askb>>
nvars  == <<stopped, refused, env>>
vars   == <<send_pkts, qp_list, skb_out, ppc, made, unqueued, wire, qpvars, avars, nvars>>

Init ==
  /\ send_pkts = [q \in QPs |-> <<>>]
  /\ qp_list = <<>>
  /\ skb_out = [p \in Producers |-> 0]
  /\ need_req_skb = [q \in QPs |-> FALSE]
  /\ run_req = [q \in QPs |-> TRUE]
  /\ ready = [q \in QPs |-> TRUE]
  /\ ppc = [p \in Producers |-> "idle"]
  /\ made = [p \in Producers |-> 0] /\ unqueued = [p \in Producers |-> 0]
  /\ run_arb = FALSE
  /\ apc = [a \in Arbs |-> "idle"] /\ aqp = [a \in Arbs |-> None]
  /\ askb = [a \in Arbs |-> <<>>]
  /\ stopped = FALSE /\ refused = FALSE /\ env \in Scenarios
  /\ wire = [p \in Producers |-> <<>>]
  /\ destroyed = {}

OnList(q) == \E i \in 1 .. Len(qp_list) : qp_list[i] = q

-----------------------------------------------------------------------------
(* The producers: rxe_requester, the responder's reply paths, and            *)
(* arbiter_skb_queue                                                         *)

\* rxe_requester finds too many of its packets still queued: it will stop.
ThrottleTest(q) ==
  LET p == <<q, "req">> IN
  /\ ppc[p] = "idle" /\ ready[q] /\ run_req[q]
  /\ made[p] < env.pkts[p] /\ skb_out[p] > MaxSkb
  /\ run_req' = [run_req EXCEPT ![q] = FALSE]
  /\ ppc' = [ppc EXCEPT ![p] = "throttle"]
  /\ UNCHANGED <<send_pkts, qp_list, skb_out, made, unqueued, wire, need_req_skb, ready,
                 destroyed, avars, nvars>>

\* Only then it asks to be woken.
ThrottleSet(q) ==
  /\ ppc[<<q, "req">>] = "throttle"
  /\ need_req_skb' = [need_req_skb EXCEPT ![q] = TRUE]
  /\ ppc' = [ppc EXCEPT ![<<q, "req">>] = "idle"]
  /\ UNCHANGED <<send_pkts, qp_list, skb_out, made, unqueued, wire, run_req, ready, destroyed,
                 avars, nvars>>

\* The producer has a packet to build: rxe_requester below its limit, the responder
\* with a reply to give.
may_build(q, side) ==
  LET p == <<q, side>> IN
  /\ ppc[p] = "idle" /\ ready[q] /\ made[p] < env.pkts[p]
  /\ side = "req" => run_req[q] /\ skb_out[p] <= MaxSkb

\* init_packet has no memory: the requester will stop, and asks to be woken as when
\* it is throttled.
BuildFails(q) ==
  /\ may_build(q, "req") /\ env.no_skb > 0
  /\ env' = [env EXCEPT !.no_skb = @ - 1]
  /\ run_req' = [run_req EXCEPT ![q] = FALSE]
  /\ ppc' = [ppc EXCEPT ![<<q, "req">>] = "throttle"]
  /\ UNCHANGED <<send_pkts, qp_list, skb_out, made, unqueued, wire, need_req_skb, ready,
                 destroyed, avars, stopped, refused>>

\* init_req_packet, prepare_ack_packet, the clone of a saved reply: a packet is there,
\* and counted.
Build(q, side) ==
  /\ may_build(q, side)
  /\ skb_out' = [skb_out EXCEPT ![<<q, side>>] = @ + 1]
  /\ ppc' = [ppc EXCEPT ![<<q, side>>] = "built"]
  /\ UNCHANGED <<send_pkts, qp_list, made, unqueued, wire, qpvars, avars, nvars>>

\* fill_packet fails: the request is left as it is, counted and never queued.
FillFails(q) ==
  LET p == <<q, "req">> IN
  /\ ppc[p] = "built" /\ env.bad_fills > 0
  /\ env' = [env EXCEPT !.bad_fills = @ - 1]
  /\ unqueued' = [unqueued EXCEPT ![p] = @ + 1]
  /\ ppc' = [ppc EXCEPT ![p] = "idle"]
  /\ UNCHANGED <<send_pkts, qp_list, skb_out, made, wire, qpvars, avars, stopped, refused>>

\* send_atomic_ack: the reply is saved as a responder resource, to be cloned for
\* duplicates, and a clone of it, counted too, is what is sent.  When the resource is
\* freed only the device's counter is taken down, so the QP's keeps the saved reply.
SaveReply(q) ==
  LET p == <<q, "resp">> IN
  /\ ppc[p] = "built" /\ env.atomics > 0
  /\ env' = [env EXCEPT !.atomics = @ - 1]
  /\ skb_out' = [skb_out EXCEPT ![p] = @ + 1]
  /\ unqueued' = [unqueued EXCEPT ![p] = @ + 1]
  /\ ppc' = [ppc EXCEPT ![p] = "cloned"]
  /\ UNCHANGED <<send_pkts, qp_list, made, wire, qpvars, avars, stopped, refused>>

\* arbiter_skb_queue: the packet is put at the end of send_pkts.
Queue(q, side) ==
  LET p == <<q, side>> IN
  /\ ppc[p] \in {"built", "cloned"}
  /\ made' = [made EXCEPT ![p] = @ + 1]
  /\ send_pkts' = [send_pkts EXCEPT ![q] = Append(@, <<side, made[p] + 1>>)]
  /\ ppc' = [ppc EXCEPT ![p] = "list"]
  /\ UNCHANGED <<qp_list, skb_out, unqueued, wire, qpvars, avars, nvars>>

\* Mutant: list_empty is not tested.
Enlist_twice(q, side) ==
  LET p == <<q, side>> IN
  /\ ppc[p] = "list"
  /\ qp_list' = Append(qp_list, q)
  /\ ppc' = [ppc EXCEPT ![p] = "run"]
  /\ UNCHANGED <<send_pkts, skb_out, made, unqueued, wire, qpvars, avars, nvars>>

\* list_lock: the QP joins the list unless it is on it.
Enlist(q, side) ==
  LET p == <<q, side>> IN
  /\ ppc[p] = "list"
  /\ qp_list' = IF OnList(q) THEN qp_list ELSE Append(qp_list, q)
  /\ ppc' = [ppc EXCEPT ![p] = "run"]
  /\ UNCHANGED <<send_pkts, skb_out, made, unqueued, wire, qpvars, avars, nvars>>

\* Mutant: the task is left to whoever queues the next packet.
RunArbiter_forgotten(q, side) ==
  LET p == <<q, side>> IN
  /\ ppc[p] = "run"
  /\ ppc' = [ppc EXCEPT ![p] = "idle"]
  /\ UNCHANGED <<send_pkts, qp_list, skb_out, made, unqueued, wire, qpvars, avars, nvars>>

\* rxe_run_task(&rxe->arbiter.task, must_sched)
RunArbiter(q, side) ==
  LET p == <<q, side>> IN
  /\ ppc[p] = "run"
  /\ run_arb' = TRUE
  /\ ppc' = [ppc EXCEPT ![p] = "idle"]
  /\ UNCHANGED <<send_pkts, qp_list, skb_out, made, unqueued, wire, qpvars, apc, aqp, askb,
                 nvars>>

-----------------------------------------------------------------------------
(* rxe_arbiter *)

\* The task begins to call rxe_arbiter.
TaskStart ==
  /\ run_arb /\ apc["task"] = "idle"
  /\ run_arb' = FALSE
  /\ apc' = [apc EXCEPT !["task"] = "pick"]
  /\ UNCHANGED <<send_pkts, qp_list, skb_out, ppc, made, unqueued, wire, qpvars, aqp, askb,
                 nvars>>

\* The list is empty: return 1, the task ends.
PickNone(a) ==
  /\ apc[a] = "pick" /\ qp_list = <<>>
  /\ apc' = [apc EXCEPT ![a] = "idle"]
  /\ UNCHANGED <<send_pkts, qp_list, skb_out, ppc, made, unqueued, wire, qpvars, run_arb,
                 aqp, askb, nvars>>

\* The first QP is taken off the list.
Pick(a) ==
  /\ apc[a] = "pick" /\ qp_list # <<>>
  /\ aqp' = [aqp EXCEPT ![a] = Head(qp_list)]
  /\ qp_list' = Tail(qp_list)
  /\ apc' = [apc EXCEPT ![a] = "dequeue"]
  /\ UNCHANGED <<send_pkts, skb_out, ppc, made, unqueued, wire, qpvars, run_arb, askb,
                 nvars>>

\* Mutant: only request packets are taken off the account.
account_skb_req_only(q, side) ==
  /\ skb_out' = [skb_out EXCEPT ![<<q, "req">>] = IF side = "req" THEN @ - 1 ELSE @]
  /\ run_req' = [run_req EXCEPT ![q] =
       @ \/ (side = "req" /\ need_req_skb[q] /\ skb_out[<<q, side>>] - 1 < MaxSkb)]

\* Mutant: a throttled requester is not woken.
account_skb_no_wakeup(q, side) ==
  /\ skb_out' = [skb_out EXCEPT ![<<q, side>>] = @ - 1]
  /\ UNCHANGED run_req

\* account_skb: the packet is off the QP's account; wake a throttled requester.
account_skb(q, side) ==
  /\ skb_out' = [skb_out EXCEPT ![<<q, side>>] = @ - 1]
  /\ run_req' = [run_req EXCEPT ![q] =
       @ \/ (side = "req" /\ need_req_skb[q] /\ skb_out[<<q, side>>] - 1 < MaxSkb)]

\* skb_dequeue finds nothing: the packet has already been taken.
DequeueNone(a) ==
  /\ apc[a] = "dequeue" /\ send_pkts[aqp[a]] = <<>>
  /\ apc' = [apc EXCEPT ![a] = "readd"]
  /\ UNCHANGED <<send_pkts, qp_list, skb_out, ppc, made, unqueued, wire, qpvars, run_arb,
                 aqp, askb, nvars>>

Dequeue(a) ==
  LET q == aqp[a] IN
  /\ apc[a] = "dequeue" /\ send_pkts[q] # <<>>
  /\ askb' = [askb EXCEPT ![a] = <<Head(send_pkts[q])>>]
  /\ send_pkts' = [send_pkts EXCEPT ![q] = Tail(@)]
  /\ apc' = [apc EXCEPT ![a] = "xmit"]
  /\ UNCHANGED <<qp_list, skb_out, ppc, made, unqueued, wire, qpvars, run_arb, aqp, nvars>>

\* The packet is gone: sent, refused, or dropped.
consume_skb(a) ==
  LET skb == askb[a][1]
      p   == <<aqp[a], skb[1]>>
  IN  /\ wire' = [wire EXCEPT ![p] = Append(@, skb)]
      /\ askb' = [askb EXCEPT ![a] = <<>>]
      /\ account_skb(aqp[a], skb[1])

\* xmit_one_packet returns 0: sent, or dropped because the QP is not in a state
\* to send.
XmitSent(a) ==
  /\ apc[a] = "xmit"
  /\ ready[aqp[a]] => ~stopped
  /\ consume_skb(a)
  /\ apc' = [apc EXCEPT ![a] = "readd"]
  /\ UNCHANGED <<send_pkts, qp_list, ppc, made, unqueued, need_req_skb, ready,
                 destroyed, run_arb, aqp, nvars>>

\* After an error the task is scheduled again and rxe_arbiter returns 1; the
\* QP has been taken off the list and is not put back.
give_up(a) ==
  /\ run_arb' = TRUE
  /\ apc' = [apc EXCEPT ![a] = "idle"]
  /\ aqp' = [aqp EXCEPT ![a] = None]
  /\ refused' = TRUE

\* Mutant: the packet goes back to the tail of send_pkts.
XmitStopped_to_tail(a) ==
  LET q == aqp[a] IN
  /\ apc[a] = "xmit" /\ ready[q] /\ stopped
  /\ send_pkts' = [send_pkts EXCEPT ![q] = @ \o askb[a]]
  /\ askb' = [askb EXCEPT ![a] = <<>>]
  /\ give_up(a)
  /\ UNCHANGED <<qp_list, skb_out, ppc, made, unqueued, wire, qpvars, stopped, env>>

\* xmit_one_packet returns RXE_QUEUE_STOPPED: the packet goes back to the head.
XmitStopped(a) ==
  LET q == aqp[a] IN
  /\ apc[a] = "xmit" /\ ready[q] /\ stopped
  /\ send_pkts' = [send_pkts EXCEPT ![q] = askb[a] \o @]
  /\ askb' = [askb EXCEPT ![a] = <<>>]
  /\ give_up(a)
  /\ UNCHANGED <<qp_list, skb_out, ppc, made, unqueued, wire, qpvars, stopped, env>>

\* xmit_one_packet returns another error: the packet is consumed.
XmitError(a) ==
  /\ apc[a] = "xmit" /\ ready[aqp[a]] /\ ~stopped /\ env.errors > 0
  /\ env' = [env EXCEPT !.errors = @ - 1]
  /\ consume_skb(a)
  /\ give_up(a)
  /\ UNCHANGED <<send_pkts, qp_list, ppc, made, unqueued, need_req_skb, ready,
                 destroyed, stopped>>

\* Mutant: the QP is left for its producer to put back.
Readd_forgotten(a) ==
  /\ apc[a] = "readd"
  /\ aqp' = [aqp EXCEPT ![a] = None]
  /\ apc' = [apc EXCEPT ![a] = "pick"]
  /\ UNCHANGED <<send_pkts, qp_list, skb_out, ppc, made, unqueued, wire, qpvars, run_arb,
                 askb, nvars>>

\* list_lock: a QP with more packets goes to the end of the list; return 0.
Readd(a) ==
  LET q == aqp[a] IN
  /\ apc[a] = "readd"
  /\ qp_list' = IF ~OnList(q) /\ send_pkts[q] # <<>>
                THEN Append(qp_list, q) ELSE qp_list
  /\ aqp' = [aqp EXCEPT ![a] = None]
  /\ apc' = [apc EXCEPT ![a] = "pick"]
  /\ UNCHANGED <<send_pkts, skb_out, ppc, made, unqueued, wire, qpvars, run_arb, askb,
                 nvars>>

-----------------------------------------------------------------------------
(* The environment: the interface, and the QP's life *)

\* The interface queue stops, and later starts again.
Stop ==
  /\ ~stopped /\ env.stops > 0
  /\ stopped' = TRUE /\ env' = [env EXCEPT !.stops = @ - 1]
  /\ UNCHANGED <<send_pkts, qp_list, skb_out, ppc, made, unqueued, wire, qpvars, avars, refused>>

Restart ==
  /\ stopped /\ stopped' = FALSE
  /\ UNCHANGED <<send_pkts, qp_list, skb_out, ppc, made, unqueued, wire, qpvars, avars,
                 refused, env>>

\* The QP leaves the READY state: its packets will be dropped.
QPError(q) ==
  /\ ready[q] /\ env.fails > 0
  /\ env' = [env EXCEPT !.fails = @ - 1]
  /\ ready' = [ready EXCEPT ![q] = FALSE]
  /\ UNCHANGED <<send_pkts, qp_list, skb_out, ppc, made, unqueued, wire, need_req_skb,
                 run_req, destroyed, avars, stopped, refused>>

\* rxe_qp_destroy, after the QP's own tasks have ended: while the QP is on the
\* list, rxe_arbiter is called in a loop.
DestroyDrain(q) ==
  /\ env.destroys > 0 /\ q \notin destroyed
  /\ ~ready[q] /\ \A s \in Sides : ppc[<<q, s>>] = "idle"
  /\ OnList(q) /\ apc["destroy"] = "idle"
  /\ apc' = [apc EXCEPT !["destroy"] = "pick"]
  /\ UNCHANGED <<send_pkts, qp_list, skb_out, ppc, made, unqueued, wire, qpvars, run_arb,
                 aqp, askb, nvars>>

DestroyEnd(q) ==
  /\ env.destroys > 0 /\ q \notin destroyed
  /\ ~ready[q] /\ \A s \in Sides : ppc[<<q, s>>] = "idle"
  /\ ~OnList(q) /\ apc["destroy"] = "idle"
  /\ destroyed' = destroyed \cup {q}
  /\ env' = [env EXCEPT !.destroys = @ - 1]
  /\ UNCHANGED <<send_pkts, qp_list, skb_out, ppc, made, unqueued, wire, need_req_skb,
                 run_req, ready, avars, stopped, refused>>

-----------------------------------------------------------------------------
ArbStep(a) ==
  \/ PickNone(a) \/ Pick(a)
  \/ DequeueNone(a) \/ Dequeue(a) \/ XmitSent(a) \/ XmitStopped(a) \/ XmitError(a)
  \/ Readd(a)

Produce(q, side) ==
  Build(q, side) \/ Queue(q, side) \/ Enlist(q, side) \/ RunArbiter(q, side)

Next ==
  \/ \E q \in QPs, side \in Sides : Produce(q, side)
  \/ \E q \in QPs :
       \/ ThrottleTest(q) \/ ThrottleSet(q) \/ BuildFails(q) \/ FillFails(q) \/ SaveReply(q)
       \/ QPError(q) \/ DestroyDrain(q) \/ DestroyEnd(q)
  \/ \E a \in Arbs : ArbStep(a)
  \/ TaskStart
  \/ Stop
  \/ Restart

Spec == Init /\ [][Next]_vars

\* Producers and the arbiter run on; a stopped interface queue starts again.
Fairness ==
  /\ \A q \in QPs, side \in Sides : WF_vars(Produce(q, side))
  /\ \A q \in QPs : WF_vars(ThrottleSet(q))
  /\ \A a \in Arbs : WF_vars(ArbStep(a))
  /\ WF_vars(TaskStart) /\ WF_vars(Restart)

FairSpec == Spec /\ Fairness

-----------------------------------------------------------------------------
(* Properties *)

(* Types of the state of rxe_arbiter.c; a QP is on qp_list at most once,     *)
(* which list_add_tail of an embedded list_head requires.                    *)
TypeOK ==
  /\ send_pkts \in [QPs -> Seq(Sides \X (Nat \ {0}))]
  /\ qp_list \in Seq(QPs) /\ IsInjective(qp_list)
  /\ skb_out \in [Producers -> Nat]
  /\ need_req_skb \in [QPs -> BOOLEAN] /\ run_req \in [QPs -> BOOLEAN]
  /\ ready \in [QPs -> BOOLEAN]
  /\ ppc \in [Producers -> {"idle", "throttle", "built", "cloned", "list", "run"}]
  /\ made \in [Producers -> Nat] /\ unqueued \in [Producers -> Nat]
  /\ run_arb \in BOOLEAN
  /\ apc \in [Arbs -> {"idle", "pick", "dequeue", "xmit", "readd"}]
  /\ aqp \in [Arbs -> QPs \cup {None}]
  /\ askb \in [Arbs -> Seq(Sides \X (Nat \ {0}))]
  /\ stopped \in BOOLEAN /\ refused \in BOOLEAN
  /\ wire \in [Producers -> Seq(Sides \X (Nat \ {0}))]
  /\ destroyed \subseteq QPs

\* The places of side s's packets among pkts.
OfSide(pkts, s) == {i \in 1 .. Len(pkts) : pkts[i][1] = s}

\* The packet of QP q that an arbiter has dequeued and not yet sent, if any.
Held(a, q) == IF aqp[a] = q THEN askb[a] ELSE <<>>

\* The packet a producer has counted and is about to queue.
InMaking(p) == IF ppc[p] \in {"built", "cloned"} THEN 1 ELSE 0

(* A QP's req_skb_out and resp_skb_out count the packets of that side being  *)
(* built, waiting on send_pkts or in an arbiter's hands, once each, on every *)
(* path of xmit_one_packet (sent, dropped, refused, put back after           *)
(* RXE_QUEUE_STOPPED), and beyond these only the packets that never reach    *)
(* send_pkts: requests whose fill_packet failed and replies saved for        *)
(* duplicates, which nothing takes off the QP's account.  A packet taken off *)
(* twice or never would throttle the requester for ever or not at all.       *)
SkbAccounted ==
  \A q \in QPs, s \in Sides :
     skb_out[<<q, s>>] = unqueued[<<q, s>>] + InMaking(<<q, s>>)
                         + Cardinality(OfSide(send_pkts[q], s))
                         + Cardinality(OfSide(Held("task", q), s))
                         + Cardinality(OfSide(Held("destroy", q), s))

(* The packets of one side of a QP reach the interface in the order in which *)
(* they were queued, with none missing in between (the responder would answer *)
(* a gap with a NAK), also when one is put back after RXE_QUEUE_STOPPED      *)
(* while its producer queues another.  Once a QP has failed rxe_qp_destroy   *)
(* may run a second arbiter, which can overtake the first.                   *)
SentInOrder ==
  (\A q \in QPs : ready[q]) =>
  \A q \in QPs, s \in Sides :
     LET sent == wire[<<q, s>>]
         left == Held("task", q) \o send_pkts[q]
     IN  /\ \A i \in 1 .. Len(sent) : sent[i] = <<s, i>>
         /\ \A i, j \in OfSide(left, s) : i < j => left[i][2] < left[j][2]
         /\ {left[i][2] : i \in OfSide(left, s)} = Len(sent) + 1 .. made[<<q, s>>]

(* A QP with packets waiting is on the list, in the hands of the arbiter, or *)
(* about to be put on the list by the producer: arbiter_skb_queue and the    *)
(* re-insertion in rxe_arbiter never both leave it to the other.  It holds   *)
(* until the interface refuses a packet for the first time.                  *)
NoStrandedQP ==
  \A q \in QPs : send_pkts[q] # <<>> =>
    \/ OnList(q)
    \/ \E a \in Arbs : aqp[a] = q
    \/ \E s \in Sides : ppc[<<q, s>>] = "list"
    \/ refused

(* Every packet queued is sent or dropped in the end, as long as the         *)
(* interface refuses none: arbiter_skb_queue's rxe_run_task and the task's   *)
(* own loop together lose no wake-up.                                        *)
EverythingLeaves == \A q \in QPs : []<>(refused \/ send_pkts[q] = <<>>)

(* A requester that has asked to be woken while packets of it are on their   *)
(* way is woken by account_skb, as long as fewer than rxe_max_skb_per_qp of  *)
(* its packets were lost to the account by fill_packet.  (It tests           *)
(* req_skb_out, or finds no memory, and sets need_req_skb in two steps: when *)
(* its last packet leaves in between, nothing wakes it.)                     *)
ThrottledResumes ==
  \A q \in QPs :
     LET p == <<q, "req">> IN
     need_req_skb[q] /\ skb_out[p] > unqueued[p]
       ~> run_req[q] \/ refused \/ ~ready[q] \/ unqueued[p] >= MaxSkb

(* The stronger promise, which that window breaks: a throttled requester     *)
(* sends the rest of its packets.                                            *)
AllBuilt ==
  \A q \in QPs :
     []<>(ready[q] /\ ~refused => made[<<q, "req">>] = env.pkts[<<q, "req">>])

(* What rxe_arbiter.c says of a refused packet: "we can recover from         *)
(* RXE_QUEUE_STOPPED errors by retrying the packet", so every packet leaves. *)
StoppedRecovers == \A q \in QPs : []<>(send_pkts[q] = <<>>)
=============================================================================
