-------------------------------- MODULE RxeRC --------------------------------
(***************************************************************************)
(* A reliable connection: the requester (rxe_req.c) and the completer      *)
(* (rxe_comp.c) of one QP and the responder (rxe_resp.c) of the QP it is   *)
(* connected to, over a network that keeps packets in order and may lose   *)
(* them.                                                                   *)
(*                                                                         *)
(* A message is one send WR: a send, an RDMA write, an RDMA read or a      *)
(* fetch-and-add of 1.  Its length is counted in packets (the MTU is 1),   *)
(* and an address is the offset in the remote buffer of that message.      *)
(* PSNs are counted modulo PsnMod, 2^24 in the code.  Every message fits   *)
(* in rxe_max_pkt_per_ack packets, so only its last packet asks for an     *)
(* acknowledgement, and every WR is signalled.                             *)
(*                                                                         *)
(* RxeTask shows that a task's function is run again after every           *)
(* rxe_run_task and until it returns non-zero; run says which tasks will   *)
(* be called.  The tasks of one QP run concurrently: a call of the         *)
(* requester is one step except where it decides to wait, and a call of    *)
(* the completer is one step per WQE it looks at (RxeCompleter).  When the *)
(* requester cannot read the data of a WQE it calls the completer itself,  *)
(* next to the task; that call looks up the oldest WQE in one step and     *)
(* acts on it in another.                                                  *)
(***************************************************************************)
EXTENDS Integers, Sequences, FiniteSets, FiniteSetsExt, SequencesExt

CONSTANTS
  Scenarios,    \* what the application posts and what may go wrong, see below
  PsnMod,       \* PSNs are numbers modulo PsnMod
  InitPsn       \* first PSN

\* A work request, as the application posts it.
WR == [op : {"send", "write", "read", "atomic"}, n : Nat \ {0},
       fence : BOOLEAN, lkey : BOOLEAN, rkey : BOOLEAN]

\* A scenario: the WRs, how many of them one call of rxe_post_send posts, whether
\* the retransmission timer is in use (attr.timeout # 0), the receive WQEs posted
\* before the first message, and bounds: on the receive WQEs posted later, on the
\* request and the response packets lost, on the retransmission timeouts while
\* packets are under way, and on the packets under way together.  drains says
\* whether the application drains the send queue now and then.  Then what limits
\* the QPs: attr.max_rd_atomic, attr.retry_cnt and attr.rnr_retry (7 means no
\* limit), and rxe_max_req_comp_gap.
Scenario == [wrs : Seq(WR), list : Nat \ {0}, timeout : BOOLEAN, drains : BOOLEAN,
             rq : Nat, recv : Nat, req : Nat, resp : Nat, early : Nat, net : Nat,
             max_rd_atomic : 0 .. 7, retry_cnt : 0 .. 7, rnr_retry : 0 .. 7,
             max_gap : 0 .. PsnMod \div 4]

ASSUME RCAssumption ==
  /\ \A s \in Scenarios :
        /\ s \in Scenario
        /\ \A m \in 1 .. Len(s.wrs) : s.wrs[m].op = "atomic" => s.wrs[m].n = 1
  /\ PsnMod \in Nat /\ PsnMod % 2 = 0 /\ InitPsn \in 0 .. PsnMod - 1

VARIABLES
  posted,     \* number of messages posted: the producer index of the SQ
  sq,         \* per message: its send WQE
  req,        \* qp->req, and attr.qp_state
  comp,       \* qp->comp
  rpc,        \* requester: "idle", about to set "wait_fence" or "wait_psn", or in its
              \*   call of the completer: "call", "wqe" or, with dwqe, "taken"
  dpkt, dwqe, \* that call: the packet it has dequeued, the WQE it has looked up
  cpc,        \* completer: "idle", or "wqe" in the loop of rxe_completer
  cpkt,       \* completer: the packet it has dequeued, in a sequence
  run,        \* tasks that will be called: subset of {"req", "comp"}
  timers,     \* timers pending: subset of {"retrans", "rnr"}
  reqnet,     \* request packets: in the network, then in req_pkts
  respnet,    \* response packets: in the network, then in resp_pkts
  resp,       \* qp->resp of the other QP
  res,        \* its responder resources
  rq,         \* its receive queue: number of WQEs
  mem,        \* the word that atomics add to
  executed,   \* history: what the responder executed, in order
  cqes,       \* history: send completions, in order
  env         \* the bounds of the scenario, less what has happened

direct   == <<dpkt, dwqe>>
reqvars  == <<posted, sq, req, rpc, direct>>
compvars == <<comp, cpc, cpkt, cqes>>
respvars == <<resp, res, rq, mem, executed>>
vars == <<reqvars, compvars, run, timers, reqnet, respnet, respvars, env>>

-----------------------------------------------------------------------------
(* PSNs, WQEs and packets *)

\* init_send_wqe
new_wqe(wr) ==
  [op |-> wr.op, n |-> wr.n, fence |-> wr.fence, lkey |-> wr.lkey, rkey |-> wr.rkey,
   resid |-> wr.n, iova |-> 0, state |-> "posted", status |-> "SUCCESS",
   first_psn |-> 0, last_psn |-> 0, has_rd_atomic |-> FALSE, data |-> <<>>]

no_res == [type |-> "none", first_psn |-> 0, last_psn |-> 0, cur_psn |-> 0,
           msg |-> 0, va_org |-> 0, va |-> 0, resid |-> 0, length |-> 0,
           state |-> "new", orig |-> 0]

Init ==
  \E s \in Scenarios :
  /\ env = [s EXCEPT !.wrs = <<>>]
  /\ sq = [m \in 1 .. Len(s.wrs) |-> new_wqe(s.wrs[m])]
  /\ posted = 0
  /\ req = [state |-> "READY", qp_state |-> "RTS", psn |-> InitPsn,
            wqe_index |-> 1, opcode |-> "none",
            need_retry |-> FALSE, wait_psn |-> FALSE, wait_fence |-> FALSE,
            rd_atomic |-> s.max_rd_atomic, need_rd_atomic |-> FALSE]
  /\ comp = [psn |-> InitPsn, opcode |-> "none", timeout |-> FALSE,
             timeout_retry |-> FALSE, retry_cnt |-> s.retry_cnt,
             rnr_retry |-> s.rnr_retry]
  /\ rpc = "idle" /\ dpkt = <<>> /\ dwqe = 0 /\ cpc = "idle" /\ cpkt = <<>>
  /\ run = {} /\ timers = {}
  /\ reqnet = <<>> /\ respnet = <<>>
  /\ resp = [state |-> "READY", psn |-> InitPsn, opcode |-> "none",
             sent_psn_nak |-> FALSE, res |-> 0, res_head |-> 1, va |-> 0]
  /\ res = [i \in 1 .. s.max_rd_atomic |-> no_res]
  /\ rq = s.rq
  /\ mem = 0
  /\ executed = <<>> /\ cqes = <<>>

Msgs == DOMAIN sq

\* The consumer index of the SQ: every WQE before it has been completed.
head == Len(cqes) + 1

\* The completer's task.
INSTANCE RxeCompleter
  WITH wqe <- head, called <- ("comp" \in run /\ cpc = "idle"), acting <- "wqe",
       again <- {"comp"}, other <- <<rpc, direct, reqnet, respvars>>

\* The call in rxe_requester.
Direct == INSTANCE RxeCompleter
  WITH cpc <- rpc, cpkt <- dpkt, wqe <- dwqe, called <- (rpc = "call"),
       acting <- "taken", again <- {}, other <- <<cpc, cpkt, dwqe, reqnet, respvars>>

-----------------------------------------------------------------------------
(* rxe_post_send and rxe_post_recv *)

\* One call posts a list of WRs.
Post ==
  /\ posted + env.list <= Len(sq) /\ req.state # "ERROR"
  /\ posted' = posted + env.list
  /\ run' = run \cup {"req"}
  /\ UNCHANGED <<sq, req, rpc, direct, compvars, timers, reqnet, respnet, respvars, env>>

PostRecv ==
  /\ env.recv > 0
  /\ env' = [env EXCEPT !.recv = @ - 1]
  /\ rq' = rq + 1
  /\ UNCHANGED <<reqvars, compvars, run, timers, reqnet, respnet, resp, res, mem,
                 executed>>

\* rxe_modify_qp to SQD (rxe_qp_drain).
Drain ==
  /\ env.drains /\ (req.qp_state = "SQD" => req.state # "DRAIN")
  /\ req' = [req EXCEPT !.qp_state = "SQD",
                        !.state = IF @ = "DRAINED" THEN @ ELSE "DRAIN"]
  /\ run' = IF req.state = "DRAINED" THEN run ELSE run \cup {"req", "comp"}
  /\ UNCHANGED <<posted, sq, rpc, direct, compvars, timers, reqnet, respnet, respvars, env>>

\* ... and back to RTS, which is refused while the queue drains and runs no task.
Resume ==
  /\ req.qp_state = "SQD" /\ req.state # "DRAIN"
  /\ req' = [req EXCEPT !.qp_state = "RTS", !.state = "READY"]
  /\ UNCHANGED <<posted, sq, rpc, direct, compvars, run, timers, reqnet, respnet,
                 respvars, env>>

-----------------------------------------------------------------------------
(* rxe_requester *)

Requester == "req" \in run /\ rpc = "idle"

ReqExit == run' = run \ {"req"}

ReqError ==
  /\ Requester /\ req.state = "ERROR"
  /\ ReqExit
  /\ UNCHANGED <<reqvars, compvars, timers, reqnet, respnet, respvars, env>>

\* Mutant: the offset of the oldest WQE goes back, its remaining length does not.
retried_iova_only(m, npsn) == [sq[m] EXCEPT !.iova = 0, !.state = "posted"]

\* req_retry: the WQEs that have been started, with the acknowledged part of
\* the oldest one skipped.
retried(m, npsn) ==
  LET w     == sq[m]
      first == m = head
      keep  == first /\ w.op = "read"
  IN  [w EXCEPT
         !.iova  = IF first /\ w.op \in {"read", "write"} THEN npsn ELSE 0,
         !.resid = IF keep THEN @
                   ELSE IF first /\ ~IsReadAtomic(w.op)
                        THEN IF npsn < w.n THEN w.n - npsn ELSE 0
                        ELSE w.n,
         !.data  = IF keep THEN @ ELSE <<>>,
         !.state = "posted"]

\* The opcode that retry_first_write_send leaves in req.opcode.
retried_opcode(npsn) ==
  IF ~IsReadAtomic(sq[head].op) /\ 0 < npsn /\ npsn < sq[head].n
  THEN sq[head].op ELSE "none"

ReqRetry ==
  LET npsn == (comp.psn - sq[head].first_psn) % PsnMod
      todo == {m \in head .. posted : \A k \in head .. m : sq[k].state # "posted"}
  IN
  /\ Requester /\ req.state # "ERROR" /\ req.need_retry
  /\ sq' = [m \in Msgs |-> IF m \in todo THEN retried(m, npsn) ELSE sq[m]]
  /\ req' = [req EXCEPT !.wqe_index = head, !.psn = comp.psn,
                        !.opcode = IF todo = {} THEN "none" ELSE retried_opcode(npsn),
                        !.need_retry = FALSE]
  /\ UNCHANGED <<posted, rpc, direct, compvars, run, timers, reqnet, respnet, respvars,
                 env>>

\* The rest of the call, when there is nothing to retry.
ReqGo == Requester /\ req.state # "ERROR" /\ ~req.need_retry

\* req_next_wqe: while draining, nothing is outstanding any more.
drained == /\ req.state = "DRAIN"
           /\ head <= posted => req.wqe_index = head /\ sq[head].state = "posted"

\* While draining or drained only a message that has been begun is sent.
held(m) == req.state \in {"DRAIN", "DRAINED"} /\ sq[m].state # "processing"

\* IB_EVENT_SQ_DRAINED is reported, and the WQE after it is held back.
ReqDrained ==
  /\ ReqGo /\ drained
  /\ req' = [req EXCEPT !.state = "DRAINED"]
  /\ ReqExit
  /\ UNCHANGED <<posted, sq, rpc, direct, compvars, timers, reqnet, respnet, respvars, env>>

\* req_next_wqe finds no WQE, or one that is held back.
ReqNone ==
  /\ ReqGo /\ ~drained
  /\ req.wqe_index <= posted => held(req.wqe_index)
  /\ ReqExit
  /\ UNCHANGED <<reqvars, compvars, timers, reqnet, respnet, respvars, env>>

fenced(m)   == sq[m].fence /\ m # head
out_of_window == psn_compare(req.psn, psn_add(comp.psn, env.max_gap)) > 0
no_depth(m) == /\ IsReadAtomic(sq[m].op)
               /\ ~sq[m].has_rd_atomic /\ req.rd_atomic = 0

\* The WQE is fenced and not the oldest, or too much is unacknowledged: the
\* test has been made and the flag is not yet set.
ReqTestWait ==
  /\ ReqGo /\ req.wqe_index <= posted /\ ~held(req.wqe_index)
  /\ \/ fenced(req.wqe_index) /\ rpc' = "wait_fence"
     \/ ~fenced(req.wqe_index) /\ out_of_window /\ rpc' = "wait_psn"
  /\ ReqExit
  /\ UNCHANGED <<posted, sq, req, direct, compvars, timers, reqnet, respnet, respvars, env>>

ReqSetWait ==
  /\ rpc \in {"wait_fence", "wait_psn"}
  /\ req' = IF rpc = "wait_fence" THEN [req EXCEPT !.wait_fence = TRUE]
                                  ELSE [req EXCEPT !.wait_psn = TRUE]
  /\ rpc' = "idle"
  /\ UNCHANGED <<posted, sq, direct, compvars, run, timers, reqnet, respnet, respvars, env>>

\* A WQE that may be sent now, check_init_depth aside.
Sendable(m) == /\ ReqGo /\ m = req.wqe_index /\ m <= posted
               /\ ~held(m) /\ ~fenced(m) /\ ~out_of_window

\* check_init_depth: too many reads and atomics are outstanding.
ReqNoDepth(m) ==
  /\ Sendable(m) /\ no_depth(m)
  /\ req' = [req EXCEPT !.need_rd_atomic = TRUE]
  /\ ReqExit
  /\ UNCHANGED <<posted, sq, rpc, direct, compvars, timers, reqnet, respnet, respvars, env>>

\* check_init_depth: a read or an atomic takes one of rd_atomic.
charged(m) == IsReadAtomic(sq[m].op) /\ ~sq[m].has_rd_atomic

\* Mutant: nothing is taken.
check_init_depth_free(m) == [req EXCEPT !.need_rd_atomic = FALSE]

check_init_depth(m) == IF charged(m) THEN [req EXCEPT !.rd_atomic = @ - 1,
                                                      !.need_rd_atomic = FALSE]
                                     ELSE req

\* fill_packet cannot read the data (a bad lkey): the completer is called, once for
\* every attempt, until the WQE is the oldest one and completes in error.
ReqBadKey(m) ==
  /\ Sendable(m) /\ ~IsReadAtomic(sq[m].op) /\ ~sq[m].lkey
  /\ sq' = [sq EXCEPT ![m].status = "LOC_PROT_ERR", ![m].state = "error"]
  /\ rpc' = "call"
  /\ UNCHANGED <<posted, req, direct, compvars, run, timers, reqnet, respnet, respvars,
                 env>>

\* That call looks up the oldest WQE, and then acts on it.
DirectTake ==
  /\ rpc = "wqe"
  /\ rpc' = "taken" /\ dwqe' = head
  /\ UNCHANGED <<posted, sq, req, dpkt, compvars, run, timers, reqnet, respnet,
                 respvars, env>>

\* next_opcode: the position of the next packet in its message.
next_opcode(w) ==
  IF IsReadAtomic(w.op) THEN "only"
  ELSE IF req.opcode = w.op THEN IF w.resid <= 1 THEN "last" ELSE "mid"
                            ELSE IF w.resid <= 1 THEN "only" ELSE "first"

\* The packet is built (init_req_packet, fill_packet) and queued; update_state.
ReqSend(m) ==
  LET w       == sq[m]
      pos     == next_opcode(w)
      num_pkt == IF w.resid = 0 THEN 1 ELSE w.resid
      pkt     == [op |-> w.op, pos |-> pos, psn |-> req.psn, msg |-> m,
                  off |-> w.n - w.resid, va |-> w.iova, len |-> w.n]
      first   == IF starts(pkt) THEN req.psn ELSE w.first_psn
      last    == IF starts(pkt) THEN psn_add(req.psn, num_pkt - 1) ELSE w.last_psn
  IN
  /\ Sendable(m) /\ ~no_depth(m) /\ Len(reqnet) + Len(respnet) < env.net
  /\ IsReadAtomic(w.op) \/ sq[m].lkey
  /\ reqnet' = Append(reqnet, pkt)
  /\ sq' = [sq EXCEPT ![m].resid = IF IsReadAtomic(w.op) \/ @ = 0 THEN @ ELSE @ - 1,
                      ![m].first_psn = first, ![m].last_psn = last,
                      ![m].state = IF ends(pkt) THEN "pending" ELSE "processing",
                      ![m].has_rd_atomic = @ \/ charged(m)]
  /\ req' = [check_init_depth(m) EXCEPT
               !.psn = IF w.op = "read" THEN psn_add(first, num_pkt) ELSE psn_add(@, 1),
               !.opcode = IF ends(pkt) THEN "none" ELSE w.op,
               !.wqe_index = IF ends(pkt) THEN @ + 1 ELSE @]
  /\ timers' = IF env.timeout THEN timers \cup {"retrans"} ELSE timers
  /\ UNCHANGED <<posted, rpc, direct, compvars, run, respnet, respvars, env>>

-----------------------------------------------------------------------------
(* The timers *)

\* No packet is under way and no task is about to run.
quiet == /\ reqnet = <<>> /\ respnet = <<>> /\ run = {}
         /\ rpc = "idle" /\ cpc = "idle"

\* retransmit_timer.  Early, while packets are under way, only as often as the
\* scenario allows.
RetransmitTimer ==
  /\ "retrans" \in timers
  /\ quiet \/ env.early > 0
  /\ env' = IF quiet THEN env ELSE [env EXCEPT !.early = @ - 1]
  /\ timers' = timers \ {"retrans"}
  /\ comp' = [comp EXCEPT !.timeout = TRUE]
  /\ run' = run \cup {"comp"}
  /\ UNCHANGED <<reqvars, cpc, cpkt, cqes, reqnet, respnet, respvars>>

RnrNakTimer ==
  /\ "rnr" \in timers
  /\ timers' = timers \ {"rnr"}
  /\ run' = run \cup {"req"}
  /\ UNCHANGED <<reqvars, compvars, reqnet, respnet, respvars, env>>

-----------------------------------------------------------------------------
(* rxe_responder *)

response(kind, pos, psn, msg, data) ==
  [kind |-> kind, pos |-> pos, psn |-> psn % PsnMod, msg |-> msg, data |-> data]

\* send_ack; the completer is run when the packet arrives.
send(r) == respnet' = Append(respnet, r) /\ run' = run \cup {"comp"}

send_ack(kind, psn) == send(response(kind, "only", psn, 0, 0))

silent == UNCHANGED <<respnet, run>>

\* RESPST_CLEANUP: the packet leaves req_pkts.
cleanup == reqnet' = Tail(reqnet)

\* check_op_seq
op_seq_ok(p) ==
  IF resp.opcode \in {"send", "write"} THEN p.op = resp.opcode /\ ~starts(p)
                                       ELSE IsReadAtomic(p.op) \/ starts(p)

\* Mutant: a request after a lost one is executed.
get_req_skips_gap(p) ==
  LET diff == psn_compare(p.psn, resp.psn) IN
  CASE resp.res # 0 -> "READ_REPLY"
    [] resp.res = 0 /\ diff < 0 -> "DUPLICATE_REQUEST"
    [] OTHER -> "EXECUTE"

\* The steps of the state machine up to the one that decides.
get_req(p) ==
  LET diff == psn_compare(p.psn, resp.psn) IN
  CASE resp.res # 0 -> "READ_REPLY"
    [] resp.res = 0 /\ diff < 0 -> "DUPLICATE_REQUEST"
    [] resp.res = 0 /\ diff > 0 -> IF resp.sent_psn_nak THEN "CLEANUP"
                                                      ELSE "ERR_PSN_OUT_OF_SEQ"
    [] OTHER -> CASE ~op_seq_ok(p) -> "ERR_INVALID_REQ"
                  [] op_seq_ok(p) /\ p.op = "send" /\ starts(p) /\ rq = 0 -> "ERR_RNR"
                  [] op_seq_ok(p) /\ p.op # "send" /\ ~sq[p.msg].rkey
                       -> "ERR_RKEY_VIOLATION"
                  [] OTHER -> "EXECUTE"

Responder(st) == /\ resp.state # "ERROR" /\ reqnet # <<>>
                 /\ get_req(Head(reqnet)) = st

RespDrop ==
  /\ Responder("CLEANUP")
  /\ cleanup /\ silent
  /\ UNCHANGED <<reqvars, compvars, timers, respvars, env>>

RespOutOfSeq ==
  /\ Responder("ERR_PSN_OUT_OF_SEQ")
  /\ resp' = [resp EXCEPT !.sent_psn_nak = TRUE]
  /\ send_ack("nak_seq", resp.psn)
  /\ cleanup
  /\ UNCHANGED <<reqvars, compvars, timers, res, rq, mem, executed, env>>

RespRnr ==
  /\ Responder("ERR_RNR")
  /\ resp' = [resp EXCEPT !.sent_psn_nak = FALSE]
  /\ send_ack("rnr", Head(reqnet).psn)
  /\ cleanup
  /\ UNCHANGED <<reqvars, compvars, timers, res, rq, mem, executed, env>>

\* A class C error.  do_complete goes on to acknowledge, which sends the NAK,
\* only if a receive WQE is in use; the QP moves to the error state.
RespError ==
  LET inv == Responder("ERR_INVALID_REQ") IN
  /\ inv \/ Responder("ERR_RKEY_VIOLATION")
  /\ IF resp.opcode = "send"
       THEN rq' = rq - 1 /\ send_ack(IF inv THEN "nak_inv" ELSE "nak_acc",
                                     Head(reqnet).psn)
       ELSE silent /\ UNCHANGED rq
  /\ resp' = [resp EXCEPT !.sent_psn_nak = FALSE, !.state = "ERROR"]
  /\ cleanup
  /\ UNCHANGED <<reqvars, compvars, timers, res, mem, executed, env>>

\* In the error state request packets are dropped and receive WQEs flushed.
RespFlush ==
  /\ resp.state = "ERROR" /\ (reqnet # <<>> \/ rq > 0)
  /\ reqnet' = <<>> /\ rq' = 0
  /\ UNCHANGED <<reqvars, compvars, run, timers, respnet, resp, res, mem, executed, env>>

\* execute, for a send or a write: the data is placed, a receive WQE completed
\* by the last packet of a send, and the last packet acknowledged.
RespSendWrite ==
  LET p  == Head(reqnet)
      va == IF starts(p) THEN p.va ELSE resp.va
  IN
  /\ Responder("EXECUTE") /\ ~IsReadAtomic(p.op)
  /\ executed' = Append(executed, <<p.msg, p.off, va>>)
  /\ resp' = [resp EXCEPT !.psn = psn_add(p.psn, 1), !.sent_psn_nak = FALSE,
                          !.opcode = IF ends(p) THEN "none" ELSE p.op,
                          !.va = va + 1]
  /\ rq' = IF p.op = "send" /\ ends(p) THEN rq - 1 ELSE rq
  /\ IF ends(p) THEN send_ack("ack", p.psn) ELSE silent
  /\ cleanup
  /\ UNCHANGED <<reqvars, compvars, timers, res, mem, env>>

next_head == IF resp.res_head = env.max_rd_atomic THEN 1 ELSE resp.res_head + 1

\* process_atomic and send_atomic_ack.  The result is kept under resp.psn,
\* which execute has already advanced.
RespAtomic ==
  LET p   == Head(reqnet)
      nxt == psn_add(p.psn, 1)
  IN
  /\ Responder("EXECUTE") /\ p.op = "atomic"
  /\ executed' = Append(executed, <<p.msg, 0, p.va>>)
  /\ mem' = mem + 1
  /\ res' = [res EXCEPT ![resp.res_head] =
               [no_res EXCEPT !.type = "atomic", !.first_psn = nxt, !.last_psn = nxt,
                              !.cur_psn = nxt, !.msg = p.msg, !.orig = mem]]
  /\ resp' = [resp EXCEPT !.psn = nxt, !.sent_psn_nak = FALSE, !.opcode = "none",
                          !.res_head = next_head]
  /\ send(response("atomic", "only", p.psn, p.msg, mem))
  /\ cleanup
  /\ UNCHANGED <<reqvars, compvars, timers, rq, env>>

\* read_reply: one response packet for resource i, now r.
read_reply(i, r) ==
  LET pos == IF r.state = "new" THEN IF r.resid <= 1 THEN "only" ELSE "first"
                                ELSE IF r.resid <= 1 THEN "last" ELSE "mid"
      nxt == psn_add(r.cur_psn, 1)
  IN
  /\ res' = [res EXCEPT ![i] = [r EXCEPT !.state = "next", !.va = @ + 1,
                                         !.resid = @ - 1, !.cur_psn = nxt]]
  /\ send(response("read", pos, r.cur_psn, r.msg, r.va))
  /\ IF r.resid > 1 THEN UNCHANGED reqnet ELSE cleanup

\* resp after that packet: the read is in progress, or resp.psn follows it.
after_reply(i, r) ==
  IF r.resid > 1 THEN [resp EXCEPT !.res = i]
  ELSE [resp EXCEPT !.res = 0, !.opcode = "none", !.psn = psn_add(r.cur_psn, 1)]

\* execute, for a read: it takes the next resource.
RespRead ==
  LET p == Head(reqnet)
      i == resp.res_head
      r == [no_res EXCEPT !.type = "read", !.first_psn = p.psn, !.cur_psn = p.psn,
                          !.last_psn = psn_add(p.psn, p.len - 1), !.msg = p.msg,
                          !.va_org = p.va, !.va = p.va, !.resid = p.len,
                          !.length = p.len]
  IN
  /\ Responder("EXECUTE") /\ p.op = "read"
  /\ executed' = Append(executed, <<p.msg, 0, p.va>>)
  /\ read_reply(i, r)
  /\ resp' = [after_reply(i, r) EXCEPT !.sent_psn_nak = FALSE, !.res_head = next_head]
  /\ UNCHANGED <<reqvars, compvars, timers, rq, mem, env>>

RespReadNext ==
  /\ Responder("READ_REPLY")
  /\ read_reply(resp.res, res[resp.res])
  /\ resp' = after_reply(resp.res, res[resp.res])
  /\ UNCHANGED <<reqvars, compvars, timers, rq, mem, executed, env>>

\* find_resource: the resource whose PSNs hold the given one, or 0.
find_resource(psn) ==
  LET found == {i \in 1 .. env.max_rd_atomic :
                  /\ res[i].type # "none"
                  /\ psn_compare(psn, res[i].first_psn) >= 0
                  /\ psn_compare(psn, res[i].last_psn) <= 0}
  IN  IF found = {} THEN 0 ELSE CHOOSE i \in found : \A j \in found : i <= j

\* duplicate_request of a send or a write: acknowledge again.
RespDupSendWrite ==
  LET p == Head(reqnet) IN
  /\ Responder("DUPLICATE_REQUEST") /\ ~IsReadAtomic(p.op)
  /\ IF ends(p) THEN send_ack("ack", resp.psn - 1) ELSE silent
  /\ cleanup
  /\ UNCHANGED <<reqvars, compvars, timers, respvars, env>>

\* A duplicate read is the earlier one or a subset of it.
subset(p, r) == p.va >= r.va_org /\ p.len <= r.length
                /\ p.va + p.len <= r.va_org + r.length

\* A resource answers the duplicate p.  (One of the other kind is read through
\* the wrong member of a union; of the outcomes only the drop is modelled.)
replayable(p) ==
  LET i == find_resource(p.psn)
  IN  IF i = 0 THEN FALSE
      ELSE res[i].type = p.op /\ (p.op = "read" => subset(p, res[i]))

\* duplicate_request of a read: replay the reply.
RespDupRead ==
  LET p == Head(reqnet)
      i == find_resource(p.psn)
      r == [res[i] EXCEPT !.cur_psn = p.psn, !.va_org = p.va, !.va = p.va,
                          !.resid = p.len,
                          !.state = IF p.psn = res[i].first_psn THEN "new" ELSE "replay"]
  IN
  /\ Responder("DUPLICATE_REQUEST") /\ p.op = "read"
  /\ IF replayable(p) THEN read_reply(i, r) /\ resp' = after_reply(i, r)
                      ELSE cleanup /\ silent /\ UNCHANGED <<resp, res>>
  /\ UNCHANGED <<reqvars, compvars, timers, rq, mem, executed, env>>

\* duplicate_request of an atomic: resend the result.
RespDupAtomic ==
  LET p == Head(reqnet)
      r == res[find_resource(p.psn)]
  IN
  /\ Responder("DUPLICATE_REQUEST") /\ p.op = "atomic"
  /\ IF replayable(p)
       THEN send(response("atomic", "only", resp.psn - 1, r.msg, r.orig))
       ELSE silent
  /\ cleanup
  /\ UNCHANGED <<reqvars, compvars, timers, respvars, env>>

-----------------------------------------------------------------------------
(* The network *)

LoseRequest ==
  /\ reqnet # <<>> /\ resp.res = 0 /\ env.req > 0
  /\ reqnet' = Tail(reqnet)
  /\ env' = [env EXCEPT !.req = @ - 1]
  /\ UNCHANGED <<reqvars, compvars, run, timers, respnet, respvars>>

\* xmit_one_packet drops the requests that have not left yet, in every state of
\* the requester but READY.
DropRequest ==
  /\ req.state # "READY" /\ reqnet # <<>>
  /\ resp.res # 0 => Len(reqnet) > 1
  /\ reqnet' = Front(reqnet)
  /\ UNCHANGED <<reqvars, compvars, run, timers, respnet, respvars, env>>

\* ... and the responses, in the error state of the responder.
DropResponse ==
  /\ resp.state = "ERROR" /\ respnet # <<>>
  /\ respnet' = Front(respnet)
  /\ UNCHANGED <<reqvars, compvars, run, timers, reqnet, respvars, env>>

LoseResponse ==
  /\ respnet # <<>> /\ env.resp > 0
  /\ respnet' = Tail(respnet)
  /\ env' = [env EXCEPT !.resp = @ - 1]
  /\ UNCHANGED <<reqvars, compvars, run, timers, reqnet, respvars>>

-----------------------------------------------------------------------------
ReqStep ==
  \/ ReqError \/ ReqRetry \/ ReqDrained \/ ReqNone \/ ReqTestWait \/ ReqSetWait
  \/ \E m \in Msgs : ReqNoDepth(m) \/ ReqSend(m)

CompStep ==
  \/ CompFlush \/ CompBlocked \/ CompGetAck
  \/ CompDone \/ CompWqe \/ CompPart \/ CompAck
  \/ CompExit \/ CompError \/ CompErrorRetry \/ CompNoRetry \/ CompRnrRetry

RespStep ==
  \/ RespDrop \/ RespOutOfSeq \/ RespRnr \/ RespError \/ RespFlush
  \/ RespSendWrite \/ RespAtomic \/ RespRead \/ RespReadNext
  \/ RespDupSendWrite \/ RespDupRead \/ RespDupAtomic

\* What happens while the requester can read the data it sends, ...
Readable ==
  \/ PostRecv \/ Post \/ Drain \/ Resume
  \/ ReqStep \/ CompStep \/ RespStep
  \/ RetransmitTimer \/ RnrNakTimer
  \/ LoseRequest \/ LoseResponse \/ DropRequest \/ DropResponse

\* ... and when it cannot.
DirectStep ==
  \/ \E m \in Msgs : ReqBadKey(m)
  \/ DirectTake
  \/ Direct!rxe_completer

Next == Readable \/ DirectStep

Spec == Init /\ [][Next]_vars

\* Tasks that have been told to run are run, packets that are not lost arrive,
\* pending timers fire, and the application posts what it wants to.
Fairness ==
  /\ WF_vars(Post) /\ WF_vars(PostRecv)
  /\ WF_vars(ReqStep \/ DirectStep) /\ WF_vars(CompStep) /\ WF_vars(RespStep)
  /\ WF_vars(RetransmitTimer) /\ WF_vars(RnrNakTimer)

FairSpec == Spec /\ Fairness

-----------------------------------------------------------------------------
(* Properties *)

Packet == [op : {"send", "write", "read", "atomic"},
           pos : {"first", "mid", "last", "only"}, psn : 0 .. PsnMod - 1,
           msg : Msgs, off : Nat, va : Nat, len : Nat]

Response == [kind : {"ack", "nak_seq", "rnr", "nak_inv", "nak_acc", "read", "atomic"},
             pos : {"first", "mid", "last", "only"}, psn : 0 .. PsnMod - 1,
             msg : Nat, data : Nat]

(* Types of the state of rxe_req.c, rxe_comp.c and rxe_resp.c: in particular *)
(* rd_atomic, dma.resid and the receive queue never go below zero.           *)
TypeOK ==
  /\ posted \in 0 .. Len(sq) /\ Len(cqes) <= posted
  /\ \A m \in Msgs : /\ sq[m].resid \in 0 .. sq[m].n
                     /\ sq[m].state \in {"posted", "processing", "pending", "error"}
                     /\ sq[m].has_rd_atomic \in BOOLEAN
  /\ req.state \in {"READY", "DRAIN", "DRAINED", "ERROR"}
  /\ req.qp_state \in {"RTS", "SQD"} /\ req.psn \in 0 .. PsnMod - 1
  /\ req.wqe_index \in 1 .. posted + 1 /\ req.rd_atomic \in 0 .. env.max_rd_atomic
  /\ comp.psn \in 0 .. PsnMod - 1 /\ comp.opcode \in {"none", "read"}
  /\ comp.retry_cnt \in 0 .. env.retry_cnt
  /\ comp.rnr_retry \in 0 .. env.rnr_retry
  /\ rpc \in {"idle", "wait_fence", "wait_psn", "call", "wqe", "taken"}
  /\ dwqe \in Nat /\ cpc \in {"idle", "wqe"}
  /\ run \subseteq {"req", "comp"} /\ timers \subseteq {"retrans", "rnr"}
  /\ reqnet \in Seq(Packet) /\ respnet \in Seq(Response) /\ cpkt \in Seq(Response)
  /\ dpkt \in Seq(Response)
  /\ resp.psn \in 0 .. PsnMod - 1 /\ resp.opcode \in {"none", "send", "write"}
  /\ resp.res \in 0 .. env.max_rd_atomic
  /\ rq \in Nat /\ mem \in Nat

\* What the responder is to execute for a message: every packet of a send or a
\* write, placed at its own offset, and a read or an atomic once.
ToExecute(m) == IF IsReadAtomic(sq[m].op) THEN {<<m, 0, 0>>}
                ELSE {<<m, k, k>> : k \in 0 .. sq[m].n - 1}

\* ... and what follows the execution e.
After(e) == LET nxt == <<e[1], e[2] + 1, e[2] + 1>>
            IN  IF nxt \in ToExecute(e[1]) THEN nxt ELSE <<e[1] + 1, 0, 0>>

(* The responder executes the packets of all messages in order, each exactly *)
(* once and at the right place (comment of execute in rxe_resp.c: "A retried *)
(* request never reach that function"), although requests, or responses, are *)
(* lost and sent again.  Not so when the timer fires early next to a read    *)
(* (ReadAgain): a read is then sent again under the PSN of the next message. *)
ExecutedOnceInOrder ==
  \A i \in 1 .. Len(executed) :
     executed[i] = IF i = 1 THEN <<1, 0, 0>> ELSE After(executed[i - 1])

Atomics(m) == Cardinality({k \in 1 .. m - 1 : sq[k].op = "atomic"})

\* The result a message must return: the data read, or the word before it.
Result(m) == CASE sq[m].op = "read" -> [k \in 1 .. sq[m].n |-> <<m, k - 1>>]
               [] sq[m].op = "atomic" -> <<Atomics(m)>>
               [] OTHER -> <<>>

(* A completion with IB_WC_SUCCESS means what it says: the responder has     *)
(* executed the whole message, and a read or an atomic returned the right    *)
(* data, although requests or acknowledgements are lost.  Not so when the    *)
(* reply of an atomic is lost before another one (AtomicLost), an            *)
(* acknowledgement before a read (ReadPastAck), or a request and a NAK       *)
(* together (NakAsAck).                                                      *)
SuccessIsTrue ==
  \A i \in 1 .. Len(cqes) : cqes[i].status = "SUCCESS" =>
     /\ \A e \in ToExecute(i) : \E j \in 1 .. Len(executed) : executed[j] = e
     /\ cqes[i].data = Result(i)

\* The first PSN that the responder has not yet executed or answered.
served == IF resp.res # 0 THEN res[resp.res].cur_psn ELSE resp.psn

(* The requester never takes for acknowledged a packet that the responder    *)
(* has not executed: comp.psn never passes resp.psn (or cur_psn, while a     *)
(* read is answered).  A retry starts at comp.psn, so what it skips is never *)
(* sent again.  This is while every NAK concerns the oldest WQE: not when    *)
(* more is posted while a retry is under way (PostedLate), nor when the      *)
(* timer fires early next to a lost request (EarlyAndLost).                  *)
AckedWasExecuted == psn_compare(comp.psn, served) <= 0

(* req_retry takes the head of the send queue without testing for NULL: when *)
(* a retry is pending there is a WQE, and the part of it that is skipped is  *)
(* not longer than the WQE.  The timer may fire early while the WQE it finds *)
(* is the last one; more that is posted after it breaks this (Resent).       *)
RetryHasWork ==
  req.need_retry /\ req.state # "ERROR" =>
    /\ head <= posted
    /\ (comp.psn - sq[head].first_psn) % PsnMod < sq[head].n

\* Valid keys and unlimited retries.
Faultless == /\ env.retry_cnt = 7 /\ env.rnr_retry = 7
             /\ \A m \in Msgs : sq[m].lkey /\ sq[m].rkey

(* With valid keys and unlimited retries no message ends in error, although  *)
(* requests, or responses, are lost: a retry of the requester and the        *)
(* responder's resp.opcode and resources stay in step.                       *)
NoErrorWithoutCause == Faultless => req.state # "ERROR" /\ resp.state = "READY"

(* After a WR has failed, the QP is in error and the later ones are flushed, *)
(* never completed as successful or failed once more.  This is while the     *)
(* requester's own call of the completer (rxe_req.c:690) and the task do not *)
(* complete the same WQE, for instance when the WQE it cannot read is the    *)
(* oldest one; BadLocalKey shows the two of them next to each other.         *)
ErrorThenFlush ==
  \A i, j \in 1 .. Len(cqes) :
     i < j /\ cqes[i].status # "SUCCESS" => cqes[j].status = "WR_FLUSH_ERR"

MaxMsgs == Max({Len(s.wrs) : s \in Scenarios})

\* The requester is about to wait for what has already happened: nobody will see
\* the flag it sets.
WakeUpMissed ==
  \/ rpc = "wait_fence" /\ ~fenced(req.wqe_index)
  \/ rpc = "wait_psn" /\ ~out_of_window

\* comp.psn has reached req.psn although WQEs that have been sent are not completed,
\* and no response is to come: COMPST_ERROR_RETRY finds no point in retrying.
RetryRefused == quiet /\ comp.psn = req.psn /\ head < req.wqe_index

\* Every message that is posted is completed in the end.
AllComplete ==
  \A m \in 1 .. MaxMsgs :
     (posted >= m /\ Faultless /\ ~env.drains) ~> (Len(cqes) >= m)

(* Every message posted with valid keys and unlimited retries is completed   *)
(* in the end, although packets are lost, and a requester that waits for a   *)
(* fence, for the window or for rd_atomic is woken (comment of do_complete   *)
(* in rxe_comp.c: "we completed something so let req run again if it is      *)
(* trying to fence"), unless one of two gaps of the code is hit: the flag is *)
(* set after the wake-up (rxe_req.c:176, 630), or comp.psn has passed a WQE  *)
(* that is not completed, which is then not retried (rxe_comp.c:678).        *)
(* Nothing else keeps a message waiting for ever.                            *)
EverythingCompletes == <>WakeUpMissed \/ <>RetryRefused \/ AllComplete

(* What IB_EVENT_SQ_DRAINED tells the application (req_next_wqe: "check to   *)
(* see if we are drained"): every message that was begun has completed.      *)
DrainedIsIdle ==
  req.state = "DRAINED" => \A i \in 1 .. Len(executed) : executed[i][1] < head

(* A drain ends, so that the QP can go back to RTS.                          *)
DrainEnds == req.state = "DRAIN" ~> req.state # "DRAIN"
=============================================================================
