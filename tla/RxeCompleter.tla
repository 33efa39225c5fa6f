----------------------------- MODULE RxeCompleter -----------------------------
(***************************************************************************)
(* rxe_completer (rxe_comp.c): one call of the completer of a QP, with the *)
(* PSNs and the kinds of packets it shares with the requester and the      *)
(* responder.  A call is one step that looks for a response packet, and    *)
(* one step per WQE it looks at.                                           *)
(*                                                                         *)
(* The completer's task calls it, and so does rxe_requester when it cannot *)
(* read the data of a WQE (rxe_req.c:690), next to the task and without a  *)
(* lock.  RxeRC has an instance for each of the two.                       *)
(***************************************************************************)
EXTENDS Integers, Sequences

CONSTANTS
  PsnMod,     \* PSNs are numbers modulo PsnMod
  acting,     \* value of cpc when the oldest WQE has been looked up
  again       \* the tasks to call again when COMPST_DONE is returned

VARIABLES
  called,     \* whether a call may begin
  wqe,        \* the WQE the call has got from queue_head
  cpc,        \* the caller: "idle" after the call, "wqe" before the look-up
  cpkt,       \* the packet the call has dequeued, in a sequence
  posted, sq, req, comp, run, timers, respnet, cqes, env,  \* see RxeRC
  other       \* what no call of the completer touches

-----------------------------------------------------------------------------
(* PSNs and packets *)

psn_add(p, k) == (p + k) % PsnMod

\* The sign of the difference of two PSNs, in the code of its top bit.
psn_compare(a, b) == LET d == (a - b) % PsnMod
                     IN  IF d < PsnMod \div 2 THEN d ELSE d - PsnMod

\* RXE_START_MASK, RXE_END_MASK and RXE_READ_OR_ATOMIC of rxe_opcode.
starts(p) == p.pos \in {"first", "only"}
ends(p)   == p.pos \in {"last", "only"}
IsReadAtomic(op) == op \in {"read", "atomic"}

-----------------------------------------------------------------------------
(* rxe_completer *)

\* check_ack: the sequence, then the kind of response.
check_ack(w, p) ==
  IF \/ comp.opcode = "none" /\ ~starts(p)
     \/ comp.opcode = "read" /\ ~(p.kind = "read" /\ p.pos \in {"mid", "last"})
  THEN "ERROR"
  ELSE CASE p.kind = "read"    -> IF w.op = "read" THEN "READ" ELSE "ERROR"
         [] p.kind = "atomic"  -> IF w.op = "atomic" THEN "ATOMIC" ELSE "ERROR"
         [] p.kind = "ack"     -> "WRITE_SEND"
         [] p.kind = "rnr"     -> "RNR_RETRY"
         [] p.kind = "nak_seq" -> "NAK_RETRY"
         [] OTHER              -> "ERROR"

check_psn(w, p) ==
  IF psn_compare(p.psn, w.last_psn) > 0
  THEN CASE w.state # "pending" -> "DONE"
         [] w.state = "pending" /\ IsReadAtomic(w.op)  -> "ERROR_RETRY"
         [] w.state = "pending" /\ ~IsReadAtomic(w.op) -> "COMP_WQE"
  ELSE IF psn_compare(p.psn, comp.psn) < 0
  THEN IF p.psn = w.last_psn THEN "COMP_ACK" ELSE "DONE"
  ELSE IF psn_compare(p.psn, comp.psn) > 0 /\ IsReadAtomic(w.op)
  THEN "ERROR_RETRY"
  ELSE check_ack(w, p)

\* get_wqe, and what follows from the packet and the oldest WQE.
NoWqe == wqe > posted \/ sq[wqe].state = "posted"

get_wqe ==
  IF NoWqe THEN IF cpkt # <<>> THEN "DONE" ELSE "EXIT"
  ELSE IF sq[wqe].state = "error" THEN "ERROR"
  ELSE IF cpkt # <<>> THEN check_psn(sq[wqe], cpkt[1]) ELSE "EXIT"

\* A call begins: flush in the error state, ...
CompFlush ==
  /\ called /\ req.state = "ERROR"
  /\ respnet' = <<>>
  /\ cqes' = cqes \o [i \in 1 .. posted - Len(cqes) |->
                        [msg |-> Len(cqes) + i, status |-> "WR_FLUSH_ERR",
                         data |-> sq[Len(cqes) + i].data]]
  /\ run' = (run \ again) \cup (IF req.wait_fence /\ posted > Len(cqes)
                                THEN {"req"} ELSE {})
  /\ req' = [req EXCEPT !.wait_fence = @ /\ posted = Len(cqes)]
  /\ cpc' = "idle"
  /\ UNCHANGED <<posted, sq, comp, cpkt, timers, env, other>>

\* ... nothing while a retry is pending, ...
CompBlocked ==
  /\ called /\ req.state # "ERROR" /\ req.need_retry
  /\ comp' = [comp EXCEPT !.timeout_retry = comp.timeout, !.timeout = FALSE]
  /\ run' = run \ again
  /\ cpc' = "idle"
  /\ UNCHANGED <<posted, sq, req, cpkt, cqes, timers, respnet, env, other>>

\* ... or the next response packet, if any.
CompGetAck ==
  /\ called /\ req.state # "ERROR" /\ ~req.need_retry
  /\ cpkt' = IF respnet = <<>> THEN <<>> ELSE <<Head(respnet)>>
  /\ respnet' = IF respnet = <<>> THEN <<>> ELSE Tail(respnet)
  /\ comp' = [comp EXCEPT !.timeout_retry = comp.timeout /\ respnet = <<>>,
                          !.timeout = FALSE]
  /\ cpc' = "wqe"
  /\ run' = run \ again
  /\ UNCHANGED <<posted, sq, req, cqes, timers, env, other>>

\* COMPST_DONE: the task calls the completer again.  COMPST_EXIT: it does not,
\* unless it has been told to meanwhile.
CompReturn == cpc' = "idle" /\ cpkt' = <<>>

CompDone ==
  /\ cpc = acting /\ get_wqe = "DONE"
  /\ CompReturn /\ run' = run \cup again
  /\ UNCHANGED <<posted, sq, req, comp, cqes, timers, respnet, env, other>>

\* A response, or an error, lets a waiting requester go on.
reset_retry_counters(c) == [c EXCEPT !.retry_cnt = env.retry_cnt,
                                     !.rnr_retry = env.rnr_retry]

\* Mutant: off by one.
acked_one_more(c, p) == [c EXCEPT !.psn = IF psn_compare(p.psn, @) >= 0
                                          THEN psn_add(p.psn, 2) ELSE @]

\* comp.psn passes the packet's PSN.
acked(c, p) == [c EXCEPT !.psn = IF psn_compare(p.psn, @) >= 0
                                 THEN psn_add(p.psn, 1) ELSE @]

\* COMPST_UPDATE_COMP
update_comp(c, p) == acked([c EXCEPT !.opcode = IF ends(p) THEN "none" ELSE p.kind], p)

\* do_complete: a completion is posted, the WQE leaves the SQ.
do_complete(status, data) ==
  cqes' = Append(cqes, [msg |-> wqe, status |-> status, data |-> data])

\* Mutant: the flags are cleared and the task is not run.
wakes_nobody(flags) == FALSE

\* The requester is woken if it waits for one of the given flags.
wakes(flags) == \E f \in flags : req[f]

\* COMPST_COMP_WQE: the response is past the oldest WQE; look at the next one.
CompWqe ==
  LET p == cpkt[1] IN
  /\ cpc = acting /\ get_wqe = "COMP_WQE"
  /\ comp' = acked([reset_retry_counters(comp) EXCEPT !.opcode = "none"], p)
  /\ req' = [req EXCEPT !.wait_psn = FALSE, !.wait_fence = FALSE]
  /\ run' = IF wakes({"wait_psn", "wait_fence"}) THEN run \cup {"req"} ELSE run
  /\ do_complete(sq[wqe].status, sq[wqe].data)
  /\ cpc' = "wqe"
  /\ UNCHANGED <<posted, sq, cpkt, timers, respnet, env, other>>

\* COMPST_READ, not the last of the data; COMPST_WRITE_SEND, not the last packet.
CompPart ==
  LET p == cpkt[1] IN
  /\ cpc = acting
  /\ \/ /\ get_wqe = "READ" /\ sq[wqe].resid > 0
        /\ sq[wqe].resid > 1 \/ ~ends(p)
        /\ sq' = [sq EXCEPT ![wqe].resid = @ - 1,
                            ![wqe].data = Append(@, <<p.msg, p.data>>)]
     \/ /\ get_wqe = "WRITE_SEND"
        /\ ~(sq[wqe].state = "pending" /\ sq[wqe].last_psn = p.psn)
        /\ UNCHANGED sq
  /\ comp' = update_comp(reset_retry_counters(comp), p)
  /\ req' = [req EXCEPT !.wait_psn = FALSE]
  /\ run' = run \cup again \cup (IF wakes({"wait_psn"}) THEN {"req"} ELSE {})
  /\ CompReturn
  /\ UNCHANGED <<posted, cqes, timers, respnet, env, other>>

\* COMPST_COMP_ACK: the response completes the oldest WQE.  The test for a drained
\* queue comes before the completion and before comp.psn moves.
CompAck ==
  LET p   == cpkt[1]
      w   == sq[wqe]
      st  == get_wqe
      old == st = "COMP_ACK"   \* a response that was already passed
      c   == IF old THEN comp ELSE reset_retry_counters(comp)
      freed == w.has_rd_atomic
      new  == psn_compare(p.psn, comp.psn) >= 0
      data == CASE st = "READ"   -> Append(w.data, <<p.msg, p.data>>)
                [] st = "ATOMIC" -> <<p.data>>
                [] OTHER         -> w.data
  IN
  /\ cpc = acting
  /\ \/ old
     \/ st = "ATOMIC"
     \/ st = "READ" /\ w.resid = 1 /\ ends(p)
     \/ st = "WRITE_SEND" /\ w.state = "pending" /\ w.last_psn = p.psn
  /\ sq' = [sq EXCEPT ![wqe].has_rd_atomic = FALSE,
                      ![wqe].resid = IF st = "READ" THEN 0 ELSE @,
                      ![wqe].data = data]
  /\ comp' = [(IF new THEN update_comp(c, p) ELSE c) EXCEPT
                 !.timeout_retry = @ /\ ~(freed /\ req.need_rd_atomic)]
  /\ req' = [req EXCEPT !.state = IF @ = "DRAIN" /\ comp.psn = req.psn
                                  THEN "DRAINED" ELSE @,
                        !.rd_atomic = IF freed THEN @ + 1 ELSE @,
                        !.need_rd_atomic = @ /\ ~freed,
                        !.wait_psn = @ /\ ~new,
                        !.wait_fence = FALSE]
  /\ run' = run \cup again \cup
            (IF \/ freed /\ wakes({"need_rd_atomic"})
                \/ new /\ wakes({"wait_psn"})
                \/ wakes({"wait_fence"}) THEN {"req"} ELSE {})
  /\ do_complete(w.status, data)
  /\ CompReturn
  /\ UNCHANGED <<posted, timers, respnet, env, other>>

\* COMPST_EXIT without a timeout: the timer is set again if something is
\* unacknowledged.
CompExit ==
  /\ cpc = acting /\ get_wqe = "EXIT"
  /\ ~(comp.timeout_retry /\ wqe <= posted)
  /\ timers' = IF env.timeout /\ req.state = "READY" /\ psn_compare(req.psn, comp.psn) > 0
               THEN timers \cup {"retrans"} ELSE timers
  /\ CompReturn
  /\ UNCHANGED <<posted, sq, req, comp, cqes, run, respnet, env, other>>

\* Mutant: the QP does not move to the error state.
comp_error_stays_ready(status) ==
  /\ do_complete(status, sq[wqe].data)
  /\ UNCHANGED req
  /\ run' = run \cup {"req", "comp"}
  /\ CompReturn

\* COMPST_ERROR: complete the oldest WQE with its error; rxe_qp_error.
comp_error(status) ==
  /\ do_complete(status, sq[wqe].data)
  /\ req' = [req EXCEPT !.state = "ERROR", !.wait_fence = FALSE]
  /\ run' = run \cup {"req", "comp"}
  /\ CompReturn

nak_status(p) == CASE p.kind = "nak_inv" -> "REM_INV_REQ_ERR"
                   [] p.kind = "nak_acc" -> "REM_ACCESS_ERR"
                   [] OTHER -> sq[wqe].status

CompError ==
  LET st == get_wqe IN
  /\ cpc = acting
  /\ st = "ERROR" \/ (st = "READ" /\ sq[wqe].resid = 0)
  /\ comp_error(IF st = "ERROR" /\ cpkt # <<>> /\ sq[wqe].state # "error"
                 THEN nak_status(cpkt[1]) ELSE sq[wqe].status)
  /\ UNCHANGED <<posted, sq, comp, timers, respnet, env, other>>

\* Mutant: retry whatever has been acknowledged.
worth_retrying_always(c) == TRUE

\* The requester has sent something that is not yet acknowledged.
worth_retrying(c) == psn_compare(req.psn, c.psn) > 0

\* COMPST_ERROR_RETRY, after a timeout or an unexpected response; a NAK of a
\* PSN sequence error acknowledges what precedes it.
CompErrorRetry ==
  LET st == get_wqe
      c  == IF st = "NAK_RETRY" /\ psn_compare(cpkt[1].psn, comp.psn) > 0
            THEN [comp EXCEPT !.psn = cpkt[1].psn] ELSE comp
      wake  == c.psn # comp.psn /\ wakes({"wait_psn"})
      retry == worth_retrying(c)
  IN
  /\ cpc = acting
  /\ \/ st \in {"NAK_RETRY", "ERROR_RETRY"}
     \/ st = "EXIT" /\ comp.timeout_retry /\ ~NoWqe
  /\ IF c.retry_cnt > 0
       THEN /\ comp' = [c EXCEPT !.retry_cnt = IF @ # 7 THEN @ - 1 ELSE 7]
            /\ req' = [req EXCEPT !.need_retry = retry, !.wait_psn = @ /\ ~wake]
            /\ run' = IF retry \/ wake THEN run \cup {"req"} ELSE run
            /\ CompReturn
            /\ UNCHANGED cqes
       ELSE comp' = c /\ comp_error("RETRY_EXC_ERR")
  /\ UNCHANGED <<posted, sq, timers, respnet, env, other>>

\* COMPST_ERROR_RETRY with nothing to retry.
CompNoRetry ==
  /\ cpc = acting /\ get_wqe = "EXIT"
  /\ comp.timeout_retry /\ wqe <= posted /\ NoWqe
  /\ CompReturn
  /\ UNCHANGED <<posted, sq, req, comp, cqes, run, timers, respnet, env, other>>

\* COMPST_RNR_RETRY
CompRnrRetry ==
  /\ cpc = acting /\ get_wqe = "RNR_RETRY"
  /\ IF comp.rnr_retry > 0
       THEN /\ comp' = [comp EXCEPT !.rnr_retry = IF @ # 7 THEN @ - 1 ELSE 7]
            /\ req' = [req EXCEPT !.need_retry = TRUE]
            /\ timers' = timers \cup {"rnr"}
            /\ CompReturn
            /\ UNCHANGED <<run, cqes>>
       ELSE comp_error("RNR_RETRY_EXC_ERR") /\ UNCHANGED <<comp, timers>>
  /\ UNCHANGED <<posted, sq, respnet, env, other>>

rxe_completer ==
  \/ CompFlush \/ CompBlocked \/ CompGetAck
  \/ CompDone \/ CompWqe \/ CompPart \/ CompAck
  \/ CompExit \/ CompError \/ CompErrorRetry \/ CompNoRetry \/ CompRnrRetry
=============================================================================
