----------------------------- MODULE RxeRCProofs -----------------------------
(***************************************************************************)
(* Theorems about RxeRC.  Types and flushing: for any scenario in which    *)
(* the requester can read the data it sends (LocalKeys), that is with any  *)
(* work requests, losses, timeouts, retries and drains.  What is executed  *)
(* and completed: for the orderly scenarios (see Orderly below), with any  *)
(* work, any lost requests, any windows and retry limits.                  *)
(***************************************************************************)
EXTENDS RxeRC, SequenceTheorems, FiniteSetTheorems, NaturalsInduction, TLAPS

WqeFields == {"op", "n", "fence", "lkey", "rkey", "resid", "iova", "state", "status",
              "first_psn", "last_psn", "has_rd_atomic", "data"}
ReqFields == {"state", "qp_state", "psn", "wqe_index", "opcode", "need_retry", "wait_psn",
              "wait_fence", "rd_atomic", "need_rd_atomic"}
CompFields == {"psn", "opcode", "timeout", "timeout_retry", "retry_cnt", "rnr_retry"}
RespFields == {"state", "psn", "opcode", "sent_psn_nak", "res", "res_head", "va"}
ResFields == {"type", "first_psn", "last_psn", "cur_psn", "msg", "va_org", "va", "resid",
              "length", "state", "orig"}

PSN == 0 .. PsnMod - 1
Data == Nat \cup (Nat \X Nat)
Cqe == [msg : Nat, data : Seq(Data),
        status : {"SUCCESS", "LOC_PROT_ERR", "WR_FLUSH_ERR", "REM_INV_REQ_ERR", "REM_ACCESS_ERR",
                  "RETRY_EXC_ERR", "RNR_RETRY_EXC_ERR"}]

EnvTypes == env \in Scenario

SqTypes ==
  /\ Len(sq) \in Nat /\ DOMAIN sq = 1 .. Len(sq)
  /\ \A m \in 1 .. Len(sq) :
       /\ DOMAIN sq[m] = WqeFields
       /\ sq[m].op \in {"send", "write", "read", "atomic"} /\ sq[m].n \in Nat \ {0}
       /\ sq[m].resid \in 0 .. sq[m].n /\ sq[m].iova \in Nat
       /\ sq[m].state \in {"posted", "processing", "pending", "error"}
       /\ sq[m].first_psn \in PSN /\ sq[m].last_psn \in PSN
       /\ sq[m].has_rd_atomic \in BOOLEAN
       /\ sq[m].data \in Seq(Data) /\ sq[m].status \in {"SUCCESS", "LOC_PROT_ERR"}

\* A message that has been sent from could be read, and only one that could
\* not be has a status other than success.
Statuses ==
  \A m \in 1 .. Len(sq) :
    /\ sq[m].state \in {"processing", "pending"} => sq[m].lkey \/ IsReadAtomic(sq[m].op)
    /\ sq[m].status # "SUCCESS" => ~sq[m].lkey /\ ~IsReadAtomic(sq[m].op)

ReqTypes ==
  /\ DOMAIN req = ReqFields
  /\ req.state \in {"READY", "DRAIN", "DRAINED", "ERROR"} /\ req.qp_state \in {"RTS", "SQD"}
  /\ req.psn \in PSN
  /\ rpc \in {"idle", "wait_fence", "wait_psn"} /\ direct = <<<<>>, 0>>
  /\ run \subseteq {"req", "comp"} /\ timers \subseteq {"retrans", "rnr"}

CompTypes ==
  /\ DOMAIN comp = CompFields
  /\ comp.psn \in PSN /\ comp.opcode \in {"none", "read"}
  /\ comp.retry_cnt \in 0 .. env.retry_cnt /\ comp.rnr_retry \in 0 .. env.rnr_retry
  /\ cpc \in {"idle", "wqe"}

\* The indices of the send queue.
Indices ==
  /\ posted \in 0 .. Len(sq) /\ Len(cqes) \in 0 .. posted /\ cqes \in Seq(Cqe)
  /\ req.wqe_index \in 1 .. posted + 1

\* rd_atomic and the WQEs that were charged.
Charged == {m \in 1 .. Len(sq) : sq[m].has_rd_atomic}
DepthExact ==
  req.rd_atomic \in Nat /\ req.rd_atomic + Cardinality(Charged) = env.max_rd_atomic

\* Packets: a read or an atomic was charged for, and only a read has several responses.
Requests == {p \in Packet : IsReadAtomic(p.op) => env.max_rd_atomic > 0}
ReqNet == reqnet \in Seq(Requests)
Answers == {p \in Response : p.kind = "read" \/ ends(p)}
RespNet == respnet \in Seq(Answers) /\ cpkt \in Seq(Answers)

RespTypes ==
  /\ DOMAIN resp = RespFields
  /\ resp.psn \in PSN /\ resp.opcode \in {"none", "send", "write"}
  /\ resp.res \in 0 .. env.max_rd_atomic
  /\ resp.res_head \in Nat
  /\ env.max_rd_atomic > 0 => resp.res_head \in 1 .. env.max_rd_atomic
  /\ rq \in Nat /\ mem \in Nat
  /\ resp.opcode = "send" /\ resp.state # "ERROR" => rq > 0

ResourceTypes(r) ==
  DOMAIN r = ResFields /\ r.msg \in Nat /\ r.va \in Nat /\ r.orig \in Nat /\ r.cur_psn \in PSN

ResTypes ==
  /\ DOMAIN res = 1 .. env.max_rd_atomic
  /\ \A i \in 1 .. env.max_rd_atomic : ResourceTypes(res[i])

RCInv ==
  /\ EnvTypes /\ SqTypes /\ Statuses /\ ReqTypes /\ CompTypes /\ Indices /\ DepthExact
  /\ ReqNet /\ RespNet /\ RespTypes /\ ResTypes
  /\ req.state = "ERROR" => cpc = "idle"
  /\ ~env.drains => req.qp_state = "RTS"

FailedIsError ==
  ~env.drains /\ (\E i \in 1 .. Len(cqes) : cqes[i].status # "SUCCESS") => req.state = "ERROR"

-----------------------------------------------------------------------------
(* What the steps of each task leave alone *)

LEMMA ReqFrame ==
  ASSUME ReqStep
  PROVE  UNCHANGED <<posted, comp, cpc, cpkt, cqes, respnet, resp, res, rq, mem, executed, env>>
  <1>1. CASE ReqError \/ ReqRetry \/ ReqDrained \/ ReqNone
    BY <1>1 DEF ReqError, ReqRetry, ReqDrained, ReqNone, reqvars, compvars, respvars
  <1>2. CASE ReqTestWait \/ ReqSetWait
    BY <1>2 DEF ReqTestWait, ReqSetWait, compvars, respvars
  <1>3. CASE \E m \in Msgs : ReqNoDepth(m)
    BY <1>3 DEF ReqNoDepth, compvars, respvars
  <1>4. ASSUME NEW m \in Msgs, ReqSend(m)
        PROVE  UNCHANGED <<posted, rpc, compvars, run, respnet, respvars, env>>
    BY <1>4, Zenon DEF ReqSend
  <1>5. CASE \E m \in Msgs : ReqSend(m)
    BY <1>4, <1>5 DEF compvars, respvars
  <1> QED
    BY <1>1, <1>2, <1>3, <1>5 DEF ReqStep

LEMMA CompFrame ==
  ASSUME CompStep
  PROVE  UNCHANGED <<posted, rpc, direct, reqnet, resp, res, rq, mem, executed, env>>
  <1>1. CASE CompFlush \/ CompBlocked \/ CompGetAck \/ CompDone
    BY <1>1 DEF CompFlush, CompBlocked, CompGetAck, CompDone, reqvars, respvars
  <1>2. CASE CompWqe \/ CompPart \/ CompExit \/ CompError
    BY <1>2 DEF CompWqe, CompPart, CompExit, CompError, reqvars, respvars
  <1>3. CASE CompAck
    <2>1. UNCHANGED <<posted, rpc, direct, timers, reqnet, respnet, respvars, env>>
      BY <1>3, Zenon DEF CompAck
    <2> QED
      BY <2>1 DEF respvars
  <1>4. CASE CompErrorRetry \/ CompNoRetry \/ CompRnrRetry
    BY <1>4 DEF CompErrorRetry, CompNoRetry, CompRnrRetry, reqvars, respvars
  <1> QED
    BY <1>1, <1>2, <1>3, <1>4 DEF CompStep

LEMMA RespFrame ==
  ASSUME RespStep
  PROVE  UNCHANGED <<posted, sq, req, rpc, direct, comp, cpc, cpkt, cqes, timers, env>>
  <1>1. CASE RespDrop \/ RespOutOfSeq \/ RespRnr \/ RespError \/ RespFlush
    BY <1>1 DEF RespDrop, RespOutOfSeq, RespRnr, RespError, RespFlush, reqvars, compvars
  <1>2. CASE RespSendWrite \/ RespAtomic \/ RespRead \/ RespReadNext
    BY <1>2 DEF RespSendWrite, RespAtomic, RespRead, RespReadNext, reqvars, compvars
  <1>3. CASE RespDupSendWrite \/ RespDupRead \/ RespDupAtomic
    BY <1>3 DEF RespDupSendWrite, RespDupRead, RespDupAtomic, reqvars, compvars
  <1> QED
    BY <1>1, <1>2, <1>3 DEF RespStep

LEMMA DirectFrame == ASSUME [Readable]_vars PROVE UNCHANGED direct
  <1>1. CASE ReqStep
    <2>1. CASE \E m \in Msgs : ReqSend(m)
      BY <2>1, Zenon DEF ReqSend
    <2>2. CASE ~ \E m \in Msgs : ReqSend(m)
      BY <1>1, <2>2 DEF ReqStep, ReqError, ReqRetry, ReqDrained, ReqNone, ReqTestWait, ReqSetWait,
                        ReqNoDepth, reqvars
    <2> QED
      BY <2>1, <2>2
  <1>2. CASE CompStep
    BY <1>2, CompFrame
  <1>3. CASE RespStep
    BY <1>3, RespFrame
  <1>4. CASE PostRecv \/ Post \/ Drain \/ Resume \/ RetransmitTimer \/ RnrNakTimer
             \/ LoseRequest \/ LoseResponse \/ DropRequest \/ DropResponse \/ UNCHANGED vars
    BY <1>4 DEF PostRecv, Post, Drain, Resume, RetransmitTimer, RnrNakTimer, LoseRequest,
                LoseResponse, DropRequest, DropResponse, reqvars, vars
  <1> QED
    BY <1>1, <1>2, <1>3, <1>4 DEF Readable

-----------------------------------------------------------------------------
LEMMA ModRange ==
  /\ PsnMod \in Nat \ {0}
  /\ \A p \in Int : p % PsnMod \in PSN
  <1>1. PsnMod \in Nat \ {0}
    BY RCAssumption
  <1>2. ASSUME NEW p \in Int PROVE p % PsnMod \in PSN
    BY <1>1 DEF PSN
  <1> QED
    BY <1>1, <1>2

LEMMA PsnAdd == \A p, k \in Int : psn_add(p, k) \in PSN /\ psn_add(p, k) \in Nat
  BY ModRange DEF psn_add, PSN

LEMMA PsnNext == \A p \in Int : psn_add(p, 1) \in PSN
  <1> SUFFICES ASSUME NEW p \in Int PROVE psn_add(p, 1) \in PSN
    OBVIOUS
  <1>1. 1 \in Int
    OBVIOUS
  <1> QED
    BY <1>1, PsnAdd, Zenon

LEMMA Psns ==
  ASSUME RCInv
  PROVE  /\ req.psn \in PSN /\ comp.psn \in PSN /\ resp.psn \in PSN
         /\ \A p \in PSN : p \in Nat /\ p \in Int
  BY ModRange DEF RCInv, ReqTypes, CompTypes, RespTypes, PSN

\* What a scenario promises does not change.
EnvKept ==
  /\ env' \in Scenario
  /\ env'.max_rd_atomic = env.max_rd_atomic /\ env'.retry_cnt = env.retry_cnt
  /\ env'.rnr_retry = env.rnr_retry /\ env'.drains = env.drains

LEMMA ScenarioWith ==
  ASSUME NEW s \in Scenario, NEW n \in Nat
  PROVE  /\ [s EXCEPT !.recv = n] \in Scenario /\ [s EXCEPT !.req = n] \in Scenario
         /\ [s EXCEPT !.resp = n] \in Scenario /\ [s EXCEPT !.early = n] \in Scenario
  BY Zenon DEF Scenario

LEMMA ScenarioFields ==
  ASSUME NEW s \in Scenario
  PROVE  /\ {"max_rd_atomic", "retry_cnt", "rnr_retry", "drains", "list", "rq"} \subseteq DOMAIN s
         /\ s.max_rd_atomic \in 0 .. 7 /\ s.retry_cnt \in 0 .. 7 /\ s.rnr_retry \in 0 .. 7
         /\ s.drains \in BOOLEAN /\ s.timeout \in BOOLEAN
         /\ s.list \in Nat /\ s.rq \in Nat /\ s.wrs \in Seq(WR)
         /\ s.recv \in Nat /\ s.req \in Nat /\ s.resp \in Nat /\ s.early \in Nat
  BY DEF Scenario

LEMMA EnvStep ==
  ASSUME RCInv, [Readable]_vars
  PROVE  EnvKept
  <1>1. env \in Scenario
    BY DEF RCInv, EnvTypes
  <1>2. ASSUME NEW n \in Nat,
               \/ env' = [env EXCEPT !.recv = n] \/ env' = [env EXCEPT !.req = n]
               \/ env' = [env EXCEPT !.resp = n] \/ env' = [env EXCEPT !.early = n]
        PROVE  EnvKept
    <2>1. env' \in Scenario
      BY <1>1, <1>2, ScenarioWith
    <2>2. {"max_rd_atomic", "retry_cnt", "rnr_retry", "drains"} \subseteq DOMAIN env
      BY <1>1, ScenarioFields
    <2> QED
      BY <1>2, <2>1, <2>2 DEF EnvKept
  <1>3. ASSUME env' = env PROVE EnvKept
    BY <1>1, <1>3 DEF EnvKept
  <1>4. CASE PostRecv \/ LoseRequest \/ LoseResponse \/ RetransmitTimer
    <2>1. env.recv \in Nat /\ env.req \in Nat /\ env.resp \in Nat /\ env.early \in Nat
      BY <1>1, ScenarioFields
    <2>2. CASE PostRecv
      <3>1. PICK n \in Nat : env.recv > 0 => n = env.recv - 1
        BY <2>1
      <3>2. env' = [env EXCEPT !.recv = n]
        BY <2>2, <3>1 DEF PostRecv
      <3> QED
        BY <1>2, <3>2
    <2>3. CASE LoseRequest
      <3>1. PICK n \in Nat : env.req > 0 => n = env.req - 1
        BY <2>1
      <3>2. env' = [env EXCEPT !.req = n]
        BY <2>3, <3>1 DEF LoseRequest
      <3> QED
        BY <1>2, <3>2
    <2>4. CASE LoseResponse
      <3>1. PICK n \in Nat : env.resp > 0 => n = env.resp - 1
        BY <2>1
      <3>2. env' = [env EXCEPT !.resp = n]
        BY <2>4, <3>1 DEF LoseResponse
      <3> QED
        BY <1>2, <3>2
    <2>5. CASE RetransmitTimer
      <3>1. PICK n \in Nat : env.early > 0 => n = env.early - 1
        BY <2>1
      <3>2. env' = [env EXCEPT !.early = n] \/ env' = env
        BY <2>5, <3>1 DEF RetransmitTimer
      <3> QED
        BY <1>2, <1>3, <3>2
    <2> QED
      BY <1>4, <2>2, <2>3, <2>4, <2>5
  <1>5. CASE \/ Post \/ Drain \/ Resume \/ RnrNakTimer \/ DropRequest \/ DropResponse
             \/ UNCHANGED vars
    BY <1>3, <1>5 DEF Post, Drain, Resume, RnrNakTimer, DropRequest, DropResponse, vars
  <1>6. CASE ReqStep
    BY <1>3, <1>6, ReqFrame
  <1>7. CASE CompStep
    BY <1>3, <1>7, CompFrame
  <1>8. CASE RespStep
    BY <1>3, <1>8, RespFrame
  <1> QED
    BY <1>4, <1>5, <1>6, <1>7, <1>8 DEF Readable

\* What the decisions of the completer rest on.
LEMMA HeadThere ==
  ASSUME RCInv
  PROVE  /\ head \in Nat \ {0} /\ head = Len(cqes) + 1
         /\ ~NoWqe => head \in 1 .. posted /\ head \in 1 .. Len(sq)
  BY DEF RCInv, Indices, SqTypes, head, NoWqe

LEMMA DecisionMeans ==
  ASSUME RCInv, get_wqe \notin {"DONE", "EXIT"}
  PROVE  /\ ~NoWqe
         /\ get_wqe # "ERROR" =>
              /\ cpkt # <<>> /\ cpkt[1] \in Answers /\ sq[head].state \in {"processing", "pending"}
  <1>1. ~NoWqe
    BY DEF get_wqe
  <1>2. head \in 1 .. Len(sq)
    BY <1>1, HeadThere
  <1>3. ASSUME get_wqe # "ERROR" PROVE cpkt # <<>> /\ sq[head].state # "error"
    BY <1>1, <1>3 DEF get_wqe
  <1>4. sq[head].state \in {"posted", "processing", "pending", "error"} /\ sq[head].state # "posted"
    BY <1>1, <1>2 DEF RCInv, SqTypes, NoWqe
  <1>5. cpkt # <<>> => cpkt[1] \in Answers
    BY DEF RCInv, RespNet
  <1> QED
    BY <1>1, <1>3, <1>4, <1>5

\* The WQEs keep their shape; only some fields change.
WqeTypes(w) ==
  /\ DOMAIN w = WqeFields
  /\ w.op \in {"send", "write", "read", "atomic"} /\ w.n \in Nat \ {0}
  /\ w.resid \in 0 .. w.n /\ w.iova \in Nat
  /\ w.state \in {"posted", "processing", "pending", "error"}
  /\ w.first_psn \in PSN /\ w.last_psn \in PSN
  /\ w.has_rd_atomic \in BOOLEAN
  /\ w.data \in Seq(Data) /\ w.status \in {"SUCCESS", "LOC_PROT_ERR"}

WqeStatus(w) ==
  /\ w.state \in {"processing", "pending"} => w.lkey \/ IsReadAtomic(w.op)
  /\ w.status # "SUCCESS" => ~w.lkey /\ ~IsReadAtomic(w.op)

LEMMA WqesAre ==
  ASSUME RCInv
  PROVE  /\ Len(sq) \in Nat /\ DOMAIN sq = 1 .. Len(sq)
         /\ \A m \in 1 .. Len(sq) : WqeTypes(sq[m]) /\ WqeStatus(sq[m])
  BY DEF RCInv, SqTypes, Statuses, WqeTypes, WqeStatus

SqKept ==
  /\ Len(sq') = Len(sq) /\ DOMAIN sq' = DOMAIN sq
  /\ \A m \in 1 .. Len(sq) : WqeTypes(sq'[m]) /\ WqeStatus(sq'[m])

LEMMA OneWqe ==
  ASSUME RCInv, NEW m \in 1 .. Len(sq), NEW w, sq' = [sq EXCEPT ![m] = w],
         WqeTypes(w), WqeStatus(w)
  PROVE  SqKept
  BY WqesAre DEF SqKept

LEMMA SqRetry == ASSUME RCInv, ReqRetry PROVE SqKept
  <1> DEFINE npsn == (comp.psn - sq[head].first_psn) % PsnMod
             todo == {m \in head .. posted : \A k \in head .. m : sq[k].state # "posted"}
  <1>1. sq' = [m \in Msgs |-> IF m \in todo THEN retried(m, npsn) ELSE sq[m]]
    BY DEF ReqRetry
  <1> HIDE DEF npsn, todo
  <1>2. Len(sq) \in Nat /\ DOMAIN sq = 1 .. Len(sq) /\ Msgs = 1 .. Len(sq)
    BY WqesAre DEF Msgs
  <1>3. DOMAIN sq' = 1 .. Len(sq) /\ Len(sq') = Len(sq)
    BY <1>1, <1>2
  <1>4. ASSUME NEW m \in 1 .. Len(sq), m \in todo
        PROVE  WqeTypes(retried(m, npsn)) /\ WqeStatus(retried(m, npsn))
    <2>1. m \in head .. posted /\ head <= posted /\ head \in 1 .. Len(sq)
      <3>1. m \in head .. posted
        BY <1>4 DEF todo
      <3> QED
        BY <3>1, HeadThere DEF RCInv, Indices, SqTypes
    <2>2. npsn \in Nat
      <3>1. comp.psn \in Int /\ sq[head].first_psn \in Int
        BY <2>1, WqesAre, Psns DEF WqeTypes
      <3>2. comp.psn - sq[head].first_psn \in Int
        BY <3>1
      <3>3. npsn \in PSN
        BY <3>2, ModRange, Zenon DEF npsn
      <3> QED
        BY <3>3, Psns
    <2>3. WqeTypes(sq[m]) /\ WqeStatus(sq[m])
      BY WqesAre
    <2> QED
      BY <2>2, <2>3 DEF WqeTypes, WqeStatus, retried, WqeFields
  <1>5. ASSUME NEW m \in 1 .. Len(sq) PROVE WqeTypes(sq'[m]) /\ WqeStatus(sq'[m])
    BY <1>1, <1>2, <1>4, WqesAre
  <1> QED
    BY <1>2, <1>3, <1>5 DEF SqKept

LEMMA SqSend == ASSUME RCInv, NEW m \in Msgs, ReqSend(m) PROVE SqKept /\ req'.psn \in PSN
  <1>1. m \in 1 .. Len(sq) /\ WqeTypes(sq[m]) /\ WqeStatus(sq[m])
    BY WqesAre DEF Msgs
  <1> DEFINE w == sq[m]
             num_pkt == IF w.resid = 0 THEN 1 ELSE w.resid
             pkt     == [op |-> w.op, pos |-> next_opcode(w), psn |-> req.psn, msg |-> m,
                         off |-> w.n - w.resid, va |-> w.iova, len |-> w.n]
             first   == IF starts(pkt) THEN req.psn ELSE w.first_psn
             last    == IF starts(pkt) THEN psn_add(req.psn, num_pkt - 1) ELSE w.last_psn
             new     == [w EXCEPT !.resid = IF IsReadAtomic(w.op) \/ @ = 0 THEN @ ELSE @ - 1,
                                  !.first_psn = first, !.last_psn = last,
                                  !.state = IF ends(pkt) THEN "pending" ELSE "processing",
                                  !.has_rd_atomic = @ \/ charged(m)]
  <1>2. sq' = [sq EXCEPT ![m] = new] /\ (IsReadAtomic(w.op) \/ w.lkey)
    <2>1. sq' = [sq EXCEPT ![m] = new]
      BY ZenonT(40) DEF ReqSend
    <2>2. IsReadAtomic(w.op) \/ w.lkey
      BY ZenonT(40) DEF ReqSend
    <2> QED
      BY <2>1, <2>2
  <1>3. req.psn \in PSN /\ req.psn \in Int /\ num_pkt \in Nat
    <2>1. w.resid \in 0 .. w.n /\ w.n \in Nat
      BY <1>1 DEF WqeTypes
    <2>2. num_pkt \in Nat
      BY <2>1
    <2> QED
      BY <2>2, Psns
  <1>4. first \in PSN /\ last \in PSN
    <2> HIDE DEF num_pkt, pkt
    <2>1. psn_add(req.psn, num_pkt - 1) \in PSN
      <3>1. num_pkt - 1 \in Int
        BY <1>3
      <3> QED
        BY <1>3, <3>1, PsnAdd, Zenon
    <2> QED
      BY <1>1, <1>3, <2>1 DEF WqeTypes
  <1>5. charged(m) \in BOOLEAN
    BY DEF charged
  <1> HIDE DEF first, last, pkt
  <1>6. WqeTypes(new)
    BY <1>1, <1>4, <1>5 DEF WqeTypes, WqeFields
  <1>7. WqeStatus(new)
    BY <1>1, <1>2 DEF WqeTypes, WqeStatus, WqeFields
  <1>8. SqKept
    BY <1>1, <1>2, <1>6, <1>7, OneWqe
  <1>9. req'.psn \in PSN
    <2>0. DOMAIN req = ReqFields
      BY DEF RCInv, ReqTypes
    <2> DEFINE k == IF w.op = "read" THEN psn_add(first, num_pkt) ELSE psn_add(req.psn, 1)
               i == IF ends(pkt) THEN req.wqe_index + 1 ELSE req.wqe_index
               o == IF ends(pkt) THEN "none" ELSE w.op
    <2>a. PICK r : r = check_init_depth(m)
      OBVIOUS
    <2>b. DOMAIN r = ReqFields /\ r.psn = req.psn /\ r.wqe_index = req.wqe_index
      BY <2>0, <2>a DEF check_init_depth, ReqFields
    <2>c. req' = [r EXCEPT !.psn = k, !.opcode = o, !.wqe_index = i]
      BY <2>a, <2>b DEF ReqSend, first, pkt
    <2>1. req'.psn = k
      <3> HIDE DEF k, o, i
      <3> QED
        BY <2>b, <2>c DEF ReqFields
    <2>2. first \in Int
      BY <1>4, ModRange DEF PSN
    <2>3. psn_add(first, num_pkt) \in PSN
      <3> HIDE DEF num_pkt
      <3>1. num_pkt \in Int
        BY <1>3
      <3> QED
        BY <2>2, <3>1, PsnAdd, Zenon
    <2>4. psn_add(req.psn, 1) \in PSN
      BY <1>3, PsnNext
    <2>5. k \in PSN
      BY <2>3, <2>4
    <2> QED
      BY <2>1, <2>5
  <1> QED
    BY <1>8, <1>9

LEMMA SqComp ==
  ASSUME RCInv, CompPart \/ CompAck
  PROVE  /\ SqKept /\ ~NoWqe /\ cpkt # <<>> /\ cpkt[1] \in Answers
         /\ sq[head].state \in {"processing", "pending"}
  <1>1. get_wqe \notin {"DONE", "EXIT", "ERROR"}
    BY DEF CompPart, CompAck
  <1>2. /\ ~NoWqe /\ cpkt # <<>> /\ cpkt[1] \in Answers
        /\ sq[head].state \in {"processing", "pending"}
    BY <1>1, DecisionMeans
  <1>3. head \in 1 .. Len(sq)
    BY <1>2, HeadThere
  <1>4. WqeTypes(sq[head]) /\ WqeStatus(sq[head])
    BY <1>3, WqesAre
  <1>5. ASSUME UNCHANGED sq PROVE SqKept
    BY <1>5, WqesAre DEF SqKept
  <1>6. ASSUME NEW d \in Seq(Data), sq[head].resid > 0,
               sq' = [sq EXCEPT ![head].resid = @ - 1, ![head].data = d]
        PROVE  SqKept
    <2> DEFINE w == [sq[head] EXCEPT !.resid = @ - 1, !.data = d]
    <2>1. sq' = [sq EXCEPT ![head] = w]
      BY <1>6
    <2>2. WqeTypes(w) /\ WqeStatus(w)
      BY <1>4, <1>6 DEF WqeTypes, WqeStatus, WqeFields
    <2> QED
      BY <1>3, <2>1, <2>2, OneWqe
  <1>7. ASSUME NEW d \in Seq(Data), NEW z \in {0, sq[head].resid},
               sq' = [sq EXCEPT ![head].has_rd_atomic = FALSE, ![head].resid = z, ![head].data = d]
        PROVE  SqKept
    <2> DEFINE w == [sq[head] EXCEPT !.has_rd_atomic = FALSE, !.resid = z, !.data = d]
    <2>1. sq' = [sq EXCEPT ![head] = w]
      BY <1>7
    <2>2. WqeTypes(w) /\ WqeStatus(w)
      BY <1>4, <1>7 DEF WqeTypes, WqeStatus, WqeFields
    <2> QED
      BY <1>3, <2>1, <2>2, OneWqe
  <1> DEFINE p == cpkt[1]
             st == get_wqe
  <1>d. sq[head].data \in Seq(Data) /\ <<p.data>> \in Seq(Data)
        /\ Append(sq[head].data, <<p.msg, p.data>>) \in Seq(Data)
    <2>1. p.msg \in Nat /\ p.data \in Nat
      BY <1>2 DEF Answers, Response
    <2>2. p.data \in Data /\ <<p.msg, p.data>> \in Data /\ sq[head].data \in Seq(Data)
      BY <1>4, <2>1 DEF Data, WqeTypes
    <2> QED
      BY <2>2
  <1>8. CASE CompPart
    BY <1>2, <1>5, <1>6, <1>8, <1>d DEF CompPart
  <1>9. CASE CompAck
    <2> DEFINE d == CASE st = "READ"   -> Append(sq[head].data, <<p.msg, p.data>>)
                      [] st = "ATOMIC" -> <<p.data>>
                      [] OTHER         -> sq[head].data
    <2>1. sq' = [sq EXCEPT ![head].has_rd_atomic = FALSE,
                           ![head].resid = IF st = "READ" THEN 0 ELSE @,
                           ![head].data = d]
      BY <1>9 DEF CompAck
    <2>2. d \in Seq(Data)
      BY <1>d
    <2> HIDE DEF d
    <2> QED
      BY <1>2, <1>7, <2>1, <2>2
  <1> QED
    BY <1>8, <1>9

LEMMA SqStep ==
  ASSUME RCInv, [Readable]_vars
  PROVE  SqKept
  <1>1. ASSUME UNCHANGED sq PROVE SqKept
    BY <1>1, WqesAre DEF SqKept
  <1>3. CASE ReqStep
    <2>1. CASE ReqError \/ ReqDrained \/ ReqNone \/ ReqTestWait \/ ReqSetWait
               \/ \E m \in Msgs : ReqNoDepth(m)
      BY <1>1, <2>1 DEF ReqError, ReqDrained, ReqNone, ReqTestWait, ReqSetWait, ReqNoDepth, reqvars
    <2> QED
      BY <1>3, <2>1, SqRetry, SqSend DEF ReqStep
  <1>4. CASE CompStep
    <2>1. CASE CompFlush \/ CompBlocked \/ CompGetAck \/ CompDone \/ CompWqe \/ CompExit
               \/ CompError \/ CompErrorRetry \/ CompNoRetry \/ CompRnrRetry
      BY <1>1, <2>1 DEF CompFlush, CompBlocked, CompGetAck, CompDone, CompWqe, CompExit, CompError,
                        CompErrorRetry, CompNoRetry, CompRnrRetry, reqvars
    <2> QED
      BY <1>4, <2>1, SqComp DEF CompStep
  <1>5. CASE RespStep
    BY <1>1, <1>5, RespFrame
  <1>6. CASE PostRecv \/ Post \/ Drain \/ Resume \/ RetransmitTimer \/ RnrNakTimer
             \/ LoseRequest \/ LoseResponse \/ DropRequest \/ DropResponse \/ UNCHANGED vars
    BY <1>1, <1>6 DEF PostRecv, Post, Drain, Resume, RetransmitTimer, RnrNakTimer, LoseRequest,
                      LoseResponse, DropRequest, DropResponse, reqvars, vars
  <1> QED
    BY <1>3, <1>4, <1>5, <1>6 DEF Readable

-----------------------------------------------------------------------------
(* Completions *)

\* A completion, unless the queue is flushed: one WQE, successful or the QP moves to error.
OneCqe ==
  /\ ~NoWqe /\ cpc = "wqe" /\ posted' = posted /\ env' = env
  /\ \E x \in Cqe : cqes' = Append(cqes, x) /\ (x.status = "SUCCESS" \/ req'.state = "ERROR")

LEMMA CompletedIs ==
  ASSUME RCInv, ~NoWqe, NEW st \in {"SUCCESS", "LOC_PROT_ERR", "WR_FLUSH_ERR", "REM_INV_REQ_ERR",
                                    "REM_ACCESS_ERR", "RETRY_EXC_ERR", "RNR_RETRY_EXC_ERR"},
         NEW d \in Seq(Data), do_complete(st, d)
  PROVE  \E x \in Cqe : cqes' = Append(cqes, x) /\ x.status = st
  <1> DEFINE x == [msg |-> head, status |-> st, data |-> d]
  <1>1. head \in Nat
    BY HeadThere
  <1>2. x \in Cqe
    BY <1>1 DEF Cqe
  <1>3. cqes' = Append(cqes, x) /\ x.status = st
    BY DEF do_complete
  <1> QED
    BY <1>2, <1>3

LEMMA HeadWqe ==
  ASSUME RCInv, ~NoWqe
  PROVE  /\ WqeTypes(sq[head]) /\ WqeStatus(sq[head])
         /\ sq[head].state \in {"processing", "pending"} => sq[head].status = "SUCCESS"
  <1>1. WqeTypes(sq[head]) /\ WqeStatus(sq[head])
    BY HeadThere, WqesAre
  <1> QED
    BY <1>1 DEF WqeStatus

LEMMA CqeStep ==
  ASSUME RCInv, [Readable]_vars, ~CompFlush
  PROVE  UNCHANGED cqes \/ OneCqe
  <1>0. DOMAIN req = ReqFields
    BY DEF RCInv, ReqTypes
  <1>1. CASE CompWqe \/ CompAck
    <2>1. get_wqe \notin {"DONE", "EXIT", "ERROR"} /\ cpc = "wqe" /\ posted' = posted /\ env' = env
      BY <1>1 DEF CompWqe, CompAck
    <2>2. /\ ~NoWqe /\ cpkt # <<>> /\ cpkt[1] \in Answers
          /\ sq[head].state \in {"processing", "pending"}
      BY <2>1, DecisionMeans
    <2>3. WqeTypes(sq[head]) /\ sq[head].status = "SUCCESS"
      BY <2>2, HeadWqe
    <2>4. \E d \in Seq(Data) : do_complete(sq[head].status, d)
      <3>1. CASE CompWqe
        BY <2>3, <3>1 DEF CompWqe, WqeTypes
      <3>2. CASE CompAck
        <4> DEFINE p == cpkt[1]
                   st == get_wqe
                   d == CASE st = "READ"   -> Append(sq[head].data, <<p.msg, p.data>>)
                          [] st = "ATOMIC" -> <<p.data>>
                          [] OTHER         -> sq[head].data
        <4>1. p.msg \in Nat /\ p.data \in Nat
          BY <2>2 DEF Answers, Response
        <4>2. p.data \in Data /\ <<p.msg, p.data>> \in Data /\ sq[head].data \in Seq(Data)
          BY <2>3, <4>1 DEF Data, WqeTypes
        <4>3. d \in Seq(Data)
          BY <4>2
        <4>4. do_complete(sq[head].status, d)
          BY <3>2 DEF CompAck
        <4> QED
          BY <4>3, <4>4
      <3> QED
        BY <1>1, <3>1, <3>2
    <2> QED
      BY <2>1, <2>2, <2>3, <2>4, CompletedIs DEF OneCqe
  <1>2. ASSUME NEW st \in {"SUCCESS", "LOC_PROT_ERR", "WR_FLUSH_ERR", "REM_INV_REQ_ERR",
                           "REM_ACCESS_ERR", "RETRY_EXC_ERR", "RNR_RETRY_EXC_ERR"},
               ~NoWqe, cpc = "wqe", comp_error(st), posted' = posted, env' = env
        PROVE  OneCqe
    <2>1. sq[head].data \in Seq(Data)
      BY <1>2, HeadWqe DEF WqeTypes
    <2>2. do_complete(st, sq[head].data) /\ req'.state = "ERROR"
      BY <1>0, <1>2 DEF comp_error, ReqFields
    <2> QED
      BY <1>2, <2>1, <2>2, CompletedIs DEF OneCqe
  <1>3. CASE CompError
    <2>1. ~NoWqe /\ cpc = "wqe" /\ posted' = posted /\ env' = env
      BY <1>3, DecisionMeans DEF CompError
    <2>2. sq[head].status \in {"SUCCESS", "LOC_PROT_ERR"}
      BY <2>1, HeadWqe DEF WqeTypes
    <2>3. nak_status(cpkt[1]) \in {"REM_INV_REQ_ERR", "REM_ACCESS_ERR", "SUCCESS", "LOC_PROT_ERR"}
      BY <2>2 DEF nak_status
    <2> DEFINE st == IF get_wqe = "ERROR" /\ cpkt # <<>> /\ sq[head].state # "error"
                     THEN nak_status(cpkt[1]) ELSE sq[head].status
    <2>4. comp_error(st)
      BY <1>3 DEF CompError
    <2>5. st \in {"REM_INV_REQ_ERR", "REM_ACCESS_ERR", "SUCCESS", "LOC_PROT_ERR"}
      BY <2>2, <2>3
    <2> HIDE DEF st
    <2> QED
      BY <1>2, <2>1, <2>4, <2>5
  <1>4. CASE CompErrorRetry
    <2>1. cpc = "wqe" /\ posted' = posted /\ env' = env /\ ~NoWqe
      BY <1>4, DecisionMeans DEF CompErrorRetry
    <2>2. UNCHANGED cqes \/ comp_error("RETRY_EXC_ERR")
      BY <1>4 DEF CompErrorRetry
    <2> QED
      BY <1>2, <2>1, <2>2
  <1>5. CASE CompRnrRetry
    <2>1. cpc = "wqe" /\ posted' = posted /\ env' = env /\ ~NoWqe
      BY <1>5, DecisionMeans DEF CompRnrRetry
    <2>2. UNCHANGED cqes \/ comp_error("RNR_RETRY_EXC_ERR")
      BY <1>5 DEF CompRnrRetry
    <2> QED
      BY <1>2, <2>1, <2>2
  <1>6. CASE CompBlocked \/ CompGetAck \/ CompDone \/ CompPart \/ CompExit \/ CompNoRetry
    BY <1>6 DEF CompBlocked, CompGetAck, CompDone, CompPart, CompExit, CompNoRetry
  <1>7. CASE ReqStep
    BY <1>7, ReqFrame
  <1>8. CASE RespStep
    BY <1>8, RespFrame
  <1>9. CASE PostRecv \/ Post \/ Drain \/ Resume \/ RetransmitTimer \/ RnrNakTimer
             \/ LoseRequest \/ LoseResponse \/ DropRequest \/ DropResponse \/ UNCHANGED vars
    BY <1>9 DEF PostRecv, Post, Drain, Resume, RetransmitTimer, RnrNakTimer, LoseRequest,
                LoseResponse, DropRequest, DropResponse, compvars, vars
  <1> QED
    BY <1>1, <1>3, <1>4, <1>5, <1>6, <1>7, <1>8, <1>9 DEF Readable, CompStep

LEMMA FlushIs ==
  ASSUME RCInv, CompFlush
  PROVE  /\ cqes' \in Seq(Cqe) /\ Len(cqes') = posted /\ posted' = posted /\ env' = env
         /\ \A i \in 1 .. Len(cqes) : cqes'[i] = cqes[i]
         /\ \A i \in Len(cqes) + 1 .. posted : cqes'[i].status = "WR_FLUSH_ERR"
         /\ req.state = "ERROR" /\ req'.state = "ERROR" /\ cpc' = cpc
  <1>1. /\ posted \in Nat /\ Len(cqes) \in 0 .. posted /\ cqes \in Seq(Cqe) /\ posted <= Len(sq)
        /\ DOMAIN req = ReqFields
    BY DEF RCInv, Indices, ReqTypes, SqTypes
  <1> DEFINE flushed(i) == [msg |-> Len(cqes) + i, status |-> "WR_FLUSH_ERR",
                            data |-> sq[Len(cqes) + i].data]
             more == [i \in 1 .. posted - Len(cqes) |-> flushed(i)]
  <1>2. ASSUME NEW i \in 1 .. posted - Len(cqes) PROVE flushed(i) \in Cqe
    <2>1. Len(cqes) + i \in Nat /\ Len(cqes) + i \in 1 .. Len(sq)
      BY <1>1, WqesAre
    <2>2. sq[Len(cqes) + i].data \in Seq(Data)
      BY <2>1, WqesAre DEF WqeTypes
    <2> QED
      BY <2>1, <2>2 DEF Cqe
  <1>3. more \in Seq(Cqe) /\ Len(more) = posted - Len(cqes)
    <2> HIDE DEF flushed
    <2> QED
      BY <1>1, <1>2
  <1>4. cqes' = cqes \o more
    BY DEF CompFlush
  <1>5. \A i \in 1 .. posted - Len(cqes) : more[i].status = "WR_FLUSH_ERR"
    OBVIOUS
  <1> HIDE DEF more
  <1>6. /\ cqes' \in Seq(Cqe) /\ Len(cqes') = Len(cqes) + Len(more)
        /\ \A i \in 1 .. Len(cqes) + Len(more) : cqes'[i] =
              IF i <= Len(cqes) THEN cqes[i] ELSE more[i - Len(cqes)]
    BY <1>1, <1>3, <1>4, ConcatProperties, Zenon
  <1>7. Len(cqes') = posted /\ \A i \in 1 .. Len(cqes) : cqes'[i] = cqes[i]
    BY <1>1, <1>3, <1>6
  <1>8. ASSUME NEW i \in Len(cqes) + 1 .. posted PROVE cqes'[i].status = "WR_FLUSH_ERR"
    <2>1. i - Len(cqes) \in 1 .. posted - Len(cqes) /\ i \in 1 .. Len(cqes) + Len(more)
          /\ ~(i <= Len(cqes))
      BY <1>1, <1>3, <1>8
    <2> QED
      BY <1>5, <1>6, <2>1
  <1>9. /\ posted' = posted /\ env' = env /\ cpc' = cpc
        /\ req.state = "ERROR" /\ req'.state = "ERROR"
    BY <1>1 DEF CompFlush, ReqFields
  <1> QED
    BY <1>6, <1>7, <1>8, <1>9

LEMMA IndexStep ==
  ASSUME RCInv, [Readable]_vars
  PROVE  Indices'
  <1>1. /\ posted \in Nat /\ posted <= Len(sq) /\ Len(sq) \in Nat /\ Len(cqes) \in 0 .. posted
        /\ cqes \in Seq(Cqe) /\ req.wqe_index \in 1 .. posted + 1
        /\ Len(sq') = Len(sq) /\ DOMAIN req = ReqFields
    BY SqStep DEF RCInv, Indices, SqTypes, ReqTypes, SqKept
  <1>2. posted' \in Nat /\ posted <= posted' /\ posted' <= Len(sq)
    <2>1. CASE Post
      <3>1. env.list \in Nat
        BY ScenarioFields DEF RCInv, EnvTypes
      <3> QED
        BY <1>1, <2>1, <3>1 DEF Post
    <2>2. CASE ~Post
      <3>1. ASSUME ReqStep PROVE posted' = posted
        BY <3>1, ReqFrame
      <3>2. ASSUME CompStep PROVE posted' = posted
        BY <3>2, CompFrame
      <3>3. ASSUME RespStep PROVE posted' = posted
        BY <3>3, RespFrame
      <3>4. ASSUME PostRecv \/ Drain \/ Resume \/ RetransmitTimer \/ RnrNakTimer
                   \/ LoseRequest \/ LoseResponse \/ DropRequest \/ DropResponse \/ UNCHANGED vars
            PROVE  posted' = posted
        BY <3>4 DEF PostRecv, Drain, Resume, RetransmitTimer, RnrNakTimer, LoseRequest,
                    LoseResponse, DropRequest, DropResponse, reqvars, vars
      <3>5. posted' = posted
        BY <2>2, <3>1, <3>2, <3>3, <3>4 DEF Readable
      <3> QED
        BY <1>1, <3>5
    <2> QED
      BY <2>1, <2>2
  <1>3. cqes' \in Seq(Cqe) /\ Len(cqes') \in 0 .. posted'
    <2>1. CASE CompFlush
      BY <1>1, <2>1, FlushIs
    <2>2. CASE UNCHANGED cqes
      BY <1>1, <1>2, <2>2
    <2>3. CASE OneCqe
      <3>1. PICK x \in Cqe : cqes' = Append(cqes, x)
        BY <2>3 DEF OneCqe
      <3>2. Len(cqes) + 1 \in 1 .. posted
        BY <2>3, HeadThere DEF OneCqe
      <3>3. cqes' \in Seq(Cqe) /\ Len(cqes') = Len(cqes) + 1
        BY <1>1, <3>1, AppendProperties
      <3> QED
        BY <1>1, <1>2, <3>2, <3>3
    <2> QED
      BY <2>1, <2>2, <2>3, CqeStep
  <1>4. req'.wqe_index \in 1 .. posted + 1
    <2>1. CASE ReqRetry
      <3>1. req'.wqe_index = Len(cqes) + 1
        BY <1>1, <2>1 DEF ReqRetry, head, ReqFields
      <3> QED
        BY <1>1, <3>1
    <2>2. ASSUME NEW m \in Msgs, ReqSend(m) PROVE req'.wqe_index \in 1 .. posted + 1
      <3>1. req.wqe_index <= posted
        BY <2>2 DEF ReqSend, Sendable
      <3>2. req'.wqe_index \in {req.wqe_index, req.wqe_index + 1}
        BY <1>1, <2>2 DEF ReqSend, check_init_depth, ReqFields
      <3> QED
        BY <1>1, <3>1, <3>2
    <2>3. CASE \/ ReqError \/ ReqDrained \/ ReqNone \/ ReqTestWait \/ ReqSetWait
               \/ \E m \in Msgs : ReqNoDepth(m)
      <3>1. req'.wqe_index = req.wqe_index
        BY <1>1, <2>3 DEF ReqError, ReqDrained, ReqNone, ReqTestWait, ReqSetWait,
                          ReqNoDepth, reqvars, ReqFields
      <3> QED
        BY <1>1, <3>1
    <2>4. CASE CompStep
      <3>1. CASE CompFlush \/ CompBlocked \/ CompGetAck \/ CompDone \/ CompWqe \/ CompPart
        BY <1>1, <3>1 DEF CompFlush, CompBlocked, CompGetAck, CompDone, CompWqe, CompPart, reqvars,
                          ReqFields
      <3>2. CASE CompAck
        BY <1>1, <3>2 DEF CompAck, ReqFields
      <3>3. CASE CompExit \/ CompError \/ CompNoRetry \/ CompRnrRetry
        BY <1>1, <3>3 DEF CompExit, CompError, CompNoRetry, CompRnrRetry, comp_error, reqvars, ReqFields
      <3>4. CASE CompErrorRetry
        BY <1>1, <3>4 DEF CompErrorRetry, comp_error, ReqFields
      <3> QED
        BY <2>4, <3>1, <3>2, <3>3, <3>4 DEF CompStep
    <2>5. CASE RespStep
      BY <1>1, <2>5, RespFrame
    <2>6. CASE PostRecv \/ Post \/ Drain \/ Resume \/ RetransmitTimer \/ RnrNakTimer
               \/ LoseRequest \/ LoseResponse \/ DropRequest \/ DropResponse \/ UNCHANGED vars
      BY <1>1, <2>6 DEF PostRecv, Post, Drain, Resume, RetransmitTimer, RnrNakTimer, LoseRequest,
                  LoseResponse, DropRequest, DropResponse, reqvars, vars, ReqFields
    <2> QED
      BY <2>1, <2>2, <2>3, <2>4, <2>5, <2>6 DEF Readable, ReqStep
  <1> QED
    BY <1>1, <1>2, <1>3, <1>4 DEF Indices

LEMMA ErrorIdleStep ==
  ASSUME RCInv, [Readable]_vars
  PROVE  /\ req'.state = "ERROR" => cpc' = "idle"
         /\ ~env.drains /\ req.state = "ERROR" => req'.state = "ERROR"
  <1>1. /\ req.state = "ERROR" => cpc = "idle"
        /\ ~env.drains => req.qp_state = "RTS"
        /\ DOMAIN req = ReqFields
    BY DEF RCInv, ReqTypes
  <1>2. ASSUME cpc' = cpc, req'.state = "ERROR" <=> req.state = "ERROR"
        PROVE  /\ req'.state = "ERROR" => cpc' = "idle"
               /\ ~env.drains /\ req.state = "ERROR" => req'.state = "ERROR"
    BY <1>1, <1>2
  <1>3. CASE ReqStep
    <2>1. cpc' = cpc
      BY <1>3, ReqFrame
    <2>2. req'.state = "ERROR" <=> req.state = "ERROR"
      <3>1. CASE ReqError \/ ReqNone \/ ReqTestWait \/ ReqSetWait \/ ReqRetry
        BY <1>1, <3>1 DEF ReqError, ReqNone, ReqTestWait, ReqSetWait, ReqRetry, reqvars, ReqFields
      <3>2. CASE ReqDrained
        BY <1>1, <3>2 DEF ReqDrained, ReqGo, ReqFields
      <3>3. CASE \E m \in Msgs : ReqNoDepth(m)
        BY <1>1, <3>3 DEF ReqNoDepth, ReqFields
      <3>4. CASE \E m \in Msgs : ReqSend(m)
        BY <1>1, <3>4 DEF ReqSend, check_init_depth, ReqFields
      <3> QED
        BY <1>3, <3>1, <3>2, <3>3, <3>4 DEF ReqStep
    <2> QED
      BY <1>2, <2>1, <2>2
  <1>4. CASE CompStep
    <2>1. CASE CompFlush
      BY <1>1, <2>1 DEF CompFlush, ReqFields
    <2>2. CASE CompBlocked \/ CompGetAck
      BY <1>1, <2>2 DEF CompBlocked, CompGetAck, reqvars
    <2>3. CASE CompDone \/ CompExit \/ CompNoRetry \/ CompError \/ CompRnrRetry \/ CompPart
      <3>1. cpc' = "idle" /\ cpc = "wqe"
        BY <2>3 DEF CompDone, CompExit, CompNoRetry, CompError, CompRnrRetry, CompPart, CompReturn,
                    comp_error
      <3> QED
        BY <1>1, <3>1
    <2>4. CASE CompWqe
      BY <1>1, <2>4 DEF CompWqe, ReqFields
    <2>5. CASE CompAck \/ CompErrorRetry
      <3>1. cpc' = "idle" /\ cpc = "wqe"
        BY <2>5 DEF CompAck, CompErrorRetry, CompReturn, comp_error
      <3> QED
        BY <1>1, <3>1
    <2> QED
      BY <1>4, <2>1, <2>2, <2>3, <2>4, <2>5 DEF CompStep
  <1>5. CASE RespStep
    BY <1>2, <1>5, RespFrame
  <1>6. CASE PostRecv \/ Post \/ RetransmitTimer \/ RnrNakTimer
             \/ LoseRequest \/ LoseResponse \/ DropRequest \/ DropResponse \/ UNCHANGED vars
    BY <1>2, <1>6 DEF PostRecv, Post, RetransmitTimer, RnrNakTimer, LoseRequest,
                LoseResponse, DropRequest, DropResponse, reqvars, compvars, vars
  <1>7. CASE Drain
    BY <1>1, <1>7 DEF Drain, compvars, ReqFields
  <1>8. CASE Resume
    BY <1>1, <1>8 DEF Resume, compvars, ReqFields
  <1> QED
    BY <1>3, <1>4, <1>5, <1>6, <1>7, <1>8 DEF Readable

-----------------------------------------------------------------------------
(* The requester's and the completer's state *)

LEMMA ReqTypesStep ==
  ASSUME RCInv, [Readable]_vars
  PROVE  ReqTypes' /\ (~env'.drains => req'.qp_state = "RTS")
  <1>1. /\ ReqTypes /\ (~env.drains => req.qp_state = "RTS") /\ env'.drains = env.drains
        /\ comp.psn \in PSN /\ UNCHANGED direct
    BY EnvStep, Psns, DirectFrame DEF RCInv, EnvKept
  <1> DEFINE Goal == ReqTypes' /\ (~env'.drains => req'.qp_state = "RTS")
  <1>2. ASSUME UNCHANGED <<req, rpc>>, run' \subseteq run \cup {"req", "comp"},
               timers' \subseteq timers \cup {"retrans", "rnr"}
        PROVE  Goal
    BY <1>1, <1>2 DEF ReqTypes
  <1>3. CASE ReqStep
    <2>1. CASE ReqError \/ ReqNone
      BY <1>2, <2>1 DEF ReqError, ReqNone, ReqExit, reqvars
    <2>2. CASE ReqRetry
      BY <1>1, <2>2 DEF ReqRetry, ReqTypes, ReqFields
    <2>3. CASE ReqDrained
      BY <1>1, <2>3 DEF ReqDrained, ReqExit, ReqTypes, ReqFields
    <2>4. CASE ReqTestWait
      BY <1>1, <2>4 DEF ReqTestWait, ReqExit, ReqTypes
    <2>5. CASE ReqSetWait
      BY <1>1, <2>5 DEF ReqSetWait, ReqTypes, ReqFields
    <2>6. CASE \E m \in Msgs : ReqNoDepth(m)
      BY <1>1, <2>6 DEF ReqNoDepth, ReqExit, ReqTypes, ReqFields
    <2>8. ASSUME NEW m \in Msgs, ReqSend(m) PROVE Goal
      <3>1. req'.psn \in PSN
        BY <2>8, SqSend
      <3>2. /\ DOMAIN req' = ReqFields /\ req'.state = req.state /\ req'.qp_state = req.qp_state
            /\ rpc' = rpc /\ run' = run /\ timers' \subseteq timers \cup {"retrans"}
        BY <1>1, <2>8 DEF ReqSend, check_init_depth, ReqTypes, ReqFields
      <3> QED
        BY <1>1, <3>1, <3>2 DEF ReqTypes
    <2> QED
      BY <1>3, <2>1, <2>2, <2>3, <2>4, <2>5, <2>6, <2>8 DEF ReqStep
  <1>4. ASSUME DOMAIN req' = ReqFields, req'.state \in {"READY", "DRAIN", "DRAINED", "ERROR"},
               req'.psn = req.psn, req'.qp_state = req.qp_state, rpc' = rpc,
               run' \subseteq run \cup {"req", "comp"}, timers' \subseteq timers \cup {"retrans", "rnr"}
        PROVE  Goal
    BY <1>1, <1>4 DEF ReqTypes
  <1>5. CASE CompStep
    <2>0. DOMAIN req = ReqFields /\ req.state \in {"READY", "DRAIN", "DRAINED", "ERROR"}
      BY <1>1 DEF ReqTypes
    <2>1. CASE CompFlush
      BY <1>4, <2>0, <2>1 DEF CompFlush, ReqFields
    <2>2. CASE CompBlocked \/ CompGetAck \/ CompDone \/ CompExit \/ CompNoRetry
      BY <1>2, <2>2 DEF CompBlocked, CompGetAck, CompDone, CompExit, CompNoRetry, reqvars
    <2>3. CASE CompWqe \/ CompPart
      BY <1>4, <2>0, <2>3 DEF CompWqe, CompPart, ReqFields
    <2>4. CASE CompAck
      BY <1>4, <2>0, <2>4 DEF CompAck, ReqFields
    <2>5. CASE CompError
      BY <1>4, <2>0, <2>5 DEF CompError, comp_error, ReqFields
    <2>6. CASE CompErrorRetry
      BY <1>4, <2>0, <2>6 DEF CompErrorRetry, comp_error, ReqFields
    <2>7. CASE CompRnrRetry
      BY <1>4, <2>0, <2>7 DEF CompRnrRetry, comp_error, ReqFields
    <2> QED
      BY <1>5, <2>1, <2>2, <2>3, <2>4, <2>5, <2>6, <2>7 DEF CompStep
  <1>6. CASE RespStep
    <2>1. UNCHANGED <<req, rpc, timers>>
      BY <1>6, RespFrame
    <2>2. run' \subseteq run \cup {"comp"}
      BY <1>6 DEF RespStep, RespDrop, RespOutOfSeq, RespRnr, RespError, RespFlush,
                  RespSendWrite, RespAtomic, RespRead, RespReadNext, RespDupSendWrite,
                  RespDupRead, RespDupAtomic, send_ack, send, silent, read_reply
    <2> QED
      BY <1>2, <2>1, <2>2
  <1>7. CASE PostRecv \/ Post \/ RetransmitTimer \/ RnrNakTimer
             \/ LoseRequest \/ LoseResponse \/ DropRequest \/ DropResponse \/ UNCHANGED vars
    BY <1>2, <1>7 DEF PostRecv, Post, RetransmitTimer, RnrNakTimer, LoseRequest, LoseResponse,
                      DropRequest, DropResponse, reqvars, vars
  <1>8. CASE Drain
    BY <1>1, <1>8 DEF Drain, ReqTypes, ReqFields
  <1>9. CASE Resume
    BY <1>1, <1>9 DEF Resume, ReqTypes, ReqFields
  <1> QED
    BY <1>3, <1>5, <1>6, <1>7, <1>8, <1>9 DEF Readable

LEMMA CompTypesStep ==
  ASSUME RCInv, [Readable]_vars
  PROVE  CompTypes'
  <1>1. /\ CompTypes /\ env'.retry_cnt = env.retry_cnt /\ env'.rnr_retry = env.rnr_retry
        /\ env.retry_cnt \in Nat /\ env.rnr_retry \in Nat
    <2>1. CompTypes /\ env \in Scenario
      BY DEF RCInv, EnvTypes
    <2>2. env.retry_cnt \in 0 .. 7 /\ env.rnr_retry \in 0 .. 7
      BY <2>1, ScenarioFields, Zenon
    <2>3. env'.retry_cnt = env.retry_cnt /\ env'.rnr_retry = env.rnr_retry
      BY EnvStep DEF EnvKept
    <2> QED
      BY <2>1, <2>2, <2>3
  \* A record of the completer's state.
  <1> DEFINE Good(c) == /\ DOMAIN c = CompFields /\ c.psn \in PSN /\ c.opcode \in {"none", "read"}
                        /\ c.retry_cnt \in 0 .. env.retry_cnt /\ c.rnr_retry \in 0 .. env.rnr_retry
  <1>2. Good(comp)
    BY <1>1 DEF CompTypes
  <1>3. ASSUME NEW c, Good(c), comp' = c, cpc' \in {"idle", "wqe"} PROVE CompTypes'
    BY <1>1, <1>3 DEF CompTypes
  <1>4. ASSUME NEW c, Good(c), NEW p \in Answers
        PROVE  /\ Good(acked([c EXCEPT !.opcode = "none"], p))
               /\ Good(update_comp(c, p)) /\ Good(reset_retry_counters(c))
    <2>1. p.psn \in Int /\ (~ends(p) => p.kind = "read")
      BY ModRange DEF Answers, Response
    <2>2. psn_add(p.psn, 1) \in PSN
      BY <2>1, PsnNext
    <2>3. ASSUME NEW d, Good(d) PROVE Good(acked(d, p))
      BY <2>2, <2>3 DEF acked, CompFields
    <2>4. ASSUME NEW k \in {"none", "read"} PROVE Good([c EXCEPT !.opcode = k])
      BY <1>4, <2>4 DEF CompFields
    <2>5. Good(update_comp(c, p))
      <3>1. (IF ends(p) THEN "none" ELSE p.kind) \in {"none", "read"}
        BY <2>1
      <3> HIDE DEF Good
      <3> QED
        BY <2>3, <2>4, <3>1 DEF update_comp
    <2>6. Good(reset_retry_counters(c))
      BY <1>1, <1>4 DEF reset_retry_counters, CompFields
    <2> HIDE DEF Good
    <2> QED
      BY <2>3, <2>4, <2>5, <2>6
  <1>5. ASSUME UNCHANGED comp, cpc' \in {"idle", "wqe"} PROVE CompTypes'
    BY <1>2, <1>3, <1>5
  <1>6. CASE CompStep
    <2>1. CASE CompFlush
      BY <1>1, <1>5, <2>1 DEF CompFlush, CompTypes
    <2>2. CASE CompBlocked \/ CompGetAck
      BY <1>1, <1>2, <2>2 DEF CompBlocked, CompGetAck, CompTypes, CompFields
    <2>3. CASE CompDone \/ CompExit \/ CompNoRetry \/ CompError
      BY <1>5, <2>3 DEF CompDone, CompExit, CompNoRetry, CompError, CompReturn, comp_error
    <2>4. CASE CompWqe \/ CompPart \/ CompAck
      <3>1. get_wqe \notin {"DONE", "EXIT", "ERROR"}
        BY <2>4 DEF CompWqe, CompPart, CompAck
      <3>2. PICK p \in Answers : p = cpkt[1]
        BY <3>1, DecisionMeans
      <3> DEFINE r == reset_retry_counters(comp)
      <3>3. Good(r) /\ Good(acked([r EXCEPT !.opcode = "none"], p)) /\ Good(update_comp(r, p))
            /\ Good(update_comp(comp, p))
        <4>1. Good(r)
          BY <1>2, <1>4
        <4> HIDE DEF r, Good
        <4> QED
          BY <1>2, <1>4, <4>1
      <3> HIDE DEF r
      <3>4. CASE CompWqe
        <4>1. comp' = acked([r EXCEPT !.opcode = "none"], p) /\ cpc' = cpc
          BY <3>2, <3>4 DEF CompWqe, r
        <4> QED
          BY <1>1, <1>3, <3>3, <4>1 DEF CompTypes
      <3>5. CASE CompPart
        <4>1. comp' = update_comp(r, p) /\ cpc' = "idle"
          BY <3>2, <3>5 DEF CompPart, CompReturn, r
        <4> QED
          BY <1>3, <3>3, <4>1
      <3>6. CASE CompAck
        <4>1. PICK c : /\ c \in {update_comp(r, p), update_comp(comp, p), r, comp}
                       /\ \E b : comp' = [c EXCEPT !.timeout_retry = b]
          <5> DEFINE old == get_wqe = "COMP_ACK"
                     c0 == IF old THEN comp ELSE r
                     c == IF psn_compare(p.psn, comp.psn) >= 0 THEN update_comp(c0, p) ELSE c0
                     freed == sq[head].has_rd_atomic
          <5>1. comp' = [c EXCEPT !.timeout_retry = @ /\ ~(freed /\ req.need_rd_atomic)]
            BY <3>2, <3>6 DEF CompAck, r
          <5>2. c \in {update_comp(r, p), update_comp(comp, p), r, comp}
            OBVIOUS
          <5> HIDE DEF c
          <5> QED
            BY <5>1, <5>2
        <4>2. cpc' = "idle"
          BY <3>6 DEF CompAck, CompReturn
        <4>3. Good(c)
          BY <1>2, <3>3, <4>1
        <4>4. PICK b : comp' = [c EXCEPT !.timeout_retry = b]
          BY <4>1
        <4>5. Good([c EXCEPT !.timeout_retry = b])
          BY <4>3 DEF CompFields
        <4> QED
          BY <1>3, <4>2, <4>4, <4>5
      <3> QED
        BY <2>4, <3>4, <3>5, <3>6
    <2>5. CASE CompErrorRetry
      <3> DEFINE c == IF get_wqe = "NAK_RETRY" /\ psn_compare(cpkt[1].psn, comp.psn) > 0
                      THEN [comp EXCEPT !.psn = cpkt[1].psn] ELSE comp
      <3>1. Good(c)
        <4>1. get_wqe = "NAK_RETRY" => cpkt[1].psn \in PSN
          BY DecisionMeans DEF Answers, Response, PSN
        <4> QED
          BY <1>2, <4>1 DEF CompFields
      <3>2. /\ cpc' = "idle"
            /\ \/ comp' = c
               \/ /\ c.retry_cnt > 0
                  /\ comp' = [c EXCEPT !.retry_cnt = IF @ # 7 THEN @ - 1 ELSE 7]
        BY <2>5 DEF CompErrorRetry, CompReturn, comp_error
      <3> HIDE DEF c
      <3>3. ASSUME c.retry_cnt > 0 PROVE Good([c EXCEPT !.retry_cnt = IF @ # 7 THEN @ - 1 ELSE 7])
        <4>1. PICK k : k = IF c.retry_cnt # 7 THEN c.retry_cnt - 1 ELSE 7
          OBVIOUS
        <4>2. k \in 0 .. env.retry_cnt
          BY <1>1, <3>1, <3>3, <4>1
        <4> QED
          BY <3>1, <4>1, <4>2 DEF CompFields
      <3> QED
        BY <1>3, <3>1, <3>2, <3>3
    <2>6. CASE CompRnrRetry
      <3>1. /\ cpc' = "idle"
            /\ \/ comp' = comp
               \/ /\ comp.rnr_retry > 0
                  /\ comp' = [comp EXCEPT !.rnr_retry = IF @ # 7 THEN @ - 1 ELSE 7]
        BY <2>6 DEF CompRnrRetry, CompReturn, comp_error
      <3>2. ASSUME comp.rnr_retry > 0
            PROVE  Good([comp EXCEPT !.rnr_retry = IF @ # 7 THEN @ - 1 ELSE 7])
        <4>1. PICK k : k = IF comp.rnr_retry # 7 THEN comp.rnr_retry - 1 ELSE 7
          OBVIOUS
        <4>2. k \in 0 .. env.rnr_retry
          BY <1>1, <1>2, <3>2, <4>1
        <4> QED
          BY <1>2, <4>1, <4>2 DEF CompFields
      <3> QED
        BY <1>2, <1>3, <3>1, <3>2
    <2> QED
      BY <1>6, <2>1, <2>2, <2>3, <2>4, <2>5, <2>6 DEF CompStep
  <1>7. CASE RetransmitTimer
    BY <1>1, <1>7 DEF RetransmitTimer, CompTypes, CompFields
  <1>8. CASE ~CompStep /\ ~RetransmitTimer
    <2>1. ASSUME ReqStep PROVE UNCHANGED <<comp, cpc>>
      BY <2>1, ReqFrame
    <2>2. ASSUME RespStep PROVE UNCHANGED <<comp, cpc>>
      BY <2>2, RespFrame
    <2>3. ASSUME PostRecv \/ Post \/ Drain \/ Resume \/ RnrNakTimer
                 \/ LoseRequest \/ LoseResponse \/ DropRequest \/ DropResponse \/ UNCHANGED vars
          PROVE  UNCHANGED <<comp, cpc>>
      BY <2>3 DEF PostRecv, Post, Drain, Resume, RnrNakTimer, LoseRequest, LoseResponse,
                  DropRequest, DropResponse, compvars, vars
    <2>4. UNCHANGED <<comp, cpc>>
      BY <1>8, <2>1, <2>2, <2>3 DEF Readable
    <2> QED
      BY <1>1, <1>5, <2>4 DEF CompTypes
  <1> QED
    BY <1>6, <1>7, <1>8

-----------------------------------------------------------------------------
(* The network and the responder *)

LEMMA LeastOf ==
  ASSUME NEW S \in SUBSET Nat, S # {}
  PROVE  \E i \in S : \A j \in S : i <= j
  <1> DEFINE R == OpToRel(<, Nat)
  <1>1. PICK i \in S : \A j \in S : ~ (<<j, i>> \in R)
    BY NatLessThanWellFounded, WFMin
  <1>2. \A j \in S : ~ (j < i)
    BY <1>1 DEF OpToRel
  <1> QED
    BY <1>2

LEMMA MaxRdAtomic ==
  ASSUME RCInv
  PROVE  env.max_rd_atomic \in Nat
  <1>1. env \in Scenario
    BY DEF RCInv, EnvTypes
  <1> QED
    BY <1>1, ScenarioFields

LEMMA FoundResource ==
  ASSUME RCInv, NEW p, find_resource(p) # 0
  PROVE  find_resource(p) \in 1 .. env.max_rd_atomic
  <1> DEFINE found == {i \in 1 .. env.max_rd_atomic :
                         /\ res[i].type # "none"
                         /\ psn_compare(p, res[i].first_psn) >= 0
                         /\ psn_compare(p, res[i].last_psn) <= 0}
  <1>1. find_resource(p) = IF found = {} THEN 0 ELSE CHOOSE i \in found : \A j \in found : i <= j
    BY DEF find_resource
  <1>2. found \subseteq 1 .. env.max_rd_atomic /\ found \subseteq Nat
    BY MaxRdAtomic
  <1> HIDE DEF found
  <1>3. found # {}
    BY <1>1
  <1>4. \E i \in found : \A j \in found : i <= j
    BY <1>2, <1>3, LeastOf
  <1>5. (CHOOSE i \in found : \A j \in found : i <= j) \in found
    BY <1>4
  <1> QED
    BY <1>1, <1>2, <1>3, <1>5

\* The sets of packets do not change.
LEMMA PacketsKept ==
  ASSUME RCInv, [Readable]_vars
  PROVE  Requests' = Requests /\ Packet' = Packet /\ Msgs' = Msgs
  <1>1. Msgs' = Msgs
    BY SqStep DEF SqKept, Msgs
  <1>2. env'.max_rd_atomic = env.max_rd_atomic
    BY EnvStep DEF EnvKept
  <1> QED
    BY <1>1, <1>2 DEF Requests, Packet

LEMMA SentIsRequest ==
  ASSUME RCInv, NEW m \in Msgs, ReqSend(m)
  PROVE  \E p \in Requests : reqnet' = Append(reqnet, p)
  <1> DEFINE w == sq[m]
             p == [op |-> w.op, pos |-> next_opcode(w), psn |-> req.psn, msg |-> m,
                   off |-> w.n - w.resid, va |-> w.iova, len |-> w.n]
  <1>1. m \in 1 .. Len(sq) /\ WqeTypes(w)
    BY WqesAre DEF Msgs
  <1>2. next_opcode(w) \in {"first", "mid", "last", "only"}
    BY DEF next_opcode
  <1>3. w.n - w.resid \in Nat /\ w.n \in Nat /\ w.iova \in Nat
    BY <1>1 DEF WqeTypes
  <1>4. req.psn \in 0 .. PsnMod - 1
    BY Psns DEF PSN
  <1>5. p \in Packet
    BY <1>1, <1>2, <1>3, <1>4 DEF Packet, WqeTypes
  <1>6. ASSUME IsReadAtomic(w.op) PROVE env.max_rd_atomic > 0
    <2>1. w.has_rd_atomic \/ req.rd_atomic # 0
      BY <1>6 DEF ReqSend, no_depth
    <2>2. req.rd_atomic \in Nat /\ req.rd_atomic + Cardinality(Charged) = env.max_rd_atomic
      BY DEF RCInv, DepthExact
    <2>3. IsFiniteSet(Charged)
      <3>1. Charged \subseteq 1 .. Len(sq) /\ Len(sq) \in Nat
        BY WqesAre DEF Charged
      <3>2. IsFiniteSet(1 .. Len(sq))
        BY <3>1, FS_Interval
      <3> QED
        BY <3>1, <3>2, FS_Subset
    <2>4. Cardinality(Charged) \in Nat /\ (w.has_rd_atomic => Cardinality(Charged) # 0)
      <3>1. w.has_rd_atomic => Charged # {}
        BY <1>1 DEF Charged
      <3> QED
        BY <2>3, <3>1, FS_CardinalityType, FS_EmptySet
    <2> QED
      BY <2>1, <2>2, <2>4, MaxRdAtomic
  <1>7. p \in Requests
    BY <1>5, <1>6 DEF Requests
  <1>8. reqnet' = Append(reqnet, p)
    BY DEF ReqSend
  <1> QED
    BY <1>7, <1>8

LEMMA ReqNetStep ==
  ASSUME RCInv, [Readable]_vars
  PROVE  ReqNet'
  <1>1. reqnet \in Seq(Requests)
    BY DEF RCInv, ReqNet
  <1>2. ASSUME reqnet' \in Seq(Requests) PROVE ReqNet'
    BY <1>2, PacketsKept DEF ReqNet
  <1>3. ASSUME reqnet # <<>> PROVE Tail(reqnet) \in Seq(Requests)
    BY <1>1, <1>3
  <1>4. ASSUME reqnet # <<>> PROVE Front(reqnet) \in Seq(Requests)
    BY <1>1, <1>4 DEF Front
  <1>5. ASSUME NEW m \in Msgs, ReqSend(m) PROVE ReqNet'
    <2>1. PICK p \in Requests : reqnet' = Append(reqnet, p)
      BY <1>5, SentIsRequest
    <2> QED
      BY <1>1, <1>2, <2>1
  <1>6. ASSUME reqnet' = reqnet \/ (reqnet # <<>> /\ reqnet' = Tail(reqnet)) \/ reqnet' = <<>>
        PROVE  ReqNet'
    <2>1. <<>> \in Seq(Requests)
      OBVIOUS
    <2>2. reqnet' \in Seq(Requests)
      BY <1>1, <1>3, <1>6, <2>1
    <2> QED
      BY <1>2, <2>2
  <1>7. CASE RespStep
    <2>1. CASE RespFlush
      BY <1>6, <2>1 DEF RespFlush
    <2>2. ASSUME ~RespFlush PROVE reqnet # <<>>
      BY <1>7, <2>2 DEF RespStep, RespDrop, RespOutOfSeq, RespRnr, RespError,
                  RespSendWrite, RespAtomic, RespRead, RespReadNext, RespDupSendWrite,
                  RespDupRead, RespDupAtomic, Responder
    <2>3. ASSUME ~RespFlush PROVE reqnet' = reqnet \/ reqnet' = Tail(reqnet)
      BY <1>7, <2>3 DEF RespStep, RespDrop, RespOutOfSeq, RespRnr, RespError,
                  RespSendWrite, RespAtomic, RespRead, RespReadNext, RespDupSendWrite,
                  RespDupRead, RespDupAtomic, cleanup, read_reply
    <2> QED
      BY <1>6, <2>1, <2>2, <2>3
  <1>8. CASE CompStep
    BY <1>6, <1>8, CompFrame
  <1>9. CASE ReqStep
    <2>1. CASE ~ \E m \in Msgs : ReqSend(m)
      BY <1>6, <1>9, <2>1 DEF ReqStep, ReqError, ReqRetry, ReqDrained, ReqNone, ReqTestWait,
                              ReqSetWait, ReqNoDepth
    <2> QED
      BY <1>5, <2>1
  <1>10. CASE PostRecv \/ Post \/ Drain \/ Resume \/ RetransmitTimer \/ RnrNakTimer
              \/ LoseRequest \/ LoseResponse \/ DropResponse \/ UNCHANGED vars
    BY <1>6, <1>10 DEF PostRecv, Post, Drain, Resume, RetransmitTimer, RnrNakTimer, LoseRequest,
                       LoseResponse, DropResponse, vars
  <1>11. CASE DropRequest
    BY <1>2, <1>4, <1>11 DEF DropRequest
  <1> QED
    BY <1>7, <1>8, <1>9, <1>10, <1>11 DEF Readable

LEMMA ResponseIs ==
  ASSUME NEW kind \in {"ack", "nak_seq", "rnr", "nak_inv", "nak_acc", "read", "atomic"},
         NEW pos \in {"first", "mid", "last", "only"}, kind = "read" \/ pos = "only",
         NEW psn \in Int, NEW msg \in Nat, NEW data \in Nat
  PROVE  response(kind, pos, psn, msg, data) \in Answers
  <1>1. psn % PsnMod \in 0 .. PsnMod - 1
    BY ModRange DEF PSN
  <1> DEFINE k == psn % PsnMod
             p == [kind |-> kind, pos |-> pos, psn |-> k, msg |-> msg, data |-> data]
  <1> HIDE DEF k
  <1>2. p \in Response
    BY <1>1 DEF Response, k
  <1>3. p.kind = "read" \/ ends(p)
    BY DEF ends
  <1>4. response(kind, pos, psn, msg, data) = p
    BY DEF response, k
  <1> QED
    BY <1>2, <1>3, <1>4 DEF Answers

\* What a step of the responder does to its resources and to the responses.
Answered ==
  /\ respnet' \in Seq(Answers)
  /\ DOMAIN res' = 1 .. env.max_rd_atomic
  /\ \A j \in 1 .. env.max_rd_atomic : ResourceTypes(res'[j])

LEMMA Resources ==
  ASSUME RCInv
  PROVE  /\ DOMAIN res = 1 .. env.max_rd_atomic
         /\ \A j \in 1 .. env.max_rd_atomic : ResourceTypes(res[j])
         /\ respnet \in Seq(Answers)
  BY DEF RCInv, ResTypes, RespNet

LEMMA SentOne ==
  ASSUME RCInv, NEW p \in Answers, send(p)
  PROVE  respnet' \in Seq(Answers)
  BY Resources DEF send

LEMMA ReplyIs ==
  ASSUME RCInv, NEW i \in 1 .. env.max_rd_atomic, NEW r, ResourceTypes(r), read_reply(i, r)
  PROVE  Answered /\ psn_add(r.cur_psn, 1) \in PSN
  <1>1. psn_add(r.cur_psn, 1) \in PSN /\ r.cur_psn \in Int
    BY PsnNext, Psns DEF ResourceTypes
  <1> DEFINE pos == IF r.state = "new" THEN IF r.resid <= 1 THEN "only" ELSE "first"
                                       ELSE IF r.resid <= 1 THEN "last" ELSE "mid"
             p == response("read", pos, r.cur_psn, r.msg, r.va)
             n == [r EXCEPT !.state = "next", !.va = @ + 1, !.resid = @ - 1,
                            !.cur_psn = psn_add(r.cur_psn, 1)]
  <1>2. res' = [res EXCEPT ![i] = n] /\ send(p)
    BY DEF read_reply
  <1>3. pos \in {"first", "mid", "last", "only"} /\ r.msg \in Nat /\ r.va \in Nat
    BY DEF ResourceTypes
  <1>4. ResourceTypes(n)
    BY <1>1 DEF ResourceTypes, ResFields
  <1> HIDE DEF pos, n
  <1>5. p \in Answers
    BY <1>1, <1>3, ResponseIs
  <1> HIDE DEF p
  <1>6. respnet' \in Seq(Answers)
    BY <1>2, <1>5, SentOne
  <1>7. /\ DOMAIN res' = 1 .. env.max_rd_atomic
        /\ \A j \in 1 .. env.max_rd_atomic : ResourceTypes(res'[j])
    BY <1>2, <1>4, Resources
  <1> QED
    BY <1>1, <1>6, <1>7 DEF Answered

LEMMA AckSent ==
  ASSUME RCInv, NEW kind \in {"ack", "nak_seq", "rnr", "nak_inv", "nak_acc"}, NEW psn \in Int,
         send_ack(kind, psn)
  PROVE  respnet' \in Seq(Answers)
  <1>1. response(kind, "only", psn, 0, 0) \in Answers
    BY ResponseIs
  <1> QED
    BY <1>1, SentOne DEF send_ack

\* The request at the head of the queue.
LEMMA HeadRequest ==
  ASSUME RCInv, reqnet # <<>>
  PROVE  /\ Head(reqnet) \in Requests /\ Head(reqnet).psn \in PSN /\ Head(reqnet).psn \in Int
         /\ Head(reqnet).va \in Nat /\ Head(reqnet).len \in Nat /\ Head(reqnet).msg \in Nat
         /\ Head(reqnet).op \in {"send", "write", "read", "atomic"}
         /\ IsReadAtomic(Head(reqnet).op) => env.max_rd_atomic > 0
  <1>1. Head(reqnet) \in Requests
    BY DEF RCInv, ReqNet
  <1>2. PICK p \in Requests : p = Head(reqnet)
    BY <1>1
  <1>3. p \in Packet /\ (IsReadAtomic(p.op) => env.max_rd_atomic > 0)
    BY DEF Requests
  <1>4. Msgs \subseteq Nat
    BY WqesAre DEF Msgs
  <1>5. p.psn \in PSN /\ p.va \in Nat /\ p.len \in Nat /\ p.msg \in Nat
        /\ p.op \in {"send", "write", "read", "atomic"}
    BY <1>3, <1>4 DEF Packet, PSN
  <1> QED
    BY <1>1, <1>2, <1>3, <1>5, Psns

\* The resource made for a read, and that of an atomic, and a replayed one.
LEMMA NewResources ==
  ASSUME NEW p, NEW k \in PSN, p.psn \in PSN, p.va \in Nat, p.msg \in Nat, NEW o \in Nat
  PROVE  /\ ResourceTypes([no_res EXCEPT !.type = "atomic", !.first_psn = k, !.last_psn = k,
                                         !.cur_psn = k, !.msg = p.msg, !.orig = o])
         /\ ResourceTypes([no_res EXCEPT !.type = "read", !.first_psn = p.psn, !.cur_psn = p.psn,
                                         !.last_psn = psn_add(p.psn, p.len - 1), !.msg = p.msg,
                                         !.va_org = p.va, !.va = p.va, !.resid = p.len,
                                         !.length = p.len])
         /\ \A r : ResourceTypes(r) =>
              ResourceTypes([r EXCEPT !.cur_psn = p.psn, !.va_org = p.va, !.va = p.va,
                                      !.resid = p.len,
                                      !.state = IF p.psn = r.first_psn THEN "new" ELSE "replay"])
  BY DEF ResourceTypes, no_res, ResFields

\* What the decision of the responder says about its state.
LEMMA RequestMeans ==
  ASSUME RCInv, NEW st, Responder(st)
  PROVE  /\ reqnet # <<>> /\ resp.state # "ERROR"
         /\ st = "READ_REPLY" => resp.res \in 1 .. env.max_rd_atomic
         /\ st = "EXECUTE" /\ Head(reqnet).op = "send" => rq > 0
  <1>1. reqnet # <<>> /\ resp.state # "ERROR" /\ get_req(Head(reqnet)) = st
    BY DEF Responder
  <1>2. /\ resp.res \in 0 .. env.max_rd_atomic /\ rq \in Nat
        /\ resp.opcode \in {"none", "send", "write"}
        /\ resp.opcode = "send" /\ resp.state # "ERROR" => rq > 0
    BY DEF RCInv, RespTypes
  <1>3. ASSUME st = "READ_REPLY" PROVE resp.res # 0
    <2> SUFFICES ASSUME resp.res = 0 PROVE FALSE
      OBVIOUS
    <2>1. get_req(Head(reqnet)) # "READ_REPLY"
      BY DEF get_req
    <2> QED
      BY <1>1, <1>3, <2>1
  <1>4. ASSUME st = "EXECUTE", Head(reqnet).op = "send" PROVE rq > 0
    <2>1. /\ op_seq_ok(Head(reqnet)) /\ ~(starts(Head(reqnet)) /\ rq = 0)
      BY <1>1, <1>4 DEF get_req
    <2>2. CASE starts(Head(reqnet))
      BY <1>2, <2>1, <2>2
    <2>3. CASE ~starts(Head(reqnet))
      <3>1. resp.opcode = "send"
        BY <1>4, <2>1, <2>3 DEF op_seq_ok, IsReadAtomic
      <3> QED
        BY <1>1, <1>2, <3>1
    <2> QED
      BY <2>2, <2>3
  <1>5. ASSUME st = "READ_REPLY" PROVE resp.res \in 1 .. env.max_rd_atomic
    BY <1>2, <1>3, <1>5, MaxRdAtomic
  <1> QED
    BY <1>1, <1>4, <1>5

LEMMA AnswerStep ==
  ASSUME RCInv, RespStep
  PROVE  Answered
  <1>1. ASSUME UNCHANGED res, respnet' = respnet \/ respnet' \in Seq(Answers) PROVE Answered
    BY <1>1, Resources DEF Answered
  <1>2. ASSUME reqnet # <<>>
        PROVE  \E p \in Requests :
                 /\ p = Head(reqnet) /\ p.psn \in PSN /\ p.psn \in Int /\ p.va \in Nat /\ p.msg \in Nat
                 /\ IsReadAtomic(p.op) => env.max_rd_atomic > 0
    BY <1>2, HeadRequest
  <1>3. resp.psn \in Int /\ resp.psn - 1 \in Int /\ mem \in Nat
    BY Psns DEF RCInv, RespTypes
  <1>h. env.max_rd_atomic > 0 => resp.res_head \in 1 .. env.max_rd_atomic
    BY DEF RCInv, RespTypes
  <1>4. CASE RespDrop \/ RespFlush
    BY <1>1, <1>4 DEF RespDrop, RespFlush, silent, respvars
  <1>5. CASE RespOutOfSeq
    BY <1>1, <1>3, <1>5, AckSent DEF RespOutOfSeq
  <1>6. CASE RespRnr
    <2>1. Head(reqnet).psn \in Int
      BY <1>6, RequestMeans, HeadRequest DEF RespRnr
    <2> QED
      BY <1>1, <1>6, <2>1, AckSent DEF RespRnr
  <1>7. CASE RespError
    <2>1. Head(reqnet).psn \in Int /\ UNCHANGED res
      BY <1>7, RequestMeans, HeadRequest DEF RespError
    <2>2. \/ UNCHANGED respnet
          \/ \E k \in {"nak_inv", "nak_acc"} : send_ack(k, Head(reqnet).psn)
      BY <1>7 DEF RespError, silent
    <2> QED
      BY <1>1, <2>1, <2>2, AckSent
  <1>8. CASE RespSendWrite
    <2>1. Head(reqnet).psn \in Int /\ UNCHANGED res
      BY <1>8, RequestMeans, HeadRequest DEF RespSendWrite
    <2>2. UNCHANGED respnet \/ send_ack("ack", Head(reqnet).psn)
      BY <1>8 DEF RespSendWrite, silent
    <2> QED
      BY <1>1, <2>1, <2>2, AckSent
  <1>9. CASE RespDupSendWrite
    <2>1. UNCHANGED res /\ (UNCHANGED respnet \/ send_ack("ack", resp.psn - 1))
      BY <1>9 DEF RespDupSendWrite, silent, respvars
    <2> QED
      BY <1>1, <1>3, <2>1, AckSent
  <1>10. CASE RespAtomic
    <2>1. PICK p \in Requests :
             /\ p = Head(reqnet) /\ p.psn \in PSN /\ p.psn \in Int /\ p.va \in Nat /\ p.msg \in Nat
             /\ IsReadAtomic(p.op) => env.max_rd_atomic > 0
      BY <1>2, <1>10, RequestMeans DEF RespAtomic
    <2>2. PICK k \in PSN : k = psn_add(p.psn, 1)
      BY <2>1, PsnNext
    <2>3. PICK n : n = [no_res EXCEPT !.type = "atomic", !.first_psn = k, !.last_psn = k,
                                      !.cur_psn = k, !.msg = p.msg, !.orig = mem]
      OBVIOUS
    <2>4. /\ res' = [res EXCEPT ![resp.res_head] = n]
          /\ send(response("atomic", "only", p.psn, p.msg, mem)) /\ p.op = "atomic"
      BY <1>10, <2>1, <2>2, <2>3 DEF RespAtomic
    <2>5. resp.res_head \in 1 .. env.max_rd_atomic
      BY <1>h, <2>1, <2>4 DEF IsReadAtomic
    <2>6. ResourceTypes(n)
      BY <1>3, <2>1, <2>3, NewResources
    <2>7. response("atomic", "only", p.psn, p.msg, mem) \in Answers
      BY <1>3, <2>1, ResponseIs
    <2>8. respnet' \in Seq(Answers)
      BY <2>4, <2>7, SentOne
    <2> QED
      BY <2>4, <2>5, <2>6, <2>8, Resources DEF Answered
  <1>11. CASE RespRead
    <2>1. PICK p \in Requests :
             /\ p = Head(reqnet) /\ p.psn \in PSN /\ p.psn \in Int /\ p.va \in Nat /\ p.msg \in Nat
             /\ IsReadAtomic(p.op) => env.max_rd_atomic > 0
      BY <1>2, <1>11, RequestMeans DEF RespRead
    <2>2. PICK r : r = [no_res EXCEPT !.type = "read", !.first_psn = p.psn, !.cur_psn = p.psn,
                                      !.last_psn = psn_add(p.psn, p.len - 1), !.msg = p.msg,
                                      !.va_org = p.va, !.va = p.va, !.resid = p.len,
                                      !.length = p.len]
      OBVIOUS
    <2>3. ResourceTypes(r)
      BY <1>3, <2>1, <2>2, NewResources
    <2>4. read_reply(resp.res_head, r) /\ p.op = "read"
      BY <1>11, <2>1, <2>2 DEF RespRead
    <2>5. resp.res_head \in 1 .. env.max_rd_atomic
      BY <1>h, <2>1, <2>4 DEF IsReadAtomic
    <2> QED
      BY <2>3, <2>4, <2>5, ReplyIs
  <1>12. CASE RespReadNext
    <2>1. resp.res \in 1 .. env.max_rd_atomic /\ read_reply(resp.res, res[resp.res])
      BY <1>12, RequestMeans DEF RespReadNext
    <2> QED
      BY <2>1, Resources, ReplyIs
  <1>13. CASE RespDupRead
    <2>1. PICK p \in Requests :
             /\ p = Head(reqnet) /\ p.psn \in PSN /\ p.psn \in Int /\ p.va \in Nat /\ p.msg \in Nat
      BY <1>2, <1>13, RequestMeans DEF RespDupRead
    <2>2. PICK i : i = find_resource(p.psn)
      OBVIOUS
    <2>3. PICK r : r = [res[i] EXCEPT !.cur_psn = p.psn, !.va_org = p.va, !.va = p.va,
                          !.resid = p.len,
                          !.state = IF p.psn = res[i].first_psn THEN "new" ELSE "replay"]
      OBVIOUS
    <2>4. \/ replayable(p) /\ read_reply(i, r)
          \/ UNCHANGED <<res, respnet>>
      BY <1>13, <2>1, <2>2, <2>3 DEF RespDupRead, silent
    <2>5. CASE replayable(p) /\ read_reply(i, r)
      <3>1. i # 0
        BY <2>2, <2>5 DEF replayable
      <3>2. i \in 1 .. env.max_rd_atomic
        BY <2>2, <3>1, FoundResource
      <3>3. ResourceTypes(res[i])
        BY <3>2, Resources
      <3>4. ResourceTypes(r)
        BY <1>3, <2>1, <2>3, <3>3, NewResources
      <3> QED
        BY <2>5, <3>2, <3>4, ReplyIs
    <2> QED
      BY <1>1, <2>4, <2>5
  <1>14. CASE RespDupAtomic
    <2>1. PICK p \in Requests : p = Head(reqnet)
      BY <1>2, <1>14, RequestMeans DEF RespDupAtomic
    <2>2. PICK i : i = find_resource(p.psn)
      OBVIOUS
    <2>3. /\ UNCHANGED res
          /\ \/ UNCHANGED respnet
             \/ /\ replayable(p)
                /\ send(response("atomic", "only", resp.psn - 1, res[i].msg, res[i].orig))
      BY <1>14, <2>1, <2>2 DEF RespDupAtomic, silent, respvars
    <2>4. ASSUME replayable(p)
          PROVE  response("atomic", "only", resp.psn - 1, res[i].msg, res[i].orig) \in Answers
      <3>1. i # 0
        BY <2>2, <2>4 DEF replayable
      <3>2. i \in 1 .. env.max_rd_atomic
        BY <2>2, <3>1, FoundResource
      <3>3. res[i].msg \in Nat /\ res[i].orig \in Nat
        BY <3>2, Resources DEF ResourceTypes
      <3> QED
        BY <1>3, <3>3, ResponseIs
    <2> QED
      BY <1>1, <2>3, <2>4, SentOne
  <1> QED
    BY <1>4, <1>5, <1>6, <1>7, <1>8, <1>9, <1>10, <1>11, <1>12, <1>13, <1>14 DEF RespStep

LEMMA RespNetStep ==
  ASSUME RCInv, [Readable]_vars
  PROVE  RespNet' /\ ResTypes'
  <1>1. /\ respnet \in Seq(Answers) /\ cpkt \in Seq(Answers) /\ Answers' = Answers
        /\ env'.max_rd_atomic = env.max_rd_atomic
    BY EnvStep DEF RCInv, RespNet, Answers, Response, EnvKept
  <1>2. ASSUME Answered, cpkt' = cpkt PROVE RespNet' /\ ResTypes'
    BY <1>1, <1>2 DEF Answered, RespNet, ResTypes
  <1>3. ASSUME UNCHANGED res, respnet' \in Seq(Answers), cpkt' \in Seq(Answers)
        PROVE  RespNet' /\ ResTypes'
    BY <1>1, <1>3, Resources DEF RespNet, ResTypes
  <1>4. <<>> \in Seq(Answers)
    OBVIOUS
  <1>5. ASSUME respnet # <<>> PROVE Tail(respnet) \in Seq(Answers) /\ <<Head(respnet)>> \in Seq(Answers)
    <2>1. Head(respnet) \in Answers /\ Tail(respnet) \in Seq(Answers)
      BY <1>1, <1>5
    <2> QED
      BY <2>1
  <1>6. CASE RespStep
    <2>1. cpkt' = cpkt
      BY <1>6, RespFrame
    <2> QED
      BY <1>2, <1>6, <2>1, AnswerStep
  <1>7. CASE CompStep
    <2>1. UNCHANGED res
      BY <1>7, CompFrame
    <2>2. CASE CompFlush
      BY <1>1, <1>3, <1>4, <2>1, <2>2 DEF CompFlush
    <2>3. CASE CompGetAck
      BY <1>1, <1>3, <1>4, <1>5, <2>1, <2>3 DEF CompGetAck
    <2>4. CASE CompBlocked \/ CompWqe
      BY <1>1, <1>3, <2>1, <2>4 DEF CompBlocked, CompWqe
    <2>5. CASE \/ CompDone \/ CompPart \/ CompAck \/ CompExit \/ CompError \/ CompErrorRetry
               \/ CompNoRetry \/ CompRnrRetry
      <3>1. cpkt' = <<>> /\ respnet' = respnet
        BY <2>5 DEF CompDone, CompPart, CompAck, CompExit, CompError, CompErrorRetry,
                    CompNoRetry, CompRnrRetry, CompReturn, comp_error
      <3> QED
        BY <1>1, <1>3, <1>4, <2>1, <3>1
    <2> QED
      BY <1>7, <2>2, <2>3, <2>4, <2>5 DEF CompStep
  <1>8. CASE LoseResponse
    BY <1>1, <1>3, <1>5, <1>8 DEF LoseResponse, respvars, compvars
  <1>11. CASE DropResponse
    <2>1. Front(respnet) \in Seq(Answers)
      BY <1>1, <1>11 DEF DropResponse, Front
    <2> QED
      BY <1>1, <1>3, <1>11, <2>1 DEF DropResponse, respvars, compvars
  <1>9. CASE ReqStep
    <2>1. UNCHANGED <<respnet, res, cpkt>>
      BY <1>9, ReqFrame
    <2> QED
      BY <1>1, <1>3, <2>1
  <1>10. CASE PostRecv \/ Post \/ Drain \/ Resume \/ RetransmitTimer \/ RnrNakTimer
              \/ LoseRequest \/ DropRequest \/ UNCHANGED vars
    BY <1>1, <1>3, <1>10 DEF PostRecv, Post, Drain, Resume, RetransmitTimer, RnrNakTimer,
                LoseRequest, DropRequest, vars, respvars, compvars
  <1> QED
    BY <1>6, <1>7, <1>8, <1>9, <1>10, <1>11 DEF Readable

LEMMA RespTypesStep ==
  ASSUME RCInv, [Readable]_vars
  PROVE  RespTypes'
  <1> DEFINE max == env.max_rd_atomic
             Good(r) == /\ DOMAIN r = RespFields
                        /\ r.psn \in PSN /\ r.opcode \in {"none", "send", "write"}
                        /\ r.res \in 0 .. max /\ r.res_head \in Nat
                        /\ max > 0 => r.res_head \in 1 .. max
  <1>1. /\ Good(resp) /\ rq \in Nat /\ mem \in Nat /\ env'.max_rd_atomic = max /\ max \in Nat
        /\ resp.opcode = "send" /\ resp.state # "ERROR" => rq > 0
    BY EnvStep, MaxRdAtomic DEF RCInv, RespTypes, EnvKept
  <1>2. ASSUME NEW r, Good(r), resp' = r, rq' \in Nat, mem' \in Nat,
               r.opcode = "send" /\ r.state # "ERROR" => rq' > 0
        PROVE  RespTypes'
    BY <1>1, <1>2 DEF RespTypes
  <1>3. ASSUME UNCHANGED <<resp, mem>>, rq' \in Nat, rq' >= rq PROVE RespTypes'
    BY <1>1, <1>2, <1>3
  <1>4. ASSUME NEW st, Responder(st)
        PROVE  \E p \in Requests : p = Head(reqnet) /\ p.psn \in PSN /\ psn_add(p.psn, 1) \in PSN
    BY <1>4, RequestMeans, HeadRequest, PsnNext
  <1>5. next_head \in Nat /\ (max > 0 => next_head \in 1 .. max)
    BY <1>1 DEF next_head
  \* What a read leaves in resp.
  <1>6. ASSUME NEW i \in 1 .. max, NEW r, psn_add(r.cur_psn, 1) \in PSN
        PROVE  /\ Good(after_reply(i, r)) /\ after_reply(i, r).state = resp.state
               /\ after_reply(i, r).opcode \in {resp.opcode, "none"}
    BY <1>1, <1>6 DEF after_reply, RespFields
  <1>7. CASE RespDrop \/ RespDupSendWrite \/ RespDupAtomic
    BY <1>1, <1>3, <1>7 DEF RespDrop, RespDupSendWrite, RespDupAtomic, respvars
  <1>8. CASE RespOutOfSeq \/ RespRnr
    <2>1. PICK b \in BOOLEAN : resp' = [resp EXCEPT !.sent_psn_nak = b] /\ rq' = rq /\ mem' = mem
      BY <1>8 DEF RespOutOfSeq, RespRnr
    <2>2. /\ Good([resp EXCEPT !.sent_psn_nak = b])
          /\ [resp EXCEPT !.sent_psn_nak = b].opcode = resp.opcode
          /\ [resp EXCEPT !.sent_psn_nak = b].state = resp.state
      BY <1>1 DEF RespFields
    <2> QED
      BY <1>1, <1>2, <2>1, <2>2
  <1>9. CASE RespError
    <2>1. resp' = [resp EXCEPT !.sent_psn_nak = FALSE, !.state = "ERROR"] /\ mem' = mem
      BY <1>9 DEF RespError
    <2>2. rq' \in Nat
      <3>1. resp.state # "ERROR"
        BY <1>9, RequestMeans DEF RespError
      <3>2. rq' = IF resp.opcode = "send" THEN rq - 1 ELSE rq
        BY <1>9 DEF RespError
      <3> QED
        BY <1>1, <3>1, <3>2
    <2>3. /\ Good([resp EXCEPT !.sent_psn_nak = FALSE, !.state = "ERROR"])
          /\ [resp EXCEPT !.sent_psn_nak = FALSE, !.state = "ERROR"].state = "ERROR"
      BY <1>1 DEF RespFields
    <2> QED
      BY <1>1, <1>2, <2>1, <2>2, <2>3
  <1>10. CASE RespFlush
    <2>1. UNCHANGED <<resp, mem>> /\ rq' = 0 /\ resp.state = "ERROR"
      BY <1>10 DEF RespFlush
    <2> QED
      BY <1>1, <1>2, <2>1
  <1>11. CASE RespSendWrite
    <2>1. Responder("EXECUTE") /\ ~IsReadAtomic(Head(reqnet).op)
      BY <1>11 DEF RespSendWrite
    <2>2. PICK p \in Requests : p = Head(reqnet) /\ p.psn \in PSN /\ psn_add(p.psn, 1) \in PSN
      BY <1>4, <2>1
    <2>3. p.op \in {"send", "write"} /\ (p.op = "send" => rq > 0)
      BY <2>1, <2>2, RequestMeans, HeadRequest DEF IsReadAtomic
    <2>4. PICK v : resp' = [resp EXCEPT !.psn = psn_add(p.psn, 1), !.sent_psn_nak = FALSE,
                                        !.opcode = IF ends(p) THEN "none" ELSE p.op, !.va = v]
      BY <1>11, <2>2 DEF RespSendWrite
    <2>5. rq' = (IF p.op = "send" /\ ends(p) THEN rq - 1 ELSE rq) /\ mem' = mem
      BY <1>11, <2>2 DEF RespSendWrite
    <2>6. Good(resp') /\ resp'.opcode = IF ends(p) THEN "none" ELSE p.op
      BY <1>1, <2>2, <2>3, <2>4 DEF RespFields
    <2>7. rq' \in Nat /\ (resp'.opcode = "send" => rq' > 0)
      BY <1>1, <2>3, <2>5, <2>6
    <2> QED
      BY <1>1, <1>2, <2>5, <2>6, <2>7
  <1>12. CASE RespAtomic
    <2>1. PICK p \in Requests : p = Head(reqnet) /\ p.psn \in PSN /\ psn_add(p.psn, 1) \in PSN
      BY <1>4, <1>12 DEF RespAtomic
    <2>2. resp' = [resp EXCEPT !.psn = psn_add(p.psn, 1), !.sent_psn_nak = FALSE,
                               !.opcode = "none", !.res_head = next_head]
      BY <1>12, <2>1 DEF RespAtomic
    <2>3. Good(resp') /\ resp'.opcode = "none"
      BY <1>1, <1>5, <2>1, <2>2 DEF RespFields
    <2>4. rq' = rq /\ mem' = mem + 1
      BY <1>12 DEF RespAtomic
    <2> QED
      BY <1>1, <1>2, <2>3, <2>4
  <1>13. CASE RespRead
    <2>1. PICK p \in Requests : p = Head(reqnet) /\ p.psn \in PSN /\ psn_add(p.psn, 1) \in PSN
      BY <1>4, <1>13 DEF RespRead
    <2>2. PICK i : i = resp.res_head
      OBVIOUS
    <2>3. PICK r : /\ r.cur_psn = p.psn
                   /\ resp' = [after_reply(i, r) EXCEPT !.sent_psn_nak = FALSE, !.res_head = next_head]
      <3> DEFINE r == [no_res EXCEPT !.type = "read", !.first_psn = p.psn, !.cur_psn = p.psn,
                          !.last_psn = psn_add(p.psn, p.len - 1), !.msg = p.msg,
                          !.va_org = p.va, !.va = p.va, !.resid = p.len,
                          !.length = p.len]
      <3>1. r.cur_psn = p.psn
        BY DEF no_res
      <3>2. resp' = [after_reply(i, r) EXCEPT !.sent_psn_nak = FALSE, !.res_head = next_head]
        BY <1>13, <2>1, <2>2 DEF RespRead
      <3> HIDE DEF r
      <3> QED
        BY <3>1, <3>2
    <2>4. i \in 1 .. max
      <3>1. Head(reqnet).op = "read" /\ Responder("EXECUTE")
        BY <1>13 DEF RespRead
      <3>2. max > 0
        BY <3>1, RequestMeans, HeadRequest DEF IsReadAtomic
      <3> QED
        BY <1>1, <2>2, <3>2
    <2>5. PICK a : a = after_reply(i, r)
      OBVIOUS
    <2>6. Good(a) /\ a.state = resp.state /\ a.opcode \in {resp.opcode, "none"}
      BY <1>6, <2>1, <2>3, <2>4, <2>5
    <2>7. Good(resp') /\ resp'.state = resp.state /\ resp'.opcode \in {resp.opcode, "none"}
      BY <1>5, <2>3, <2>5, <2>6 DEF RespFields
    <2>8. rq' = rq /\ mem' = mem
      BY <1>13 DEF RespRead
    <2> QED
      BY <1>1, <1>2, <2>7, <2>8
  <1>14. ASSUME NEW i \in 1 .. max, NEW r, ResourceTypes(r), read_reply(i, r),
                resp' = after_reply(i, r), UNCHANGED <<rq, mem>>
         PROVE  RespTypes'
    <2>1. psn_add(r.cur_psn, 1) \in PSN
      BY <1>14, ReplyIs
    <2>2. Good(resp') /\ resp'.state = resp.state /\ resp'.opcode \in {resp.opcode, "none"}
      BY <1>6, <1>14, <2>1
    <2> QED
      BY <1>1, <1>2, <1>14, <2>2
  <1>15. CASE RespReadNext
    <2>1. /\ resp.res \in 1 .. max /\ read_reply(resp.res, res[resp.res])
          /\ resp' = after_reply(resp.res, res[resp.res]) /\ UNCHANGED <<rq, mem>>
      BY <1>15, RequestMeans DEF RespReadNext
    <2> QED
      BY <1>14, <2>1, Resources
  <1>16. CASE RespDupRead
    <2>1. PICK p \in Requests : p = Head(reqnet) /\ p.psn \in PSN
      BY <1>4, <1>16 DEF RespDupRead
    <2>2. p.va \in Nat /\ p.msg \in Nat
      BY <1>16, <2>1, RequestMeans, HeadRequest DEF RespDupRead
    <2>3. PICK i : i = find_resource(p.psn)
      OBVIOUS
    <2>4. PICK r : r = [res[i] EXCEPT !.cur_psn = p.psn, !.va_org = p.va, !.va = p.va,
                          !.resid = p.len,
                          !.state = IF p.psn = res[i].first_psn THEN "new" ELSE "replay"]
      OBVIOUS
    <2>5. /\ UNCHANGED <<rq, mem>>
          /\ \/ replayable(p) /\ read_reply(i, r) /\ resp' = after_reply(i, r)
             \/ UNCHANGED resp
      BY <1>16, <2>1, <2>3, <2>4 DEF RespDupRead
    <2>6. ASSUME replayable(p) PROVE i \in 1 .. max /\ ResourceTypes(r)
      <3>1. i # 0
        BY <2>3, <2>6 DEF replayable
      <3>2. i \in 1 .. max
        BY <2>3, <3>1, FoundResource
      <3>3. ResourceTypes(res[i]) /\ 0 \in Nat
        BY <3>2, Resources
      <3> QED
        BY <2>1, <2>2, <2>4, <3>2, <3>3, NewResources
    <2> QED
      BY <1>1, <1>3, <1>14, <2>5, <2>6
  <1>17. CASE ~RespStep /\ ~PostRecv
    <2>1. ASSUME CompStep PROVE UNCHANGED <<resp, rq, mem>>
      BY <2>1, CompFrame
    <2>2. ASSUME ReqStep PROVE UNCHANGED <<resp, rq, mem>>
      BY <2>2, ReqFrame
    <2>3. ASSUME Post \/ Drain \/ Resume \/ RetransmitTimer \/ RnrNakTimer
                 \/ LoseRequest \/ LoseResponse \/ DropRequest \/ DropResponse \/ UNCHANGED vars
          PROVE  UNCHANGED <<resp, rq, mem>>
      BY <2>3 DEF Post, Drain, Resume, RetransmitTimer, RnrNakTimer,
                LoseRequest, LoseResponse, DropRequest, DropResponse, vars, respvars
    <2>4. UNCHANGED <<resp, rq, mem>>
      BY <1>17, <2>1, <2>2, <2>3 DEF Readable
    <2> QED
      BY <1>1, <1>3, <2>4
  <1>18. CASE PostRecv
    BY <1>1, <1>3, <1>18 DEF PostRecv
  <1> QED
    BY <1>7, <1>8, <1>9, <1>10, <1>11, <1>12, <1>13, <1>15, <1>16, <1>17, <1>18 DEF RespStep

-----------------------------------------------------------------------------
(* rd_atomic: what check_init_depth takes is what a completion gives back *)

LEMMA ChargedFinite ==
  ASSUME RCInv
  PROVE  /\ IsFiniteSet(Charged) /\ Cardinality(Charged) \in Nat
         /\ req.rd_atomic \in Nat /\ req.rd_atomic + Cardinality(Charged) = env.max_rd_atomic
  <1>1. Charged \subseteq 1 .. Len(sq) /\ Len(sq) \in Nat
    BY WqesAre DEF Charged
  <1>2. IsFiniteSet(1 .. Len(sq))
    BY <1>1, FS_Interval
  <1>3. IsFiniteSet(Charged)
    BY <1>1, <1>2, FS_Subset
  <1> QED
    BY <1>3, FS_CardinalityType DEF RCInv, DepthExact

LEMMA DepthStep ==
  ASSUME RCInv, [Readable]_vars
  PROVE  DepthExact'
  <1>1. /\ Len(sq) \in Nat /\ DOMAIN sq = 1 .. Len(sq) /\ Msgs = 1 .. Len(sq)
        /\ \A m \in 1 .. Len(sq) : DOMAIN sq[m] = WqeFields
        /\ Len(sq') = Len(sq) /\ DOMAIN req = ReqFields
        /\ env'.max_rd_atomic = env.max_rd_atomic
    BY WqesAre, SqStep, EnvStep DEF WqeTypes, SqKept, EnvKept, Msgs, RCInv, ReqTypes
  <1>2. ASSUME \A m \in 1 .. Len(sq) : sq'[m].has_rd_atomic = sq[m].has_rd_atomic,
               req'.rd_atomic = req.rd_atomic
        PROVE  DepthExact'
    <2>1. Charged' = Charged
      BY <1>1, <1>2 DEF Charged
    <2> QED
      BY <1>1, <1>2, <2>1, ChargedFinite DEF DepthExact
  <1>3. ASSUME NEW m \in 1 .. Len(sq), sq[m].has_rd_atomic = FALSE, sq'[m].has_rd_atomic = TRUE,
               \A k \in 1 .. Len(sq) \ {m} : sq'[k].has_rd_atomic = sq[k].has_rd_atomic,
               req.rd_atomic # 0, req'.rd_atomic = req.rd_atomic - 1
        PROVE  DepthExact'
    <2>1. Charged' = Charged \cup {m} /\ m \notin Charged
      BY <1>1, <1>3 DEF Charged
    <2>2. Cardinality(Charged \cup {m}) = Cardinality(Charged) + 1
      BY <2>1, ChargedFinite, FS_AddElement
    <2> QED
      BY <1>1, <1>3, <2>1, <2>2, ChargedFinite, MaxRdAtomic DEF DepthExact
  <1>4. ASSUME NEW m \in 1 .. Len(sq), sq[m].has_rd_atomic = TRUE, sq'[m].has_rd_atomic = FALSE,
               \A k \in 1 .. Len(sq) \ {m} : sq'[k].has_rd_atomic = sq[k].has_rd_atomic,
               req'.rd_atomic = req.rd_atomic + 1
        PROVE  DepthExact'
    <2>1. Charged' = Charged \ {m} /\ m \in Charged
      BY <1>1, <1>4 DEF Charged
    <2>2. Cardinality(Charged \ {m}) = Cardinality(Charged) - 1
      BY <2>1, ChargedFinite, FS_RemoveElement
    <2> QED
      BY <1>1, <1>4, <2>1, <2>2, ChargedFinite, MaxRdAtomic, SMTT(30) DEF DepthExact
  <1>5. ASSUME UNCHANGED sq, req'.rd_atomic = req.rd_atomic PROVE DepthExact'
    BY <1>2, <1>5
  <1>6. ASSUME NEW m \in Msgs, ReqSend(m) PROVE DepthExact'
    <2>1. m \in 1 .. Len(sq) /\ sq[m].has_rd_atomic \in BOOLEAN
      BY <1>1, WqesAre DEF WqeTypes
    <2>2. \A k \in 1 .. Len(sq) \ {m} : sq'[k].has_rd_atomic = sq[k].has_rd_atomic
      BY <1>1, <1>6, <2>1 DEF ReqSend
    <2>3. sq'[m].has_rd_atomic = (sq[m].has_rd_atomic \/ charged(m))
      BY <1>1, <1>6, <2>1 DEF ReqSend, WqeFields
    <2>4. req'.rd_atomic = IF charged(m) THEN req.rd_atomic - 1 ELSE req.rd_atomic
      BY <1>1, <1>6 DEF ReqSend, check_init_depth, ReqFields
    <2>5. CASE charged(m)
      <3>1. sq[m].has_rd_atomic = FALSE /\ req.rd_atomic # 0
        BY <1>6, <2>1, <2>5 DEF charged, ReqSend, no_depth
      <3>2. sq'[m].has_rd_atomic = TRUE
        BY <2>3, <2>5
      <3> QED
        BY <1>3, <2>1, <2>2, <2>4, <2>5, <3>1, <3>2
    <2>6. CASE ~charged(m)
      <3>1. sq'[m].has_rd_atomic = sq[m].has_rd_atomic
        BY <2>1, <2>3, <2>6
      <3>2. \A k \in 1 .. Len(sq) : sq'[k].has_rd_atomic = sq[k].has_rd_atomic
        BY <2>2, <3>1
      <3> QED
        BY <1>2, <2>4, <2>6, <3>2
    <2> QED
      BY <2>5, <2>6
  <1>7. CASE CompAck
    <2>1. head \in 1 .. Len(sq) /\ sq[head].has_rd_atomic \in BOOLEAN
      BY <1>7, SqComp, HeadThere, HeadWqe DEF WqeTypes
    <2>2. /\ \A k \in 1 .. Len(sq) \ {head} : sq'[k].has_rd_atomic = sq[k].has_rd_atomic
          /\ sq'[head].has_rd_atomic = FALSE
      BY <1>1, <1>7, <2>1 DEF CompAck, WqeFields
    <2>3. req'.rd_atomic = IF sq[head].has_rd_atomic THEN req.rd_atomic + 1 ELSE req.rd_atomic
      BY <1>1, <1>7 DEF CompAck, ReqFields
    <2>4. CASE sq[head].has_rd_atomic
      BY <1>4, <2>1, <2>2, <2>3, <2>4
    <2>5. CASE ~sq[head].has_rd_atomic
      <3>1. sq'[head].has_rd_atomic = sq[head].has_rd_atomic
        BY <2>1, <2>2, <2>5
      <3>2. \A k \in 1 .. Len(sq) : sq'[k].has_rd_atomic = sq[k].has_rd_atomic
        BY <2>2, <3>1
      <3> QED
        BY <1>2, <2>3, <2>5, <3>2
    <2> QED
      BY <2>4, <2>5
  <1>8. CASE CompPart
    <2>1. head \in 1 .. Len(sq)
      BY <1>8, SqComp, HeadThere
    <2>2. \A k \in 1 .. Len(sq) : sq'[k].has_rd_atomic = sq[k].has_rd_atomic
      BY <1>1, <1>8, <2>1 DEF CompPart, WqeFields
    <2>3. req'.rd_atomic = req.rd_atomic
      BY <1>1, <1>8 DEF CompPart, ReqFields
    <2> QED
      BY <1>2, <2>2, <2>3
  <1>9. CASE ReqRetry
    <2> DEFINE npsn == (comp.psn - sq[head].first_psn) % PsnMod
               todo == {m \in head .. posted : \A k \in head .. m : sq[k].state # "posted"}
    <2>1. sq' = [m \in Msgs |-> IF m \in todo THEN retried(m, npsn) ELSE sq[m]]
      BY <1>9 DEF ReqRetry
    <2> HIDE DEF npsn, todo
    <2>2. ASSUME NEW m \in 1 .. Len(sq) PROVE retried(m, npsn).has_rd_atomic = sq[m].has_rd_atomic
      BY <1>1 DEF retried, WqeFields
    <2>3. \A k \in 1 .. Len(sq) : sq'[k].has_rd_atomic = sq[k].has_rd_atomic
      BY <1>1, <2>1, <2>2
    <2>4. req'.rd_atomic = req.rd_atomic
      BY <1>1, <1>9 DEF ReqRetry, ReqFields
    <2> QED
      BY <1>2, <2>3, <2>4
  <1>11. CASE ReqStep
    <2>1. CASE ReqError \/ ReqDrained \/ ReqNone \/ ReqTestWait \/ ReqSetWait
               \/ \E m \in Msgs : ReqNoDepth(m)
      <3>1. UNCHANGED sq
        BY <2>1 DEF ReqError, ReqDrained, ReqNone, ReqTestWait, ReqSetWait, ReqNoDepth, reqvars
      <3>2. req'.rd_atomic = req.rd_atomic
        BY <1>1, <2>1 DEF ReqError, ReqDrained, ReqNone, ReqTestWait, ReqSetWait, ReqNoDepth,
                          reqvars, ReqFields
      <3> QED
        BY <1>5, <3>1, <3>2
    <2> QED
      BY <1>6, <1>9, <1>11, <2>1 DEF ReqStep
  <1>12. CASE CompStep
    <2>1. CASE CompFlush \/ CompWqe
      BY <1>1, <1>5, <2>1 DEF CompFlush, CompWqe, ReqFields
    <2>2. CASE CompBlocked \/ CompGetAck \/ CompDone \/ CompExit \/ CompNoRetry
      BY <1>5, <2>2 DEF CompBlocked, CompGetAck, CompDone, CompExit, CompNoRetry, reqvars
    <2>3. CASE CompError \/ CompRnrRetry
      BY <1>1, <1>5, <2>3 DEF CompError, CompRnrRetry, comp_error, ReqFields
    <2>4. CASE CompErrorRetry
      <3>1. UNCHANGED sq
        BY <2>4 DEF CompErrorRetry
      <3>2. req'.rd_atomic = req.rd_atomic
        BY <1>1, <2>4 DEF CompErrorRetry, comp_error, ReqFields
      <3> QED
        BY <1>5, <3>1, <3>2
    <2> QED
      BY <1>7, <1>8, <1>12, <2>1, <2>2, <2>3, <2>4 DEF CompStep
  <1>13. CASE RespStep
    <2>1. UNCHANGED <<sq, req>>
      BY <1>13, RespFrame
    <2> QED
      BY <1>5, <2>1
  <1>14. CASE PostRecv \/ Post \/ Drain \/ Resume \/ RetransmitTimer \/ RnrNakTimer
              \/ LoseRequest \/ LoseResponse \/ DropRequest \/ DropResponse \/ UNCHANGED vars
    <2>1. UNCHANGED sq
      BY <1>14 DEF PostRecv, Post, Drain, Resume, RetransmitTimer, RnrNakTimer, LoseRequest,
                   LoseResponse, DropRequest, DropResponse, reqvars, vars
    <2>2. req'.rd_atomic = req.rd_atomic
      BY <1>1, <1>14 DEF PostRecv, Post, Drain, Resume, RetransmitTimer, RnrNakTimer, LoseRequest,
                   LoseResponse, DropRequest, DropResponse, reqvars, vars, ReqFields
    <2> QED
      BY <1>5, <2>1, <2>2
  <1> QED
    BY <1>11, <1>12, <1>13, <1>14 DEF Readable

-----------------------------------------------------------------------------
(* What does not change: the work requests *)

SameWr(v, w) == v.op = w.op /\ v.n = w.n /\ v.lkey = w.lkey /\ v.rkey = w.rkey

SameWork ==
  /\ Len(sq') = Len(sq)
  /\ \A m \in 1 .. Len(sq) : SameWr(sq'[m], sq[m])

LEMMA SameOne ==
  ASSUME RCInv, NEW m \in 1 .. Len(sq), NEW w, sq' = [sq EXCEPT ![m] = w], SameWr(w, sq[m])
  PROVE  SameWork
  BY WqesAre DEF SameWork, SameWr

LEMMA SameSend ==
  ASSUME RCInv, NEW m \in Msgs, ReqSend(m)
  PROVE  SameWork
  <1>1. m \in 1 .. Len(sq) /\ DOMAIN sq[m] = WqeFields
    BY WqesAre DEF Msgs, WqeTypes
  <1>2. PICK x, f, l, s, h :
          sq' = [sq EXCEPT ![m] = [sq[m] EXCEPT !.resid = x, !.first_psn = f, !.last_psn = l,
                                                !.state = s, !.has_rd_atomic = h]]
    <2> DEFINE w == sq[m]
               pkt == [op |-> w.op, pos |-> next_opcode(w), psn |-> req.psn, msg |-> m,
                       off |-> w.n - w.resid, va |-> w.iova, len |-> w.n]
               num_pkt == IF w.resid = 0 THEN 1 ELSE w.resid
               x == IF IsReadAtomic(w.op) \/ w.resid = 0 THEN w.resid ELSE w.resid - 1
               f == IF starts(pkt) THEN req.psn ELSE w.first_psn
               l == IF starts(pkt) THEN psn_add(req.psn, num_pkt - 1) ELSE w.last_psn
               s == IF ends(pkt) THEN "pending" ELSE "processing"
               h == w.has_rd_atomic \/ charged(m)
    <2>1. sq' = [sq EXCEPT ![m] = [sq[m] EXCEPT !.resid = x, !.first_psn = f, !.last_psn = l,
                                                !.state = s, !.has_rd_atomic = h]]
      BY ZenonT(40) DEF ReqSend
    <2> HIDE DEF x, f, l, s, h
    <2> QED
      BY <2>1
  <1>3. SameWr([sq[m] EXCEPT !.resid = x, !.first_psn = f, !.last_psn = l, !.state = s,
                             !.has_rd_atomic = h], sq[m])
    BY <1>1 DEF SameWr, WqeFields
  <1> QED
    BY <1>1, <1>2, <1>3, SameOne

LEMMA SameStep ==
  ASSUME RCInv, [Readable]_vars
  PROVE  SameWork
  <1>1. ASSUME UNCHANGED sq PROVE SameWork
    BY <1>1 DEF SameWork, SameWr
  <1>3. CASE ReqRetry
    <2>1. Len(sq) \in Nat /\ Msgs = 1 .. Len(sq) /\ \A m \in 1 .. Len(sq) : DOMAIN sq[m] = WqeFields
      BY WqesAre DEF Msgs, WqeTypes
    <2>2. PICK todo, npsn : sq' = [m \in Msgs |-> IF m \in todo THEN retried(m, npsn) ELSE sq[m]]
      BY <1>3 DEF ReqRetry
    <2>3. ASSUME NEW m \in 1 .. Len(sq) PROVE SameWr(retried(m, npsn), sq[m])
      BY <2>1, <2>3 DEF SameWr, retried, WqeFields
    <2>4. ASSUME NEW m \in 1 .. Len(sq) PROVE SameWr(sq'[m], sq[m])
      <3>1. CASE m \in todo
        BY <2>1, <2>2, <2>3, <3>1
      <3>2. CASE m \notin todo
        BY <2>1, <2>2, <3>2 DEF SameWr
      <3> QED
        BY <3>1, <3>2
    <2> QED
      BY <2>1, <2>2, <2>4 DEF SameWork
  <1>4. CASE ReqStep
    <2>1. CASE ReqError \/ ReqDrained \/ ReqNone \/ ReqTestWait \/ ReqSetWait
               \/ \E m \in Msgs : ReqNoDepth(m)
      BY <1>1, <2>1 DEF ReqError, ReqDrained, ReqNone, ReqTestWait, ReqSetWait, ReqNoDepth, reqvars
    <2> QED
      BY <1>3, <1>4, <2>1, SameSend DEF ReqStep
  <1>5. CASE CompPart \/ CompAck
    <2>1. head \in 1 .. Len(sq) /\ DOMAIN sq[head] = WqeFields
      BY <1>5, SqComp, HeadThere, WqesAre DEF WqeTypes
    <2>2. CASE UNCHANGED sq
      BY <1>1, <2>2
    <2>3. ASSUME NEW x, NEW d, sq' = [sq EXCEPT ![head] = [sq[head] EXCEPT !.resid = x, !.data = d]]
          PROVE  SameWork
      <3>1. SameWr([sq[head] EXCEPT !.resid = x, !.data = d], sq[head])
        BY <2>1 DEF SameWr, WqeFields
      <3> QED
        BY <2>1, <2>3, <3>1, SameOne
    <2>4. ASSUME NEW x, NEW d,
                 sq' = [sq EXCEPT ![head] = [sq[head] EXCEPT !.has_rd_atomic = FALSE, !.resid = x,
                                                             !.data = d]]
          PROVE  SameWork
      <3>1. SameWr([sq[head] EXCEPT !.has_rd_atomic = FALSE, !.resid = x, !.data = d], sq[head])
        BY <2>1 DEF SameWr, WqeFields
      <3> QED
        BY <2>1, <2>4, <3>1, SameOne
    <2>5. CASE CompPart
      <3>1. CASE UNCHANGED sq
        BY <2>2, <3>1
      <3>2. CASE sq' # sq
        <4>1. PICK d : d = Append(sq[head].data, <<cpkt[1].msg, cpkt[1].data>>)
          OBVIOUS
        <4>2. sq' = [sq EXCEPT ![head].resid = @ - 1, ![head].data = d]
          BY <2>5, <3>2, <4>1 DEF CompPart
        <4>3. PICK x : x = sq[head].resid - 1
          OBVIOUS
        <4>4. sq' = [sq EXCEPT ![head] = [sq[head] EXCEPT !.resid = x, !.data = d]]
          BY <4>2, <4>3
        <4> QED
          BY <2>3, <4>4
      <3> QED
        BY <3>1, <3>2
    <2>6. CASE CompAck
      <3> DEFINE p == cpkt[1]
                 d == CASE get_wqe = "READ"   -> Append(sq[head].data, <<p.msg, p.data>>)
                        [] get_wqe = "ATOMIC" -> <<p.data>>
                        [] OTHER              -> sq[head].data
                 x == IF get_wqe = "READ" THEN 0 ELSE sq[head].resid
      <3>1. sq' = [sq EXCEPT ![head] = [sq[head] EXCEPT !.has_rd_atomic = FALSE, !.resid = x,
                                                        !.data = d]]
        BY <2>6 DEF CompAck
      <3> HIDE DEF d, x
      <3> QED
        BY <2>4, <3>1
    <2> QED
      BY <1>5, <2>5, <2>6
  <1>6. CASE CompStep
    <2>1. CASE CompFlush \/ CompBlocked \/ CompGetAck \/ CompDone \/ CompWqe \/ CompExit
               \/ CompError \/ CompErrorRetry \/ CompNoRetry \/ CompRnrRetry
      BY <1>1, <2>1 DEF CompFlush, CompBlocked, CompGetAck, CompDone, CompWqe, CompExit, CompError,
                        CompErrorRetry, CompNoRetry, CompRnrRetry, reqvars
    <2> QED
      BY <1>5, <1>6, <2>1 DEF CompStep
  <1>7. CASE RespStep
    BY <1>1, <1>7, RespFrame
  <1>8. CASE PostRecv \/ Post \/ Drain \/ Resume \/ RetransmitTimer \/ RnrNakTimer
             \/ LoseRequest \/ LoseResponse \/ DropRequest \/ DropResponse \/ UNCHANGED vars
    BY <1>1, <1>8 DEF PostRecv, Post, Drain, Resume, RetransmitTimer, RnrNakTimer, LoseRequest,
                      LoseResponse, DropRequest, DropResponse, reqvars, vars
  <1> QED
    BY <1>4, <1>6, <1>7, <1>8 DEF Readable

\* The requester can read the data of every send and write.
LocalKeys == \A m \in Msgs : sq[m].lkey \/ IsReadAtomic(sq[m].op)

\* ... and so it never calls the completer.
LEMMA NeverDirect ==
  ASSUME RCInv, LocalKeys, [Next]_vars
  PROVE  [Readable]_vars /\ LocalKeys'
  <1>1. rpc \in {"idle", "wait_fence", "wait_psn"}
    BY DEF RCInv, ReqTypes
  <1>2. ~ \E m \in Msgs : ReqBadKey(m)
    BY DEF ReqBadKey, LocalKeys
  <1>3. ~DirectTake
    BY <1>1 DEF DirectTake
  <1>4. ~Direct!rxe_completer
    BY <1>1 DEF Direct!rxe_completer, Direct!CompFlush, Direct!CompBlocked, Direct!CompGetAck,
                Direct!CompDone, Direct!CompWqe, Direct!CompPart, Direct!CompAck, Direct!CompExit,
                Direct!CompError, Direct!CompErrorRetry, Direct!CompNoRetry, Direct!CompRnrRetry
  <1>5. [Readable]_vars
    BY <1>2, <1>3, <1>4 DEF Next, DirectStep
  <1>6. LocalKeys'
    <2>1. SameWork /\ DOMAIN sq = 1 .. Len(sq) /\ DOMAIN sq' = 1 .. Len(sq)
      BY <1>5, SameStep, SqStep, WqesAre DEF SqKept
    <2> QED
      BY <2>1 DEF LocalKeys, Msgs, SameWork, SameWr
  <1> QED
    BY <1>5, <1>6

-----------------------------------------------------------------------------
(* The inductive invariant *)

LEMMA RCInit == Init => RCInv
  <1> SUFFICES ASSUME Init PROVE RCInv
    OBVIOUS
  <1>1. PICK s \in Scenarios :
      /\ env = [s EXCEPT !.wrs = <<>>]
      /\ sq = [m \in 1 .. Len(s.wrs) |-> new_wqe(s.wrs[m])]
      /\ posted = 0
      /\ req = [state |-> "READY", qp_state |-> "RTS", psn |-> InitPsn,
                wqe_index |-> 1, opcode |-> "none",
                need_retry |-> FALSE, wait_psn |-> FALSE, wait_fence |-> FALSE,
                rd_atomic |-> s.max_rd_atomic, need_rd_atomic |-> FALSE]
      /\ comp = [psn |-> InitPsn, opcode |-> "none", timeout |-> FALSE,
                 timeout_retry |-> FALSE, retry_cnt |-> s.retry_cnt,
                 rnr_retry |-> s.rnr_retry]
      /\ rpc = "idle" /\ dpkt = <<>> /\ dwqe = 0 /\ cpc = "idle" /\ cpkt = <<>>
      /\ run = {} /\ timers = {}
      /\ reqnet = <<>> /\ respnet = <<>>
      /\ resp = [state |-> "READY", psn |-> InitPsn, opcode |-> "none",
                 sent_psn_nak |-> FALSE, res |-> 0, res_head |-> 1, va |-> 0]
      /\ res = [i \in 1 .. s.max_rd_atomic |-> no_res]
      /\ rq = s.rq
      /\ mem = 0
      /\ executed = <<>> /\ cqes = <<>>
    BY DEF Init
  <1>2. s \in Scenario /\ InitPsn \in PSN /\ 0 \in PSN
    BY RCAssumption, ModRange DEF PSN
  <1>3. /\ s.max_rd_atomic \in 0 .. 7 /\ s.retry_cnt \in 0 .. 7 /\ s.rnr_retry \in 0 .. 7
        /\ s.rq \in Nat /\ s.wrs \in Seq(WR) /\ s.drains \in BOOLEAN
    BY <1>2, ScenarioFields
  <1>4. EnvTypes
    <2>1. <<>> \in Seq(WR)
      OBVIOUS
    <2> QED
      BY <1>1, <1>2, <2>1, Zenon DEF EnvTypes, Scenario
  <1>5. /\ env.max_rd_atomic = s.max_rd_atomic /\ env.retry_cnt = s.retry_cnt
        /\ env.rnr_retry = s.rnr_retry
    BY <1>1, <1>2 DEF Scenario
  <1>6. Len(sq) = Len(s.wrs) /\ Len(sq) \in Nat /\ DOMAIN sq = 1 .. Len(sq)
    BY <1>1, <1>3
  <1>7. ASSUME NEW m \in 1 .. Len(sq) PROVE WqeTypes(sq[m]) /\ WqeStatus(sq[m]) /\ ~sq[m].has_rd_atomic
    <2>1. s.wrs[m] \in WR
      BY <1>3, <1>6
    <2>2. PICK w \in WR : w = s.wrs[m]
      BY <2>1
    <2>3. sq[m] = new_wqe(w)
      BY <1>1, <1>6, <2>2
    <2>4. w.op \in {"send", "write", "read", "atomic"} /\ w.n \in Nat \ {0}
      BY DEF WR
    <2> QED
      BY <1>2, <2>3, <2>4 DEF new_wqe, WqeTypes, WqeStatus, WqeFields
  <1>8. SqTypes /\ Statuses
    BY <1>6, <1>7 DEF SqTypes, Statuses, WqeTypes, WqeStatus
  <1>9. ReqTypes
    BY <1>1, <1>2 DEF ReqTypes, ReqFields, direct
  <1>10. CompTypes
    BY <1>1, <1>2, <1>3, <1>5 DEF CompTypes, CompFields
  <1>11. Indices
    BY <1>1, <1>6 DEF Indices
  <1>12. DepthExact
    <2>1. Charged = {}
      BY <1>7 DEF Charged
    <2>2. Cardinality(Charged) = 0
      BY <2>1, FS_EmptySet
    <2>3. req.rd_atomic = s.max_rd_atomic
      BY <1>1
    <2> QED
      BY <1>3, <1>5, <2>2, <2>3 DEF DepthExact
  <1>13. ReqNet /\ RespNet
    BY <1>1 DEF ReqNet, RespNet
  <1>14. RespTypes
    BY <1>1, <1>2, <1>3, <1>5 DEF RespTypes, RespFields
  <1>15. ResTypes
    <2>1. ResourceTypes(no_res)
      BY <1>2 DEF ResourceTypes, no_res, ResFields
    <2> QED
      BY <1>1, <1>5, <2>1 DEF ResTypes
  <1>16. req.state # "ERROR" /\ req.qp_state = "RTS"
    BY <1>1
  <1> QED
    BY <1>4, <1>8, <1>9, <1>10, <1>11, <1>12, <1>13, <1>14, <1>15, <1>16 DEF RCInv

LEMMA RCStep == RCInv /\ [Readable]_vars => RCInv'
  <1> SUFFICES ASSUME RCInv, [Readable]_vars PROVE RCInv'
    OBVIOUS
  <1>1. EnvTypes'
    BY EnvStep DEF EnvKept, EnvTypes
  <1>2. SqTypes' /\ Statuses'
    <2>1. SqKept /\ Len(sq) \in Nat /\ DOMAIN sq = 1 .. Len(sq)
      BY SqStep, WqesAre
    <2> QED
      BY <2>1 DEF SqKept, WqeTypes, WqeStatus, SqTypes, Statuses
  <1> QED
    BY <1>1, <1>2, ReqTypesStep, CompTypesStep, IndexStep, DepthStep, ReqNetStep, RespNetStep,
       RespTypesStep, ErrorIdleStep DEF RCInv

LEMMA RCAlways == Spec /\ LocalKeys => [](RCInv /\ LocalKeys)
  <1>1. RCInv /\ LocalKeys /\ [Next]_vars => (RCInv /\ LocalKeys)'
    BY NeverDirect, RCStep
  <1> QED
    BY <1>1, RCInit, PTL DEF Spec

LEMMA RCInvTypes == RCInv => TypeOK
  <1> SUFFICES ASSUME RCInv PROVE TypeOK
    OBVIOUS
  <1>1. /\ posted \in 0 .. Len(sq) /\ Len(cqes) <= posted /\ req.wqe_index \in 1 .. posted + 1
    BY DEF RCInv, Indices
  <1>2. \A m \in Msgs : /\ sq[m].resid \in 0 .. sq[m].n
                        /\ sq[m].state \in {"posted", "processing", "pending", "error"}
                        /\ sq[m].has_rd_atomic \in BOOLEAN
    BY WqesAre DEF Msgs, WqeTypes
  <1>3. req.rd_atomic \in 0 .. env.max_rd_atomic
    BY ChargedFinite, MaxRdAtomic
  <1>4. reqnet \in Seq(Packet)
    <2>1. reqnet \in Seq(Requests) /\ Requests \subseteq Packet
      BY DEF RCInv, ReqNet, Requests
    <2> QED
      BY <2>1
  <1>5. respnet \in Seq(Response) /\ cpkt \in Seq(Response)
    <2>1. respnet \in Seq(Answers) /\ cpkt \in Seq(Answers) /\ Answers \subseteq Response
      BY DEF RCInv, RespNet, Answers
    <2> QED
      BY <2>1
  <1>6. /\ req.state \in {"READY", "DRAIN", "DRAINED", "ERROR"}
        /\ req.qp_state \in {"RTS", "SQD"} /\ req.psn \in 0 .. PsnMod - 1
        /\ rpc \in {"idle", "wait_fence", "wait_psn"}
        /\ run \subseteq {"req", "comp"} /\ timers \subseteq {"retrans", "rnr"}
    BY DEF RCInv, ReqTypes, PSN
  <1>9. dpkt \in Seq(Response) /\ dwqe \in Nat
    BY DEF RCInv, ReqTypes, direct
  <1>7. /\ comp.psn \in 0 .. PsnMod - 1 /\ comp.opcode \in {"none", "read"}
        /\ comp.retry_cnt \in 0 .. env.retry_cnt /\ comp.rnr_retry \in 0 .. env.rnr_retry
        /\ cpc \in {"idle", "wqe"}
    BY DEF RCInv, CompTypes, PSN
  <1>8. /\ resp.psn \in 0 .. PsnMod - 1 /\ resp.opcode \in {"none", "send", "write"}
        /\ resp.res \in 0 .. env.max_rd_atomic /\ rq \in Nat /\ mem \in Nat
    BY DEF RCInv, RespTypes, PSN
  <1> QED
    BY <1>1, <1>2, <1>3, <1>4, <1>5, <1>6, <1>7, <1>8, <1>9 DEF TypeOK

(* In every scenario in which the requester can read what it sends,          *)
(* rd_atomic stays between zero and max_rd_atomic (check_init_depth and      *)
(* do_complete take and give back the same), dma.resid between zero and the  *)
(* length, the receive queue is never consumed when it is empty, and the     *)
(* indices of the send queue stay in order.                                  *)
THEOREM TypeCorrect == Spec /\ LocalKeys => []TypeOK
  BY RCAlways, RCInvTypes, PTL

-----------------------------------------------------------------------------
(* A failure and what follows it *)

\* Unless the application drains the queue, a failed completion means that the
\* QP is in the error state, where the completer only flushes.
FailureInv == RCInv /\ FailedIsError /\ (~env.drains => ErrorThenFlush)

LEMMA FailureInit == Init => FailureInv
  <1> SUFFICES ASSUME Init PROVE FailureInv
    OBVIOUS
  <1>1. RCInv
    BY RCInit
  <1>2. Len(cqes) = 0
    BY DEF Init
  <1> QED
    BY <1>1, <1>2 DEF FailureInv, FailedIsError, ErrorThenFlush

LEMMA FailureStep == FailureInv /\ [Readable]_vars => FailureInv'
  <1> SUFFICES ASSUME FailureInv, [Readable]_vars PROVE FailureInv'
    OBVIOUS
  <1>1. RCInv /\ RCInv'
    BY RCStep DEF FailureInv
  <1> SUFFICES ASSUME ~env.drains PROVE FailedIsError' /\ ErrorThenFlush'
    <2>1. env'.drains = env.drains
      BY <1>1, EnvStep DEF EnvKept
    <2> QED
      BY <1>1, <2>1 DEF FailureInv, FailedIsError
  <1>2. /\ Len(cqes) \in Nat /\ cqes \in Seq(Cqe) /\ posted \in Nat /\ Len(cqes) <= posted
        /\ req.state = "ERROR" => cpc = "idle"
    BY <1>1 DEF RCInv, Indices
  <1>3. req.state = "ERROR" => req'.state = "ERROR"
    BY <1>1, ErrorIdleStep
  <1>4. /\ \A i \in 1 .. Len(cqes) : cqes[i].status # "SUCCESS" => req.state = "ERROR"
        /\ \A i, j \in 1 .. Len(cqes) :
              i < j /\ cqes[i].status # "SUCCESS" => cqes[j].status = "WR_FLUSH_ERR"
    BY DEF FailureInv, FailedIsError, ErrorThenFlush
  <1>5. CASE UNCHANGED cqes
    BY <1>3, <1>4, <1>5 DEF FailedIsError, ErrorThenFlush
  <1>6. CASE CompFlush
    <2>1. /\ Len(cqes') = posted /\ req'.state = "ERROR"
          /\ \A i \in 1 .. Len(cqes) : cqes'[i] = cqes[i]
          /\ \A i \in Len(cqes) + 1 .. posted : cqes'[i].status = "WR_FLUSH_ERR"
      BY <1>1, <1>6, FlushIs
    <2>2. ASSUME NEW i \in 1 .. posted, NEW j \in 1 .. posted, i < j, cqes'[i].status # "SUCCESS"
          PROVE  cqes'[j].status = "WR_FLUSH_ERR"
      <3>1. CASE j \in Len(cqes) + 1 .. posted
        BY <2>1, <3>1
      <3>2. CASE j \in 1 .. Len(cqes)
        <4>1. i \in 1 .. Len(cqes)
          BY <1>2, <2>2, <3>2
        <4>2. cqes'[i] = cqes[i] /\ cqes'[j] = cqes[j]
          BY <2>1, <3>2, <4>1
        <4> QED
          BY <1>4, <2>2, <3>2, <4>1, <4>2
      <3> QED
        BY <1>2, <3>1, <3>2
    <2> QED
      BY <2>1, <2>2 DEF FailedIsError, ErrorThenFlush
  <1>7. CASE OneCqe
    <2>1. PICK x \in Cqe : cqes' = Append(cqes, x) /\ (x.status = "SUCCESS" \/ req'.state = "ERROR")
      BY <1>7 DEF OneCqe
    <2>2. req.state # "ERROR"
      BY <1>2, <1>7 DEF OneCqe
    <2>3. \A i \in 1 .. Len(cqes) : cqes[i].status = "SUCCESS"
      BY <1>4, <2>2
    <2>4. /\ Len(cqes') = Len(cqes) + 1 /\ cqes'[Len(cqes) + 1] = x
          /\ \A i \in 1 .. Len(cqes) : cqes'[i] = cqes[i]
      BY <1>2, <2>1, AppendProperties
    <2>5. ASSUME NEW i \in 1 .. Len(cqes') PROVE i \in 1 .. Len(cqes) \/ i = Len(cqes')
      BY <1>2, <2>4
    <2>6. ErrorThenFlush'
      <3> SUFFICES ASSUME NEW i \in 1 .. Len(cqes'), NEW j \in 1 .. Len(cqes'), i < j
                   PROVE  cqes'[i].status = "SUCCESS"
        BY DEF ErrorThenFlush
      <3>1. i \in 1 .. Len(cqes)
        BY <1>2, <2>4
      <3> QED
        BY <2>3, <2>4, <3>1
    <2>7. FailedIsError'
      <3> SUFFICES ASSUME NEW i \in 1 .. Len(cqes'), cqes'[i].status # "SUCCESS"
                   PROVE  req'.state = "ERROR"
        BY DEF FailedIsError
      <3> QED
        BY <2>1, <2>3, <2>4, <2>5
    <2> QED
      BY <2>6, <2>7
  <1> QED
    BY <1>1, <1>5, <1>6, <1>7, CqeStep

(* In every scenario in which the application does not drain the send queue  *)
(* and the requester can read what it sends, so that only the completer's    *)
(* task runs rxe_completer, a failed WR is followed by flushed ones only:    *)
(* do_complete reports at most one failure, rxe_qp_error then keeps the task *)
(* to flushing.                                                              *)
THEOREM FailureThenFlush == Spec /\ LocalKeys => [](~env.drains => ErrorThenFlush)
  <1>1. FailureInv => (~env.drains => ErrorThenFlush)
    BY DEF FailureInv
  <1>2. FailureInv /\ LocalKeys /\ [Next]_vars => (FailureInv /\ LocalKeys)'
    BY NeverDirect, FailureStep DEF FailureInv
  <1> QED
    BY <1>1, <1>2, FailureInit, PTL DEF Spec

-----------------------------------------------------------------------------
(* Positions and PSNs: Wrap(a) is the PSN of the packet at position a of the *)
(* stream of packets that the work requests make up.                         *)

Half == PsnMod \div 2
Wrap(a) == (InitPsn + a) % PsnMod

LEMMA ModUnique ==
  ASSUME NEW M \in Nat \ {0}, NEW q \in Int, NEW x \in 0 .. M - 1, NEW y \in Int, y = q * M + x
  PROVE  y % M = x
  OBVIOUS

LEMMA MulDiff == \A M \in Nat : \A x, y \in Int : (x - y) * M = x * M - y * M
  OBVIOUS

LEMMA WrapIs ==
  ASSUME NEW a \in Nat
  PROVE  /\ Wrap(a) \in PSN /\ Wrap(a) \in Nat
         /\ \E q \in Int : InitPsn + a = q * PsnMod + Wrap(a)
  <1>1. PsnMod \in Nat \ {0} /\ InitPsn \in Int
    BY RCAssumption
  <1>2. PICK y \in Int : y = InitPsn + a
    BY <1>1
  <1>3. y % PsnMod \in 0 .. PsnMod - 1 /\ (y \div PsnMod) \in Int
    BY <1>1
  <1>4. y = (y \div PsnMod) * PsnMod + (y % PsnMod)
    BY <1>1
  <1>5. Wrap(a) = y % PsnMod
    BY <1>2 DEF Wrap
  <1>6. Wrap(a) \in PSN /\ Wrap(a) \in Nat
    BY <1>1, <1>3, <1>5 DEF PSN
  <1>7. InitPsn + a = (y \div PsnMod) * PsnMod + Wrap(a)
    BY <1>2, <1>4, <1>5
  <1> QED
    BY <1>3, <1>6, <1>7

LEMMA WrapAdd ==
  ASSUME NEW a \in Nat, NEW k \in Nat
  PROVE  psn_add(Wrap(a), k) = Wrap(a + k)
  <1>1. PsnMod \in Nat \ {0} /\ InitPsn \in Int /\ a + k \in Nat
    BY RCAssumption
  <1>2. PICK q \in Int : InitPsn + a = q * PsnMod + Wrap(a)
    BY WrapIs
  <1>3. PICK p \in Int : InitPsn + (a + k) = p * PsnMod + Wrap(a + k)
    BY <1>1, WrapIs
  <1>4. Wrap(a) \in Int /\ Wrap(a + k) \in 0 .. PsnMod - 1 /\ Wrap(a + k) \in Int
    BY <1>1, WrapIs DEF PSN
  <1>5. PICK d \in Int : d = p - q
    OBVIOUS
  <1>6. d * PsnMod = p * PsnMod - q * PsnMod
    BY <1>1, <1>5, MulDiff
  <1>7. Wrap(a) + k = d * PsnMod + Wrap(a + k)
    <2>1. PICK s \in Int, t \in Int, u \in Int : s = q * PsnMod /\ t = p * PsnMod /\ u = d * PsnMod
      BY <1>1
    <2>2. InitPsn + a = s + Wrap(a) /\ InitPsn + (a + k) = t + Wrap(a + k) /\ u = t - s
      BY <1>2, <1>3, <1>6, <2>1, Zenon
    <2>3. Wrap(a) + k = u + Wrap(a + k)
      BY <1>1, <1>4, <2>2
    <2> QED
      BY <2>1, <2>3, Zenon
  <1>8. PICK y \in Int : y = Wrap(a) + k
    BY <1>4
  <1>9. PICK z \in 0 .. PsnMod - 1 : z = Wrap(a + k)
    BY <1>4
  <1>10. y = d * PsnMod + z
    BY <1>7, <1>8, <1>9, Zenon
  <1>11. y % PsnMod = z
    BY <1>1, <1>10, ModUnique
  <1> QED
    BY <1>8, <1>9, <1>11 DEF psn_add

LEMMA WrapDiff ==
  ASSUME NEW a \in Nat, NEW c \in Nat, NEW x \in 0 .. PsnMod - 1, NEW e \in Int,
         a - c = e * PsnMod + x
  PROVE  (Wrap(a) - Wrap(c)) % PsnMod = x
  <1>1. PsnMod \in Nat \ {0} /\ InitPsn \in Int /\ a \in Int /\ c \in Int /\ x \in Int
    BY RCAssumption
  <1>2. PICK q \in Int : InitPsn + a = q * PsnMod + Wrap(a)
    BY WrapIs
  <1>3. PICK p \in Int : InitPsn + c = p * PsnMod + Wrap(c)
    BY WrapIs
  <1>4. Wrap(a) \in Int /\ Wrap(c) \in Int
    BY WrapIs DEF PSN
  <1>5. PICK d \in Int : d = p - q
    OBVIOUS
  <1>6. PICK f \in Int : e = f - d
    <2>1. e + d \in Int /\ e = (e + d) - d
      OBVIOUS
    <2> QED
      BY <2>1
  <1>7. d * PsnMod = p * PsnMod - q * PsnMod /\ e * PsnMod = f * PsnMod - d * PsnMod
    BY <1>1, <1>5, <1>6, MulDiff
  <1>8. Wrap(a) - Wrap(c) = f * PsnMod + x
    <2>1. PICK s \in Int, t \in Int, u \in Int, v \in Int, w \in Int :
            /\ s = q * PsnMod /\ t = p * PsnMod /\ u = e * PsnMod /\ v = d * PsnMod
            /\ w = f * PsnMod
      BY <1>1
    <2>2. /\ InitPsn + a = s + Wrap(a) /\ InitPsn + c = t + Wrap(c) /\ a - c = u + x
          /\ v = t - s /\ u = w - v
      BY <1>2, <1>3, <1>7, <2>1, Zenon
    <2>3. Wrap(a) - Wrap(c) = w + x
      BY <1>1, <1>4, <2>2
    <2> QED
      BY <2>1, <2>3, Zenon
  <1>9. PICK y \in Int : y = Wrap(a) - Wrap(c)
    BY <1>4
  <1>10. y = f * PsnMod + x
    BY <1>8, <1>9, Zenon
  <1>11. y % PsnMod = x
    BY <1>1, <1>10, ModUnique
  <1> QED
    BY <1>9, <1>11

LEMMA HalfIs == PsnMod \in Nat \ {0} /\ Half \in Nat /\ PsnMod = 2 * Half /\ Half > 0
  <1>1. PsnMod \in Nat /\ PsnMod % 2 = 0 /\ PsnMod # 0
    BY RCAssumption
  <1> QED
    BY <1>1 DEF Half

(* The sign of psn_compare is that of the difference of the positions, while *)
(* they are less than half of the PSNs apart.                                *)
LEMMA WrapCompare ==
  ASSUME NEW a \in Nat, NEW c \in Nat, - Half <= a - c, a - c < Half
  PROVE  psn_compare(Wrap(a), Wrap(c)) = a - c
  <1>1. CASE a >= c
    <2>1. (Wrap(a) - Wrap(c)) % PsnMod = a - c
      <3>1. a - c \in 0 .. PsnMod - 1 /\ a - c = 0 * PsnMod + (a - c)
        BY <1>1, HalfIs
      <3> QED
        BY <3>1, WrapDiff
    <2> QED
      BY <1>1, <2>1 DEF psn_compare, Half
  <1>2. CASE a < c
    <2>1. (Wrap(a) - Wrap(c)) % PsnMod = a - c + PsnMod
      <3>1. a - c + PsnMod \in 0 .. PsnMod - 1 /\ a - c = (-1) * PsnMod + (a - c + PsnMod)
        BY <1>2, HalfIs
      <3> QED
        BY <3>1, WrapDiff
    <2> QED
      BY <1>2, <2>1, HalfIs DEF psn_compare, Half
  <1> QED
    BY <1>1, <1>2

LEMMA WrapBehind ==
  ASSUME NEW a \in Nat, NEW c \in Nat, a >= c, a - c < PsnMod
  PROVE  (Wrap(a) - Wrap(c)) % PsnMod = a - c
  <1>1. a - c \in 0 .. PsnMod - 1 /\ a - c = 0 * PsnMod + (a - c)
    BY HalfIs
  <1> QED
    BY <1>1, WrapDiff

-----------------------------------------------------------------------------
(* Orderly scenarios: sends and writes no longer than half of the PSNs, with *)
(* a receive WQE for every send from the start, over a network that loses    *)
(* requests and no responses.  The retransmission timer fires when nothing   *)
(* is under way, and nothing is posted after it may have fired.  The queue   *)
(* is not drained, and the data can be read.  Remote keys, fences, the       *)
(* window and the limit on retries are free.                                 *)

Sends == {m \in 1 .. Len(sq) : sq[m].op = "send"}

Orderly ==
  /\ PsnMod >= 8
  /\ env.resp = 0 /\ env.early = 0 /\ ~env.drains
  /\ \A m \in 1 .. Len(sq) : /\ sq[m].op \in {"send", "write"} /\ sq[m].n <= Half
                             /\ sq[m].lkey
  /\ Cardinality(Sends) <= env.rq
  /\ env.timeout => Len(sq) < 2 * env.list

\* b[m] is the position of the first packet of message m.
Bases(b) ==
  /\ b \in [1 .. Len(sq) + 1 -> Nat] /\ b[1] = 0
  /\ \A m \in 1 .. Len(sq) : b[m + 1] = b[m] + sq[m].n
  /\ \A m \in 1 .. Len(sq), k \in 1 .. Len(sq) + 1 : m < k => b[m + 1] <= b[k]

place(b, p) == b[p.msg] + p.off
nexec == Len(executed)
cur == req.wqe_index

\* The requester is at position r, the completer at c, and the responder at nexec.
Positions(b, c, r) ==
  /\ req.psn = Wrap(r) /\ comp.psn = Wrap(c) /\ resp.psn = Wrap(nexec)
  /\ c <= nexec /\ nexec <= c + env.max_gap + 1
  /\ c <= r /\ r <= c + env.max_gap + 1
  /\ cur <= Len(sq) => r = b[cur] + sq[cur].n - sq[cur].resid
  /\ cur = Len(sq) + 1 => r = b[cur]

IsWqe(w) == w = [f \in WqeFields |-> w[f]]

\* What has been sent of each message, and the PSNs it was given.
WqeAt(b, m) ==
  /\ head <= m /\ m < cur => sq[m].state = "pending"
  /\ m < cur => sq[m].resid = 0
  /\ m >= cur => sq[m].resid > 0 /\ sq[m].state # "pending"
  /\ m > cur => sq[m].state = "posted" /\ sq[m].resid = sq[m].n
  /\ sq[m].state = "processing" => sq[m].resid < sq[m].n
  /\ sq[m].resid < sq[m].n => sq[m].first_psn = Wrap(b[m]) /\ sq[m].last_psn = Wrap(b[m + 1] - 1)
  /\ sq[m].resid = sq[m].n => sq[m].iova = 0
  /\ ~sq[m].lkey => sq[m].resid = sq[m].n
  /\ m > posted => sq[m].state = "posted"
  /\ sq[m].state = "error" => ~sq[m].lkey /\ sq[m].status # "SUCCESS"
  /\ sq[m].data = <<>> /\ ~sq[m].has_rd_atomic
  /\ IsWqe(sq[m])

Begun == cur <= Len(sq) /\ sq[cur].resid < sq[cur].n

WqesAt(b) ==
  /\ sq = [m \in 1 .. Len(sq) |-> sq[m]]
  /\ \A m \in 1 .. Len(sq) : WqeAt(b, m)
  /\ Begun => req.opcode = sq[cur].op
  /\ ~Begun => req.opcode = "none"

\* The request packets under way: what they are, and their order.  Only packets
\* the responder will drop, after its NAK, precede others of lower positions.
RequestAt(b, p) ==
  /\ p.msg \in 1 .. Len(sq) /\ p.op = sq[p.msg].op
  /\ p.off \in 0 .. sq[p.msg].n - 1
  /\ p.psn = Wrap(place(b, p))
  /\ starts(p) <=> p.off = 0
  /\ ends(p) <=> p.off = sq[p.msg].n - 1
  /\ p.off = 0 => p.va = 0

Stale(b, j) == resp.sent_psn_nak /\ \A l \in 1 .. j : place(b, reqnet[l]) > nexec

NetAt(b, c, r) ==
  \A j \in 1 .. Len(reqnet) :
    /\ RequestAt(b, reqnet[j])
    /\ c <= place(b, reqnet[j]) /\ place(b, reqnet[j]) <= c + env.max_gap
    /\ place(b, reqnet[j]) < r \/ Stale(b, j)
    /\ \A k \in j + 1 .. Len(reqnet) : place(b, reqnet[j]) < place(b, reqnet[k]) \/ Stale(b, j)

\* What the responder has executed, and what it expects.
Execution == Nat \X Nat \X Nat
ExecutedAt(b) ==
  /\ executed \in Seq(Execution)
  /\ \A j \in 1 .. nexec : \E m \in 1 .. Len(sq) : \E k \in 0 .. sq[m].n - 1 :
       executed[j] = <<m, k, k>> /\ j = b[m] + k + 1

ExpectedAt(b) ==
  /\ \A m \in 1 .. Len(sq) : \A k \in 0 .. sq[m].n - 1 : nexec = b[m] + k =>
        /\ k = 0 => resp.opcode = "none"
        /\ k > 0 => resp.opcode = sq[m].op /\ resp.va = k
  /\ resp.res = 0
  /\ \/ resp.state = "READY"
     \/ /\ resp.state = "ERROR" /\ ~resp.sent_psn_nak
        /\ \E m \in 1 .. Len(sq) : ~sq[m].rkey

\* Receive WQEs for the sends whose end is still to come.
Pending(b) == {m \in Sends : b[m + 1] > nexec}
Receives(b) == resp.state # "ERROR" => Cardinality(Pending(b)) <= rq

\* The responses under way: a acknowledgements, of the oldest message and those
\* after it, and at the end perhaps the NAK of the packet expected.
Total == Len(cpkt) + Len(respnet)
Entry(b, a, x, k) ==
  /\ x.pos = "only"
  /\ k <= a => x.kind = "ack" /\ x.psn = Wrap(b[head + k] - 1)
  /\ k > a => x.kind = "nak_seq" /\ x.psn = Wrap(nexec)

AllAhead(b) == \A j \in 1 .. Len(reqnet) : place(b, reqnet[j]) > nexec
Lags(b, r) == r < nexec \/ \E j \in 1 .. Len(reqnet) : place(b, reqnet[j]) < nexec

AnswersAt(b, a) ==
  /\ Len(cpkt) <= 1 /\ (cpc = "idle" => cpkt = <<>>)
  /\ Total = a \/ Total = a + 1
  /\ cpkt # <<>> => Entry(b, a, cpkt[1], 1)
  /\ \A k \in 1 .. Len(respnet) : Entry(b, a, respnet[k], Len(cpkt) + k)

InStep(b, c, r, a) ==
  /\ head + a <= Len(sq) + 1 /\ b[head + a] <= nexec
  /\ head + a <= Len(sq) /\ resp.state = "READY" => nexec < b[head + a + 1]
  /\ b[head] <= c /\ (head <= Len(sq) => c < b[head + 1])
  /\ Total = a + 1 => resp.sent_psn_nak /\ r > nexec /\ AllAhead(b)
  /\ Lags(b, r) => Total = 0
  /\ resp.sent_psn_nak => Total = a + 1 \/ c = nexec
  /\ cur >= head
  /\ cur <= Len(sq) /\ sq[cur].state \in {"posted", "error"} =>
       /\ cur = head => r = c
       /\ cur # head => sq[cur].resid = sq[cur].n

\* A retry is pending: nothing under way will be answered.
Retrying(b) ==
  req.need_retry =>
    /\ Total = 0 /\ cpc = "idle" /\ "req" \in run
    /\ reqnet # <<>> => resp.sent_psn_nak /\ AllAhead(b)
    /\ head <= posted /\ sq[head].state \in {"processing", "pending"}

\* The timer has fired and the completer has not yet acted on it: the rest waits.
TimedOut == comp.timeout \/ (cpc = "wqe" /\ comp.timeout_retry)
Timing ==
  /\ TimedOut => /\ reqnet = <<>> /\ respnet = <<>> /\ cpkt = <<>>
                 /\ rpc = "idle" /\ "req" \notin run /\ env.timeout /\ posted > 0
                 /\ ~req.need_retry
  /\ cpc = "wqe" => ~comp.timeout

Calls ==
  /\ "rnr" \notin timers
  /\ "retrans" \in timers => env.timeout /\ posted > 0
  /\ posted = 0 => run = {} /\ cpc = "idle" /\ rpc = "idle" /\ reqnet = <<>>
  /\ posted = 0 \/ posted >= env.list
  /\ req.state \in {"READY", "ERROR"}
  /\ comp.opcode = "none" /\ (env.retry_cnt = 7 => comp.retry_cnt = 7)
  /\ req.state = "ERROR" => env.retry_cnt # 7 \/ \E m \in 1 .. Len(sq) : ~sq[m].lkey

CompletedAt(b) ==
  \A k \in 1 .. Len(cqes) : cqes[k].status = "SUCCESS" => b[k + 1] <= nexec /\ cqes[k].data = <<>>

Running(b, c, r, a) == AnswersAt(b, a) /\ InStep(b, c, r, a) /\ Retrying(b) /\ Timing

Placed(b, c, r) ==
  /\ Orderly /\ Bases(b) /\ Positions(b, c, r) /\ WqesAt(b) /\ NetAt(b, c, r)
  /\ ExecutedAt(b) /\ ExpectedAt(b) /\ Receives(b)

OrdInv(b, c, r, a) ==
  /\ Placed(b, c, r) /\ Calls /\ CompletedAt(b)
  /\ req.state # "ERROR" => Running(b, c, r, a)

OrderInv == \E b, c, r, a : c \in Nat /\ r \in Nat /\ a \in Nat /\ OrdInv(b, c, r, a)

\* The stream of packets: for any lengths there are positions.
LEMMA BasesExist ==
  ASSUME NEW N \in Nat, NEW n \in [1 .. N -> Nat \ {0}]
  PROVE  \E b \in [1 .. N + 1 -> Nat] :
            /\ b[1] = 0
            /\ \A m \in 1 .. N : b[m + 1] = b[m] + n[m]
            /\ \A m \in 1 .. N, k \in 1 .. N + 1 : m < k => b[m + 1] <= b[k]
  <1> DEFINE IsBase(b, j) ==
               /\ b \in [1 .. j -> Nat] /\ b[1] = 0
               /\ \A m \in 1 .. j - 1 : b[m + 1] = b[m] + n[m]
               /\ \A m \in 1 .. j - 1, k \in 1 .. j : m < k => b[m + 1] <= b[k]
             Bad == {j \in 1 .. N + 1 : ~\E b : IsBase(b, j)}
  <1>1. Bad = {}
    <2>1. SUFFICES ASSUME Bad # {} PROVE FALSE
      OBVIOUS
    <2>2. PICK j \in Bad : \A k \in Bad : j <= k
      <3>1. Bad \in SUBSET Nat
        OBVIOUS
      <3> QED
        BY <2>1, <3>1, LeastOf
    <2>3. j \in 1 .. N + 1 /\ ~\E b : IsBase(b, j)
      OBVIOUS
    <2>4. CASE j = 1
      <3>1. IsBase([k \in 1 .. 1 |-> 0], 1)
        OBVIOUS
      <3> QED
        BY <2>3, <2>4, <3>1
    <2>5. CASE j > 1
      <3>1. j - 1 \in 1 .. N + 1 /\ j - 1 \notin Bad
        <4> HIDE DEF Bad
        <4> QED
          BY <2>2, <2>3, <2>5
      <3>2. PICK b : IsBase(b, j - 1)
        BY <3>1
      <3>3. PICK d : d = [k \in 1 .. j |-> IF k = j THEN b[j - 1] + n[j - 1] ELSE b[k]]
        OBVIOUS
      <3>4. j - 1 \in 1 .. N /\ n[j - 1] \in Nat /\ b \in [1 .. j - 1 -> Nat]
        BY <2>3, <2>5, <3>2
      <3>5. d \in [1 .. j -> Nat] /\ d[1] = 0
        BY <2>3, <2>5, <3>2, <3>3, <3>4
      <3>6. ASSUME NEW m \in 1 .. j - 1 PROVE d[m + 1] = d[m] + n[m]
        <4>1. CASE m = j - 1
          BY <2>3, <3>3, <3>6, <4>1
        <4>2. CASE m # j - 1
          <5>1. m \in 1 .. (j - 1) - 1 /\ m + 1 \in 1 .. j /\ m + 1 # j /\ m # j /\ m \in 1 .. j
            BY <2>3, <3>6, <4>2
          <5>2. d[m + 1] = b[m + 1] /\ d[m] = b[m]
            BY <3>3, <5>1
          <5> QED
            BY <3>2, <5>1, <5>2
        <4> QED
          BY <4>1, <4>2
      <3>7. ASSUME NEW m \in 1 .. j - 1, NEW k \in 1 .. j, m < k PROVE d[m + 1] <= d[k]
        <4>1. CASE k # j
          <5>1. /\ m \in 1 .. (j - 1) - 1 /\ m + 1 \in 1 .. j /\ m + 1 # j
                /\ k \in 1 .. j - 1
            BY <2>3, <3>7, <4>1
          <5>2. d[m + 1] = b[m + 1] /\ d[k] = b[k]
            BY <3>3, <4>1, <5>1
          <5> QED
            BY <3>2, <3>7, <5>1, <5>2
        <4>2. CASE k = j /\ m + 1 = j
          BY <2>3, <3>5, <4>2
        <4>3. CASE k = j /\ m + 1 # j
          <5>1. /\ m \in 1 .. (j - 1) - 1 /\ m + 1 \in 1 .. j /\ m < j - 1
                /\ j - 1 \in 1 .. j - 1 /\ m + 1 \in 1 .. j - 1
            BY <2>3, <3>7, <4>3
          <5>2. d[m + 1] = b[m + 1] /\ d[k] = b[j - 1] + n[j - 1]
            BY <3>3, <4>3, <5>1
          <5>3. b[m + 1] <= b[j - 1] /\ b[m + 1] \in Nat /\ b[j - 1] \in Nat
            BY <3>2, <3>4, <5>1
          <5> QED
            BY <3>4, <5>2, <5>3
        <4> QED
          BY <4>1, <4>2, <4>3
      <3>8. IsBase(d, j)
        BY <3>5, <3>6, <3>7
      <3> QED
        BY <2>3, <3>8
    <2> QED
      BY <2>3, <2>4, <2>5
  <1>2. PICK b : IsBase(b, N + 1)
    <2>1. N + 1 \in 1 .. N + 1
      OBVIOUS
    <2> QED
      BY <1>1, <2>1
  <1>3. (N + 1) - 1 = N
    OBVIOUS
  <1> QED
    BY <1>2, <1>3

\* The start.
LEMMA OrderInit ==
  ASSUME Init, Orderly
  PROVE  OrderInv
  <1> USE DEF nexec, cur
  <1>1. RCInv
    BY RCInit
  <1>2. PICK s \in Scenarios :
      /\ env = [s EXCEPT !.wrs = <<>>]
      /\ sq = [m \in 1 .. Len(s.wrs) |-> new_wqe(s.wrs[m])]
      /\ posted = 0
      /\ req = [state |-> "READY", qp_state |-> "RTS", psn |-> InitPsn,
                wqe_index |-> 1, opcode |-> "none",
                need_retry |-> FALSE, wait_psn |-> FALSE, wait_fence |-> FALSE,
                rd_atomic |-> s.max_rd_atomic, need_rd_atomic |-> FALSE]
      /\ comp = [psn |-> InitPsn, opcode |-> "none", timeout |-> FALSE,
                 timeout_retry |-> FALSE, retry_cnt |-> s.retry_cnt,
                 rnr_retry |-> s.rnr_retry]
      /\ rpc = "idle" /\ dpkt = <<>> /\ dwqe = 0 /\ cpc = "idle" /\ cpkt = <<>>
      /\ run = {} /\ timers = {}
      /\ reqnet = <<>> /\ respnet = <<>>
      /\ resp = [state |-> "READY", psn |-> InitPsn, opcode |-> "none",
                 sent_psn_nak |-> FALSE, res |-> 0, res_head |-> 1, va |-> 0]
      /\ rq = s.rq
      /\ executed = <<>> /\ cqes = <<>>
    BY DEF Init
  <1>3. s \in Scenario /\ s.wrs \in Seq(WR) /\ s.rq \in Nat
    BY RCAssumption, ScenarioFields
  <1>4. env.rq = s.rq /\ env.max_gap \in Nat /\ env.retry_cnt = s.retry_cnt
    <2>1. env.rq = s.rq /\ env.max_gap = s.max_gap /\ env.retry_cnt = s.retry_cnt
      BY <1>2, <1>3 DEF Scenario
    <2>2. s.max_gap \in 0 .. PsnMod \div 4
      BY <1>3 DEF Scenario
    <2> QED
      BY <2>1, <2>2
  <1>5. Len(sq) = Len(s.wrs) /\ Len(sq) \in Nat /\ DOMAIN sq = 1 .. Len(sq)
    BY <1>2, <1>3
  <1>6. ASSUME NEW m \in 1 .. Len(sq)
        PROVE  /\ sq[m].n \in Nat \ {0} /\ sq[m].resid = sq[m].n /\ sq[m].state = "posted"
               /\ sq[m].iova = 0 /\ sq[m].data = <<>> /\ ~sq[m].has_rd_atomic
    <2>1. PICK w \in WR : w = s.wrs[m]
      BY <1>3, <1>5
    <2>2. sq[m] = new_wqe(w)
      BY <1>2, <1>5, <2>1
    <2>3. w.n \in Nat \ {0}
      BY DEF WR
    <2> QED
      BY <2>2, <2>3 DEF new_wqe
  <1>22. ASSUME NEW m \in 1 .. Len(sq) PROVE IsWqe(sq[m])
    <2>1. PICK w : sq[m] = new_wqe(w)
      BY <1>2, <1>5
    <2> QED
      BY <2>1 DEF new_wqe, WqeFields, IsWqe
  <1>7. PICK b : Bases(b)
    <2>1. PICK n \in [1 .. Len(sq) -> Nat \ {0}] : n = [m \in 1 .. Len(sq) |-> sq[m].n]
      BY <1>6
    <2>2. PICK b \in [1 .. Len(sq) + 1 -> Nat] :
            /\ b[1] = 0
            /\ \A m \in 1 .. Len(sq) : b[m + 1] = b[m] + n[m]
            /\ \A m \in 1 .. Len(sq), k \in 1 .. Len(sq) + 1 : m < k => b[m + 1] <= b[k]
      BY <1>5, BasesExist
    <2> QED
      BY <2>1, <2>2 DEF Bases
  <1>8. b \in [1 .. Len(sq) + 1 -> Nat] /\ b[1] = 0 /\ Wrap(0) = InitPsn
    <2>1. b \in [1 .. Len(sq) + 1 -> Nat] /\ b[1] = 0
      BY <1>7 DEF Bases
    <2>2. PsnMod \in Nat \ {0} /\ InitPsn \in 0 .. PsnMod - 1
      BY RCAssumption
    <2>3. InitPsn + 0 = InitPsn /\ InitPsn % PsnMod = InitPsn
      BY <2>2
    <2> QED
      BY <2>1, <2>3 DEF Wrap
  <1>0. /\ req.psn = InitPsn /\ comp.psn = InitPsn /\ resp.psn = InitPsn /\ cur = 1 /\ nexec = 0
        /\ req.opcode = "none" /\ resp.opcode = "none" /\ resp.res = 0 /\ resp.state = "READY"
    BY <1>2
  <1>9. Positions(b, 0, 0)
    <2>1. /\ 0 <= env.max_gap + 1 /\ 0 + env.max_gap + 1 = env.max_gap + 1
      BY <1>4
    <2>2. cur <= Len(sq) => 0 = b[cur] + sq[cur].n - sq[cur].resid
      BY <1>0, <1>5, <1>6, <1>8
    <2> QED
      BY <1>0, <1>8, <2>1, <2>2 DEF Positions
  <1>10. head = 1 /\ Total = 0
    BY <1>2 DEF head, Total
  <1>11. WqesAt(b)
    <2>1. ASSUME NEW m \in 1 .. Len(sq) PROVE WqeAt(b, m)
      <3>1. m >= 1
        OBVIOUS
      <3> QED
        BY <1>0, <1>6, <1>22, <3>1 DEF WqeAt
    <2>2. ~Begun
      <3>1. cur <= Len(sq) => cur \in 1 .. Len(sq)
        BY <1>0, <1>5
      <3> QED
        BY <1>6, <3>1 DEF Begun
    <2>3. sq = [m \in 1 .. Len(sq) |-> sq[m]]
      BY <1>2, <1>5
    <2> QED
      BY <1>0, <2>1, <2>2, <2>3 DEF WqesAt
  <1>12. NetAt(b, 0, 0)
    BY <1>2 DEF NetAt
  <1>13. ExecutedAt(b)
    BY <1>2 DEF ExecutedAt
  <1>14. ExpectedAt(b)
    <2>1. ASSUME NEW m \in 1 .. Len(sq), NEW k \in 0 .. sq[m].n - 1, nexec = b[m] + k
          PROVE  k = 0
      <3>1. b[m] \in Nat /\ sq[m].n \in Nat
        BY <1>5, <1>6, <1>8
      <3>2. k \in Nat
        BY <3>1
      <3> QED
        BY <1>0, <2>1, <3>1, <3>2
    <2> QED
      BY <1>0, <2>1 DEF ExpectedAt
  <1>15. Receives(b)
    <2>1. Sends \subseteq 1 .. Len(sq) /\ Pending(b) \subseteq Sends
      BY DEF Sends, Pending
    <2>2. IsFiniteSet(Sends)
      <3>1. IsFiniteSet(1 .. Len(sq))
        BY <1>5, FS_Interval
      <3> QED
        BY <2>1, <3>1, FS_Subset
    <2>3. Cardinality(Pending(b)) <= Cardinality(Sends)
      BY <2>1, <2>2, FS_Subset
    <2>4. Cardinality(Pending(b)) \in Nat /\ Cardinality(Sends) \in Nat
      BY <2>1, <2>2, FS_Subset, FS_CardinalityType
    <2>5. Cardinality(Sends) <= rq /\ rq \in Nat
      BY <1>2, <1>3, <1>4 DEF Orderly
    <2> QED
      BY <2>3, <2>4, <2>5 DEF Receives
  <1>16. Calls
    BY <1>2, <1>4 DEF Calls
  <1>17. CompletedAt(b)
    BY <1>2 DEF CompletedAt
  <1>18. AnswersAt(b, 0)
    BY <1>2, <1>10 DEF AnswersAt
  <1>19. InStep(b, 0, 0, 0)
    <2>1. /\ head + 0 <= Len(sq) + 1 /\ b[head + 0] <= nexec /\ b[head] <= 0
          /\ cur >= head
      BY <1>2, <1>5, <1>8, <1>10
    <2>2. 1 <= Len(sq) => b[2] = b[1] + sq[1].n
      BY <1>5, <1>7 DEF Bases
    <2>3. head <= Len(sq) => 0 < b[head + 1]
      BY <1>5, <1>6, <1>8, <1>10, <2>2
    <2>4. ~Lags(b, 0) /\ ~resp.sent_psn_nak /\ Total = 0 /\ cur = head /\ nexec = 0
      BY <1>2, <1>10 DEF Lags
    <2> QED
      BY <2>1, <2>3, <2>4, <1>10 DEF InStep
  <1>20. Retrying(b) /\ Timing
    BY <1>2 DEF Retrying, Timing, TimedOut
  <1>21. OrdInv(b, 0, 0, 0)
    BY <1>7, <1>9, <1>11, <1>12, <1>13, <1>14, <1>15, <1>16, <1>17, <1>18, <1>19, <1>20
       DEF OrdInv, Placed, Running
  <1> QED
    BY <1>21 DEF OrderInv

-----------------------------------------------------------------------------
(* What does not change: the scenario *)

\* In an orderly scenario nothing else is drawn on than late receives and lost requests.
SameEnv ==
  /\ env'.resp = env.resp /\ env'.early = env.early /\ env'.drains = env.drains
  /\ env'.rq = env.rq /\ env'.timeout = env.timeout /\ env'.list = env.list
  /\ env'.max_gap = env.max_gap /\ env'.retry_cnt = env.retry_cnt

LEMMA EnvSame ==
  ASSUME RCInv, Orderly, [Readable]_vars
  PROVE  SameEnv /\ ~LoseResponse
  <1>1. env \in Scenario /\ env.resp = 0 /\ env.early = 0
    BY DEF RCInv, EnvTypes, Orderly
  <1>2. {"recv", "req", "resp", "early", "drains", "rq", "timeout", "list", "max_gap",
         "retry_cnt"} \subseteq DOMAIN env
    BY <1>1 DEF Scenario
  <1>3. ASSUME NEW n, \/ env' = [env EXCEPT !.recv = n] \/ env' = [env EXCEPT !.req = n]
                      \/ env' = env
        PROVE  SameEnv
    BY <1>2, <1>3 DEF SameEnv
  <1>4. ~LoseResponse
    BY <1>1 DEF LoseResponse
  <1>5. CASE PostRecv
    <2>1. PICK n : env' = [env EXCEPT !.recv = n]
      BY <1>5 DEF PostRecv
    <2> QED
      BY <1>3, <1>4, <2>1
  <1>6. CASE LoseRequest
    <2>1. PICK n : env' = [env EXCEPT !.req = n]
      BY <1>6 DEF LoseRequest
    <2> QED
      BY <1>3, <1>4, <2>1
  <1>7. CASE RetransmitTimer
    <2>1. quiet
      BY <1>1, <1>7 DEF RetransmitTimer
    <2>2. env' = env
      BY <1>7, <2>1 DEF RetransmitTimer
    <2> QED
      BY <1>3, <1>4, <2>2
  <1>8. CASE \/ Post \/ Drain \/ Resume \/ RnrNakTimer \/ DropRequest \/ DropResponse
             \/ UNCHANGED vars
    BY <1>3, <1>4, <1>8 DEF Post, Drain, Resume, RnrNakTimer, DropRequest, DropResponse, vars
  <1>9. CASE ReqStep \/ CompStep \/ RespStep
    BY <1>3, <1>4, <1>9, ReqFrame, CompFrame, RespFrame
  <1> QED
    BY <1>4, <1>5, <1>6, <1>7, <1>8, <1>9 DEF Readable

LEMMA WorkKept ==
  ASSUME RCInv, Orderly, [Readable]_vars, NEW b, Bases(b)
  PROVE  Orderly' /\ Bases(b)' /\ SameWork /\ SameEnv /\ Sends' = Sends
  <1>1. SameWork /\ SameEnv
    BY SameStep, EnvSame
  <1>2. Sends' = Sends
    BY <1>1 DEF Sends, SameWork, SameWr
  <1>3. Orderly'
    BY <1>1, <1>2 DEF Orderly, SameWork, SameWr, SameEnv
  <1>4. Bases(b)'
    BY <1>1 DEF Bases, SameWork, SameWr
  <1> QED
    BY <1>1, <1>2, <1>3, <1>4

-----------------------------------------------------------------------------
(* Facts of one state *)

LEMMA Sizes ==
  ASSUME RCInv, Orderly
  PROVE  /\ Len(sq) \in Nat /\ DOMAIN sq = 1 .. Len(sq) /\ Msgs = 1 .. Len(sq)
         /\ cur \in 1 .. Len(sq) + 1 /\ head \in 1 .. Len(sq) + 1 /\ posted \in 0 .. Len(sq)
         /\ cur <= posted + 1 /\ head <= posted + 1 /\ head = Len(cqes) + 1 /\ Len(cqes) \in Nat
         /\ env.max_gap \in Nat /\ env.max_gap + 1 < Half /\ Half \in Nat /\ PsnMod = 2 * Half
  <1>1. Len(sq) \in Nat /\ DOMAIN sq = 1 .. Len(sq) /\ Msgs = 1 .. Len(sq)
    BY WqesAre DEF Msgs
  <1>2. /\ cur \in 1 .. Len(sq) + 1 /\ posted \in 0 .. Len(sq) /\ cur <= posted + 1
        /\ head = Len(cqes) + 1 /\ Len(cqes) \in Nat /\ head <= posted + 1
        /\ head \in 1 .. Len(sq) + 1
    BY <1>1 DEF RCInv, Indices, cur, head
  <1>3. env.max_gap \in Nat /\ env.max_gap + 1 < Half /\ Half \in Nat /\ PsnMod = 2 * Half
    <2>1. env.max_gap \in 0 .. PsnMod \div 4
      BY DEF RCInv, EnvTypes, Scenario
    <2>2. PsnMod \in Nat /\ PsnMod >= 8
      BY RCAssumption DEF Orderly
    <2> QED
      BY <2>1, <2>2, HalfIs DEF Half
  <1> QED
    BY <1>1, <1>2, <1>3

LEMMA Naturals ==
  ASSUME RCInv, Orderly
  PROVE  cur \in Nat /\ head \in Nat /\ posted \in Nat
  BY DEF RCInv, Indices, cur, head

\* The bases of two messages, as plain numbers.
LEMMA BaseIs ==
  ASSUME RCInv, NEW b, Bases(b), NEW m \in 1 .. Len(sq) + 1
  PROVE  b[m] \in Nat /\ (m <= Len(sq) => b[m + 1] \in Nat /\ b[m + 1] = b[m] + sq[m].n)
  <1>1. Len(sq) \in Nat
    BY WqesAre
  <1>2. b[m] \in Nat
    BY DEF Bases
  <1>3. ASSUME m <= Len(sq) PROVE b[m + 1] \in Nat /\ b[m + 1] = b[m] + sq[m].n
    <2>1. m \in 1 .. Len(sq) /\ m + 1 \in 1 .. Len(sq) + 1
      BY <1>1, <1>3
    <2> QED
      BY <2>1 DEF Bases
  <1> QED
    BY <1>2, <1>3

LEMMA Ground ==
  ASSUME RCInv, Orderly, NEW b, Bases(b)
  PROVE  /\ Len(sq) \in Nat /\ DOMAIN sq = 1 .. Len(sq) /\ Msgs = 1 .. Len(sq)
         /\ cur \in 1 .. Len(sq) + 1 /\ head \in 1 .. Len(sq) + 1 /\ posted \in 0 .. Len(sq)
         /\ cur <= posted + 1 /\ head <= posted + 1 /\ head = Len(cqes) + 1 /\ Len(cqes) \in Nat
         /\ env.max_gap \in Nat /\ env.max_gap + 1 < Half /\ Half \in Nat /\ PsnMod = 2 * Half
         /\ \A m \in 1 .. Len(sq) + 1 : b[m] \in Nat
         /\ \A m \in 1 .. Len(sq) : b[m + 1] = b[m] + sq[m].n /\ b[m + 1] \in Nat /\ b[m] \in Nat
  <1>1. Len(sq) \in Nat
    BY Sizes
  <1>2. /\ \A m \in 1 .. Len(sq) + 1 : b[m] \in Nat
        /\ \A m \in 1 .. Len(sq) : b[m + 1] = b[m] + sq[m].n /\ b[m + 1] \in Nat /\ b[m] \in Nat
    <2>1. ASSUME NEW m \in 1 .. Len(sq) + 1 PROVE b[m] \in Nat
      BY BaseIs
    <2>2. ASSUME NEW m \in 1 .. Len(sq)
          PROVE  b[m + 1] = b[m] + sq[m].n /\ b[m + 1] \in Nat /\ b[m] \in Nat
      <3>1. m \in 1 .. Len(sq) + 1 /\ m <= Len(sq)
        BY <1>1
      <3> QED
        BY <3>1, BaseIs
    <2> QED
      BY <2>1, <2>2, Zenon
  <1> QED
    BY <1>2, Sizes

LEMMA WqeGround ==
  ASSUME RCInv, Orderly, NEW m \in 1 .. Len(sq)
  PROVE  /\ sq[m].n \in Nat /\ sq[m].n > 0 /\ sq[m].n <= Half /\ sq[m].op \in {"send", "write"}
         /\ ~IsReadAtomic(sq[m].op) /\ sq[m].resid \in Nat /\ sq[m].resid <= sq[m].n
         /\ sq[m].state \in {"posted", "processing", "pending", "error"}
         /\ DOMAIN sq[m] = WqeFields
         /\ sq[m].state \in {"processing", "pending"} => sq[m].lkey
  <1>1. WqeTypes(sq[m]) /\ WqeStatus(sq[m])
    BY WqesAre
  <1>2. sq[m].op \in {"send", "write"} /\ sq[m].n <= Half
    BY DEF Orderly
  <1>3. ~IsReadAtomic(sq[m].op)
    BY <1>2 DEF IsReadAtomic
  <1> QED
    BY <1>1, <1>2, <1>3 DEF WqeTypes, WqeStatus

\* A position belongs to one message.
LEMMA OnePlace ==
  ASSUME RCInv, Orderly, NEW b, Bases(b), NEW m \in 1 .. Len(sq), NEW l \in 1 .. Len(sq) + 1,
         NEW x \in Nat, b[m] <= x, x < b[m + 1], b[l] <= x
  PROVE  l <= m /\ (l <= Len(sq) /\ x < b[l + 1] => l = m)
  <1>3. Len(sq) \in Nat /\ m \in 1 .. Len(sq) + 1 /\ m <= Len(sq) /\ m \in Nat /\ l \in Nat
    BY Sizes
  <1>1. l <= m
    <2>1. m < l => b[m + 1] <= b[l]
      BY DEF Bases
    <2>2. b[l] \in Nat /\ b[m + 1] \in Nat
      BY <1>3, BaseIs
    <2>3. PICK y \in Nat, z \in Nat : y = b[m + 1] /\ z = b[l]
      BY <2>2
    <2>4. (m < l => y <= z) /\ x < y /\ z <= x
      BY <2>1, <2>3
    <2> QED
      BY <1>3, <2>4
  <1>2. ASSUME l <= Len(sq), x < b[l + 1] PROVE l = m
    <2>1. l < m => b[l + 1] <= b[m]
      BY <1>2, <1>3 DEF Bases
    <2>2. b[l + 1] \in Nat /\ b[m] \in Nat
      BY <1>2, <1>3, BaseIs
    <2>3. PICK y \in Nat, z \in Nat : y = b[l + 1] /\ z = b[m]
      BY <2>2
    <2>4. (l < m => y <= z) /\ x < y /\ z <= x
      BY <1>2, <2>1, <2>3
    <2> QED
      BY <1>1, <1>3, <2>4
  <1> QED
    BY <1>1, <1>2

-----------------------------------------------------------------------------
(* Steps that leave the messages, the requests and the responder alone *)

LEMMA RequestPlace ==
  ASSUME RCInv, Orderly, NEW b, Bases(b), NEW p, RequestAt(b, p)
  PROVE  /\ place(b, p) \in Nat /\ p.msg \in 1 .. Len(sq) /\ p.off \in Nat
         /\ b[p.msg] <= place(b, p) /\ place(b, p) < b[p.msg + 1]
  <1>1. p.msg \in 1 .. Len(sq) /\ p.off \in 0 .. sq[p.msg].n - 1
    BY DEF RequestAt
  <1>2. b[p.msg] \in Nat /\ b[p.msg + 1] = b[p.msg] + sq[p.msg].n /\ sq[p.msg].n \in Nat
    BY <1>1, Ground, WqeGround
  <1> QED
    BY <1>1, <1>2 DEF place

LEMMA PlacedFrame ==
  ASSUME RCInv, NEW b, NEW c \in Nat, NEW r \in Nat, NEW d \in Nat, Placed(b, c, r), [Readable]_vars,
         UNCHANGED <<sq, reqnet, executed>>, cur' = cur, req'.psn = req.psn,
         req'.opcode = req.opcode, resp' = resp, rq' >= rq, posted' >= posted,
         Len(cqes') >= Len(cqes), comp'.psn = Wrap(d), c <= d, d <= nexec, d <= r,
         \A j \in 1 .. Len(reqnet) : d <= place(b, reqnet[j])
  PROVE  Placed(b, d, r)'
  <1>1. Orderly' /\ Bases(b)' /\ SameEnv /\ Sends' = Sends
    BY WorkKept DEF Placed
  <1>2. /\ Len(sq) \in Nat /\ cur \in Nat /\ head \in Nat /\ head' \in Nat /\ head' >= head
        /\ posted \in Nat /\ posted' \in Nat /\ rq \in Nat /\ rq' \in Nat
        /\ env.max_gap \in Nat /\ nexec \in Nat
    <2>1. Len(sq) \in Nat /\ cur \in Nat /\ head \in Nat /\ Len(cqes) \in Nat /\ env.max_gap \in Nat
      <3>1. Orderly
        BY DEF Placed
      <3>2. Len(sq) \in Nat /\ Len(cqes) \in Nat /\ env.max_gap \in Nat
        BY <3>1, Sizes
      <3> QED
        BY <3>1, <3>2, Naturals
    <2>2. /\ posted \in Nat /\ posted' \in Nat /\ rq \in Nat /\ rq' \in Nat /\ Len(cqes') \in Nat
      BY RCStep DEF RCInv, Indices, RespTypes
    <2>3. nexec \in Nat
      BY DEF Placed, ExecutedAt, nexec
    <2> QED
      BY <2>1, <2>2, <2>3 DEF head
  <1>3. Positions(b, d, r)'
    <2>1. Positions(b, c, r)
      BY DEF Placed
    <2>2. nexec' = nexec /\ env'.max_gap = env.max_gap
      BY <1>1 DEF nexec, SameEnv
    <2>3. PICK g \in Nat, x \in Nat : g = env.max_gap /\ x = nexec
      BY <1>2
    <2>4. x <= c + g + 1 /\ r <= c + g + 1 /\ c <= d /\ d <= x
      BY <2>1, <2>3 DEF Positions
    <2>5. x <= d + g + 1 /\ r <= d + g + 1
      BY <2>4
    <2> QED
      BY <2>1, <2>2, <2>3, <2>5 DEF Positions
  <1>4. WqesAt(b)'
    <2>1. ASSUME NEW m \in 1 .. Len(sq) PROVE WqeAt(b, m)'
      <3>1. WqeAt(b, m)
        BY DEF Placed, WqesAt
      <3>2. PICK h \in Nat, i \in Nat, o \in Nat, q \in Nat :
              h = head /\ i = head' /\ o = posted /\ q = posted'
        BY <1>2
      <3>3. m \in Nat /\ (i <= m => h <= m) /\ (m > q => m > o)
        BY <1>2, <3>2
      <3>4. (head' <= m => head <= m) /\ (m > posted' => m > posted)
        BY <3>2, <3>3
      <3> QED
        BY <3>1, <3>4 DEF WqeAt
    <2>2. Begun' <=> Begun
      BY DEF Begun
    <2> QED
      BY <2>1, <2>2 DEF Placed, WqesAt
  <1>5. NetAt(b, d, r)'
    <2>1. ASSUME NEW j \in 1 .. Len(reqnet)
          PROVE  place(b, reqnet[j]) \in Nat
      <3>1. RequestAt(b, reqnet[j])
        BY DEF Placed, NetAt
      <3> QED
        BY <3>1, RequestPlace DEF Placed
    <2>2. ASSUME NEW j \in 1 .. Len(reqnet)
          PROVE  place(b, reqnet[j]) <= d + env.max_gap
      <3>1. place(b, reqnet[j]) <= c + env.max_gap
        BY DEF Placed, NetAt
      <3>2. PICK x \in Nat : x = place(b, reqnet[j])
        BY <2>1
      <3>3. PICK g \in Nat : g = env.max_gap
        BY <1>2
      <3>4. x <= c + g
        BY <3>1, <3>2, <3>3
      <3>6. c \in Nat /\ d \in Nat /\ c <= d
        OBVIOUS
      <3>5. x <= d + g
        BY <3>4, <3>6
      <3> QED
        BY <3>2, <3>3, <3>5
    <2> QED
      BY <1>1, <2>2 DEF Placed, NetAt, RequestAt, Stale, place, nexec, starts, ends, SameEnv
  <1>8. ExecutedAt(b)'
    <2>1. sq' = sq /\ executed' = executed /\ ExecutedAt(b)
      BY DEF Placed
    <2> QED
      BY <2>1, SMTT(30) DEF ExecutedAt, nexec
  <1>6. ExpectedAt(b)'
    BY DEF Placed, ExpectedAt, nexec
  <1>7. Receives(b)'
    <2>1. Pending(b)' = Pending(b)
      BY <1>1 DEF Pending, nexec
    <2>2. Cardinality(Pending(b)) \in Nat
      <3>1. Pending(b) \subseteq 1 .. Len(sq)
        BY DEF Pending, Sends
      <3>2. IsFiniteSet(1 .. Len(sq))
        <4>1. 1 \in Int /\ Len(sq) \in Int
          BY <1>2
        <4> QED
          BY <4>1, FS_Interval
      <3> QED
        BY <3>1, <3>2, FS_Subset, FS_CardinalityType
    <2> QED
      BY <1>2, <2>1, <2>2 DEF Placed, Receives
  <1> QED
    BY <1>1, <1>3, <1>4, <1>5, <1>6, <1>7, <1>8 DEF Placed

LEMMA AnswersFrame ==
  ASSUME NEW b, NEW c, NEW r, NEW a, AnswersAt(b, a), InStep(b, c, r, a),
         UNCHANGED <<sq, reqnet, respnet, executed, resp, cpc, cpkt, cqes>>, cur' = cur
  PROVE  AnswersAt(b, a)' /\ InStep(b, c, r, a)'
  <1>1. head' = head /\ Total' = Total /\ nexec' = nexec
    BY DEF head, Total, nexec
  <1>2. AnswersAt(b, a)'
    BY <1>1 DEF AnswersAt, Entry
  <1>3. AllAhead(b)' <=> AllAhead(b)
    BY <1>1 DEF AllAhead, place
  <1>4. Lags(b, r)' <=> Lags(b, r)
    BY <1>1 DEF Lags, place
  <1>5. InStep(b, c, r, a)'
    BY <1>1, <1>3, <1>4 DEF InStep
  <1> QED
    BY <1>2, <1>5

LEMMA RetryFrame ==
  ASSUME NEW b, Retrying(b), UNCHANGED <<sq, reqnet, respnet, executed, resp, cpc, cpkt, cqes>>,
         req'.need_retry = req.need_retry, req.need_retry => posted' >= posted /\ "req" \in run',
         posted \in Nat, posted' \in Nat, Len(cqes) \in Nat
  PROVE  Retrying(b)'
  <1>1. head' = head /\ Total' = Total /\ nexec' = nexec /\ head \in Nat
    BY DEF head, Total, nexec
  <1>2. AllAhead(b)' <=> AllAhead(b)
    BY <1>1 DEF AllAhead, place
  <1> QED
    BY <1>1, <1>2 DEF Retrying

LEMMA CompletedSame ==
  ASSUME NEW b, CompletedAt(b), UNCHANGED <<cqes, executed>>
  PROVE  CompletedAt(b)'
  BY DEF CompletedAt, nexec

-----------------------------------------------------------------------------
(* Steps of the first kind: no packet moves and no position changes *)

LEMMA Steady ==
  ASSUME RCInv, NEW b, NEW c \in Nat, NEW r \in Nat, NEW a \in Nat, OrdInv(b, c, r, a), [Readable]_vars,
         UNCHANGED <<sq, reqnet, respnet, executed, resp, cpc, cpkt, cqes>>, cur' = cur,
         req'.psn = req.psn, req'.opcode = req.opcode, req'.state = req.state,
         req'.need_retry = req.need_retry, comp'.psn = comp.psn, rq' >= rq, posted' >= posted,
         req.state # "ERROR" => (req.need_retry => "req" \in run') /\ Timing', Calls'
  PROVE  OrdInv(b, c, r, a)'
  <1>1. Placed(b, c, r) /\ CompletedAt(b) /\ (req.state # "ERROR" => Running(b, c, r, a))
    BY DEF OrdInv
  <1>2. /\ rq \in Nat /\ rq' \in Nat /\ Len(cqes) \in Nat /\ Len(cqes') \in Nat
        /\ posted \in Nat /\ posted' \in Nat /\ Len(cqes') = Len(cqes)
    BY RCStep DEF RCInv, RespTypes, Indices
  <1>3. Placed(b, c, r)'
    <2>1. /\ comp'.psn = Wrap(c) /\ c <= c /\ c <= nexec /\ c <= r
          /\ \A j \in 1 .. Len(reqnet) : c <= place(b, reqnet[j])
      BY <1>1 DEF Placed, Positions, NetAt
    <2> QED
      BY <1>1, <1>2, <2>1, PlacedFrame
  <1>4. CompletedAt(b)'
    BY <1>1, CompletedSame
  <1>5. ASSUME req.state # "ERROR" PROVE Running(b, c, r, a)'
    <2>1. AnswersAt(b, a) /\ InStep(b, c, r, a) /\ Retrying(b)
      BY <1>1, <1>5 DEF Running
    <2>2. AnswersAt(b, a)' /\ InStep(b, c, r, a)'
      BY <2>1, AnswersFrame
    <2>3. Retrying(b)'
      BY <1>2, <1>5, <2>1, RetryFrame
    <2> QED
      BY <1>5, <2>2, <2>3 DEF Running
  <1> QED
    BY <1>3, <1>4, <1>5 DEF OrdInv

LEMMA SteadySteps ==
  ASSUME RCInv, NEW b, NEW c \in Nat, NEW r \in Nat, NEW a \in Nat, OrdInv(b, c, r, a), [Readable]_vars,
         \/ Post \/ PostRecv \/ ReqError \/ ReqNone \/ ReqTestWait \/ ReqSetWait \/ CompBlocked
         \/ RetransmitTimer \/ UNCHANGED vars
  PROVE  OrdInv(b, c, r, a)'
  <1>1. /\ Calls /\ (req.state # "ERROR" => Retrying(b) /\ Timing /\ AnswersAt(b, a))
        /\ Orderly /\ SameEnv
    BY EnvSame DEF OrdInv, Running, Placed
  <1>2. /\ DOMAIN req = ReqFields /\ DOMAIN comp = CompFields /\ rq \in Nat /\ posted \in Nat
        /\ env.list \in Nat \ {0} /\ posted' \in Nat
    <2>1. /\ DOMAIN req = ReqFields /\ DOMAIN comp = CompFields /\ rq \in Nat /\ posted \in Nat
          /\ env \in Scenario
      BY DEF RCInv, EnvTypes, ReqTypes, CompTypes, RespTypes, Indices
    <2>2. env.list \in Nat \ {0}
      BY <2>1 DEF Scenario
    <2>3. posted' \in Nat
      BY IndexStep DEF Indices
    <2> QED
      BY <2>1, <2>2, <2>3
  <1>3. CASE Post
    <2>1. Calls'
      BY <1>1, <1>2, <1>3 DEF Post, Calls, compvars, SameEnv
    <2>2. ~TimedOut
      <3>1. req.state # "ERROR" /\ posted + env.list <= Len(sq)
        BY <1>3 DEF Post
      <3>2. SUFFICES ASSUME TimedOut PROVE FALSE
        OBVIOUS
      <3>3. env.timeout /\ posted > 0
        BY <1>1, <3>1, <3>2 DEF Timing
      <3>4. posted >= env.list /\ Len(sq) < 2 * env.list
        BY <1>1, <1>2, <3>3 DEF Calls, Orderly
      <3>5. Len(sq) \in Nat
        BY WqesAre
      <3> QED
        BY <1>2, <3>1, <3>4, <3>5
    <2>3. Timing'
      BY <1>3, <2>2 DEF Post, Timing, TimedOut, compvars
    <2>4. UNCHANGED <<sq, req, reqnet, respnet, executed, resp, rq, comp, cpc, cpkt, cqes>>
          /\ run' = run \cup {"req"} /\ posted' >= posted
      BY <1>2, <1>3 DEF Post, compvars, respvars
    <2> QED
      BY <1>2, <2>1, <2>3, <2>4, Steady DEF cur
  <1>4. CASE PostRecv
    <2>1. /\ UNCHANGED <<posted, sq, req, rpc, run, timers, reqnet, respnet, executed, resp, comp, cpc, cpkt, cqes>>
          /\ rq' = rq + 1
      BY <1>4 DEF PostRecv, compvars, reqvars
    <2>2. Calls'
      BY <1>1, <2>1 DEF Calls, SameEnv
    <2>3. req.state # "ERROR" => (req.need_retry => "req" \in run') /\ Timing'
      BY <1>1, <2>1 DEF Timing, TimedOut, Retrying, SameEnv
    <2> QED
      BY <1>2, <2>1, <2>2, <2>3, Steady DEF cur
  <1>5. CASE ReqError \/ ReqNone
    <2>1. /\ UNCHANGED <<posted, sq, req, rpc, timers, reqnet, respnet, executed, resp, rq, comp, cpc, cpkt, cqes, env>>
          /\ run' = run \ {"req"} /\ (req.state # "ERROR" => ~req.need_retry)
          /\ "req" \in run
      BY <1>5 DEF ReqError, ReqNone, ReqExit, ReqGo, Requester, reqvars, compvars, respvars
    <2>2. Calls'
      BY <1>1, <2>1 DEF Calls
    <2>3. req.state # "ERROR" => Timing'
      BY <1>1, <2>1 DEF Timing, TimedOut
    <2> QED
      BY <1>2, <2>1, <2>2, <2>3, Steady DEF cur
  <1>6. CASE ReqTestWait
    <2>1. /\ UNCHANGED <<posted, sq, req, timers, reqnet, respnet, executed, resp, rq, comp, cpc, cpkt, cqes, env>>
          /\ run' = run \ {"req"} /\ ~req.need_retry
          /\ "req" \in run
      BY <1>6 DEF ReqTestWait, ReqExit, ReqGo, Requester, compvars, respvars
    <2>2. Calls'
      BY <1>1, <2>1 DEF Calls
    <2>3. req.state # "ERROR" => Timing'
      BY <1>1, <2>1 DEF Timing, TimedOut
    <2> QED
      BY <1>2, <2>1, <2>2, <2>3, Steady DEF cur
  <1>7. CASE ReqSetWait
    <2>1. /\ UNCHANGED <<posted, sq, run, timers, reqnet, respnet, executed, resp, rq, comp, cpc, cpkt, cqes, env>>
          /\ rpc # "idle" /\ rpc' = "idle"
          /\ \/ req' = [req EXCEPT !.wait_fence = TRUE] \/ req' = [req EXCEPT !.wait_psn = TRUE]
      BY <1>7 DEF ReqSetWait, compvars, respvars
    <2>2. /\ req'.psn = req.psn /\ req'.opcode = req.opcode /\ req'.state = req.state
          /\ req'.need_retry = req.need_retry /\ cur' = cur
      BY <1>2, <2>1 DEF ReqFields, cur
    <2>3. Calls'
      BY <1>1, <2>1, <2>2 DEF Calls
    <2>4. req.state # "ERROR" => (req.need_retry => "req" \in run') /\ Timing'
      BY <1>1, <2>1 DEF Timing, TimedOut, Retrying
    <2> QED
      BY <1>2, <2>1, <2>2, <2>3, <2>4, Steady
  <1>8. CASE CompBlocked
    <2>1. /\ UNCHANGED <<posted, sq, req, rpc, timers, reqnet, respnet, executed, resp, rq, cpc, cpkt, cqes, env>>
          /\ cpc = "idle" /\ req.need_retry /\ req.state # "ERROR" /\ run' = run \ {"comp"}
          /\ comp' = [comp EXCEPT !.timeout_retry = comp.timeout, !.timeout = FALSE]
      BY <1>8 DEF CompBlocked, reqvars, respvars
    <2>2. /\ comp'.psn = comp.psn /\ comp'.retry_cnt = comp.retry_cnt /\ ~comp'.timeout
          /\ comp'.opcode = comp.opcode
      BY <1>2, <2>1 DEF CompFields
    <2>3. Calls'
      BY <1>1, <2>1, <2>2 DEF Calls
    <2>4. "req" \in run' /\ Timing'
      BY <1>1, <2>1, <2>2 DEF Timing, TimedOut, Retrying
    <2>5. cur' = cur /\ rq' >= rq /\ posted' >= posted /\ req' = req
      BY <1>2, <2>1 DEF cur
    <2> QED
      BY <2>1, <2>2, <2>3, <2>4, <2>5, Steady
  <1>9. CASE RetransmitTimer
    <2>1. quiet
      BY <1>1, <1>9 DEF RetransmitTimer, Orderly
    <2>2. /\ UNCHANGED <<posted, sq, req, rpc, reqnet, respnet, executed, resp, rq, cpc, cpkt, cqes, env>>
          /\ run' = {"comp"} /\ comp' = [comp EXCEPT !.timeout = TRUE]
          /\ "retrans" \in timers /\ timers' = timers \ {"retrans"}
      BY <1>9, <2>1 DEF RetransmitTimer, quiet, reqvars, respvars
    <2>3. comp'.psn = comp.psn /\ comp'.retry_cnt = comp.retry_cnt /\ comp'.opcode = comp.opcode
      BY <1>2, <2>2 DEF CompFields
    <2>4. Calls'
      BY <1>1, <1>2, <2>2, <2>3 DEF Calls
    <2>5. req.state # "ERROR" => (req.need_retry => "req" \in run') /\ Timing'
      BY <1>1, <2>1, <2>2 DEF Timing, Retrying, quiet, Calls, AnswersAt
    <2> QED
      BY <1>2, <2>2, <2>3, <2>4, <2>5, Steady DEF cur
  <1>10. CASE UNCHANGED vars
    <2>1. UNCHANGED <<posted, sq, req, rpc, run, timers, reqnet, respnet, executed, resp, rq, comp,
                      cpc, cpkt, cqes, env>>
      BY <1>10 DEF vars, reqvars, compvars, respvars
    <2>2. Calls' /\ (req.state # "ERROR" => (req.need_retry => "req" \in run') /\ Timing')
      BY <1>1, <2>1 DEF Calls, Timing, TimedOut, Retrying
    <2> QED
      BY <1>2, <2>1, <2>2, Steady DEF cur
  <1> QED
    BY <1>3, <1>4, <1>5, <1>6, <1>7, <1>8, <1>9, <1>10

-----------------------------------------------------------------------------
(* The completer *)

LEMMA CompareSame == ASSUME NEW x \in Int PROVE psn_compare(x, x) = 0
  <1>1. x - x = 0 /\ 0 % PsnMod = 0
    BY HalfIs
  <1> QED
    BY <1>1, HalfIs DEF psn_compare, Half

\* While the requester is not in error.
LEMMA Active ==
  ASSUME RCInv, NEW b, NEW c \in Nat, NEW r \in Nat, NEW a \in Nat, OrdInv(b, c, r, a),
         req.state # "ERROR"
  PROVE  /\ Orderly /\ Bases(b) /\ Positions(b, c, r) /\ WqesAt(b) /\ NetAt(b, c, r)
         /\ ExecutedAt(b) /\ ExpectedAt(b) /\ Receives(b) /\ Calls /\ CompletedAt(b)
         /\ AnswersAt(b, a) /\ InStep(b, c, r, a) /\ Retrying(b) /\ Timing
         /\ Placed(b, c, r) /\ nexec \in Nat /\ Total \in Nat /\ Len(cpkt) \in Nat
         /\ Len(respnet) \in Nat
  <1>1. Len(cpkt) \in Nat /\ Len(respnet) \in Nat
    BY DEF RCInv, RespNet
  <1>2. Total \in Nat
    BY <1>1 DEF Total
  <1>3. Placed(b, c, r) /\ Calls /\ CompletedAt(b) /\ Running(b, c, r, a)
    BY DEF OrdInv
  <1>4. nexec \in Nat
    BY <1>3 DEF Placed, ExecutedAt, nexec
  <1> QED
    BY <1>1, <1>2, <1>3, <1>4 DEF Placed, Running

\* An acknowledgement in hand is that of the oldest message, and its last packet's.
LEMMA AckInHand ==
  ASSUME RCInv, NEW b, NEW c \in Nat, NEW r \in Nat, NEW a \in Nat, OrdInv(b, c, r, a),
         req.state # "ERROR", cpkt # <<>>, a > 0
  PROVE  /\ head \in 1 .. Len(sq) /\ head < cur /\ head <= posted /\ sq[head].state = "pending"
         /\ cpkt[1].kind = "ack" /\ cpkt[1].pos = "only" /\ cpkt[1].psn = Wrap(b[head + 1] - 1)
         /\ sq[head].last_psn = cpkt[1].psn /\ sq[head].resid = 0
         /\ b[head + 1] <= nexec /\ nexec <= r /\ ~Lags(b, r) /\ b[head + 1] \in Nat
         /\ c < b[head + 1] /\ b[head + 1] > 0
  <1>1. /\ Orderly /\ Bases(b) /\ Positions(b, c, r) /\ WqesAt(b)
        /\ AnswersAt(b, a) /\ InStep(b, c, r, a) /\ nexec \in Nat
    BY Active
  <1>2. Len(cpkt) = 1 /\ Total > 0
    <2>1. Len(cpkt) \in Nat /\ Len(respnet) \in Nat /\ Len(cpkt) # 0
      BY DEF RCInv, RespNet
    <2>2. Len(cpkt) <= 1
      BY <1>1 DEF AnswersAt
    <2>3. PICK x \in Nat, y \in Nat : x = Len(cpkt) /\ y = Len(respnet)
      BY <2>1
    <2>4. x = 1 /\ Total = x + y
      BY <2>1, <2>2, <2>3 DEF Total
    <2> QED
      BY <2>3, <2>4
  <1>3. cpkt[1].kind = "ack" /\ cpkt[1].pos = "only" /\ cpkt[1].psn = Wrap(b[head + 1] - 1)
    BY <1>1 DEF AnswersAt, Entry
  <1>4. head \in 1 .. Len(sq) /\ head + a \in 1 .. Len(sq) + 1
    <2>1. head \in Nat /\ head >= 1 /\ Len(sq) \in Nat
      BY <1>1, Ground
    <2>2. head + a <= Len(sq) + 1
      BY <1>1 DEF InStep
    <2> QED
      BY <2>1, <2>2
  <1>5. b[head + 1] <= b[head + a] /\ b[head + a] <= nexec
    BY <1>1, <1>4, Ground DEF Bases, InStep
  <1>6. ~Lags(b, r)
    BY <1>1, <1>2 DEF InStep
  <1>7. nexec <= r
    BY <1>1, <1>6 DEF Lags
  <1>8. b[head + 1] \in Nat /\ b[head + a] \in Nat /\ b[head] \in Nat /\ b[head + 1] = b[head] + sq[head].n
    BY <1>1, <1>4, Ground
  <1>9. sq[head].n \in Nat /\ sq[head].n > 0 /\ sq[head].resid \in Nat
    BY <1>1, <1>4, WqeGround
  <1>10. WqeAt(b, head)
    BY <1>1, <1>4 DEF WqesAt
  <1>11. head < cur
    <2>1. SUFFICES ASSUME cur = head PROVE FALSE
      BY <1>1, Ground DEF InStep
    <2>2. r = b[head] + sq[head].n - sq[head].resid /\ sq[head].resid > 0
      BY <1>1, <1>4, <1>10, <2>1 DEF Positions, WqeAt
    <2>3. PICK x \in Nat, y \in Nat, z \in Nat, n \in Nat, l \in Nat :
            x = b[head] /\ y = b[head + 1] /\ z = b[head + a] /\ n = sq[head].n /\ l = sq[head].resid
      BY <1>8, <1>9
    <2>4. r = x + n - l /\ l > 0 /\ y = x + n /\ y <= z /\ z <= nexec /\ nexec <= r
      BY <1>5, <1>7, <1>8, <2>2, <2>3
    <2> QED
      BY <1>1, <2>4
  <1>12. sq[head].state = "pending" /\ sq[head].resid = 0 /\ sq[head].last_psn = Wrap(b[head + 1] - 1)
    BY <1>9, <1>10, <1>11, <1>4 DEF WqeAt
  <1>13. head <= posted
    BY <1>1, <1>11, Ground
  <1>14. c < b[head + 1]
    BY <1>1, <1>4 DEF InStep
  <1>15. b[head + 1] <= nexec /\ b[head + 1] > 0
    <2>1. PICK x \in Nat, y \in Nat : x = b[head + 1] /\ y = b[head + a]
      BY <1>8
    <2>2. x <= y /\ y <= nexec /\ c < x
      BY <1>5, <1>14, <2>1
    <2>3. x <= nexec /\ x > 0
      BY <1>1, <2>2
    <2> QED
      BY <2>1, <2>3
  <1>16. sq[head].last_psn = cpkt[1].psn
    BY <1>3, <1>12
  <1> QED
    BY <1>3, <1>4, <1>6, <1>7, <1>8, <1>11, <1>12, <1>13, <1>14, <1>15, <1>16

LEMMA AckDecision ==
  ASSUME RCInv, NEW b, NEW c \in Nat, NEW r \in Nat, NEW a \in Nat, OrdInv(b, c, r, a),
         req.state # "ERROR", cpkt # <<>>, a > 0
  PROVE  get_wqe = "WRITE_SEND" /\ psn_compare(cpkt[1].psn, comp.psn) >= 0
  <1>1. Orderly /\ Bases(b) /\ Positions(b, c, r) /\ InStep(b, c, r, a) /\ Calls
    BY Active
  <1>2. /\ head \in 1 .. Len(sq) /\ head <= posted /\ sq[head].state = "pending"
        /\ cpkt[1].kind = "ack" /\ cpkt[1].pos = "only" /\ cpkt[1].psn = Wrap(b[head + 1] - 1)
        /\ sq[head].last_psn = cpkt[1].psn
    BY AckInHand
  <1>3. cpkt[1].psn \in Int /\ psn_compare(cpkt[1].psn, sq[head].last_psn) = 0
    <2>1. cpkt[1].psn \in Int
      <3>1. b[head + 1] - 1 \in Nat
        BY AckInHand
      <3> QED
        BY <1>2, <3>1, WrapIs
    <2> QED
      BY <1>2, <2>1, CompareSame
  <1>4. psn_compare(cpkt[1].psn, comp.psn) = b[head + 1] - 1 - c /\ b[head + 1] - 1 - c >= 0
    <2>0. b[head + 1] \in Nat /\ b[head + 1] > 0
      BY AckInHand
    <2>1. PICK e \in Nat : e = b[head + 1] - 1
      BY <2>0
    <2>2. /\ b[head + 1] = b[head] + sq[head].n /\ b[head] <= c /\ c < b[head + 1] /\ b[head] \in Nat
          /\ sq[head].n \in Nat /\ sq[head].n <= Half /\ Half \in Nat /\ Half > 0
      <3>1. b[head + 1] = b[head] + sq[head].n /\ b[head] \in Nat
        BY <1>1, <1>2, Ground
      <3>2. sq[head].n \in Nat /\ sq[head].n <= Half
        BY <1>1, <1>2, WqeGround
      <3>3. b[head] <= c /\ c < b[head + 1]
        BY <1>1, <1>2 DEF InStep
      <3> QED
        BY <3>1, <3>2, <3>3, HalfIs
    <2>3. - Half <= e - c /\ e - c < Half /\ e - c >= 0
      BY <2>1, <2>2
    <2>4. psn_compare(Wrap(e), Wrap(c)) = e - c
      BY <2>3, WrapCompare
    <2> QED
      BY <1>1, <1>2, <2>1, <2>3, <2>4 DEF Positions
  <1>5. ~IsReadAtomic(sq[head].op) /\ comp.opcode = "none"
    BY <1>1, <1>2, WqeGround DEF Calls
  <1>6. check_ack(sq[head], cpkt[1]) = "WRITE_SEND"
    BY <1>2, <1>5 DEF check_ack, starts
  <1>7. check_psn(sq[head], cpkt[1]) = check_ack(sq[head], cpkt[1])
    <2>1. PICK x \in Int : x = psn_compare(cpkt[1].psn, comp.psn) /\ x >= 0
      <3>1. b[head + 1] \in Nat
        BY AckInHand
      <3>2. PICK e \in Nat : e = b[head + 1]
        BY <3>1
      <3>3. e - 1 - c \in Int /\ psn_compare(cpkt[1].psn, comp.psn) = e - 1 - c /\ e - 1 - c >= 0
        BY <1>4, <3>2
      <3> QED
        BY <3>3
    <2> QED
      BY <1>3, <1>5, <2>1 DEF check_psn
  <1>8. ~NoWqe
    BY <1>1, <1>2, Ground DEF NoWqe
  <1>9. get_wqe = check_psn(sq[head], cpkt[1])
    BY <1>2, <1>8 DEF get_wqe
  <1> QED
    BY <1>4, <1>6, <1>7, <1>9, AckInHand

\* A NAK is the last response, and of a packet of the oldest message.
LEMMA NakInHand ==
  ASSUME RCInv, NEW b, NEW c \in Nat, NEW r \in Nat, NEW a \in Nat, OrdInv(b, c, r, a),
         req.state # "ERROR", cpkt # <<>>, a = 0
  PROVE  /\ head \in 1 .. Len(sq) /\ head <= posted /\ sq[head].state \in {"processing", "pending"}
         /\ cpkt[1].kind = "nak_seq" /\ cpkt[1].pos = "only" /\ cpkt[1].psn = Wrap(nexec)
         /\ sq[head].last_psn = Wrap(b[head + 1] - 1) /\ respnet = <<>>
         /\ r > nexec /\ resp.sent_psn_nak /\ AllAhead(b)
         /\ b[head] <= nexec /\ nexec < b[head + 1] /\ b[head + 1] \in Nat /\ b[head] \in Nat
  <1>1. /\ Orderly /\ Bases(b) /\ Positions(b, c, r) /\ WqesAt(b)
        /\ AnswersAt(b, a) /\ InStep(b, c, r, a) /\ ExpectedAt(b) /\ nexec \in Nat
    BY Active
  <1>2. Len(cpkt) = 1 /\ Total = 1 /\ Len(respnet) = 0
    <2>1. Len(cpkt) \in Nat /\ Len(respnet) \in Nat /\ Len(cpkt) # 0
      BY DEF RCInv, RespNet
    <2>2. Len(cpkt) <= 1 /\ (Total = 0 \/ Total = 1)
      BY <1>1 DEF AnswersAt
    <2>3. PICK x \in Nat, y \in Nat : x = Len(cpkt) /\ y = Len(respnet)
      BY <2>1
    <2>4. x = 1 /\ Total = x + y
      BY <2>1, <2>2, <2>3 DEF Total
    <2> QED
      BY <2>2, <2>3, <2>4
  <1>3. cpkt[1].kind = "nak_seq" /\ cpkt[1].pos = "only" /\ cpkt[1].psn = Wrap(nexec)
    BY <1>1 DEF AnswersAt, Entry
  <1>4. /\ head \in Nat /\ head >= 1 /\ Len(sq) \in Nat /\ head <= Len(sq) + 1 /\ head + 0 = head
        /\ cur \in Nat /\ cur <= Len(sq) + 1 /\ cur <= posted + 1 /\ posted \in Nat
    BY <1>1, Ground
  <1>5. r > nexec /\ resp.sent_psn_nak /\ AllAhead(b)
    BY <1>1, <1>2 DEF InStep
  <1>6. b[head] <= nexec /\ (head <= Len(sq) => nexec < b[head + 1]) /\ cur >= head /\ c <= nexec
    <2>1. resp.state = "READY"
      BY <1>1, <1>5 DEF ExpectedAt
    <2> QED
      BY <1>1, <1>4, <2>1 DEF InStep, Positions
  <1>7. head <= Len(sq)
    <2>1. SUFFICES ASSUME head = Len(sq) + 1 PROVE FALSE
      BY <1>4
    <2>2. cur = head /\ r = b[head]
      BY <1>1, <1>4, <1>6, <2>1 DEF Positions
    <2> QED
      BY <1>1, <1>5, <1>6, <2>2
  <1>8. head \in 1 .. Len(sq) /\ b[head + 1] \in Nat /\ b[head] \in Nat
    BY <1>1, <1>4, <1>7, Ground
  <1>9. WqeAt(b, head) /\ sq[head].n \in Nat /\ sq[head].n > 0 /\ sq[head].resid \in Nat
        /\ sq[head].state \in {"posted", "processing", "pending", "error"}
    BY <1>1, <1>8, WqeGround DEF WqesAt
  <1>10. sq[head].state \in {"processing", "pending"}
    <2>1. CASE cur = head
      <3>1. sq[head].state \in {"posted", "error"} => r = c
        BY <1>1, <1>7, <2>1 DEF InStep
      <3> QED
        BY <1>1, <1>5, <1>6, <1>9, <3>1
    <2>2. CASE cur > head
      BY <1>4, <1>9, <2>2 DEF WqeAt
    <2> QED
      BY <1>4, <1>6, <2>1, <2>2
  <1>11. sq[head].last_psn = Wrap(b[head + 1] - 1)
    <2>1. sq[head].resid < sq[head].n
      <3>1. CASE cur = head
        BY <1>4, <1>9, <1>10, <3>1 DEF WqeAt
      <3>2. CASE cur > head
        BY <1>4, <1>9, <3>2 DEF WqeAt
      <3> QED
        BY <1>4, <1>6, <3>1, <3>2
    <2> QED
      BY <1>9, <2>1 DEF WqeAt
  <1>12. head <= posted
    BY <1>4, <1>9, <1>10 DEF WqeAt
  <1>13. respnet = <<>>
    BY <1>2 DEF RCInv, RespNet
  <1> QED
    BY <1>3, <1>5, <1>6, <1>7, <1>8, <1>10, <1>11, <1>12, <1>13

LEMMA NakDecision ==
  ASSUME RCInv, NEW b, NEW c \in Nat, NEW r \in Nat, NEW a \in Nat, OrdInv(b, c, r, a),
         req.state # "ERROR", cpkt # <<>>, a = 0
  PROVE  get_wqe = "NAK_RETRY" /\ psn_compare(cpkt[1].psn, comp.psn) = nexec - c
  <1>1. Orderly /\ Bases(b) /\ Positions(b, c, r) /\ InStep(b, c, r, a) /\ Calls /\ nexec \in Nat
    BY Active
  <1>2. /\ head \in 1 .. Len(sq) /\ head <= posted /\ sq[head].state \in {"processing", "pending"}
        /\ cpkt[1].kind = "nak_seq" /\ cpkt[1].pos = "only" /\ cpkt[1].psn = Wrap(nexec)
        /\ sq[head].last_psn = Wrap(b[head + 1] - 1)
        /\ b[head] <= nexec /\ nexec < b[head + 1] /\ b[head + 1] \in Nat /\ b[head] \in Nat
    BY NakInHand
  <1>3. psn_compare(cpkt[1].psn, sq[head].last_psn) <= 0 /\ psn_compare(cpkt[1].psn, sq[head].last_psn) \in Int
    <2>1. PICK e \in Nat : e = b[head + 1] - 1
      BY <1>1, <1>2
    <2>2. b[head + 1] = b[head] + sq[head].n /\ sq[head].n \in Nat /\ sq[head].n <= Half /\ Half \in Nat /\ Half > 0
      BY <1>1, <1>2, Ground, WqeGround, HalfIs
    <2>3. - Half <= nexec - e /\ nexec - e < Half /\ nexec - e <= 0
      <3>1. PICK x \in Nat, y \in Nat, n \in Nat :
              x = b[head] /\ y = b[head + 1] /\ n = sq[head].n
        BY <1>2, <2>2
      <3>2. y = x + n /\ n <= Half /\ x <= nexec /\ nexec < y /\ e = y - 1
        BY <1>2, <2>1, <2>2, <3>1
      <3>3. nexec \in Nat /\ Half \in Nat /\ Half > 0
        BY <1>1, <2>2
      <3> QED
        BY <3>2, <3>3
    <2>4. psn_compare(Wrap(nexec), Wrap(e)) = nexec - e
      BY <1>1, <2>3, WrapCompare
    <2> QED
      BY <1>1, <1>2, <2>1, <2>3, <2>4
  <1>4. psn_compare(cpkt[1].psn, comp.psn) = nexec - c /\ nexec - c >= 0
    <2>1. c <= nexec /\ nexec <= c + env.max_gap + 1 /\ comp.psn = Wrap(c)
      BY <1>1 DEF Positions
    <2>2. env.max_gap + 1 < Half /\ env.max_gap \in Nat /\ Half \in Nat
      BY <1>1, Ground
    <2>3. - Half <= nexec - c /\ nexec - c < Half /\ nexec - c >= 0
      BY <1>1, <2>1, <2>2
    <2>4. psn_compare(Wrap(nexec), Wrap(c)) = nexec - c
      BY <1>1, <2>3, WrapCompare
    <2> QED
      BY <1>2, <2>1, <2>3, <2>4
  <1>5. ~IsReadAtomic(sq[head].op) /\ comp.opcode = "none"
    BY <1>1, <1>2, WqeGround DEF Calls
  <1>6. check_ack(sq[head], cpkt[1]) = "NAK_RETRY"
    BY <1>2, <1>5 DEF check_ack, starts
  <1>7. check_psn(sq[head], cpkt[1]) = check_ack(sq[head], cpkt[1])
    <2>1. PICK x \in Int : x = psn_compare(cpkt[1].psn, comp.psn) /\ x >= 0
      BY <1>1, <1>4
    <2>2. PICK y \in Int : y = psn_compare(cpkt[1].psn, sq[head].last_psn) /\ y <= 0
      BY <1>3
    <2> QED
      BY <1>5, <2>1, <2>2 DEF check_psn
  <1>8. ~NoWqe
    <2>1. head \in Nat /\ posted \in Nat /\ head <= posted /\ sq[head].state # "posted"
      <3>1. head \in Nat /\ posted \in Nat
        BY <1>1, Ground
      <3> QED
        BY <1>2, <3>1
    <2> QED
      BY <2>1 DEF NoWqe
  <1>9. get_wqe = check_psn(sq[head], cpkt[1])
    BY <1>2, <1>8 DEF get_wqe
  <1> QED
    BY <1>4, <1>6, <1>7, <1>9

\* What the completer decides.
LEMMA Decision ==
  ASSUME RCInv, NEW b, NEW c \in Nat, NEW r \in Nat, NEW a \in Nat, OrdInv(b, c, r, a), cpc = "wqe"
  PROVE  /\ req.state # "ERROR" /\ ~req.need_retry /\ posted > 0
         /\ cpkt = <<>> => \/ get_wqe = "EXIT"
                           \/ get_wqe = "ERROR" /\ ~NoWqe /\ sq[head].state = "error"
         /\ cpkt # <<>> => \/ a > 0 /\ get_wqe = "WRITE_SEND"
                           \/ a = 0 /\ get_wqe = "NAK_RETRY"
  <1>1. req.state # "ERROR"
    BY DEF RCInv
  <1>2. Retrying(b) /\ Calls /\ posted \in Nat
    <2>1. posted \in Nat
      BY DEF RCInv, Indices
    <2> QED
      BY <1>1, <2>1, Active
  <1>3. ~req.need_retry /\ posted > 0
    BY <1>2 DEF Retrying, Calls
  <1>4. ASSUME cpkt = <<>>
        PROVE  get_wqe = "EXIT" \/ (get_wqe = "ERROR" /\ ~NoWqe /\ sq[head].state = "error")
    BY <1>4 DEF get_wqe
  <1>5. ASSUME cpkt # <<>>
        PROVE  (a > 0 /\ get_wqe = "WRITE_SEND") \/ (a = 0 /\ get_wqe = "NAK_RETRY")
    BY <1>1, <1>5, AckDecision, NakDecision
  <1> QED
    BY <1>1, <1>3, <1>4, <1>5

LEMMA NeverComp ==
  ASSUME RCInv, NEW b, NEW c \in Nat, NEW r \in Nat, NEW a \in Nat, OrdInv(b, c, r, a),
         CompDone \/ CompWqe \/ CompPart \/ CompRnrRetry
  PROVE  FALSE
  <1>1. cpc = "wqe"
    BY Zenon DEF CompDone, CompWqe, CompPart, CompRnrRetry
  <1>2. CASE cpkt = <<>>
    <2>1. get_wqe = "EXIT" \/ get_wqe = "ERROR"
      BY <1>1, <1>2, Decision
    <2> QED
      BY <2>1 DEF CompDone, CompWqe, CompPart, CompRnrRetry
  <1>3. CASE cpkt # <<>>
    <2>1. (a > 0 /\ get_wqe = "WRITE_SEND") \/ (a = 0 /\ get_wqe = "NAK_RETRY")
      BY <1>1, <1>3, Decision
    <2>2. CompPart /\ a > 0 /\ get_wqe = "WRITE_SEND"
      BY <2>1 DEF CompDone, CompWqe, CompPart, CompRnrRetry
    <2>3. ~(sq[head].state = "pending" /\ sq[head].last_psn = cpkt[1].psn)
      BY <2>2 DEF CompPart
    <2>4. sq[head].state = "pending" /\ sq[head].last_psn = cpkt[1].psn
      BY <1>1, <1>3, <2>2, Decision, AckInHand
    <2> QED
      BY <2>3, <2>4
  <1> QED
    BY <1>2, <1>3

LEMMA CompletedNext ==
  ASSUME RCInv, NEW b, CompletedAt(b), executed' = executed, NEW x, cqes' = Append(cqes, x),
         x.status = "SUCCESS" => b[head + 1] <= nexec /\ x.data = <<>>
  PROVE  CompletedAt(b)' /\ Len(cqes') = Len(cqes) + 1
  <1>1. cqes \in Seq(Cqe) /\ Len(cqes) \in Nat /\ head = Len(cqes) + 1
    BY DEF RCInv, Indices, head
  <1>2. Len(cqes') = Len(cqes) + 1 /\ cqes'[Len(cqes) + 1] = x
    BY <1>1
  <1>3. ASSUME NEW k \in 1 .. Len(cqes') , cqes'[k].status = "SUCCESS"
        PROVE  b[k + 1] <= nexec /\ cqes'[k].data = <<>>
    <2>1. CASE k = Len(cqes) + 1
      BY <1>1, <1>2, <1>3, <2>1
    <2>2. CASE k # Len(cqes) + 1
      <3>1. k \in 1 .. Len(cqes)
        BY <1>1, <1>2, <2>2
      <3>2. cqes'[k] = cqes[k]
        BY <1>1, <3>1
      <3> QED
        BY <1>3, <3>1, <3>2 DEF CompletedAt
    <2> QED
      BY <2>1, <2>2
  <1>4. CompletedAt(b)'
    BY <1>3 DEF CompletedAt, nexec
  <1> QED
    BY <1>2, <1>4

LEMMA FlushStep ==
  ASSUME RCInv, NEW b, NEW c \in Nat, NEW r \in Nat, NEW a \in Nat, OrdInv(b, c, r, a), CompFlush,
         [Readable]_vars
  PROVE  OrdInv(b, c, r, a)'
  <1>1. Placed(b, c, r) /\ Calls /\ CompletedAt(b)
    BY DEF OrdInv
  <1>2. /\ UNCHANGED <<sq, reqnet, executed, resp, rq, posted, rpc, comp, cpc, timers, env>>
        /\ "comp" \in run /\ run' \subseteq (run \cup {"req"}) /\ req.state = "ERROR"
        /\ req' = [req EXCEPT !.wait_fence = @ /\ posted = Len(cqes)]
    BY DEF CompFlush, respvars
  <1>3. /\ req'.state = req.state /\ cur' = cur /\ req'.psn = req.psn /\ req'.opcode = req.opcode
        /\ rq \in Nat /\ posted \in Nat
    BY <1>2 DEF RCInv, ReqTypes, ReqFields, cur, RespTypes, Indices
  <1>4. /\ Len(cqes') >= Len(cqes) /\ Len(cqes) \in Nat /\ Len(cqes') = posted
        /\ \A i \in 1 .. Len(cqes) : cqes'[i] = cqes[i]
        /\ \A i \in Len(cqes) + 1 .. posted : cqes'[i].status = "WR_FLUSH_ERR"
    <2>1. Len(cqes) \in Nat /\ Len(cqes) <= posted
      BY <1>3 DEF RCInv, Indices
    <2> QED
      BY <1>3, <2>1, FlushIs
  <1>5. Placed(b, c, r)'
    <2>1. /\ comp'.psn = Wrap(c) /\ c <= c /\ c <= nexec /\ c <= r
          /\ \A j \in 1 .. Len(reqnet) : c <= place(b, reqnet[j])
      BY <1>1, <1>2 DEF Placed, Positions, NetAt
    <2>2. rq' >= rq /\ posted' >= posted
      BY <1>2, <1>3
    <2> QED
      BY <1>1, <1>2, <1>3, <1>4, <2>1, <2>2, PlacedFrame
  <1>6. Calls'
    BY <1>1, <1>2, <1>3 DEF Calls
  <1>7. CompletedAt(b)'
    <2>1. ASSUME NEW k \in 1 .. posted, cqes'[k].status = "SUCCESS"
          PROVE  b[k + 1] <= nexec /\ cqes'[k].data = <<>>
      <3>1. CASE k \in 1 .. Len(cqes)
        BY <1>1, <1>4, <2>1, <3>1 DEF CompletedAt
      <3>2. CASE k \notin 1 .. Len(cqes)
        <4>1. k \in Len(cqes) + 1 .. posted
          BY <1>3, <1>4, <3>2
        <4> QED
          BY <1>4, <2>1, <4>1
      <3> QED
        BY <3>1, <3>2
    <2> QED
      BY <1>2, <1>4, <2>1 DEF CompletedAt, nexec
  <1> QED
    BY <1>2, <1>3, <1>5, <1>6, <1>7 DEF OrdInv

LEMMA GetAckStep ==
  ASSUME RCInv, NEW b, NEW c \in Nat, NEW r \in Nat, NEW a \in Nat, OrdInv(b, c, r, a), CompGetAck,
         [Readable]_vars
  PROVE  OrdInv(b, c, r, a)'
  <1>1. /\ UNCHANGED <<posted, sq, req, rpc, cqes, timers, reqnet, resp, rq, executed, env>>
        /\ "comp" \in run /\ cpc = "idle" /\ req.state # "ERROR" /\ ~req.need_retry
        /\ cpc' = "wqe" /\ run' = run \ {"comp"}
        /\ comp' = [comp EXCEPT !.timeout_retry = comp.timeout /\ respnet = <<>>, !.timeout = FALSE]
        /\ respnet = <<>> => cpkt' = <<>> /\ respnet' = <<>>
        /\ respnet # <<>> => cpkt' = <<Head(respnet)>> /\ respnet' = Tail(respnet)
    BY DEF CompGetAck, reqvars, respvars
  <1>2. /\ Placed(b, c, r) /\ Calls /\ CompletedAt(b) /\ AnswersAt(b, a) /\ InStep(b, c, r, a)
        /\ Timing /\ Positions(b, c, r) /\ NetAt(b, c, r)
    BY <1>1, Active
  <1>3. /\ comp'.psn = comp.psn /\ comp'.opcode = comp.opcode /\ comp'.retry_cnt = comp.retry_cnt
        /\ ~comp'.timeout /\ (comp'.timeout_retry => comp.timeout /\ respnet = <<>>)
    BY <1>1 DEF RCInv, CompTypes, CompFields
  <1>4. Placed(b, c, r)'
    <2>1. /\ comp'.psn = Wrap(c) /\ c <= c /\ c <= nexec /\ c <= r
          /\ \A j \in 1 .. Len(reqnet) : c <= place(b, reqnet[j])
      BY <1>2, <1>3 DEF Positions, NetAt
    <2>2. rq' >= rq /\ posted' >= posted /\ Len(cqes') >= Len(cqes)
      BY <1>1 DEF RCInv, RespTypes, Indices
    <2>3. cur' = cur
      BY <1>1 DEF cur
    <2> QED
      BY <1>1, <1>2, <2>1, <2>2, <2>3, PlacedFrame
  <1>5. Calls'
    BY <1>1, <1>2, <1>3 DEF Calls
  <1>6. CompletedAt(b)'
    BY <1>1, <1>2, CompletedSame
  <1>7. AnswersAt(b, a)' /\ Total' = Total
    <2>1. cpkt = <<>> /\ respnet \in Seq(Answers)
      BY <1>1, <1>2 DEF AnswersAt, RCInv, RespNet
    <2>2. head' = head /\ nexec' = nexec
      BY <1>1 DEF head, nexec
    <2>3. CASE respnet = <<>>
      <3>1. Total' = Total /\ cpkt' = <<>> /\ respnet' = <<>>
        BY <1>1, <2>1, <2>3 DEF Total
      <3> QED
        BY <1>1, <1>2, <2>1, <2>3, <3>1 DEF AnswersAt
    <2>4. CASE respnet # <<>>
      <3>1. /\ cpkt' = <<Head(respnet)>> /\ respnet' = Tail(respnet) /\ Len(cpkt') = 1
            /\ cpkt'[1] = respnet[1] /\ Len(respnet) \in Nat /\ Len(respnet) > 0
            /\ Len(respnet') = Len(respnet) - 1 /\ Len(cpkt) = 0
            /\ \A k \in 1 .. Len(respnet') : respnet'[k] = respnet[k + 1]
        BY <1>1, <2>1, <2>4
      <3>2. Total' = Total
        BY <3>1 DEF Total
      <3>3. \A k \in 1 .. Len(respnet) : Entry(b, a, respnet[k], k)
        <4>1. ASSUME NEW k \in 1 .. Len(respnet) PROVE Entry(b, a, respnet[k], k)
          <5>1. Len(cpkt) + k = k
            BY <3>1
          <5> QED
            BY <1>2, <5>1 DEF AnswersAt
        <4> QED
          BY <4>1
      <3>4. Entry(b, a, cpkt'[1], 1)
        BY <3>1, <3>3
      <3>5. ASSUME NEW k \in 1 .. Len(respnet') PROVE Entry(b, a, respnet'[k], 1 + k)
        <4>1. k + 1 \in 1 .. Len(respnet) /\ k + 1 = 1 + k /\ respnet'[k] = respnet[k + 1]
          BY <3>1
        <4> QED
          BY <3>3, <4>1
      <3>6. AnswersAt(b, a)'
        BY <1>1, <1>2, <2>2, <3>1, <3>2, <3>4, <3>5 DEF AnswersAt, Entry
      <3> QED
        BY <3>2, <3>6
    <2> QED
      BY <2>3, <2>4
  <1>8. InStep(b, c, r, a)'
    <2>1. head' = head /\ nexec' = nexec /\ cur' = cur
      BY <1>1 DEF head, nexec, cur
    <2>2. AllAhead(b)' <=> AllAhead(b)
      BY <1>1, <2>1 DEF AllAhead, place
    <2>3. Lags(b, r)' <=> Lags(b, r)
      BY <1>1, <2>1 DEF Lags, place
    <2> QED
      BY <1>1, <1>2, <1>7, <2>1, <2>2, <2>3 DEF InStep
  <1>9. Retrying(b)'
    BY <1>1 DEF Retrying
  <1>10. Timing'
    <2>1. TimedOut' => comp.timeout /\ respnet = <<>>
      BY <1>3 DEF TimedOut
    <2> QED
      BY <1>1, <1>2, <1>3, <2>1 DEF Timing, TimedOut
  <1> QED
    BY <1>4, <1>5, <1>6, <1>7, <1>8, <1>9, <1>10 DEF OrdInv, Running

LEMMA ExitStep ==
  ASSUME RCInv, NEW b, NEW c \in Nat, NEW r \in Nat, NEW a \in Nat, OrdInv(b, c, r, a),
         CompExit \/ CompNoRetry, [Readable]_vars
  PROVE  OrdInv(b, c, r, a)'
  <1>1. /\ UNCHANGED <<posted, sq, req, rpc, comp, cqes, run, reqnet, respnet, resp, rq, executed, env>>
        /\ cpc = "wqe" /\ get_wqe = "EXIT" /\ cpc' = "idle" /\ cpkt' = <<>>
        /\ timers' = timers \/ (env.timeout /\ timers' = timers \cup {"retrans"})
    BY DEF CompExit, CompNoRetry, CompReturn, reqvars, respvars
  <1>2. req.state # "ERROR" /\ ~req.need_retry /\ posted > 0 /\ cpkt = <<>>
    BY <1>1, Decision
  <1>3. /\ Placed(b, c, r) /\ Calls /\ CompletedAt(b) /\ AnswersAt(b, a) /\ InStep(b, c, r, a)
        /\ Timing /\ Positions(b, c, r) /\ NetAt(b, c, r)
    BY <1>2, Active
  <1>4. Placed(b, c, r)'
    <2>1. /\ comp'.psn = Wrap(c) /\ c <= c /\ c <= nexec /\ c <= r
          /\ \A j \in 1 .. Len(reqnet) : c <= place(b, reqnet[j])
      BY <1>1, <1>3 DEF Positions, NetAt
    <2>2. rq' >= rq /\ posted' >= posted /\ Len(cqes') >= Len(cqes)
      BY <1>1 DEF RCInv, RespTypes, Indices
    <2>3. cur' = cur
      BY <1>1 DEF cur
    <2> QED
      BY <1>1, <1>3, <2>1, <2>2, <2>3, PlacedFrame
  <1>5. Calls'
    BY <1>1, <1>2, <1>3 DEF Calls
  <1>6. CompletedAt(b)'
    BY <1>1, <1>3, CompletedSame
  <1>7. AnswersAt(b, a)' /\ Total' = Total
    <2>1. head' = head /\ nexec' = nexec /\ Total' = Total
      BY <1>1, <1>2 DEF head, nexec, Total
    <2> QED
      BY <1>1, <1>2, <1>3, <2>1 DEF AnswersAt, Entry
  <1>8. InStep(b, c, r, a)'
    <2>1. head' = head /\ nexec' = nexec /\ cur' = cur
      BY <1>1 DEF head, nexec, cur
    <2>2. AllAhead(b)' <=> AllAhead(b)
      BY <1>1, <2>1 DEF AllAhead, place
    <2>3. Lags(b, r)' <=> Lags(b, r)
      BY <1>1, <2>1 DEF Lags, place
    <2> QED
      BY <1>1, <1>3, <1>7, <2>1, <2>2, <2>3 DEF InStep
  <1>9. Retrying(b)'
    BY <1>1, <1>2 DEF Retrying
  <1>10. Timing'
    BY <1>1, <1>2, <1>3 DEF Timing, TimedOut
  <1> QED
    BY <1>4, <1>5, <1>6, <1>7, <1>8, <1>9, <1>10 DEF OrdInv, Running

LEMMA ErrorStep ==
  ASSUME RCInv, NEW b, NEW c \in Nat, NEW r \in Nat, NEW a \in Nat, OrdInv(b, c, r, a), CompError,
         [Readable]_vars
  PROVE  OrdInv(b, c, r, a)'
  <1>1. /\ UNCHANGED <<posted, sq, rpc, comp, timers, reqnet, resp, rq, executed, env>>
        /\ cpc = "wqe" /\ (get_wqe = "ERROR" \/ get_wqe = "READ")
        /\ req' = [req EXCEPT !.state = "ERROR", !.wait_fence = FALSE]
        /\ cpc' = "idle" /\ run' = run \cup {"req", "comp"}
    BY DEF CompError, comp_error, CompReturn, respvars
  <1>2. cpkt = <<>> /\ ~NoWqe /\ sq[head].state = "error" /\ req.state # "ERROR" /\ posted > 0
    BY <1>1, Decision
  <1>3. /\ Placed(b, c, r) /\ Calls /\ CompletedAt(b) /\ Orderly /\ WqesAt(b)
        /\ Positions(b, c, r) /\ NetAt(b, c, r)
    BY <1>2, Active
  <1>4. head \in 1 .. Len(sq) /\ ~sq[head].lkey /\ sq[head].status # "SUCCESS"
    <2>1. head \in 1 .. Len(sq)
      BY <1>2, HeadThere
    <2>2. WqeAt(b, head)
      BY <1>3, <2>1 DEF WqesAt
    <2> QED
      BY <1>2, <2>1, <2>2 DEF WqeAt
  <1>5. /\ req'.state = "ERROR" /\ req'.psn = req.psn /\ req'.opcode = req.opcode /\ cur' = cur
    BY <1>1 DEF RCInv, ReqTypes, ReqFields, cur
  <1>6. PICK x : cqes' = Append(cqes, x) /\ x.status # "SUCCESS"
    <2>1. cqes' = Append(cqes, [msg |-> head, status |-> sq[head].status, data |-> sq[head].data])
      BY <1>2 DEF CompError, comp_error, do_complete
    <2> QED
      BY <1>4, <2>1
  <1>7. CompletedAt(b)' /\ Len(cqes') = Len(cqes) + 1
    BY <1>1, <1>3, <1>6, CompletedNext
  <1>8. Placed(b, c, r)'
    <2>1. /\ comp'.psn = Wrap(c) /\ c <= c /\ c <= nexec /\ c <= r
          /\ \A j \in 1 .. Len(reqnet) : c <= place(b, reqnet[j])
      BY <1>1, <1>3 DEF Positions, NetAt
    <2>2. rq' >= rq /\ posted' >= posted /\ Len(cqes') >= Len(cqes)
      BY <1>1, <1>7 DEF RCInv, RespTypes, Indices
    <2> QED
      BY <1>1, <1>3, <1>5, <2>1, <2>2, PlacedFrame
  <1>9. Calls'
    BY <1>1, <1>2, <1>3, <1>4, <1>5 DEF Calls
  <1> QED
    BY <1>5, <1>7, <1>8, <1>9 DEF OrdInv

\* A retry that starts at d is in step with the responder and with what is under way.
RestartAt(b, c, r, d) ==
  /\ c <= d /\ d <= nexec /\ d <= r
  /\ \A j \in 1 .. Len(reqnet) : d <= place(b, reqnet[j])
  /\ b[head] <= d /\ d < b[head + 1]
  /\ resp.sent_psn_nak => d = nexec
  /\ cur = head /\ sq[cur].state \in {"posted", "error"} => r = d

RestartPsn(b, c, r, psn) == \E d \in Nat : psn = Wrap(d) /\ RestartAt(b, c, r, d)

\* What the completer knows when it is about to retry: where the retry starts, and
\* that nothing under way will be answered.
Unanswered(b, a) ==
  a = 0 /\ respnet = <<>> /\ (reqnet # <<>> => resp.sent_psn_nak /\ AllAhead(b))

LEMMA RetryFrom ==
  ASSUME RCInv, NEW b, NEW c \in Nat, NEW r \in Nat, NEW a \in Nat, OrdInv(b, c, r, a),
         cpc = "wqe", \/ get_wqe \in {"NAK_RETRY", "ERROR_RETRY"}
                      \/ get_wqe = "EXIT" /\ comp.timeout_retry /\ ~NoWqe,
         NEW e, e = IF get_wqe = "NAK_RETRY" /\ psn_compare(cpkt[1].psn, comp.psn) > 0
                    THEN [comp EXCEPT !.psn = cpkt[1].psn] ELSE comp
  PROVE  /\ Unanswered(b, a)
         /\ head \in 1 .. Len(sq) /\ head <= posted
         /\ sq[head].state \in {"processing", "pending"}
         /\ DOMAIN e = CompFields /\ e.opcode = comp.opcode /\ e.retry_cnt = comp.retry_cnt
         /\ e.timeout = comp.timeout
         /\ RestartPsn(b, c, r, e.psn)
  <1>1. req.state # "ERROR"
    BY Decision
  <1>2. /\ Orderly /\ Bases(b) /\ Positions(b, c, r) /\ NetAt(b, c, r) /\ AnswersAt(b, a)
        /\ InStep(b, c, r, a) /\ Timing /\ nexec \in Nat /\ DOMAIN comp = CompFields
    <2>1. DOMAIN comp = CompFields
      BY DEF RCInv, CompTypes
    <2> QED
      BY <1>1, <2>1, Active
  <1>3. CASE cpkt = <<>>
    <2>1. get_wqe = "EXIT" /\ comp.timeout_retry /\ ~NoWqe /\ e = comp
      BY <1>3, Decision
    <2>2. reqnet = <<>> /\ respnet = <<>>
      BY <1>2, <2>1 DEF Timing, TimedOut
    <2>3. Total = 0 /\ a = 0
      <3>1. Total = 0
        BY <1>3, <2>2 DEF Total
      <3> QED
        BY <1>2, <3>1 DEF AnswersAt
    <2>4. head \in 1 .. Len(sq) /\ head <= posted
      BY <2>1, HeadThere
    <2>5. sq[head].state \in {"processing", "pending"}
      <3>1. sq[head].state \in {"posted", "processing", "pending", "error"}
        BY <1>2, <2>4, WqeGround
      <3> QED
        BY <2>1, <3>1 DEF get_wqe, NoWqe
    <2>6. /\ e.psn = Wrap(c) /\ c <= c /\ c <= nexec /\ c <= r /\ b[head] <= c /\ c < b[head + 1]
          /\ resp.sent_psn_nak => c = nexec
      BY <1>2, <2>1, <2>3, <2>4 DEF Positions, InStep
    <2>8. RestartAt(b, c, r, c)
      BY <2>2, <2>5, <2>6 DEF RestartAt
    <2>7. RestartPsn(b, c, r, e.psn)
      BY <2>6, <2>8 DEF RestartPsn
    <2> QED
      BY <1>2, <2>1, <2>2, <2>3, <2>4, <2>5, <2>6, <2>7 DEF Unanswered
  <1>4. CASE cpkt # <<>>
    <2>1. a = 0 /\ get_wqe = "NAK_RETRY"
      BY <1>4, Decision
    <2>2. /\ head \in 1 .. Len(sq) /\ head <= posted /\ sq[head].state \in {"processing", "pending"}
          /\ cpkt[1].psn = Wrap(nexec) /\ respnet = <<>>
          /\ r > nexec /\ resp.sent_psn_nak /\ AllAhead(b)
          /\ b[head] <= nexec /\ nexec < b[head + 1]
      BY <1>1, <1>4, <2>1, NakInHand
    <2>3. psn_compare(cpkt[1].psn, comp.psn) = nexec - c /\ c <= nexec /\ comp.psn = Wrap(c)
      BY <1>1, <1>2, <1>4, <2>1, NakDecision DEF Positions
    <2>4. e.psn = Wrap(nexec)
      <3>1. CASE nexec = c
        BY <1>2, <2>1, <2>2, <2>3, <3>1 DEF CompFields
      <3>2. CASE nexec > c
        BY <1>2, <2>1, <2>2, <2>3, <3>2 DEF CompFields
      <3> QED
        BY <1>2, <2>3, <3>1, <3>2
    <2>5. /\ DOMAIN e = CompFields /\ e.opcode = comp.opcode /\ e.retry_cnt = comp.retry_cnt
          /\ e.timeout = comp.timeout
      BY <1>2 DEF CompFields
    <2>6. ASSUME NEW j \in 1 .. Len(reqnet) PROVE nexec <= place(b, reqnet[j])
      <3>1. place(b, reqnet[j]) \in Nat
        BY <1>2, RequestPlace DEF NetAt
      <3> QED
        BY <1>2, <2>2, <3>1 DEF AllAhead
    <2>7. nexec <= r /\ nexec <= nexec
      BY <1>2, <2>2
    <2>8. RestartAt(b, c, r, nexec)
      BY <2>2, <2>3, <2>6, <2>7 DEF RestartAt
    <2>9. RestartPsn(b, c, r, e.psn)
      BY <1>2, <2>4, <2>8 DEF RestartPsn
    <2> QED
      BY <1>2, <2>1, <2>2, <2>4, <2>5, <2>9 DEF Unanswered
  <1> QED
    BY <1>3, <1>4

LEMMA ErrorRetryStep ==
  ASSUME RCInv, NEW b, NEW c \in Nat, NEW r \in Nat, NEW a \in Nat, OrdInv(b, c, r, a),
         CompErrorRetry, [Readable]_vars
  PROVE  \E d \in Nat : OrdInv(b, d, r, a)'
  <1> DEFINE E == IF get_wqe = "NAK_RETRY" /\ psn_compare(cpkt[1].psn, comp.psn) > 0
                  THEN [comp EXCEPT !.psn = cpkt[1].psn] ELSE comp
  <1>1. PICK e : e = E
    OBVIOUS
  <1>2. PICK wake \in BOOLEAN : wake = (e.psn # comp.psn /\ wakes({"wait_psn"}))
    OBVIOUS
  <1>3. /\ cpc = "wqe"
        /\ \/ get_wqe \in {"NAK_RETRY", "ERROR_RETRY"}
           \/ get_wqe = "EXIT" /\ comp.timeout_retry /\ ~NoWqe
        /\ UNCHANGED <<posted, sq, rpc, timers, reqnet, respnet, respvars, env>>
    BY DEF CompErrorRetry
  <1>4. IF e.retry_cnt > 0
          THEN /\ comp' = [e EXCEPT !.retry_cnt = IF @ # 7 THEN @ - 1 ELSE 7]
               /\ req' = [req EXCEPT !.need_retry = worth_retrying(e), !.wait_psn = @ /\ ~wake]
               /\ run' = IF worth_retrying(e) \/ wake THEN run \cup {"req"} ELSE run
               /\ CompReturn
               /\ UNCHANGED cqes
          ELSE comp' = e /\ comp_error("RETRY_EXC_ERR")
    BY <1>1, <1>2, Zenon DEF CompErrorRetry
  <1> HIDE DEF E
  <1>5. /\ a = 0 /\ respnet = <<>>
        /\ reqnet # <<>> => resp.sent_psn_nak /\ AllAhead(b)
        /\ head \in 1 .. Len(sq) /\ head <= posted
        /\ sq[head].state \in {"processing", "pending"}
        /\ DOMAIN e = CompFields /\ e.opcode = comp.opcode /\ e.retry_cnt = comp.retry_cnt
        /\ e.timeout = comp.timeout
    <2>1. e = IF get_wqe = "NAK_RETRY" /\ psn_compare(cpkt[1].psn, comp.psn) > 0
              THEN [comp EXCEPT !.psn = cpkt[1].psn] ELSE comp
      BY <1>1 DEF E
    <2>2. a = 0 /\ respnet = <<>> /\ (reqnet # <<>> => resp.sent_psn_nak /\ AllAhead(b))
      <3>1. Unanswered(b, a)
        BY <1>3, <2>1, RetryFrom
      <3> QED
        BY <3>1 DEF Unanswered
    <2>3. head \in 1 .. Len(sq) /\ head <= posted /\ sq[head].state \in {"processing", "pending"}
      BY <1>3, <2>1, RetryFrom
    <2>4. /\ DOMAIN e = CompFields /\ e.opcode = comp.opcode /\ e.retry_cnt = comp.retry_cnt
          /\ e.timeout = comp.timeout
      BY <1>3, <2>1, RetryFrom
    <2> QED
      BY <2>2, <2>3, <2>4
  <1>6. PICK d \in Nat : e.psn = Wrap(d) /\ RestartAt(b, c, r, d)
    <2>1. e = IF get_wqe = "NAK_RETRY" /\ psn_compare(cpkt[1].psn, comp.psn) > 0
              THEN [comp EXCEPT !.psn = cpkt[1].psn] ELSE comp
      BY <1>1 DEF E
    <2>2. RestartPsn(b, c, r, e.psn)
      BY <1>3, <2>1, RetryFrom
    <2> QED
      BY <2>2 DEF RestartPsn
  <1>7. req.state # "ERROR" /\ ~req.need_retry /\ posted > 0
    BY <1>3, Decision
  <1>8. /\ Placed(b, c, r) /\ Calls /\ CompletedAt(b) /\ Orderly /\ Bases(b) /\ AnswersAt(b, a)
        /\ InStep(b, c, r, a) /\ Positions(b, c, r) /\ Timing /\ nexec \in Nat
    BY <1>7, Active
  <1>9. UNCHANGED <<posted, sq, rpc, timers, reqnet, respnet, resp, rq, executed, env>>
    BY <1>3 DEF respvars
  <1>10. /\ DOMAIN req = ReqFields /\ comp.retry_cnt \in Nat
    <2>1. comp.retry_cnt \in 0 .. env.retry_cnt /\ env.retry_cnt \in 0 .. 7
      BY ScenarioFields DEF RCInv, CompTypes, EnvTypes
    <2> QED
      BY <2>1 DEF RCInv, ReqTypes
  <1>11. ASSUME comp'.psn = Wrap(d), cur' = cur, req'.psn = req.psn, req'.opcode = req.opcode,
                Len(cqes') >= Len(cqes)
         PROVE  Placed(b, d, r)'
    <2>1. rq' >= rq /\ posted' >= posted
      BY <1>9 DEF RCInv, RespTypes, Indices
    <2> QED
      BY <1>6, <1>8, <1>9, <1>11, <2>1, PlacedFrame DEF RestartAt
  <1>12. CASE e.retry_cnt > 0
    <2>1. /\ comp' = [e EXCEPT !.retry_cnt = IF @ # 7 THEN @ - 1 ELSE 7]
          /\ req' = [req EXCEPT !.need_retry = worth_retrying(e), !.wait_psn = @ /\ ~wake]
          /\ run' = IF worth_retrying(e) \/ wake THEN run \cup {"req"} ELSE run
          /\ cpc' = "idle" /\ cpkt' = <<>> /\ cqes' = cqes
      BY <1>4, <1>12 DEF CompReturn
    <2>2. /\ comp'.psn = Wrap(d) /\ comp'.opcode = comp.opcode /\ comp'.timeout = comp.timeout
          /\ comp.retry_cnt = 7 => comp'.retry_cnt = 7
      BY <1>5, <1>6, <2>1 DEF CompFields
    <2>3. /\ req'.psn = req.psn /\ req'.opcode = req.opcode /\ req'.state = req.state
          /\ req'.need_retry = worth_retrying(e) /\ cur' = cur
      BY <1>10, <2>1 DEF ReqFields, cur
    <2>4. Placed(b, d, r)'
      <3>1. Len(cqes') >= Len(cqes)
        BY <2>1 DEF RCInv, Indices
      <3> QED
        BY <1>11, <2>2, <2>3, <3>1
    <2>5. Calls'
      BY <1>7, <1>8, <1>9, <2>1, <2>2, <2>3 DEF Calls
    <2>6. CompletedAt(b)'
      BY <1>8, <1>9, <2>1, CompletedSame
    <2>7. Total' = 0 /\ head' = head /\ nexec' = nexec
      BY <1>5, <1>9, <2>1 DEF Total, head, nexec
    <2>8. AnswersAt(b, a)'
      BY <1>5, <1>9, <2>1, <2>7 DEF AnswersAt
    <2>9. InStep(b, d, r, a)'
      <3>1. AllAhead(b)' <=> AllAhead(b)
        BY <1>9, <2>7 DEF AllAhead, place
      <3>2. Lags(b, r)' <=> Lags(b, r)
        BY <1>9, <2>7 DEF Lags, place
      <3> QED
        BY <1>5, <1>6, <1>8, <1>9, <2>3, <2>7, <3>1, <3>2 DEF InStep, RestartAt
    <2>10. Retrying(b)'
      <3>1. AllAhead(b)' <=> AllAhead(b)
        BY <1>9, <2>7 DEF AllAhead, place
      <3> QED
        BY <1>5, <1>9, <2>1, <2>3, <2>7, <3>1 DEF Retrying
    <2>11. Timing'
      BY <1>3, <1>8, <2>1, <2>2 DEF Timing, TimedOut
    <2>12. OrdInv(b, d, r, a)'
      BY <2>4, <2>5, <2>6, <2>8, <2>9, <2>10, <2>11 DEF OrdInv, Running
    <2> QED
      BY <2>12
  <1>13. CASE ~(e.retry_cnt > 0)
    <2>1. comp' = e /\ comp_error("RETRY_EXC_ERR")
      BY <1>4, <1>13
    <2>2. /\ cqes' = Append(cqes, [msg |-> head, status |-> "RETRY_EXC_ERR", data |-> sq[head].data])
          /\ req' = [req EXCEPT !.state = "ERROR", !.wait_fence = FALSE]
          /\ run' = run \cup {"req", "comp"} /\ cpc' = "idle"
      BY <2>1 DEF comp_error, do_complete, CompReturn
    <2>3. /\ req'.psn = req.psn /\ req'.opcode = req.opcode /\ req'.state = "ERROR" /\ cur' = cur
      BY <1>10, <2>2 DEF ReqFields, cur
    <2>4. PICK x : cqes' = Append(cqes, x) /\ x.status # "SUCCESS"
      BY <2>2
    <2>5. CompletedAt(b)' /\ Len(cqes') = Len(cqes) + 1
      BY <1>8, <1>9, <2>4, CompletedNext
    <2>6. Placed(b, d, r)'
      <3>1. Len(cqes') >= Len(cqes)
        BY <2>5 DEF RCInv, Indices
      <3> QED
        BY <1>6, <1>11, <2>1, <2>3, <3>1
    <2>7. env.retry_cnt # 7
      BY <1>5, <1>8, <1>10, <1>13 DEF Calls
    <2>8. Calls'
      BY <1>5, <1>7, <1>8, <1>9, <2>1, <2>2, <2>3, <2>7 DEF Calls
    <2>9. OrdInv(b, d, r, a)'
      BY <2>3, <2>5, <2>6, <2>8 DEF OrdInv
    <2> QED
      BY <2>9
  <1> QED
    BY <1>12, <1>13

\* The effect of COMPST_COMP_ACK: the oldest message completes, and comp.psn passes it.
LEMMA AckEffect ==
  ASSUME RCInv, NEW b, NEW c \in Nat, NEW r \in Nat, NEW a \in Nat, OrdInv(b, c, r, a), CompAck
  PROVE  /\ cpc = "wqe" /\ cpkt # <<>> /\ a > 0 /\ req.state # "ERROR" /\ posted > 0
         /\ UNCHANGED <<posted, rpc, timers, reqnet, respnet, resp, rq, executed, env>>
         /\ sq' = sq /\ cpc' = "idle" /\ cpkt' = <<>>
         /\ comp'.psn = Wrap(b[head + 1]) /\ comp'.opcode = "none"
         /\ comp'.retry_cnt = env.retry_cnt /\ comp'.timeout = comp.timeout
         /\ req'.psn = req.psn /\ req'.opcode = req.opcode /\ req'.state = req.state
         /\ req'.need_retry = req.need_retry /\ cur' = cur
         /\ \E x : cqes' = Append(cqes, x) /\ x.data = <<>>
  <1>1. cpc = "wqe" /\ get_wqe \in {"COMP_ACK", "ATOMIC", "READ", "WRITE_SEND"}
    BY Zenon DEF CompAck
  <1>2. /\ cpkt # <<>> /\ a > 0 /\ get_wqe = "WRITE_SEND" /\ req.state # "ERROR" /\ posted > 0
    BY <1>1, Decision
  <1>3. /\ WqesAt(b) /\ Calls /\ Orderly /\ Bases(b) /\ nexec \in Nat
        /\ DOMAIN req = ReqFields /\ DOMAIN comp = CompFields
    <2>1. DOMAIN req = ReqFields /\ DOMAIN comp = CompFields
      BY DEF RCInv, ReqTypes, CompTypes
    <2> QED
      BY <1>2, <2>1, Active
  <1>4. head \in 1 .. Len(sq)
    BY <1>2, AckInHand
  <1>5. sq[head].data = <<>> /\ ~sq[head].has_rd_atomic
    <2>1. WqeAt(b, head)
      BY <1>3, <1>4 DEF WqesAt
    <2> QED
      BY <2>1 DEF WqeAt
  <1>6. UNCHANGED <<posted, rpc, timers, reqnet, respnet, resp, rq, executed, env>>
        /\ cpc' = "idle" /\ cpkt' = <<>>
    <2>1. UNCHANGED <<posted, rpc, timers, reqnet, respnet, respvars, env>> /\ CompReturn
      BY Zenon DEF CompAck
    <2> QED
      BY <2>1 DEF respvars, CompReturn
  <1>7. sq' = sq
    <2> DEFINE p == cpkt[1]
               d == CASE get_wqe = "READ"   -> Append(sq[head].data, <<p.msg, p.data>>)
                      [] get_wqe = "ATOMIC" -> <<p.data>>
                      [] OTHER              -> sq[head].data
               x == IF get_wqe = "READ" THEN 0 ELSE sq[head].resid
    <2>1. sq' = [sq EXCEPT ![head] = [sq[head] EXCEPT !.has_rd_atomic = FALSE, !.resid = x,
                                                      !.data = d]]
      BY DEF CompAck
    <2>2. x = sq[head].resid /\ d = sq[head].data
      BY <1>2
    <2> HIDE DEF x, d
    <2>5. WqeTypes(sq[head])
      BY <1>4, WqesAre
    <2>6. sq[head].has_rd_atomic = FALSE
      BY <1>5, <2>5, Zenon DEF WqeTypes
    <2>3. /\ sq[head] = [f \in WqeFields |-> sq[head][f]] /\ sq = [m \in 1 .. Len(sq) |-> sq[m]]
          /\ sq[head].has_rd_atomic = FALSE
      BY <1>3, <1>4, <2>6 DEF WqesAt, WqeAt, IsWqe
    <2>4. [sq[head] EXCEPT !.has_rd_atomic = FALSE, !.resid = x, !.data = d] = sq[head]
      BY <2>2, <2>3 DEF WqeFields
    <2> QED
      BY <2>1, <2>3, <2>4, <1>4
  <1>8. /\ req'.psn = req.psn /\ req'.opcode = req.opcode /\ req'.state = req.state
        /\ req'.need_retry = req.need_retry /\ cur' = cur
    <2>1. req.state # "DRAIN"
      BY <1>2, <1>3 DEF Calls
    <2>2. PICK rd, nrd, wp, st :
             /\ req' = [req EXCEPT !.state = st, !.rd_atomic = rd, !.need_rd_atomic = nrd, !.wait_psn = wp,
                                   !.wait_fence = FALSE]
             /\ st = IF req.state = "DRAIN" /\ comp.psn = req.psn THEN "DRAINED" ELSE req.state
      BY DEF CompAck
    <2> QED
      BY <1>3, <2>1, <2>2 DEF ReqFields, cur
  <1>9. PICK x : cqes' = Append(cqes, x) /\ x.data = <<>>
    <2> DEFINE p == cpkt[1]
               d == CASE get_wqe = "READ"   -> Append(sq[head].data, <<p.msg, p.data>>)
                      [] get_wqe = "ATOMIC" -> <<p.data>>
                      [] OTHER              -> sq[head].data
    <2>1. do_complete(sq[head].status, d)
      BY DEF CompAck
    <2>2. d = <<>>
      BY <1>2, <1>5
    <2> HIDE DEF d
    <2> QED
      BY <2>1, <2>2 DEF do_complete
  <1>10. /\ comp'.psn = Wrap(b[head + 1]) /\ comp'.opcode = "none"
         /\ comp'.retry_cnt = env.retry_cnt /\ comp'.timeout = comp.timeout
    <2>1. PICK p : p = cpkt[1]
      OBVIOUS
    <2>2. PICK k : k = reset_retry_counters(comp)
      OBVIOUS
    <2>3. /\ DOMAIN k = CompFields /\ k.psn = comp.psn /\ k.retry_cnt = env.retry_cnt
          /\ k.timeout = comp.timeout
      BY <1>3, <2>2 DEF reset_retry_counters, CompFields
    <2>4. psn_compare(p.psn, comp.psn) >= 0
      BY <1>2, <2>1, AckDecision
    <2>5. PICK t : comp' = [update_comp(k, p) EXCEPT !.timeout_retry = t]
      <3> DEFINE old == get_wqe = "COMP_ACK"
                 c0 == IF old THEN comp ELSE k
                 c1 == IF psn_compare(p.psn, comp.psn) >= 0 THEN update_comp(c0, p) ELSE c0
      <3>1. PICK t : comp' = [c1 EXCEPT !.timeout_retry = t]
        <4>1. comp' = [c1 EXCEPT !.timeout_retry = @ /\ ~(sq[head].has_rd_atomic /\ req.need_rd_atomic)]
          BY <2>1, <2>2 DEF CompAck
        <4> HIDE DEF c1
        <4> QED
          BY <4>1
      <3>2. c1 = update_comp(k, p)
        BY <1>2, <2>4
      <3> HIDE DEF c1
      <3> QED
        BY <3>1, <3>2
    <2>6. ends(p) /\ p.psn = Wrap(b[head + 1] - 1) /\ b[head + 1] - 1 \in Nat
      <3>1. p.pos = "only" /\ p.psn = Wrap(b[head + 1] - 1) /\ b[head + 1] \in Nat /\ b[head + 1] > 0
        BY <1>2, <2>1, AckInHand
      <3> QED
        BY <3>1 DEF ends
    <2>7. PICK u : u = [k EXCEPT !.opcode = "none"]
      OBVIOUS
    <2>8. update_comp(k, p) = acked(u, p)
      BY <2>6, <2>7 DEF update_comp
    <2>9. acked(u, p) = [u EXCEPT !.psn = psn_add(p.psn, 1)]
      <3>1. u.psn = comp.psn
        BY <2>3, <2>7 DEF CompFields
      <3> QED
        BY <2>4, <3>1 DEF acked
    <2>10. psn_add(p.psn, 1) = Wrap(b[head + 1])
      <3>1. PICK y \in Nat : y = b[head + 1] - 1
        BY <2>6
      <3>2. y + 1 = b[head + 1]
        BY <1>2, <3>1, AckInHand
      <3>3. psn_add(Wrap(y), 1) = Wrap(y + 1)
        BY WrapAdd
      <3> QED
        BY <2>6, <3>1, <3>2, <3>3
    <2> QED
      BY <2>3, <2>5, <2>7, <2>8, <2>9, <2>10, ZenonT(60) DEF CompFields
  <1> QED
    BY <1>1, <1>2, <1>6, <1>7, <1>8, <1>9, <1>10

LEMMA AckStep ==
  ASSUME RCInv, NEW b, NEW c \in Nat, NEW r \in Nat, NEW a \in Nat, OrdInv(b, c, r, a), CompAck,
         [Readable]_vars
  PROVE  \E d, n \in Nat : OrdInv(b, d, r, n)'
  <1>1. /\ cpc = "wqe" /\ cpkt # <<>> /\ a > 0 /\ req.state # "ERROR" /\ posted > 0
        /\ UNCHANGED <<posted, rpc, timers, reqnet, respnet, resp, rq, executed, env>>
        /\ sq' = sq /\ cpc' = "idle" /\ cpkt' = <<>>
        /\ comp'.psn = Wrap(b[head + 1]) /\ comp'.opcode = "none"
        /\ comp'.retry_cnt = env.retry_cnt /\ comp'.timeout = comp.timeout
        /\ req'.psn = req.psn /\ req'.opcode = req.opcode /\ req'.state = req.state
        /\ req'.need_retry = req.need_retry /\ cur' = cur
    BY AckEffect
  <1>2. PICK x : cqes' = Append(cqes, x) /\ x.data = <<>>
    BY AckEffect
  <1>3. /\ Placed(b, c, r) /\ Calls /\ CompletedAt(b) /\ Orderly /\ Bases(b) /\ AnswersAt(b, a)
        /\ InStep(b, c, r, a) /\ Positions(b, c, r) /\ NetAt(b, c, r) /\ Timing /\ Retrying(b)
        /\ nexec \in Nat /\ Len(respnet) \in Nat
    BY <1>1, Active
  <1>4. /\ head \in 1 .. Len(sq) /\ head < cur /\ head <= posted
        /\ b[head + 1] <= nexec /\ nexec <= r /\ ~Lags(b, r) /\ b[head + 1] \in Nat
        /\ c < b[head + 1]
    BY <1>1, AckInHand
  <1>5. PICK d \in Nat : d = b[head + 1]
    BY <1>4
  <1>6. PICK n \in Nat : n = a - 1
    BY <1>1
  <1>7. CompletedAt(b)' /\ Len(cqes') = Len(cqes) + 1 /\ head' = head + 1
    <2>1. CompletedAt(b)' /\ Len(cqes') = Len(cqes) + 1
      BY <1>1, <1>2, <1>3, <1>4, CompletedNext
    <2> QED
      BY <2>1 DEF head, RCInv, Indices
  <1>8. ASSUME NEW j \in 1 .. Len(reqnet) PROVE d <= place(b, reqnet[j])
    <2>1. place(b, reqnet[j]) \in Nat
      BY <1>3, RequestPlace DEF NetAt
    <2>2. ~(place(b, reqnet[j]) < nexec)
      BY <1>4 DEF Lags
    <2> QED
      BY <1>3, <1>4, <1>5, <2>1, <2>2
  <1>9. Placed(b, d, r)'
    <2>1. rq' >= rq /\ posted' >= posted /\ Len(cqes') >= Len(cqes)
      BY <1>1, <1>7 DEF RCInv, RespTypes, Indices
    <2>2. comp'.psn = Wrap(d) /\ c <= d /\ d <= nexec /\ d <= r
      BY <1>1, <1>3, <1>4, <1>5
    <2> QED
      BY <1>1, <1>3, <1>8, <2>1, <2>2, PlacedFrame
  <1>10. Calls'
    BY <1>1, <1>3 DEF Calls
  <1>11. Len(cpkt) = 1 /\ Total = 1 + Len(respnet) /\ Total' = Len(respnet) /\ nexec' = nexec
    <2>1. Len(cpkt) \in Nat /\ Len(cpkt) # 0 /\ Len(cpkt) <= 1
      BY <1>1, <1>3 DEF RCInv, RespNet, AnswersAt
    <2>4. PICK y \in Nat : y = Len(cpkt)
      BY <2>1
    <2>2. Len(cpkt) = 1
      BY <2>1, <2>4
    <2>3. Len(cpkt') = 0 /\ Len(respnet') = Len(respnet)
      BY <1>1
    <2> QED
      BY <1>1, <1>3, <2>2, <2>3 DEF Total, nexec
  <1>12. AnswersAt(b, n)'
    <2>1. Total' = n \/ Total' = n + 1
      BY <1>3, <1>6, <1>11 DEF AnswersAt
    <2>2. ASSUME NEW k \in 1 .. Len(respnet) PROVE Entry(b, n, respnet[k], k)'
      <3>1. Entry(b, a, respnet[k], 1 + k)
        BY <1>3, <1>11 DEF AnswersAt
      <3>2. head \in Nat /\ k \in Nat
        BY <1>3, Ground
      <3>3. (k <= n <=> 1 + k <= a) /\ (k > n <=> 1 + k > a) /\ head' + k = head + (1 + k)
        BY <1>6, <1>7, <3>2
      <3>4. respnet' = respnet
        BY <1>1
      <3> QED
        BY <1>11, <3>1, <3>3, <3>4 DEF Entry
    <2>3. respnet' = respnet /\ Len(cpkt') = 0 /\ \A k \in 1 .. Len(respnet) : 0 + k = k
      BY <1>1, <1>3
    <2> QED
      BY <1>1, <2>1, <2>2, <2>3 DEF AnswersAt
  <1>13. InStep(b, d, r, n)'
    <2>0. /\ head \in Nat /\ Len(sq) \in Nat /\ cur \in Nat /\ head' + n = head + a
          /\ head <= Len(sq) /\ head + 1 \in 1 .. Len(sq) + 1
      <3>1. head \in Nat /\ Len(sq) \in Nat /\ cur \in Nat
        BY <1>3, Ground
      <3> QED
        BY <1>4, <1>6, <1>7, <3>1
    <2>1. /\ head' + n <= Len(sq) + 1 /\ b[head' + n] <= nexec
          /\ head' + n <= Len(sq) /\ resp.state = "READY" => nexec < b[head' + n + 1]
      BY <1>3, <2>0 DEF InStep
    <2>2. b[head'] <= d /\ (head' <= Len(sq) => d < b[head' + 1])
      <3>1. ASSUME head' <= Len(sq) PROVE d < b[head' + 1]
        <4>1. head' \in 1 .. Len(sq)
          BY <1>7, <2>0, <3>1
        <4>2. b[head' + 1] = b[head'] + sq[head'].n /\ sq[head'].n \in Nat /\ sq[head'].n > 0
          BY <1>3, <4>1, Ground, WqeGround
        <4> QED
          BY <1>5, <1>7, <4>2
      <3> QED
        BY <1>5, <1>7, <3>1
    <2>3. Total' = n + 1 => resp.sent_psn_nak /\ r > nexec /\ AllAhead(b)
      BY <1>3, <1>6, <1>11 DEF InStep
    <2>4. AllAhead(b)' <=> AllAhead(b)
      BY <1>1, <1>11 DEF AllAhead, place
    <2>5. ~Lags(b, r)'
      BY <1>1, <1>4, <1>11 DEF Lags, place
    <2>6. resp.sent_psn_nak => Total' = n + 1
      <3>1. c # nexec
        BY <1>3, <1>4
      <3> QED
        BY <1>3, <1>6, <1>11, <3>1 DEF InStep
    <2>7. cur >= head'
      BY <1>4, <1>7, <2>0
    <2>8. ASSUME cur <= Len(sq), sq[cur].state \in {"posted", "error"}
          PROVE  sq[cur].resid = sq[cur].n /\ (cur = head' => r = d)
      <3>1. sq[cur].resid = sq[cur].n
        BY <1>3, <1>4, <2>0, <2>8 DEF InStep
      <3>2. cur \in 1 .. Len(sq) /\ b[cur] \in Nat /\ sq[cur].n \in Nat
        <4>1. cur \in 1 .. Len(sq) + 1 /\ Len(sq) \in Nat
          BY <1>3, Sizes
        <4>2. cur \in 1 .. Len(sq)
          BY <2>8, <4>1
        <4> QED
          BY <1>3, <4>1, <4>2, BaseIs, WqeGround
      <3>3. r = b[cur] + sq[cur].n - sq[cur].resid
        BY <1>3, <2>8 DEF Positions
      <3>4. r = b[cur]
        BY <3>1, <3>2, <3>3
      <3> QED
        BY <1>5, <1>7, <3>1, <3>4
    <2> QED
      BY <1>1, <1>11, <2>1, <2>2, <2>3, <2>4, <2>5, <2>6, <2>7, <2>8 DEF InStep
  <1>14. Retrying(b)'
    BY <1>1, <1>3 DEF Retrying
  <1>15. Timing'
    BY <1>1, <1>3 DEF Timing, TimedOut
  <1>16. OrdInv(b, d, r, n)'
    BY <1>7, <1>9, <1>10, <1>12, <1>13, <1>14, <1>15 DEF OrdInv, Running
  <1> QED
    BY <1>16

LEMMA CompOrder ==
  ASSUME RCInv, NEW b, NEW c \in Nat, NEW r \in Nat, NEW a \in Nat, OrdInv(b, c, r, a), CompStep,
         [Readable]_vars
  PROVE  OrderInv'
  <1>1. ASSUME NEW d \in Nat, NEW n \in Nat, OrdInv(b, d, r, n)' PROVE OrderInv'
    BY <1>1 DEF OrderInv
  <1>2. CASE CompFlush \/ CompBlocked \/ CompGetAck \/ CompExit \/ CompNoRetry \/ CompError
    <2>1. OrdInv(b, c, r, a)'
      BY <1>2, FlushStep, SteadySteps, GetAckStep, ExitStep, ErrorStep
    <2> QED
      BY <1>1, <2>1
  <1>3. CASE CompErrorRetry
    <2>1. PICK d \in Nat : OrdInv(b, d, r, a)'
      BY <1>3, ErrorRetryStep
    <2> QED
      BY <1>1, <2>1
  <1>4. CASE CompAck
    <2>1. PICK d, n \in Nat : OrdInv(b, d, r, n)'
      BY <1>4, AckStep
    <2> QED
      BY <1>1, <2>1
  <1> QED
    BY <1>2, <1>3, <1>4, NeverComp DEF CompStep

-----------------------------------------------------------------------------
(* The requester *)

\* The responder's side, when only the requester moves.
LEMMA RespKept ==
  ASSUME RCInv, NEW b, NEW c \in Nat, NEW r \in Nat, Placed(b, c, r), [Readable]_vars,
         UNCHANGED <<executed, resp, rq>>
  PROVE  /\ Orderly' /\ Bases(b)' /\ SameWork /\ SameEnv
         /\ ExecutedAt(b)' /\ ExpectedAt(b)' /\ Receives(b)' /\ nexec' = nexec
  <1>1. Orderly' /\ Bases(b)' /\ SameWork /\ SameEnv /\ Sends' = Sends
    BY WorkKept DEF Placed
  <1>2. nexec' = nexec
    BY DEF nexec
  <1>3. ExecutedAt(b)'
    <2>1. ExecutedAt(b) /\ executed' = executed
      BY DEF Placed
    <2>2. ASSUME NEW j \in 1 .. nexec
          PROVE  \E m \in 1 .. Len(sq') : \E k \in 0 .. sq'[m].n - 1 :
                   executed'[j] = <<m, k, k>> /\ j = b[m] + k + 1
      <3>1. PICK m \in 1 .. Len(sq) : \E k \in 0 .. sq[m].n - 1 :
                   executed[j] = <<m, k, k>> /\ j = b[m] + k + 1
        BY <2>1 DEF ExecutedAt
      <3>2. PICK k \in 0 .. sq[m].n - 1 : executed[j] = <<m, k, k>> /\ j = b[m] + k + 1
        BY <3>1
      <3>3. m \in 1 .. Len(sq') /\ k \in 0 .. sq'[m].n - 1 /\ executed'[j] = <<m, k, k>>
        BY <1>1, <2>1, <3>2 DEF SameWork, SameWr
      <3> QED
        BY <3>2, <3>3
    <2> QED
      BY <1>2, <2>1, <2>2 DEF ExecutedAt
  <1>4. ExpectedAt(b)'
    <2>1. ExpectedAt(b) /\ resp' = resp
      BY DEF Placed
    <2>2. ASSUME NEW m \in 1 .. Len(sq)
          PROVE  sq'[m].n = sq[m].n /\ sq'[m].op = sq[m].op /\ sq'[m].rkey = sq[m].rkey
      BY <1>1 DEF SameWork, SameWr
    <2>3. Len(sq') = Len(sq)
      BY <1>1 DEF SameWork
    <2> QED
      BY <1>2, <2>1, <2>2, <2>3 DEF ExpectedAt
  <1>5. Receives(b)'
    BY <1>1, <1>2 DEF Placed, Receives, Pending
  <1> QED
    BY <1>1, <1>2, <1>3, <1>4, <1>5

\* A step of the requester that sends nothing: packets are what they were.
LEMMA NetKept ==
  ASSUME NEW b, NEW c, NEW r, NetAt(b, c, r), SameWork, SameEnv, UNCHANGED <<reqnet, resp, executed>>
  PROVE  NetAt(b, c, r)'
  <1>1. nexec' = nexec
    BY DEF nexec
  <1>2. ASSUME NEW j \in 1 .. Len(reqnet) PROVE RequestAt(b, reqnet[j])'
    <2>1. PICK p : p = reqnet[j]
      OBVIOUS
    <2>2. RequestAt(b, p)
      BY <2>1 DEF NetAt
    <2>3. RequestAt(b, p)'
      BY <2>2 DEF RequestAt, SameWork, SameWr, place, starts, ends
    <2> QED
      BY <2>1, <2>3
  <1>3. ASSUME NEW j \in 1 .. Len(reqnet) PROVE Stale(b, j)' <=> Stale(b, j)
    BY <1>1 DEF Stale, place
  <1> QED
    BY <1>1, <1>2, <1>3 DEF NetAt, SameEnv, place

LEMMA NeverReq ==
  ASSUME RCInv, NEW b, NEW c \in Nat, NEW r \in Nat, NEW a \in Nat, OrdInv(b, c, r, a),
         ReqDrained \/ \E m \in Msgs : ReqNoDepth(m)
  PROVE  FALSE
  <1>1. Calls /\ Orderly
    BY DEF OrdInv, Placed
  <1>2. ~ReqDrained
    BY <1>1 DEF ReqDrained, drained, Calls
  <1>3. ASSUME NEW m \in Msgs, ReqNoDepth(m) PROVE FALSE
    <2>1. m \in 1 .. Len(sq)
      BY WqesAre DEF Msgs
    <2>2. IsReadAtomic(sq[m].op)
      BY <1>3 DEF ReqNoDepth, no_depth
    <2> QED
      BY <1>1, <2>1, <2>2, WqeGround
  <1> QED
    BY <1>2, <1>3

\* The WQE after one of its packets has been sent.
SentWqe(b, m, v) ==
  /\ IsWqe(v) /\ SameWr(v, sq[m]) /\ v.resid = sq[m].resid - 1
  /\ v.first_psn = Wrap(b[m]) /\ v.last_psn = Wrap(b[m + 1] - 1)
  /\ v.state = IF sq[m].resid = 1 THEN "pending" ELSE "processing"
  /\ v.data = sq[m].data /\ ~v.has_rd_atomic

\* The effect of sending a packet: what the packet is, and what becomes of the WQE.
SendQuiet(m) ==
  /\ UNCHANGED <<posted, rpc, comp, cpc, cpkt, cqes, run, respnet, resp, rq, executed, env>>
  /\ "req" \in run /\ req.state # "ERROR" /\ ~req.need_retry
  /\ m = cur /\ m <= posted /\ m \in 1 .. Len(sq)
SendAt(b, c, r, m) ==
  /\ timers' = timers \/ (env.timeout /\ timers' = timers \cup {"retrans"})
  /\ sq[m].lkey /\ sq[m].resid > 0 /\ r <= c + env.max_gap
  /\ r = b[m] + sq[m].n - sq[m].resid
SendReq(r, m) ==
  /\ req'.psn = Wrap(r + 1) /\ req'.state = req.state /\ req'.need_retry = req.need_retry
  /\ req'.opcode = IF sq[m].resid = 1 THEN "none" ELSE sq[m].op
  /\ cur' = IF sq[m].resid = 1 THEN cur + 1 ELSE cur
PacketSent(b, r) == \E p : reqnet' = Append(reqnet, p) /\ RequestAt(b, p) /\ place(b, p) = r
WqeSent(b, m) == \E v : sq' = [sq EXCEPT ![m] = v] /\ SentWqe(b, m, v)

LEMMA SendEffect ==
  ASSUME RCInv, NEW b, NEW c \in Nat, NEW r \in Nat, NEW a \in Nat, OrdInv(b, c, r, a),
         NEW m \in Msgs, ReqSend(m), [Readable]_vars
  PROVE  SendQuiet(m) /\ SendAt(b, c, r, m) /\ SendReq(r, m) /\ PacketSent(b, r) /\ WqeSent(b, m)
  <1> DEFINE w       == sq[m]
             num_pkt == IF w.resid = 0 THEN 1 ELSE w.resid
             pkt     == [op |-> w.op, pos |-> next_opcode(w), psn |-> req.psn, msg |-> m,
                         off |-> w.n - w.resid, va |-> w.iova, len |-> w.n]
             first   == IF starts(pkt) THEN req.psn ELSE w.first_psn
             last    == IF starts(pkt) THEN psn_add(req.psn, num_pkt - 1) ELSE w.last_psn
             left    == IF IsReadAtomic(w.op) \/ w.resid = 0 THEN w.resid ELSE w.resid - 1
             state   == IF ends(pkt) THEN "pending" ELSE "processing"
             had     == w.has_rd_atomic \/ charged(m)
  <1>1. /\ Sendable(m) /\ (IsReadAtomic(w.op) \/ w.lkey)
        /\ reqnet' = Append(reqnet, pkt)
        /\ timers' = IF env.timeout THEN timers \cup {"retrans"} ELSE timers
        /\ UNCHANGED <<posted, rpc, compvars, run, respnet, respvars, env>>
    BY Zenon DEF ReqSend
  <1>2. sq' = [sq EXCEPT ![m] = [w EXCEPT !.resid = left, !.first_psn = first, !.last_psn = last,
                                          !.state = state, !.has_rd_atomic = had]]
    BY ZenonT(40) DEF ReqSend
  <1>3. req' = [check_init_depth(m) EXCEPT
                  !.psn = IF w.op = "read" THEN psn_add(first, num_pkt) ELSE psn_add(@, 1),
                  !.opcode = IF ends(pkt) THEN "none" ELSE w.op,
                  !.wqe_index = IF ends(pkt) THEN @ + 1 ELSE @]
    BY ZenonT(40) DEF ReqSend
  <1>4. /\ "req" \in run /\ req.state # "ERROR" /\ ~req.need_retry /\ m = cur /\ m <= posted
        /\ ~out_of_window
    BY <1>1 DEF Sendable, ReqGo, Requester, cur
  <1>5. /\ Positions(b, c, r) /\ WqesAt(b) /\ Orderly /\ Bases(b) /\ DOMAIN req = ReqFields
    <2>1. DOMAIN req = ReqFields
      BY DEF RCInv, ReqTypes
    <2> QED
      BY <1>4, <2>1, Active
  <1>6. m \in 1 .. Len(sq) /\ Len(sq) \in Nat /\ b[m] \in Nat /\ b[m + 1] = b[m] + w.n
    BY <1>5, Ground
  <1>7. /\ w.n \in Nat /\ w.n > 0 /\ w.resid \in Nat /\ w.resid <= w.n /\ w.op \in {"send", "write"}
        /\ ~IsReadAtomic(w.op)
    BY <1>5, <1>6, WqeGround
  <1>8. WqeAt(b, m)
    BY <1>5, <1>6 DEF WqesAt
  <1>9. w.resid > 0 /\ r = b[m] + w.n - w.resid /\ req.psn = Wrap(r) /\ ~w.has_rd_atomic
    BY <1>4, <1>5, <1>6, <1>8 DEF WqeAt, Positions
  <1>10. (req.opcode = w.op) <=> (w.resid < w.n)
    BY <1>4, <1>5, <1>6, <1>7 DEF WqesAt, Begun
  <1>11. /\ pkt.pos = next_opcode(w) /\ pkt.msg = m /\ pkt.op = w.op /\ pkt.psn = req.psn
         /\ pkt.off = w.n - w.resid /\ pkt.va = w.iova
    OBVIOUS
  <1>12. (starts(pkt) <=> w.resid = w.n) /\ (ends(pkt) <=> w.resid = 1)
    <2>1. next_opcode(w) \in {"first", "only"} <=> w.resid = w.n
      BY <1>7, <1>10 DEF next_opcode
    <2>2. next_opcode(w) \in {"last", "only"} <=> w.resid = 1
      BY <1>7, <1>9 DEF next_opcode
    <2> QED
      BY <1>11, <2>1, <2>2 DEF starts, ends
  <1>13. r <= c + env.max_gap
    <2>1. env.max_gap \in Nat /\ env.max_gap + 1 < Half /\ Half \in Nat
      BY <1>5, Ground
    <2>2. PICK y \in Nat : y = c + env.max_gap
      BY <2>1
    <2>3. c <= r /\ r <= c + env.max_gap + 1 /\ comp.psn = Wrap(c)
      BY <1>5 DEF Positions
    <2>4. psn_add(comp.psn, env.max_gap) = Wrap(y)
      BY <2>1, <2>2, <2>3, WrapAdd
    <2>5. psn_compare(Wrap(r), Wrap(y)) = r - y
      <3>1. - Half <= r - y /\ r - y < Half
        BY <2>1, <2>2, <2>3
      <3> QED
        BY <3>1, WrapCompare
    <2>6. ~(r - y > 0)
      BY <1>4, <1>9, <2>4, <2>5 DEF out_of_window
    <2> QED
      BY <2>2, <2>6
  <1>14. PICK p : p = pkt
    OBVIOUS
  <1>15. RequestAt(b, p) /\ place(b, p) = r
    <2>1. /\ p.msg = m /\ p.op = w.op /\ p.psn = Wrap(r) /\ p.off = w.n - w.resid /\ p.va = w.iova
          /\ starts(p) <=> w.resid = w.n
          /\ ends(p) <=> w.resid = 1
      BY <1>9, <1>12, <1>14, <1>11
    <2>2. place(b, p) = r
      BY <1>6, <1>7, <1>9, <2>1 DEF place
    <2>3. p.off \in 0 .. w.n - 1 /\ (p.off = 0 <=> w.resid = w.n) /\ (p.off = w.n - 1 <=> w.resid = 1)
      BY <1>7, <1>9, <2>1
    <2>4. p.off = 0 => p.va = 0
      BY <1>8, <2>1, <2>3 DEF WqeAt
    <2> QED
      BY <1>6, <2>1, <2>2, <2>3, <2>4 DEF RequestAt
  <1>16. reqnet' = Append(reqnet, p)
    BY <1>1, <1>14
  <1>17. left = w.resid - 1 /\ state = (IF w.resid = 1 THEN "pending" ELSE "processing") /\ ~had
    BY <1>7, <1>9, <1>12 DEF charged
  <1>18. first = Wrap(b[m]) /\ last = Wrap(b[m + 1] - 1)
    <2>1. CASE w.resid = w.n
      <3>1. r = b[m] /\ num_pkt = w.n
        BY <1>6, <1>7, <1>9, <2>1
      <3>2. PICK y \in Nat : y = w.n - 1
        BY <1>7
      <3>3. psn_add(Wrap(b[m]), y) = Wrap(b[m] + y) /\ b[m] + y = b[m + 1] - 1
        <4>1. b[m] + y = b[m + 1] - 1
          BY <1>6, <1>7, <3>2
        <4>2. psn_add(Wrap(b[m]), y) = Wrap(b[m] + y)
          BY <1>6, WrapAdd
        <4> QED
          BY <4>1, <4>2
      <3>4. starts(pkt)
        BY <1>12, <2>1
      <3>5. first = req.psn /\ last = psn_add(req.psn, num_pkt - 1)
        BY <3>4
      <3> QED
        BY <1>9, <3>1, <3>2, <3>3, <3>5
    <2>2. CASE w.resid < w.n
      <3>1. ~starts(pkt)
        BY <1>7, <1>12, <2>2
      <3>2. first = w.first_psn /\ last = w.last_psn
        BY <3>1
      <3> QED
        BY <1>8, <2>2, <3>2 DEF WqeAt
    <2> QED
      BY <1>7, <2>1, <2>2
  <1>19. /\ req'.psn = Wrap(r + 1) /\ req'.state = req.state /\ req'.need_retry = req.need_retry
         /\ req'.opcode = IF w.resid = 1 THEN "none" ELSE w.op
         /\ cur' = IF w.resid = 1 THEN cur + 1 ELSE cur
    <2>1. check_init_depth(m) = req
      BY <1>7 DEF check_init_depth, charged
    <2>2. req' = [req EXCEPT !.psn = psn_add(req.psn, 1),
                             !.opcode = IF w.resid = 1 THEN "none" ELSE w.op,
                             !.wqe_index = IF w.resid = 1 THEN req.wqe_index + 1 ELSE req.wqe_index]
      <3>1. w.op # "read"
        BY <1>7
      <3> HIDE DEF pkt, first, num_pkt
      <3> QED
        BY <1>3, <1>12, <2>1, <3>1
    <2>3. psn_add(req.psn, 1) = Wrap(r + 1)
      BY <1>9, WrapAdd
    <2> QED
      BY <1>5, <2>2, <2>3 DEF ReqFields, cur
  <1>20. WqeSent(b, m)
    <2> HIDE DEF left, first, last, state, had
    <2>1. PICK v : v = [w EXCEPT !.resid = left, !.first_psn = first, !.last_psn = last,
                                 !.state = state, !.has_rd_atomic = had]
      OBVIOUS
    <2>2. DOMAIN w = WqeFields
      BY <1>5, <1>6, WqeGround
    <2>3. /\ v.resid = left /\ v.first_psn = first /\ v.last_psn = last /\ v.state = state
          /\ v.has_rd_atomic = had /\ v.data = w.data /\ SameWr(v, w)
      BY <2>1, <2>2 DEF WqeFields, SameWr
    <2>4. IsWqe(v)
      BY <2>1, <2>2 DEF IsWqe
    <2>5. SentWqe(b, m, v)
      BY <1>17, <1>18, <2>3, <2>4 DEF SentWqe
    <2> QED
      BY <1>2, <2>1, <2>5 DEF WqeSent
  <1>21. PacketSent(b, r)
    BY <1>15, <1>16 DEF PacketSent
  <1>22. UNCHANGED <<posted, rpc, comp, cpc, cpkt, cqes, run, respnet, resp, rq, executed, env>>
    BY <1>1 DEF compvars, respvars
  <1>23. timers' = timers \/ (env.timeout /\ timers' = timers \cup {"retrans"})
    BY <1>1
  <1>24. w.lkey
    BY <1>1, <1>7
  <1> HIDE DEF pkt, first, num_pkt, last, left, state, had
  <1> QED
    BY <1>4, <1>6, <1>9, <1>13, <1>19, <1>20, <1>21, <1>22, <1>23, <1>24
       DEF SendQuiet, SendAt, SendReq

LEMMA SendStep ==
  ASSUME RCInv, NEW b, NEW c \in Nat, NEW r \in Nat, NEW a \in Nat, OrdInv(b, c, r, a),
         NEW m \in Msgs, ReqSend(m), [Readable]_vars
  PROVE  OrdInv(b, c, r + 1, a)'
  <1>27. /\ UNCHANGED <<posted, rpc, comp, cpc, cpkt, cqes, run, respnet, resp, rq, executed, env>>
         /\ "req" \in run /\ req.state # "ERROR" /\ ~req.need_retry
         /\ m = cur /\ m <= posted /\ m \in 1 .. Len(sq)
    BY SendEffect DEF SendQuiet
  <1>28. /\ timers' = timers \/ (env.timeout /\ timers' = timers \cup {"retrans"})
         /\ sq[m].lkey /\ sq[m].resid > 0 /\ r <= c + env.max_gap
         /\ r = b[m] + sq[m].n - sq[m].resid
    BY SendEffect DEF SendAt
  <1>29. /\ req'.psn = Wrap(r + 1) /\ req'.state = req.state /\ req'.need_retry = req.need_retry
         /\ req'.opcode = IF sq[m].resid = 1 THEN "none" ELSE sq[m].op
         /\ cur' = IF sq[m].resid = 1 THEN cur + 1 ELSE cur
    BY SendEffect DEF SendReq
  <1>1. /\ UNCHANGED <<posted, rpc, comp, cpc, cpkt, cqes, run, respnet, resp, rq, executed, env>>
        /\ "req" \in run /\ req.state # "ERROR" /\ ~req.need_retry
        /\ m = cur /\ m <= posted /\ m \in 1 .. Len(sq)
        /\ timers' = timers \/ (env.timeout /\ timers' = timers \cup {"retrans"})
        /\ sq[m].lkey /\ sq[m].resid > 0 /\ r <= c + env.max_gap
        /\ r = b[m] + sq[m].n - sq[m].resid
        /\ req'.psn = Wrap(r + 1) /\ req'.state = req.state /\ req'.need_retry = req.need_retry
        /\ req'.opcode = IF sq[m].resid = 1 THEN "none" ELSE sq[m].op
        /\ cur' = IF sq[m].resid = 1 THEN cur + 1 ELSE cur
    BY <1>27, <1>28, <1>29
  <1>30. PacketSent(b, r) /\ WqeSent(b, m)
    BY SendEffect
  <1>2. PICK p : reqnet' = Append(reqnet, p) /\ RequestAt(b, p) /\ place(b, p) = r
    BY <1>30 DEF PacketSent
  <1>3. PICK v : sq' = [sq EXCEPT ![m] = v] /\ SentWqe(b, m, v)
    BY <1>30 DEF WqeSent
  <1>4. /\ Placed(b, c, r) /\ Calls /\ CompletedAt(b) /\ Orderly /\ Bases(b) /\ AnswersAt(b, a)
        /\ InStep(b, c, r, a) /\ Positions(b, c, r) /\ WqesAt(b) /\ NetAt(b, c, r) /\ Timing
        /\ Retrying(b) /\ nexec \in Nat
    BY <1>1, Active
  <1>5. /\ Orderly' /\ Bases(b)' /\ SameWork /\ SameEnv
        /\ ExecutedAt(b)' /\ ExpectedAt(b)' /\ Receives(b)' /\ nexec' = nexec
    BY <1>1, <1>4, RespKept
  <1>6. /\ Len(sq) \in Nat /\ cur \in Nat /\ head \in Nat /\ posted \in Nat /\ env.max_gap \in Nat
        /\ Len(sq') = Len(sq) /\ head' = head /\ DOMAIN sq = 1 .. Len(sq) /\ b[m] \in Nat
        /\ b[m + 1] = b[m] + sq[m].n
    <2>1. /\ Len(sq) \in Nat /\ cur \in Nat /\ head \in Nat /\ posted \in Nat /\ env.max_gap \in Nat
          /\ DOMAIN sq = 1 .. Len(sq)
      <3>1. Len(sq) \in Nat /\ env.max_gap \in Nat /\ DOMAIN sq = 1 .. Len(sq)
        BY <1>4, Sizes
      <3> QED
        BY <1>4, <3>1, Naturals
    <2>2. m \in 1 .. Len(sq) /\ cqes' = cqes
      BY <1>1
    <2>3. head' = head /\ Len(sq') = Len(sq)
      BY <1>5, <2>2 DEF head, SameWork
    <2>4. b[m] \in Nat /\ b[m + 1] = b[m] + sq[m].n
      <3>1. m \in 1 .. Len(sq) + 1 /\ m <= Len(sq)
        BY <2>1, <2>2
      <3> QED
        BY <1>4, <3>1, BaseIs
    <2> QED
      BY <2>1, <2>2, <2>3, <2>4
  <1>7. /\ sq[m].n \in Nat /\ sq[m].n > 0 /\ sq[m].resid \in Nat /\ sq[m].resid <= sq[m].n
    BY <1>1, <1>4, WqeGround
  <1>8. /\ sq'[m] = v /\ sq' = [k \in 1 .. Len(sq) |-> sq'[k]]
        /\ \A k \in 1 .. Len(sq) : k # m => sq'[k] = sq[k]
    BY <1>1, <1>3, <1>6
  <1>9. /\ v.n = sq[m].n /\ v.op = sq[m].op /\ v.lkey = sq[m].lkey /\ v.resid = sq[m].resid - 1
        /\ v.state = IF sq[m].resid = 1 THEN "pending" ELSE "processing"
    BY <1>3 DEF SentWqe, SameWr
  <1>21. m = cur /\ m \in 1 .. Len(sq) /\ posted' = posted /\ sq[m].lkey /\ m <= posted
    BY <1>1
  <1>22. sq[m].resid = 1 => cur' = m + 1 /\ v.state = "pending" /\ v.resid = 0
    BY <1>1, <1>9
  <1>23. sq[m].resid # 1 => cur' = m /\ v.state = "processing" /\ v.resid > 0
    <2>1. sq[m].resid # 1 => cur' = m /\ v.state = "processing"
      BY <1>1, <1>9
    <2>2. sq[m].resid > 0
      BY <1>1
    <2> QED
      BY <1>7, <1>9, <2>1, <2>2
  <1>24. /\ v.first_psn = Wrap(b[m]) /\ v.last_psn = Wrap(b[m + 1] - 1) /\ IsWqe(v)
         /\ v.data = sq[m].data /\ ~v.has_rd_atomic
    BY <1>3 DEF SentWqe
  <1>25. v.resid < v.n /\ v.lkey /\ v.resid # v.n
    BY <1>7, <1>9, <1>21
  <1>26. r = b[m] + sq[m].n - sq[m].resid
    BY <1>1
  <1>10. cur + 1 <= Len(sq) =>
           /\ sq[cur + 1].state = "posted" /\ sq[cur + 1].resid = sq[cur + 1].n
           /\ sq'[cur + 1] = sq[cur + 1] /\ sq[cur + 1].n \in Nat /\ b[cur + 1] \in Nat
    <2>1. SUFFICES ASSUME cur + 1 <= Len(sq)
                   PROVE  /\ sq[cur + 1].state = "posted" /\ sq[cur + 1].resid = sq[cur + 1].n
                          /\ sq'[cur + 1] = sq[cur + 1] /\ sq[cur + 1].n \in Nat /\ b[cur + 1] \in Nat
      OBVIOUS
    <2>2. cur + 1 \in 1 .. Len(sq) /\ cur + 1 > cur /\ cur + 1 # m
      BY <1>1, <1>6, <2>1
    <2>3. WqeAt(b, cur + 1)
      BY <1>4, <2>2 DEF WqesAt
    <2>4. sq[cur + 1].n \in Nat /\ b[cur + 1] \in Nat
      BY <1>4, <2>2, Ground, WqeGround
    <2> QED
      BY <1>8, <2>2, <2>3, <2>4 DEF WqeAt
  <1>11. Positions(b, c, r + 1)'
    <2>1. /\ c <= r /\ comp.psn = Wrap(c) /\ resp.psn = Wrap(nexec) /\ c <= nexec
          /\ nexec <= c + env.max_gap + 1
      BY <1>4 DEF Positions
    <2>2. c <= r + 1 /\ r + 1 <= c + env.max_gap + 1
      BY <1>1, <1>6, <2>1
    <2>3. /\ cur' <= Len(sq) => r + 1 = b[cur'] + sq'[cur'].n - sq'[cur'].resid
          /\ cur' = Len(sq) + 1 => r + 1 = b[cur']
      <3>1. CASE sq[m].resid = 1
        <4>1. cur' = m + 1 /\ r + 1 = b[m + 1]
          <5>1. PICK x \in Nat, n \in Nat : x = b[m] /\ n = sq[m].n
            BY <1>6, <1>7
          <5>2. r = x + n - 1 /\ b[m + 1] = x + n
            BY <1>6, <1>26, <3>1, <5>1
          <5>3. r + 1 = b[m + 1]
            BY <5>2
          <5> QED
            BY <1>22, <3>1, <5>3
        <4> QED
          BY <1>6, <1>10, <1>21, <4>1
      <3>2. CASE sq[m].resid # 1
        <4>1. cur' = m /\ sq'[m].n = sq[m].n /\ sq'[m].resid = sq[m].resid - 1 /\ m # Len(sq) + 1
          BY <1>6, <1>8, <1>9, <1>21, <1>23, <3>2
        <4>2. r + 1 = b[m] + sq[m].n - (sq[m].resid - 1)
          <5>1. b[m] \in Nat
            BY <1>6
          <5>2. PICK x \in Nat, y \in Nat, z \in Nat : x = b[m] /\ y = sq[m].n /\ z = sq[m].resid
            BY <1>7, <5>1
          <5>3. r = x + y - z
            BY <1>26, <5>2
          <5>4. r + 1 = x + y - (z - 1)
            BY <5>3
          <5> QED
            BY <5>2, <5>4
        <4> QED
          BY <4>1, <4>2
      <3> QED
        BY <3>1, <3>2
    <2> QED
      BY <1>1, <1>5, <1>6, <2>1, <2>2, <2>3 DEF Positions, SameEnv
  <1>12. WqesAt(b)'
    <2>1. ASSUME NEW k \in 1 .. Len(sq) PROVE WqeAt(b, k)'
      <3>1. CASE k = m
        <4>1. WqeAt(b, m)
          BY <1>1, <1>4 DEF WqesAt
        <4>2. sq[m].data = <<>>
          BY <4>1 DEF WqeAt
        <4>3. CASE sq[m].resid = 1
          <5>1. ~(m >= cur') /\ ~(m > cur') /\ ~(m > posted')
            BY <1>6, <1>21, <1>22, <4>3
          <5>2. v.state = "pending" /\ v.resid = 0
            BY <1>22, <4>3
          <5>3. WqeAt(b, m)'
            BY <1>8, <1>24, <1>25, <4>2, <5>1, <5>2 DEF WqeAt
          <5> QED
            BY <3>1, <5>3
        <4>4. CASE sq[m].resid # 1
          <5>1. ~(m < cur') /\ ~(m > cur') /\ ~(m > posted')
            BY <1>6, <1>21, <1>23, <4>4
          <5>2. v.state = "processing" /\ v.resid > 0
            BY <1>23, <4>4
          <5>3. WqeAt(b, m)'
            BY <1>8, <1>24, <1>25, <4>2, <5>1, <5>2 DEF WqeAt
          <5> QED
            BY <3>1, <5>3
        <4> QED
          BY <4>3, <4>4
      <3>2. CASE k # m
        <4>1. WqeAt(b, k) /\ sq'[k] = sq[k]
          BY <1>4, <1>8, <3>2 DEF WqesAt
        <4>2. cur' = cur \/ cur' = cur + 1
          BY <1>21, <1>22, <1>23
        <4>3. (k < cur' <=> k < cur) /\ (k >= cur' => k > cur) /\ (k > cur' => k > cur) /\ (k > cur => k >= cur)
          BY <1>6, <1>21, <3>2, <4>2
        <4> QED
          BY <1>6, <1>21, <4>1, <4>3 DEF WqeAt
      <3> QED
        BY <3>1, <3>2
    <2>2. CASE sq[m].resid = 1
      <3>1. ~Begun'
        <4>1. cur' = m + 1
          BY <1>1, <2>2
        <4> QED
          BY <1>1, <1>6, <1>10, <4>1 DEF Begun
      <3> QED
        BY <1>1, <1>6, <1>8, <2>1, <2>2, <3>1 DEF WqesAt
    <2>3. CASE sq[m].resid # 1
      <3>1. cur' = m /\ sq'[cur'].op = sq[m].op /\ req'.opcode = sq[m].op
        BY <1>1, <1>8, <1>9, <2>3
      <3>2. Begun'
        BY <1>1, <1>6, <1>7, <1>8, <1>9, <2>3, <3>1 DEF Begun
      <3> QED
        BY <1>6, <1>8, <2>1, <3>1, <3>2 DEF WqesAt
    <2> QED
      BY <2>2, <2>3
  <1>13. /\ reqnet \in Seq(Requests) /\ Len(reqnet) \in Nat /\ Len(reqnet') = Len(reqnet) + 1
         /\ reqnet'[Len(reqnet) + 1] = p
         /\ \A j \in 1 .. Len(reqnet) : reqnet'[j] = reqnet[j]
    <2>1. reqnet \in Seq(Requests) /\ reqnet' = Append(reqnet, p)
      BY <1>2 DEF RCInv, ReqNet
    <2> QED
      BY <2>1
  <1>14. NetAt(b, c, r + 1)'
    <2>1. ASSUME NEW q, RequestAt(b, q) PROVE RequestAt(b, q)' /\ place(b, q) \in Nat
      <3>1. RequestAt(b, q)'
        BY <1>5, <2>1 DEF RequestAt, SameWork, SameWr, place, starts, ends
      <3> QED
        BY <1>4, <2>1, <3>1, RequestPlace
    <2>2. ASSUME NEW j \in 1 .. Len(reqnet), Stale(b, j) PROVE Stale(b, j)'
      <3>1. resp' = resp /\ nexec' = nexec
        BY <1>1, <1>5
      <3>2. \A l \in 1 .. j : reqnet'[l] = reqnet[l]
        BY <1>13
      <3>3. resp.sent_psn_nak /\ \A l \in 1 .. j : place(b, reqnet[l]) > nexec
        BY <2>2 DEF Stale
      <3> QED
        BY <3>1, <3>2, <3>3 DEF Stale, place
    <2>3. ASSUME NEW j \in 1 .. Len(reqnet)
          PROVE  /\ RequestAt(b, reqnet[j])'
                 /\ c <= place(b, reqnet'[j]) /\ place(b, reqnet'[j]) <= c + env.max_gap
                 /\ place(b, reqnet'[j]) < r + 1 \/ Stale(b, j)'
                 /\ \A k \in j + 1 .. Len(reqnet') :
                      place(b, reqnet'[j]) < place(b, reqnet'[k]) \/ Stale(b, j)'
      <3>1. PICK q : q = reqnet[j] /\ q = reqnet'[j]
        BY <1>13
      <3>2. /\ RequestAt(b, q) /\ c <= place(b, q) /\ place(b, q) <= c + env.max_gap
            /\ place(b, q) < r \/ Stale(b, j)
            /\ \A k \in j + 1 .. Len(reqnet) : place(b, q) < place(b, reqnet[k]) \/ Stale(b, j)
        BY <1>4, <3>1 DEF NetAt
      <3>3. RequestAt(b, q)' /\ place(b, q) \in Nat
        BY <2>1, <3>2
      <3>4. ASSUME NEW k \in j + 1 .. Len(reqnet') PROVE place(b, q) < place(b, reqnet'[k]) \/ Stale(b, j)'
        <4>1. CASE k = Len(reqnet) + 1
          BY <1>2, <1>13, <2>2, <3>2, <4>1
        <4>2. CASE k # Len(reqnet) + 1
          <5>1. k \in j + 1 .. Len(reqnet) /\ reqnet'[k] = reqnet[k]
            BY <1>13, <4>2
          <5> QED
            BY <2>2, <3>2, <5>1
        <4> QED
          BY <4>1, <4>2
      <3>5. place(b, q) < r + 1 \/ Stale(b, j)'
        BY <2>2, <3>2, <3>3
      <3>6. RequestAt(b, reqnet[j])'
        BY <3>1, <3>3
      <3> QED
        BY <3>1, <3>2, <3>4, <3>5, <3>6
    <2>4. /\ RequestAt(b, p)' /\ c <= place(b, p) /\ place(b, p) <= c + env.max_gap
          /\ place(b, p) < r + 1 /\ \A k \in (Len(reqnet) + 1) + 1 .. Len(reqnet') : FALSE
      BY <1>1, <1>2, <1>4, <1>13, <2>1 DEF Positions
    <2>5. ASSUME NEW j \in 1 .. Len(reqnet')
          PROVE  /\ RequestAt(b, reqnet[j])'
                 /\ c <= place(b, reqnet'[j]) /\ place(b, reqnet'[j]) <= c + env.max_gap
                 /\ place(b, reqnet'[j]) < r + 1 \/ Stale(b, j)'
                 /\ \A k \in j + 1 .. Len(reqnet') :
                      place(b, reqnet'[j]) < place(b, reqnet'[k]) \/ Stale(b, j)'
      <3>1. CASE j = Len(reqnet) + 1
        <4>1. reqnet'[j] = p
          BY <1>13, <3>1
        <4>2. RequestAt(b, reqnet[j])'
          BY <2>4, <4>1
        <4> QED
          BY <2>4, <3>1, <4>1, <4>2
      <3>2. CASE j # Len(reqnet) + 1
        <4>1. j \in 1 .. Len(reqnet)
          BY <1>13, <3>2
        <4> QED
          BY <2>3, <4>1
      <3> QED
        BY <3>1, <3>2
    <2>6. env'.max_gap = env.max_gap
      BY <1>1
    <2> QED
      BY <2>5, <2>6 DEF NetAt, place
  <1>15. Placed(b, c, r + 1)'
    BY <1>5, <1>11, <1>12, <1>14 DEF Placed
  <1>16. Calls'
    <2>1. ASSUME NEW k \in 1 .. Len(sq) PROVE sq'[k].lkey = sq[k].lkey
      BY <1>5 DEF SameWork, SameWr
    <2>2. posted > 0
      BY <1>1, <1>6
    <2> QED
      BY <1>1, <1>4, <1>6, <2>1, <2>2 DEF Calls
  <1>17. CompletedAt(b)'
    BY <1>1, <1>4, CompletedSame
  <1>18. AnswersAt(b, a)' /\ Total' = Total
    <2>1. Total' = Total
      BY <1>1 DEF Total
    <2> QED
      BY <1>1, <1>4, <1>5, <1>6, <2>1 DEF AnswersAt, Entry
  <1>19. InStep(b, c, r + 1, a)'
    <2>1. r > nexec /\ AllAhead(b) => AllAhead(b)' /\ r + 1 > nexec
      <3>1. SUFFICES ASSUME r > nexec, AllAhead(b) PROVE AllAhead(b)' /\ r + 1 > nexec
        OBVIOUS
      <3>2. ASSUME NEW j \in 1 .. Len(reqnet') PROVE place(b, reqnet'[j]) > nexec
        <4>1. CASE j = Len(reqnet) + 1
          BY <1>2, <1>13, <3>1, <4>1
        <4>2. CASE j # Len(reqnet) + 1
          <5>1. j \in 1 .. Len(reqnet) /\ reqnet'[j] = reqnet[j]
            BY <1>13, <4>2
          <5> QED
            BY <3>1, <5>1 DEF AllAhead
        <4> QED
          BY <4>1, <4>2
      <3>3. r + 1 > nexec
        BY <1>4, <3>1
      <3> QED
        BY <1>5, <3>2, <3>3 DEF AllAhead, place
    <2>2. Lags(b, r + 1)' => Lags(b, r)
      <3>1. ASSUME NEW j \in 1 .. Len(reqnet'), place(b, reqnet'[j]) < nexec PROVE Lags(b, r)
        <4>1. CASE j = Len(reqnet) + 1
          BY <1>2, <1>13, <3>1, <4>1 DEF Lags
        <4>2. CASE j # Len(reqnet) + 1
          <5>1. j \in 1 .. Len(reqnet) /\ reqnet'[j] = reqnet[j]
            BY <1>13, <4>2
          <5> QED
            BY <3>1, <5>1 DEF Lags
        <4> QED
          BY <4>1, <4>2
      <3>2. r + 1 < nexec => r < nexec
        BY <1>4
      <3> QED
        BY <1>5, <3>1, <3>2 DEF Lags, place
    <2>3. cur' >= head
      <3>1. cur >= head
        BY <1>4 DEF InStep
      <3> QED
        BY <1>6, <1>21, <1>22, <1>23, <3>1
    <2>4. ASSUME cur' <= Len(sq), sq'[cur'].state \in {"posted", "error"}
          PROVE  cur' # head /\ sq'[cur'].resid = sq'[cur'].n
      <3>1. sq[m].resid = 1
        BY <1>1, <1>8, <1>9, <2>4
      <3>2. cur' = cur + 1 /\ cur >= head
        BY <1>4, <1>21, <1>22, <3>1 DEF InStep
      <3> QED
        BY <1>6, <1>10, <2>4, <3>2
    <2> QED
      BY <1>1, <1>4, <1>5, <1>6, <1>18, <2>1, <2>2, <2>3, <2>4 DEF InStep
  <1>20. Retrying(b)' /\ Timing'
    BY <1>1, <1>4 DEF Retrying, Timing, TimedOut
  <1> QED
    BY <1>15, <1>16, <1>17, <1>18, <1>19, <1>20 DEF OrdInv, Running

\* A WQE of which `left' packets are to be sent, as req_retry leaves it.
RetriedWqe(m, left, v) ==
  /\ IsWqe(v) /\ SameWr(v, sq[m]) /\ v.resid = left /\ v.state = "posted" /\ v.data = <<>>
  /\ ~v.has_rd_atomic /\ v.first_psn = sq[m].first_psn /\ v.last_psn = sq[m].last_psn
  /\ v.resid = v.n => v.iova = 0

\* When a retry is pending, the oldest message has been begun.
LEMMA RetryHead ==
  ASSUME RCInv, NEW b, NEW c \in Nat, NEW r \in Nat, NEW a \in Nat, OrdInv(b, c, r, a),
         req.state # "ERROR", req.need_retry
  PROVE  /\ head \in 1 .. Len(sq) /\ head <= posted /\ head <= cur
         /\ sq[head].state \in {"processing", "pending"}
         /\ sq[head].lkey /\ sq[head].resid < sq[head].n
         /\ sq[head].first_psn = Wrap(b[head])
         /\ b[head] \in Nat /\ b[head] <= c /\ c - b[head] < sq[head].n
         /\ (comp.psn - sq[head].first_psn) % PsnMod = c - b[head]
         /\ Total = 0 /\ a = 0 /\ cpc = "idle" /\ ~TimedOut
         /\ reqnet # <<>> => resp.sent_psn_nak /\ AllAhead(b)
  <1>1. /\ Orderly /\ Bases(b) /\ Positions(b, c, r) /\ WqesAt(b) /\ AnswersAt(b, a)
        /\ InStep(b, c, r, a) /\ Retrying(b) /\ Timing
    BY Active
  <1>2. /\ Total = 0 /\ cpc = "idle" /\ head <= posted /\ sq[head].state \in {"processing", "pending"}
        /\ (reqnet # <<>> => resp.sent_psn_nak /\ AllAhead(b))
    BY <1>1 DEF Retrying
  <1>3. a = 0 /\ ~TimedOut
    BY <1>1, <1>2 DEF AnswersAt, Timing
  <1>4. /\ head \in 1 .. Len(sq) /\ head \in Nat /\ cur \in Nat /\ b[head] \in Nat
        /\ b[head + 1] = b[head] + sq[head].n /\ PsnMod = 2 * Half /\ Half \in Nat
    <2>1. head \in 1 .. Len(sq) + 1 /\ posted \in 0 .. Len(sq) /\ Len(sq) \in Nat
          /\ cur \in 1 .. Len(sq) + 1 /\ PsnMod = 2 * Half /\ Half \in Nat
      BY <1>1, Ground
    <2>2. head \in 1 .. Len(sq) /\ head \in Nat /\ cur \in Nat
      BY <1>2, <2>1
    <2> QED
      BY <1>1, <2>1, <2>2, Ground
  <1>5. /\ sq[head].n \in Nat /\ sq[head].n > 0 /\ sq[head].n <= Half /\ sq[head].lkey
        /\ sq[head].resid \in Nat
    BY <1>1, <1>2, <1>4, WqeGround
  <1>6. cur >= head /\ b[head] <= c /\ c < b[head + 1]
    BY <1>1, <1>4 DEF InStep
  <1>7. WqeAt(b, head)
    BY <1>1, <1>4 DEF WqesAt
  <1>8. sq[head].resid < sq[head].n
    <2>1. CASE cur = head
      BY <1>2, <1>4, <1>7, <2>1 DEF WqeAt
    <2>2. CASE cur > head
      BY <1>4, <1>5, <1>7, <2>2 DEF WqeAt
    <2> QED
      BY <1>4, <1>6, <2>1, <2>2
  <1>9. sq[head].first_psn = Wrap(b[head])
    BY <1>7, <1>8 DEF WqeAt
  <1>10. c - b[head] < sq[head].n /\ c - b[head] < PsnMod /\ c >= b[head]
    <2>1. PICK x \in Nat, n \in Nat : x = b[head] /\ n = sq[head].n
      BY <1>4, <1>5
    <2>2. x <= c /\ c < x + n /\ n <= Half /\ PsnMod = 2 * Half /\ Half \in Nat
      BY <1>4, <1>5, <1>6, <2>1
    <2>3. c - x < n /\ c - x < PsnMod /\ c >= x
      BY <2>2
    <2> QED
      BY <2>1, <2>3
  <1>11. comp.psn = Wrap(c)
    BY <1>1 DEF Positions
  <1>12. (comp.psn - sq[head].first_psn) % PsnMod = c - b[head]
    <2>1. PICK e \in Nat : e = b[head]
      BY <1>4
    <2>2. c >= e /\ c - e < PsnMod
      BY <1>10, <2>1
    <2>3. (Wrap(c) - Wrap(e)) % PsnMod = c - e
      BY <2>2, WrapBehind
    <2> QED
      BY <1>9, <1>11, <2>1, <2>3
  <1> QED
    BY <1>2, <1>3, <1>4, <1>5, <1>6, <1>8, <1>9, <1>10, <1>12

\* What follows the last WQE that has been begun is as it was posted.
LEMMA NotBegun ==
  ASSUME RCInv, NEW b, NEW c \in Nat, NEW r \in Nat, NEW a \in Nat, OrdInv(b, c, r, a),
         req.state # "ERROR", NEW m \in 1 .. Len(sq), m > head,
         ~(m <= posted /\ \A k \in head .. m : sq[k].state # "posted")
  PROVE  sq[m].state = "posted" /\ sq[m].resid = sq[m].n /\ sq[m].iova = 0
  <1>1. Orderly /\ Bases(b) /\ WqesAt(b) /\ InStep(b, c, r, a)
    BY Active
  <1>2. /\ head \in Nat /\ cur \in Nat /\ posted \in Nat /\ cur <= posted + 1 /\ Len(sq) \in Nat
        /\ m \in Nat /\ head >= 1
    BY <1>1, Ground
  <1>3. WqeAt(b, m)
    BY <1>1 DEF WqesAt
  <1>4. m >= cur /\ sq[m].state = "posted"
    <2>1. CASE m > posted
      BY <1>2, <1>3, <2>1 DEF WqeAt
    <2>2. CASE m <= posted
      <3>1. PICK k \in head .. m : sq[k].state = "posted"
        BY <2>2
      <3>2. k \in 1 .. Len(sq) /\ k \in Nat /\ head <= k /\ k <= m
        BY <1>2
      <3>3. WqeAt(b, k)
        BY <1>1, <3>2 DEF WqesAt
      <3>4. k >= cur
        BY <1>2, <3>1, <3>2, <3>3 DEF WqeAt
      <3>5. CASE m = k
        BY <3>1, <3>4, <3>5
      <3>6. CASE m > k
        <4>1. m > cur
          BY <1>2, <3>2, <3>4, <3>6
        <4> QED
          BY <1>2, <1>3, <4>1 DEF WqeAt
      <3> QED
        BY <1>2, <3>2, <3>5, <3>6
    <2> QED
      BY <1>2, <2>1, <2>2
  <1>5. sq[m].resid = sq[m].n
    <2>1. CASE m = cur
      BY <1>1, <1>2, <1>4, <2>1 DEF InStep
    <2>2. CASE m > cur
      BY <1>3, <2>2 DEF WqeAt
    <2> QED
      BY <1>2, <1>4, <2>1, <2>2
  <1> QED
    BY <1>3, <1>4, <1>5 DEF WqeAt

LEMMA RetryEffect ==
  ASSUME RCInv, NEW b, NEW c \in Nat, NEW r \in Nat, NEW a \in Nat, OrdInv(b, c, r, a), ReqRetry
  PROVE  /\ UNCHANGED <<posted, rpc, comp, cpc, cpkt, cqes, run, timers, reqnet, respnet, resp, rq, executed, env>>
         /\ req.state # "ERROR" /\ req.need_retry
         /\ req'.psn = Wrap(c) /\ req'.state = req.state /\ ~req'.need_retry /\ cur' = head
         /\ req'.opcode = IF c > b[head] THEN sq[head].op ELSE "none"
         /\ sq' = [m \in 1 .. Len(sq) |-> sq'[m]]
         /\ \A m \in 1 .. Len(sq) : m < head => sq'[m] = sq[m]
         /\ \A m \in 1 .. Len(sq) : m >= head =>
              RetriedWqe(m, IF m = head THEN sq[m].n - (c - b[head]) ELSE sq[m].n, sq'[m])
  <1>1. UNCHANGED <<posted, rpc, comp, cpc, cpkt, cqes, run, timers, reqnet, respnet, resp, rq, executed, env>>
        /\ req.state # "ERROR" /\ req.need_retry
    BY DEF ReqRetry, compvars, respvars
  <1>2. /\ Orderly /\ Bases(b) /\ WqesAt(b) /\ Positions(b, c, r)
    BY <1>1, Active
  <1>3. /\ head \in 1 .. Len(sq) /\ head <= posted /\ sq[head].state \in {"processing", "pending"}
        /\ b[head] \in Nat /\ b[head] <= c /\ c - b[head] < sq[head].n
        /\ (comp.psn - sq[head].first_psn) % PsnMod = c - b[head]
    BY <1>1, RetryHead
  <1>4. PICK npsn \in Nat : npsn = c - b[head]
    BY <1>3
  <1> DEFINE todo == {m \in head .. posted : \A k \in head .. m : sq[k].state # "posted"}
  <1>5. /\ sq' = [m \in Msgs |-> IF m \in todo THEN retried(m, npsn) ELSE sq[m]]
        /\ req' = [req EXCEPT !.wqe_index = head, !.psn = comp.psn,
                              !.opcode = IF todo = {} THEN "none" ELSE retried_opcode(npsn),
                              !.need_retry = FALSE]
    BY <1>3, <1>4 DEF ReqRetry
  <1>6. /\ Len(sq) \in Nat /\ Msgs = 1 .. Len(sq) /\ head \in Nat /\ posted \in Nat
        /\ posted <= Len(sq) /\ DOMAIN req = ReqFields
    <2>1. DOMAIN req = ReqFields
      BY DEF RCInv, ReqTypes
    <2> QED
      BY <1>2, <2>1, Ground
  <1>7. head \in todo
    <2>1. head .. head = {head} /\ head \in head .. posted
      BY <1>3, <1>6
    <2> QED
      BY <1>3, <2>1
  <1>8. sq[head].n \in Nat /\ ~IsReadAtomic(sq[head].op)
    BY <1>2, <1>3, WqeGround
  <1>9. /\ req'.psn = Wrap(c) /\ req'.state = req.state /\ ~req'.need_retry /\ cur' = head
        /\ req'.opcode = IF c > b[head] THEN sq[head].op ELSE "none"
    <2>1. retried_opcode(npsn) = IF c > b[head] THEN sq[head].op ELSE "none"
      BY <1>3, <1>4, <1>8 DEF retried_opcode
    <2>2. PICK o : o = (IF todo = {} THEN "none" ELSE retried_opcode(npsn))
      OBVIOUS
    <2>3. o = retried_opcode(npsn)
      BY <1>7, <2>2
    <2>4. req' = [req EXCEPT !.wqe_index = head, !.psn = comp.psn, !.opcode = o, !.need_retry = FALSE]
      BY <1>5, <2>2
    <2>5. /\ req'.psn = comp.psn /\ req'.state = req.state /\ ~req'.need_retry /\ cur' = head
          /\ req'.opcode = o
      BY <1>6, <2>4 DEF ReqFields, cur
    <2> QED
      BY <1>2, <2>1, <2>3, <2>5 DEF Positions
  <1>10. sq' = [m \in 1 .. Len(sq) |-> sq'[m]]
    <2> HIDE DEF todo
    <2> QED
      BY <1>5, <1>6
  <1>11. ASSUME NEW m \in 1 .. Len(sq)
         PROVE  sq'[m] = IF m \in todo THEN retried(m, npsn) ELSE sq[m]
    <2> HIDE DEF todo
    <2> QED
      BY <1>5, <1>6
  <1>12. ASSUME NEW m \in 1 .. Len(sq), m < head PROVE sq'[m] = sq[m]
    <2>1. m \notin todo
      BY <1>6, <1>12
    <2> HIDE DEF todo
    <2> QED
      BY <1>11, <2>1
  <1>13. ASSUME NEW m \in 1 .. Len(sq), m >= head
         PROVE  RetriedWqe(m, IF m = head THEN sq[m].n - (c - b[head]) ELSE sq[m].n, sq'[m])
    <2>1. /\ DOMAIN sq[m] = WqeFields /\ sq[m].n \in Nat /\ sq[m].op \in {"send", "write"}
          /\ ~IsReadAtomic(sq[m].op)
      BY <1>2, WqeGround
    <2>2. sq[m].data = <<>> /\ ~sq[m].has_rd_atomic /\ IsWqe(sq[m])
      BY <1>2 DEF WqesAt, WqeAt
    <2>3. PICK left : left = IF m = head THEN sq[m].n - (c - b[head]) ELSE sq[m].n
      OBVIOUS
    <2>4. CASE m \in todo
      <3>1. PICK v : v = retried(m, npsn)
        OBVIOUS
      <3>2. PICK i, x : v = [sq[m] EXCEPT !.iova = i, !.resid = x, !.data = <<>>, !.state = "posted"]
              /\ i = (IF m = head /\ sq[m].op \in {"read", "write"} THEN npsn ELSE 0)
              /\ x = (IF m = head THEN IF npsn < sq[m].n THEN sq[m].n - npsn ELSE 0 ELSE sq[m].n)
        <4>1. ~(m = head /\ sq[m].op = "read")
          BY <2>1
        <4>2. PICK i : i = (IF m = head /\ sq[m].op \in {"read", "write"} THEN npsn ELSE 0)
          OBVIOUS
        <4>3. PICK x : x = (IF m = head THEN IF npsn < sq[m].n THEN sq[m].n - npsn ELSE 0 ELSE sq[m].n)
          OBVIOUS
        <4>4. v = [sq[m] EXCEPT !.iova = i, !.resid = x, !.data = <<>>, !.state = "posted"]
          BY <2>1, <3>1, <4>1, <4>2, <4>3 DEF retried
        <4> QED
          BY <4>2, <4>3, <4>4
      <3>3. x = left
        BY <1>3, <1>4, <2>3, <3>2
      <3>4. x = sq[m].n => i = 0
        <4>1. CASE m = head
          <5>1. PICK n \in Nat : n = sq[m].n
            BY <2>1
          <5>2. PICK k : k = npsn
            OBVIOUS
          <5>3. k \in Nat /\ x = IF k < n THEN n - k ELSE 0
            BY <1>3, <1>4, <3>2, <4>1, <5>1, <5>2
          <5>4. x = n => k = 0 \/ n = 0
            BY <5>3
          <5>5. sq[m].n > 0
            BY <1>2, WqeGround
          <5> QED
            BY <3>2, <5>1, <5>2, <5>4, <5>5
        <4>2. CASE m # head
          BY <3>2, <4>2
        <4> QED
          BY <4>1, <4>2
      <3>5. /\ SameWr(v, sq[m]) /\ v.resid = x /\ v.iova = i /\ v.state = "posted" /\ v.data = <<>>
            /\ v.has_rd_atomic = sq[m].has_rd_atomic /\ v.first_psn = sq[m].first_psn
            /\ v.last_psn = sq[m].last_psn /\ v.n = sq[m].n
        <4>1. v = [sq[m] EXCEPT !.iova = i, !.resid = x, !.data = <<>>, !.state = "posted"]
          BY <3>2
        <4> QED
          BY <2>1, <4>1 DEF SameWr, WqeFields
      <3>6. IsWqe(v)
        <4>1. v = [sq[m] EXCEPT !.iova = i, !.resid = x, !.data = <<>>, !.state = "posted"]
          BY <3>2
        <4> QED
          BY <2>1, <4>1 DEF IsWqe
      <3>7. sq'[m] = v
        <4> HIDE DEF todo
        <4> QED
          BY <1>11, <2>4, <3>1
      <3>8. RetriedWqe(m, left, v)
        BY <2>2, <3>3, <3>4, <3>5, <3>6 DEF RetriedWqe
      <3> QED
        BY <2>3, <3>7, <3>8
    <2>5. CASE m \notin todo
      <3>1. m # head /\ m > head
        BY <1>6, <1>7, <1>13, <2>5
      <3>2. ~(m <= posted /\ \A k \in head .. m : sq[k].state # "posted")
        BY <1>6, <1>13, <2>5
      <3>3. sq[m].state = "posted" /\ sq[m].resid = sq[m].n /\ sq[m].iova = 0
        BY <1>1, <3>1, <3>2, NotBegun
      <3>4. sq'[m] = sq[m]
        <4> HIDE DEF todo
        <4> QED
          BY <1>11, <2>5
      <3> QED
        BY <2>2, <3>1, <3>3, <3>4 DEF RetriedWqe, SameWr
    <2> QED
      BY <2>4, <2>5
  <1> HIDE DEF todo
  <1> QED
    BY <1>1, <1>9, <1>10, <1>12, <1>13

LEMMA RetryStep ==
  ASSUME RCInv, NEW b, NEW c \in Nat, NEW r \in Nat, NEW a \in Nat, OrdInv(b, c, r, a),
         ReqRetry, [Readable]_vars
  PROVE  OrdInv(b, c, c, a)'
  <1>1. /\ UNCHANGED <<posted, rpc, comp, cpc, cpkt, cqes, run, timers, reqnet, respnet, resp, rq, executed, env>>
        /\ req.state # "ERROR" /\ req.need_retry
    BY RetryEffect
  <1>2. /\ req'.psn = Wrap(c) /\ req'.state = req.state /\ ~req'.need_retry /\ cur' = head
        /\ req'.opcode = IF c > b[head] THEN sq[head].op ELSE "none"
        /\ sq' = [m \in 1 .. Len(sq) |-> sq'[m]]
    BY RetryEffect
  <1>3. \A m \in 1 .. Len(sq) : m < head => sq'[m] = sq[m]
    BY RetryEffect
  <1>4. \A m \in 1 .. Len(sq) : m >= head =>
           RetriedWqe(m, IF m = head THEN sq[m].n - (c - b[head]) ELSE sq[m].n, sq'[m])
    BY RetryEffect
  <1>5. /\ Placed(b, c, r) /\ Calls /\ CompletedAt(b) /\ Orderly /\ Bases(b) /\ AnswersAt(b, a)
        /\ InStep(b, c, r, a) /\ Positions(b, c, r) /\ WqesAt(b) /\ NetAt(b, c, r) /\ Timing
        /\ nexec \in Nat
    BY <1>1, Active
  <1>6. /\ head \in 1 .. Len(sq) /\ head <= posted /\ head <= cur /\ sq[head].lkey
        /\ sq[head].first_psn = Wrap(b[head]) /\ sq[head].resid < sq[head].n
        /\ b[head] \in Nat /\ b[head] <= c /\ c - b[head] < sq[head].n
        /\ Total = 0 /\ a = 0 /\ cpc = "idle" /\ ~TimedOut
        /\ (reqnet # <<>> => resp.sent_psn_nak /\ AllAhead(b))
    BY <1>1, RetryHead, ZenonT(60)
  <1>7. /\ Orderly' /\ Bases(b)' /\ SameWork /\ SameEnv
        /\ ExecutedAt(b)' /\ ExpectedAt(b)' /\ Receives(b)' /\ nexec' = nexec
    BY <1>1, <1>5, RespKept
  <1>8. /\ Len(sq) \in Nat /\ cur \in Nat /\ head \in Nat /\ posted \in Nat /\ env.max_gap \in Nat
        /\ Len(sq') = Len(sq) /\ head' = head
    <2>1. /\ Len(sq) \in Nat /\ cur \in Nat /\ head \in Nat /\ posted \in Nat /\ env.max_gap \in Nat
      <3>1. Len(sq) \in Nat /\ env.max_gap \in Nat
        BY <1>5, Sizes
      <3> QED
        BY <1>5, <3>1, Naturals
    <2>2. head' = head /\ Len(sq') = Len(sq)
      BY <1>1, <1>7 DEF head, SameWork
    <2> QED
      BY <2>1, <2>2
  <1>9. sq[head].n \in Nat /\ sq'[head].n = sq[head].n /\ sq'[head].op = sq[head].op
        /\ sq'[head].resid = sq[head].n - (c - b[head])
    <2>1. sq[head].n \in Nat
      BY <1>5, <1>6, WqeGround
    <2>2. RetriedWqe(head, sq[head].n - (c - b[head]), sq'[head])
      BY <1>4, <1>6, <1>8
    <2> QED
      BY <2>1, <2>2 DEF RetriedWqe, SameWr
  <1>10. Positions(b, c, c)'
    <2>1. /\ comp.psn = Wrap(c) /\ resp.psn = Wrap(nexec) /\ c <= nexec
          /\ nexec <= c + env.max_gap + 1
      BY <1>5 DEF Positions
    <2>2. c = b[head] + sq'[head].n - sq'[head].resid /\ c <= c + env.max_gap + 1 /\ c <= c
      <3>1. PICK x \in Nat, n \in Nat, g \in Nat : x = b[head] /\ n = sq[head].n /\ g = env.max_gap
        BY <1>6, <1>8, <1>9
      <3>2. c = x + n - (n - (c - x)) /\ c <= c + g + 1
        OBVIOUS
      <3>3. sq'[head].n = n /\ sq'[head].resid = n - (c - x)
        BY <1>9, <3>1
      <3> QED
        BY <3>1, <3>2, <3>3
    <2>3. head # Len(sq) + 1
      BY <1>6, <1>8
    <2>4. comp' = comp /\ resp' = resp /\ env' = env
      BY <1>1
    <2> QED
      BY <1>2, <1>7, <1>8, <2>1, <2>2, <2>3, <2>4 DEF Positions
  <1>11. WqesAt(b)'
    <2>1. ASSUME NEW m \in 1 .. Len(sq) PROVE WqeAt(b, m)'
      <3>1. WqeAt(b, m) /\ sq[m].n \in Nat /\ sq[m].n > 0 /\ posted' = posted
        BY <1>1, <1>5, WqeGround DEF WqesAt
      <3>2. CASE m < head
        <4>1. sq'[m] = sq[m] /\ m < cur /\ ~(head <= m) /\ m < cur' /\ ~(m >= cur') /\ ~(m > cur')
          BY <1>2, <1>3, <1>6, <1>8, <3>2
        <4> QED
          BY <1>8, <3>1, <4>1 DEF WqeAt
      <3>3. CASE m = head
        <4>1. RetriedWqe(m, sq[m].n - (c - b[head]), sq'[m])
          BY <1>4, <1>6, <1>8, <3>3
        <4>2. /\ IsWqe(sq'[m]) /\ sq'[m].state = "posted" /\ sq'[m].data = <<>> /\ ~sq'[m].has_rd_atomic
              /\ sq'[m].resid = sq[m].n - (c - b[head]) /\ sq'[m].n = sq[m].n
              /\ sq'[m].lkey = sq[m].lkey /\ (sq'[m].resid = sq'[m].n => sq'[m].iova = 0)
              /\ sq'[m].first_psn = sq[m].first_psn /\ sq'[m].last_psn = sq[m].last_psn
          BY <4>1 DEF RetriedWqe, SameWr
        <4>3. sq'[m].resid > 0 /\ sq[m].lkey /\ ~(m < cur') /\ ~(m > cur') /\ ~(m > posted)
          BY <1>2, <1>6, <1>8, <3>1, <3>3, <4>2
        <4>4. sq[m].first_psn = Wrap(b[m]) /\ sq[m].last_psn = Wrap(b[m + 1] - 1)
          BY <1>6, <3>1, <3>3 DEF WqeAt
        <4> QED
          BY <3>1, <4>2, <4>3, <4>4 DEF WqeAt
      <3>4. CASE m > head
        <4>1. RetriedWqe(m, sq[m].n, sq'[m])
          BY <1>4, <1>6, <1>8, <3>4
        <4>2. /\ IsWqe(sq'[m]) /\ sq'[m].state = "posted" /\ sq'[m].data = <<>> /\ ~sq'[m].has_rd_atomic
              /\ sq'[m].resid = sq[m].n /\ sq'[m].n = sq[m].n
              /\ (sq'[m].resid = sq'[m].n => sq'[m].iova = 0)
          BY <4>1 DEF RetriedWqe, SameWr
        <4>3. ~(m < cur') /\ ~(sq'[m].resid < sq'[m].n)
          BY <1>2, <1>6, <1>8, <3>1, <3>4, <4>2
        <4> QED
          BY <3>1, <4>2, <4>3 DEF WqeAt
      <3> QED
        BY <1>8, <3>2, <3>3, <3>4
    <2>2. Begun' <=> c > b[head]
      <3>1. (sq'[head].resid < sq'[head].n) <=> c > b[head]
        BY <1>6, <1>9
      <3>2. head <= Len(sq')
        BY <1>6, <1>8
      <3> QED
        BY <1>2, <3>1, <3>2 DEF Begun
    <2>3. req'.opcode = IF c > b[head] THEN sq'[cur'].op ELSE "none"
      BY <1>2, <1>9
    <2> QED
      BY <1>2, <1>8, <2>1, <2>2, <2>3 DEF WqesAt
  <1>12. NetAt(b, c, c)'
    <2>1. NetAt(b, c, r)'
      BY <1>1, <1>5, <1>7, NetKept
    <2>2. ASSUME NEW j \in 1 .. Len(reqnet) PROVE Stale(b, j)'
      <3>1. reqnet # <<>> /\ Len(reqnet) \in Nat
        <4>1. reqnet \in Seq(Requests)
          BY DEF RCInv, ReqNet
        <4> QED
          BY <4>1
      <3>2. resp.sent_psn_nak /\ AllAhead(b)
        BY <1>6, <3>1
      <3>3. \A l \in 1 .. j : place(b, reqnet[l]) > nexec
        BY <3>1, <3>2 DEF AllAhead
      <3>4. reqnet' = reqnet /\ resp' = resp
        BY <1>1
      <3> QED
        BY <1>7, <3>2, <3>3, <3>4 DEF Stale, place
    <2>3. reqnet' = reqnet
      BY <1>1
    <2> QED
      BY <2>1, <2>2, <2>3 DEF NetAt
  <1>13. Placed(b, c, c)'
    BY <1>7, <1>10, <1>11, <1>12 DEF Placed
  <1>14. Calls'
    <2>1. ASSUME NEW k \in 1 .. Len(sq) PROVE sq'[k].lkey = sq[k].lkey
      BY <1>7 DEF SameWork, SameWr
    <2> QED
      BY <1>1, <1>2, <1>5, <1>8, <2>1 DEF Calls
  <1>15. CompletedAt(b)'
    BY <1>1, <1>5, CompletedSame
  <1>16. AnswersAt(b, a)' /\ Total' = Total
    <2>1. Total' = Total
      BY <1>1 DEF Total
    <2> QED
      BY <1>1, <1>5, <1>7, <1>8, <2>1 DEF AnswersAt, Entry
  <1>17. InStep(b, c, c, a)'
    <2>1. /\ head + a <= Len(sq) + 1 /\ b[head + a] <= nexec
          /\ (head + a <= Len(sq) /\ resp.state = "READY" => nexec < b[head + a + 1])
          /\ b[head] <= c /\ (head <= Len(sq) => c < b[head + 1])
          /\ (resp.sent_psn_nak => c = nexec)
      BY <1>5, <1>6 DEF InStep
    <2>2. cur' >= head /\ cur' = head
      BY <1>2, <1>8
    <2>3. Total' = 0 /\ Total' # a + 1 /\ resp' = resp
      BY <1>1, <1>6, <1>16
    <2> QED
      BY <1>7, <1>8, <2>1, <2>2, <2>3 DEF InStep
  <1>18. Retrying(b)' /\ Timing'
    BY <1>1, <1>2, <1>6 DEF Retrying, Timing, TimedOut
  <1> QED
    BY <1>13, <1>14, <1>15, <1>16, <1>17, <1>18 DEF OrdInv, Running

LEMMA ReqOrder ==
  ASSUME RCInv, NEW b, NEW c \in Nat, NEW r \in Nat, NEW a \in Nat, OrdInv(b, c, r, a),
         ReqStep, [Readable]_vars
  PROVE  OrderInv'
  <1>1. CASE ReqError \/ ReqNone \/ ReqTestWait \/ ReqSetWait
    <2>1. OrdInv(b, c, r, a)'
      BY <1>1, SteadySteps
    <2> QED
      BY <2>1 DEF OrderInv
  <1>2. CASE ReqRetry
    <2>1. OrdInv(b, c, c, a)'
      BY <1>2, RetryStep
    <2> QED
      BY <2>1 DEF OrderInv
  <1>4. ASSUME NEW m \in Msgs, ReqSend(m) PROVE OrderInv'
    <2>1. OrdInv(b, c, r + 1, a)' /\ r + 1 \in Nat
      BY <1>4, SendStep
    <2> QED
      BY <2>1 DEF OrderInv
  <1> QED
    BY <1>1, <1>2, <1>4, NeverReq DEF ReqStep

-----------------------------------------------------------------------------
(* The responder and the network *)

\* Packets leave the network at its ends: reqnet' is a part of reqnet.
Shorter(s) ==
  /\ Len(reqnet') \in Nat /\ Len(reqnet') + s <= Len(reqnet)
  /\ \A j \in 1 .. Len(reqnet') : reqnet'[j] = reqnet[j + s]

LEMMA Shortened ==
  ASSUME RCInv, reqnet # <<>>
  PROVE  /\ Len(reqnet) \in Nat /\ Len(reqnet) > 0 /\ Head(reqnet) = reqnet[1]
         /\ reqnet' = Tail(reqnet) => Shorter(1)
         /\ reqnet' = Front(reqnet) => Shorter(0)
         /\ reqnet' = <<>> => Shorter(0)
  <1>1. reqnet \in Seq(Requests)
    BY DEF RCInv, ReqNet
  <1>2. Len(reqnet) \in Nat /\ Len(reqnet) > 0 /\ Head(reqnet) = reqnet[1]
    BY <1>1
  <1>3. ASSUME reqnet' = Tail(reqnet) PROVE Shorter(1)
    <2>1. Len(reqnet') = Len(reqnet) - 1 /\ \A j \in 1 .. Len(reqnet) - 1 : reqnet'[j] = reqnet[j + 1]
      BY <1>1, <1>2, <1>3
    <2> QED
      BY <1>2, <2>1 DEF Shorter
  <1>4. ASSUME reqnet' = Front(reqnet) PROVE Shorter(0)
    <2>0. reqnet' = SubSeq(reqnet, 1, Len(reqnet) - 1) /\ Len(reqnet) - 1 \in Nat
      BY <1>2, <1>4 DEF Front
    <2>1. /\ Len(reqnet') = Len(reqnet) - 1
          /\ \A j \in 1 .. Len(reqnet) - 1 : reqnet'[j] = reqnet[j]
      <3>1. PICK n \in Nat : n = Len(reqnet) - 1
        BY <2>0
      <3>2. \A i \in 1 .. n : reqnet[i] \in Requests
        BY <1>1, <1>2, <3>1
      <3>3. /\ Len(SubSeq(reqnet, 1, n)) = IF 1 <= n THEN n - 1 + 1 ELSE 0
            /\ \A i \in 1 .. n - 1 + 1 : SubSeq(reqnet, 1, n)[i] = reqnet[1 + i - 1]
        BY <3>2, SubSeqProperties
      <3>4. Len(SubSeq(reqnet, 1, n)) = n /\ 1 .. n - 1 + 1 = 1 .. n
        BY <3>3
      <3>5. ASSUME NEW i \in 1 .. n PROVE SubSeq(reqnet, 1, n)[i] = reqnet[i]
        <4>1. 1 + i - 1 = i
          OBVIOUS
        <4> QED
          BY <3>3, <3>4, <4>1
      <3> QED
        BY <2>0, <3>1, <3>4, <3>5
    <2>2. \A j \in 1 .. Len(reqnet) - 1 : j + 0 = j
      OBVIOUS
    <2> QED
      BY <1>2, <2>1, <2>2 DEF Shorter
  <1>5. ASSUME reqnet' = <<>> PROVE Shorter(0)
    BY <1>2, <1>5 DEF Shorter
  <1> QED
    BY <1>2, <1>3, <1>4, <1>5

LEMMA NetShorter ==
  ASSUME RCInv, NEW b, NEW c, NEW r, NetAt(b, c, r), SameWork, SameEnv, NEW s \in Nat, Shorter(s),
         \A j \in 1 .. Len(reqnet') : Stale(b, j + s) => Stale(b, j)'
  PROVE  NetAt(b, c, r)'
  <1>1. Len(reqnet) \in Nat /\ Len(reqnet') \in Nat /\ Len(reqnet') + s <= Len(reqnet)
    <2>1. reqnet \in Seq(Requests)
      BY DEF RCInv, ReqNet
    <2> QED
      BY <2>1 DEF Shorter
  <1>2. ASSUME NEW j \in 1 .. Len(reqnet') PROVE reqnet'[j] = reqnet[j + s] /\ j + s \in 1 .. Len(reqnet)
    BY <1>1 DEF Shorter
  <1>3. ASSUME NEW j \in 1 .. Len(reqnet')
        PROVE  /\ RequestAt(b, reqnet[j])'
               /\ c <= place(b, reqnet'[j]) /\ place(b, reqnet'[j]) <= c + env.max_gap
               /\ place(b, reqnet'[j]) < r \/ Stale(b, j)'
               /\ \A k \in j + 1 .. Len(reqnet') :
                    place(b, reqnet'[j]) < place(b, reqnet'[k]) \/ Stale(b, j)'
    <2>1. PICK q : q = reqnet[j + s] /\ q = reqnet'[j]
      BY <1>2
    <2>2. /\ RequestAt(b, q) /\ c <= place(b, q) /\ place(b, q) <= c + env.max_gap
          /\ place(b, q) < r \/ Stale(b, j + s)
          /\ \A k \in (j + s) + 1 .. Len(reqnet) : place(b, q) < place(b, reqnet[k]) \/ Stale(b, j + s)
      BY <1>2, <2>1 DEF NetAt
    <2>3. RequestAt(b, q)'
      BY <2>2 DEF RequestAt, SameWork, SameWr, place, starts, ends
    <2>4. ASSUME NEW k \in j + 1 .. Len(reqnet')
          PROVE  place(b, q) < place(b, reqnet'[k]) \/ Stale(b, j)'
      <3>1. k \in 1 .. Len(reqnet') /\ k + s \in (j + s) + 1 .. Len(reqnet)
        BY <1>1
      <3>2. reqnet'[k] = reqnet[k + s]
        BY <1>2, <3>1
      <3> QED
        BY <2>2, <3>1, <3>2
    <2>5. RequestAt(b, reqnet[j])'
      BY <2>1, <2>3
    <2> QED
      BY <2>1, <2>2, <2>4, <2>5
  <1>4. env'.max_gap = env.max_gap
    BY DEF SameEnv
  <1> QED
    BY <1>3, <1>4 DEF NetAt, place

\* What precedes in the network precedes still.
LEMMA StaleShorter ==
  ASSUME RCInv, NEW b, NEW s \in Nat, Shorter(s), nexec' = nexec,
         resp'.sent_psn_nak = resp.sent_psn_nak, NEW j \in 1 .. Len(reqnet'), Stale(b, j + s)
  PROVE  Stale(b, j)'
  <1>1. ASSUME NEW l \in 1 .. j PROVE place(b, reqnet'[l]) > nexec
    <2>1. l \in 1 .. Len(reqnet') /\ l + s \in 1 .. j + s
      BY DEF Shorter
    <2>2. reqnet'[l] = reqnet[l + s]
      BY <2>1 DEF Shorter
    <2> QED
      BY <2>1, <2>2 DEF Stale
  <1>2. resp.sent_psn_nak
    BY DEF Stale
  <1> QED
    BY <1>1, <1>2 DEF Stale, place

\* What was ahead is ahead, and nothing comes to lag.
LEMMA AheadShorter ==
  ASSUME RCInv, NEW b, NEW r, NEW s \in Nat, Shorter(s), nexec' = nexec
  PROVE  /\ AllAhead(b) => AllAhead(b)'
         /\ Lags(b, r)' => Lags(b, r)
  <1>1. Len(reqnet) \in Nat
    <2>1. reqnet \in Seq(Requests)
      BY DEF RCInv, ReqNet
    <2> QED
      BY <2>1
  <1>2. ASSUME NEW j \in 1 .. Len(reqnet') PROVE reqnet'[j] = reqnet[j + s] /\ j + s \in 1 .. Len(reqnet)
    BY <1>1 DEF Shorter
  <1>3. ASSUME AllAhead(b) PROVE AllAhead(b)'
    <2>1. ASSUME NEW j \in 1 .. Len(reqnet') PROVE place(b, reqnet'[j]) > nexec
      BY <1>2, <1>3 DEF AllAhead
    <2> QED
      BY <2>1 DEF AllAhead, place
  <1>4. ASSUME Lags(b, r)' PROVE Lags(b, r)
    <2>1. CASE r < nexec
      BY <2>1 DEF Lags
    <2>2. CASE \E j \in 1 .. Len(reqnet') : place(b, reqnet'[j]) < nexec
      <3>1. PICK j \in 1 .. Len(reqnet') : place(b, reqnet'[j]) < nexec
        BY <2>2
      <3>2. reqnet'[j] = reqnet[j + s] /\ j + s \in 1 .. Len(reqnet)
        BY <1>2
      <3> QED
        BY <3>1, <3>2 DEF Lags
    <2> QED
      BY <1>4, <2>1, <2>2 DEF Lags, place
  <1> QED
    BY <1>3, <1>4

\* The oldest request, against what the responder expects.
LEMMA OldestRequest ==
  ASSUME RCInv, NEW b, NEW c \in Nat, NEW r \in Nat, NEW a \in Nat, OrdInv(b, c, r, a), reqnet # <<>>
  PROVE  /\ RequestAt(b, reqnet[1]) /\ place(b, reqnet[1]) \in Nat /\ nexec \in Nat
         /\ c <= place(b, reqnet[1]) /\ place(b, reqnet[1]) <= c + env.max_gap
         /\ place(b, reqnet[1]) < r \/ Stale(b, 1)
         /\ \A k \in 2 .. Len(reqnet) : place(b, reqnet[1]) < place(b, reqnet[k]) \/ Stale(b, 1)
         /\ \A k \in 1 .. Len(reqnet) : RequestAt(b, reqnet[k]) /\ place(b, reqnet[k]) \in Nat
         /\ Stale(b, 1) => resp.sent_psn_nak /\ place(b, reqnet[1]) > nexec
         /\ psn_compare(reqnet[1].psn, resp.psn) = place(b, reqnet[1]) - nexec
  <1>1. Orderly /\ Bases(b) /\ Positions(b, c, r) /\ NetAt(b, c, r) /\ nexec \in Nat
    BY DEF OrdInv, Placed, ExecutedAt, nexec
  <1>2. 1 \in 1 .. Len(reqnet) /\ 1 + 1 = 2 /\ Len(reqnet) \in Nat
    BY Shortened
  <1>3. /\ RequestAt(b, reqnet[1])
        /\ c <= place(b, reqnet[1]) /\ place(b, reqnet[1]) <= c + env.max_gap
        /\ place(b, reqnet[1]) < r \/ Stale(b, 1)
        /\ \A k \in 2 .. Len(reqnet) : place(b, reqnet[1]) < place(b, reqnet[k]) \/ Stale(b, 1)
    BY <1>1, <1>2 DEF NetAt
  <1>4. ASSUME NEW k \in 1 .. Len(reqnet) PROVE RequestAt(b, reqnet[k]) /\ place(b, reqnet[k]) \in Nat
    <2>1. RequestAt(b, reqnet[k])
      BY <1>1 DEF NetAt
    <2> QED
      BY <1>1, <2>1, RequestPlace
  <1>5. Stale(b, 1) => resp.sent_psn_nak /\ place(b, reqnet[1]) > nexec
    BY DEF Stale
  <1>6. psn_compare(reqnet[1].psn, resp.psn) = place(b, reqnet[1]) - nexec
    <2>1. PICK x \in Nat : x = place(b, reqnet[1])
      BY <1>2, <1>4
    <2>2. env.max_gap \in Nat /\ env.max_gap + 1 < Half /\ Half \in Nat
      BY <1>1, Ground
    <2>3. c <= nexec /\ nexec <= c + env.max_gap + 1 /\ resp.psn = Wrap(nexec)
      BY <1>1 DEF Positions
    <2>4. - Half <= x - nexec /\ x - nexec < Half
      BY <1>1, <1>3, <2>1, <2>2, <2>3
    <2>5. psn_compare(Wrap(x), Wrap(nexec)) = x - nexec
      BY <1>1, <2>4, WrapCompare
    <2>6. reqnet[1].psn = Wrap(x)
      BY <1>3, <2>1 DEF RequestAt
    <2> QED
      BY <2>1, <2>3, <2>5, <2>6
  <1> QED
    BY <1>1, <1>2, <1>3, <1>4, <1>5, <1>6

LEMMA PendingFinite ==
  ASSUME RCInv, NEW b
  PROVE  IsFiniteSet(Pending(b)) /\ Cardinality(Pending(b)) \in Nat /\ IsFiniteSet(Sends)
  <1>1. Pending(b) \subseteq 1 .. Len(sq) /\ Sends \subseteq 1 .. Len(sq)
    BY DEF Pending, Sends
  <1>2. IsFiniteSet(1 .. Len(sq))
    <2>1. Len(sq) \in Nat
      BY WqesAre
    <2> QED
      BY <2>1, FS_Interval
  <1>3. IsFiniteSet(Pending(b)) /\ IsFiniteSet(Sends)
    BY <1>1, <1>2, FS_Subset
  <1> QED
    BY <1>3, FS_CardinalityType

\* What the responder decides: a request it expects is in sequence, and a receive
\* WQE is there for it.
LEMMA RequestDecision ==
  ASSUME RCInv, NEW b, NEW c \in Nat, NEW r \in Nat, NEW a \in Nat, OrdInv(b, c, r, a),
         reqnet # <<>>, resp.state # "ERROR"
  PROVE  /\ place(b, reqnet[1]) < nexec => get_req(reqnet[1]) = "DUPLICATE_REQUEST"
         /\ place(b, reqnet[1]) > nexec =>
              get_req(reqnet[1]) = IF resp.sent_psn_nak THEN "CLEANUP" ELSE "ERR_PSN_OUT_OF_SEQ"
         /\ place(b, reqnet[1]) = nexec =>
              /\ get_req(reqnet[1]) = IF reqnet[1].op # "send" /\ ~sq[reqnet[1].msg].rkey
                                      THEN "ERR_RKEY_VIOLATION" ELSE "EXECUTE"
              /\ reqnet[1].off = 0 => resp.opcode = "none"
              /\ reqnet[1].off > 0 => resp.opcode = reqnet[1].op /\ resp.va = reqnet[1].off
  <1>1. Orderly /\ Bases(b) /\ ExpectedAt(b) /\ Receives(b)
    BY DEF OrdInv, Placed
  <1>2. PICK p : p = reqnet[1]
    OBVIOUS
  <1>3. /\ RequestAt(b, p) /\ place(b, p) \in Nat /\ nexec \in Nat
        /\ psn_compare(p.psn, resp.psn) = place(b, p) - nexec
    BY <1>2, OldestRequest
  <1>4. resp.res = 0
    BY <1>1 DEF ExpectedAt
  <1>5. PICK d \in Int : d = psn_compare(p.psn, resp.psn) /\ d = place(b, p) - nexec
    BY <1>3
  <1>6. ASSUME place(b, p) < nexec PROVE get_req(p) = "DUPLICATE_REQUEST"
    <2>1. d < 0
      BY <1>3, <1>5, <1>6
    <2> QED
      BY <1>4, <1>5, <2>1 DEF get_req
  <1>7. ASSUME place(b, p) > nexec
        PROVE  get_req(p) = IF resp.sent_psn_nak THEN "CLEANUP" ELSE "ERR_PSN_OUT_OF_SEQ"
    <2>1. d > 0 /\ ~(d < 0)
      BY <1>3, <1>5, <1>7
    <2> QED
      BY <1>4, <1>5, <2>1 DEF get_req
  <1>8. ASSUME place(b, p) = nexec
        PROVE  /\ get_req(p) = IF p.op # "send" /\ ~sq[p.msg].rkey
                               THEN "ERR_RKEY_VIOLATION" ELSE "EXECUTE"
               /\ p.off = 0 => resp.opcode = "none"
               /\ p.off > 0 => resp.opcode = p.op /\ resp.va = p.off
    <2>1. d = 0
      BY <1>3, <1>5, <1>8
    <2>2. /\ p.msg \in 1 .. Len(sq) /\ p.off \in 0 .. sq[p.msg].n - 1 /\ p.op = sq[p.msg].op
          /\ (starts(p) <=> p.off = 0) /\ nexec = b[p.msg] + p.off
      BY <1>3, <1>8 DEF RequestAt, place
    <2>3. /\ p.off = 0 => resp.opcode = "none"
          /\ p.off > 0 => resp.opcode = p.op /\ resp.va = p.off
      BY <1>1, <2>2 DEF ExpectedAt
    <2>4. p.op \in {"send", "write"} /\ p.off \in Nat
      BY <1>1, <1>3, <2>2, WqeGround, RequestPlace
    <2>5. op_seq_ok(p)
      <3>1. CASE p.off = 0
        BY <2>2, <2>3, <3>1 DEF op_seq_ok
      <3>2. CASE p.off > 0
        BY <2>2, <2>3, <2>4, <3>2 DEF op_seq_ok
      <3> QED
        BY <2>4, <3>1, <3>2
    <2>6. p.op = "send" => rq # 0
      <3>1. SUFFICES ASSUME p.op = "send" PROVE rq # 0
        OBVIOUS
      <3>2. place(b, p) < b[p.msg + 1]
        BY <1>1, <1>3, RequestPlace
      <3>3. p.msg \in Pending(b)
        BY <1>8, <2>2, <3>1, <3>2 DEF Pending, Sends
      <3>4. Pending(b) # {} /\ IsFiniteSet(Pending(b)) /\ Cardinality(Pending(b)) \in Nat
        BY <3>3, PendingFinite
      <3>5. Cardinality(Pending(b)) # 0
        BY <3>4, FS_EmptySet
      <3>6. Cardinality(Pending(b)) <= rq /\ rq \in Nat
        BY <1>1 DEF Receives, RCInv, RespTypes
      <3> QED
        BY <3>4, <3>5, <3>6
    <2>7. get_req(p) = IF p.op # "send" /\ ~sq[p.msg].rkey THEN "ERR_RKEY_VIOLATION" ELSE "EXECUTE"
      BY <1>4, <1>5, <2>1, <2>5, <2>6 DEF get_req
    <2> QED
      BY <2>3, <2>7
  <1> QED
    BY <1>2, <1>6, <1>7, <1>8

\* Packets leave the network, and nothing is executed, or answered
\* unless the requester is in error.
LEMMA QuietStep ==
  ASSUME RCInv, NEW b, NEW c \in Nat, NEW r \in Nat, NEW a \in Nat, OrdInv(b, c, r, a), [Readable]_vars,
         UNCHANGED <<posted, sq, req, rpc, comp, cpc, cpkt, cqes, timers, executed>>,
         UNCHANGED <<run, respnet>> \/ (req.state = "ERROR" /\ reqnet # <<>>),
         NEW s \in Nat, Shorter(s),
         resp'.psn = resp.psn, resp'.opcode = resp.opcode, resp'.va = resp.va, resp'.res = resp.res,
         \/ resp'.state = resp.state
         \/ resp'.state = "ERROR" /\ ~resp'.sent_psn_nak /\ \E m \in 1 .. Len(sq) : ~sq[m].rkey,
         \/ resp'.sent_psn_nak = resp.sent_psn_nak
         \/ ~resp'.sent_psn_nak /\ reqnet # <<>> /\ place(b, reqnet[1]) = nexec,
         rq' = rq \/ resp'.state = "ERROR"
  PROVE  OrdInv(b, c, r, a)'
  <1>1. /\ Placed(b, c, r) /\ Calls /\ CompletedAt(b) /\ Orderly /\ Bases(b) /\ Positions(b, c, r)
        /\ WqesAt(b) /\ NetAt(b, c, r) /\ ExecutedAt(b) /\ ExpectedAt(b) /\ Receives(b)
    BY DEF OrdInv, Placed
  <1>2. Orderly' /\ Bases(b)' /\ SameWork /\ SameEnv /\ Sends' = Sends
    BY <1>1, WorkKept
  <1>3. nexec' = nexec /\ head' = head /\ cur' = cur
    BY DEF nexec, head, cur
  <1>4. Positions(b, c, r)'
    BY <1>1, <1>2, <1>3 DEF Positions, SameEnv
  <1>5. WqesAt(b)'
    <2>1. ASSUME NEW m \in 1 .. Len(sq) PROVE WqeAt(b, m)'
      <3>1. WqeAt(b, m)
        BY <1>1 DEF WqesAt
      <3> QED
        BY <1>3, <3>1 DEF WqeAt
    <2>2. Begun' <=> Begun
      BY <1>3 DEF Begun
    <2> QED
      BY <1>1, <1>3, <2>1, <2>2 DEF WqesAt
  <1>6. /\ resp'.sent_psn_nak # resp.sent_psn_nak =>
             ~AllAhead(b) /\ \A j \in 1 .. Len(reqnet) : ~Stale(b, j)
        /\ Len(reqnet) \in Nat /\ (reqnet = <<>> => reqnet' = <<>>)
    <2>0. Len(reqnet) \in Nat /\ (reqnet = <<>> => reqnet' = <<>>)
      <3>1. reqnet \in Seq(Requests) /\ reqnet' \in Seq(Requests')
        BY RCStep DEF RCInv, ReqNet
      <3>2. reqnet = <<>> => Len(reqnet') = 0
        BY DEF Shorter
      <3> QED
        BY <3>1, <3>2
    <2>2. ASSUME resp'.sent_psn_nak # resp.sent_psn_nak
          PROVE  ~AllAhead(b) /\ \A j \in 1 .. Len(reqnet) : ~Stale(b, j)
      <3>0. reqnet # <<>> /\ place(b, reqnet[1]) = nexec
        BY <2>2
      <3>4. Len(reqnet) > 0
        BY <3>0, Shortened
      <3>3. 1 \in 1 .. Len(reqnet) /\ nexec \in Nat
        BY <1>1, <2>0, <3>4 DEF ExecutedAt, nexec
      <3>1. ~(place(b, reqnet[1]) > nexec)
        BY <3>0, <3>3
      <3>2. ASSUME NEW j \in 1 .. Len(reqnet) PROVE 1 \in 1 .. j
        BY <2>0
      <3> QED
        BY <3>1, <3>2, <3>3 DEF AllAhead, Stale
    <2> QED
      BY <2>0, <2>2
  <1>7. NetAt(b, c, r)'
    <2>1. ASSUME NEW j \in 1 .. Len(reqnet'), Stale(b, j + s) PROVE Stale(b, j)'
      <3>1. j + s \in 1 .. Len(reqnet)
        BY <1>6 DEF Shorter
      <3>3. resp'.sent_psn_nak = resp.sent_psn_nak
        BY <1>6, <2>1, <3>1
      <3> QED
        BY <1>3, <2>1, <3>3, StaleShorter
    <2> QED
      BY <1>1, <1>2, <2>1, NetShorter
  <1>8. ExecutedAt(b)'
    <2>1. sq' = sq /\ executed' = executed
      OBVIOUS
    <2> QED
      BY <1>1, <2>1 DEF ExecutedAt, nexec
  <1>9. ExpectedAt(b)'
    <2>1. \/ resp'.state = "READY"
          \/ /\ resp'.state = "ERROR" /\ ~resp'.sent_psn_nak
             /\ \E m \in 1 .. Len(sq) : ~sq[m].rkey
      BY <1>1 DEF ExpectedAt
    <2> QED
      BY <1>1, <1>3, <2>1 DEF ExpectedAt
  <1>10. Receives(b)'
    <2>1. Pending(b)' = Pending(b)
      BY <1>2, <1>3 DEF Pending
    <2> QED
      BY <1>1, <2>1 DEF Receives
  <1>11. Placed(b, c, r)'
    BY <1>2, <1>4, <1>5, <1>7, <1>8, <1>9, <1>10 DEF Placed
  <1>12. Calls'
    <2>1. posted = 0 => reqnet' = <<>> /\ run' = run
      BY <1>1, <1>6 DEF Calls
    <2> QED
      BY <1>1, <1>2, <2>1 DEF Calls, SameEnv
  <1>13. CompletedAt(b)'
    BY <1>1, CompletedSame
  <1>14. ASSUME req.state # "ERROR" PROVE Running(b, c, r, a)'
    <2>1. AnswersAt(b, a) /\ InStep(b, c, r, a) /\ Retrying(b) /\ Timing
      BY <1>14, Active
    <2>8. UNCHANGED <<run, respnet>> /\ Total' = Total
      BY <1>14 DEF Total
    <2>2. AnswersAt(b, a)'
      BY <1>3, <2>1, <2>8 DEF AnswersAt, Entry
    <2>3. (AllAhead(b) => AllAhead(b)') /\ (Lags(b, r)' => Lags(b, r))
      BY <1>3, AheadShorter
    <2>4. AllAhead(b) => resp'.sent_psn_nak = resp.sent_psn_nak
      BY <1>6
    <2>5. InStep(b, c, r, a)'
      <3>1. Total = a + 1 => resp'.sent_psn_nak /\ r > nexec /\ AllAhead(b)'
        BY <2>1, <2>3, <2>4 DEF InStep
      <3>2. resp'.sent_psn_nak => Total = a + 1 \/ c = nexec
        BY <2>1 DEF InStep
      <3> QED
        BY <1>3, <2>1, <2>3, <2>8, <3>1, <3>2 DEF InStep
    <2>6. Retrying(b)'
      <3>1. req.need_retry /\ reqnet' # <<>> => resp'.sent_psn_nak /\ AllAhead(b)'
        BY <1>6, <2>1, <2>3, <2>4 DEF Retrying
      <3> QED
        BY <1>3, <2>1, <2>8, <3>1 DEF Retrying
    <2>7. Timing'
      <3>1. (TimedOut' <=> TimedOut) /\ (TimedOut => reqnet' = <<>>)
        BY <1>6, <2>1 DEF Timing, TimedOut
      <3> QED
        BY <1>2, <2>1, <2>8, <3>1 DEF Timing, SameEnv
    <2> QED
      BY <2>2, <2>5, <2>6, <2>7 DEF Running
  <1> QED
    BY <1>11, <1>12, <1>13, <1>14 DEF OrdInv

LEMMA NeverResp ==
  ASSUME RCInv, NEW b, NEW c \in Nat, NEW r \in Nat, NEW a \in Nat, OrdInv(b, c, r, a),
         \/ RespRnr \/ RespAtomic \/ RespRead \/ RespReadNext \/ RespDupRead \/ RespDupAtomic
         \/ Responder("ERR_INVALID_REQ")
  PROVE  FALSE
  <1>1. PICK st : Responder(st) /\ \/ st \in {"ERR_RNR", "READ_REPLY", "ERR_INVALID_REQ"}
                                   \/ IsReadAtomic(Head(reqnet).op)
    BY DEF RespRnr, RespAtomic, RespRead, RespReadNext, RespDupRead, RespDupAtomic, IsReadAtomic
  <1>2. resp.state # "ERROR" /\ reqnet # <<>> /\ get_req(Head(reqnet)) = st /\ Head(reqnet) = reqnet[1]
    BY <1>1, Shortened DEF Responder
  <1>3. RequestAt(b, reqnet[1]) /\ Orderly /\ place(b, reqnet[1]) \in Nat /\ nexec \in Nat
    BY <1>2, OldestRequest DEF OrdInv, Placed
  <1>4. ~IsReadAtomic(reqnet[1].op)
    BY <1>3, WqeGround DEF RequestAt
  <1>5. st \notin {"ERR_RNR", "READ_REPLY", "ERR_INVALID_REQ"}
    <2>1. CASE place(b, reqnet[1]) < nexec
      BY <1>2, <2>1, RequestDecision
    <2>2. CASE place(b, reqnet[1]) > nexec
      BY <1>2, <2>2, RequestDecision
    <2>3. CASE place(b, reqnet[1]) = nexec
      BY <1>2, <2>3, RequestDecision
    <2> QED
      BY <1>3, <2>1, <2>2, <2>3
  <1> QED
    BY <1>1, <1>2, <1>4, <1>5

\* The last packet of a message is no duplicate while the requester is not in error.
LEMMA DuplicateInside ==
  ASSUME RCInv, NEW b, NEW c \in Nat, NEW r \in Nat, NEW a \in Nat, OrdInv(b, c, r, a),
         req.state # "ERROR", resp.state # "ERROR", reqnet # <<>>, place(b, reqnet[1]) < nexec
  PROVE  ~ends(reqnet[1])
  <1>1. Orderly /\ Bases(b) /\ InStep(b, c, r, a) /\ AnswersAt(b, a) /\ ExpectedAt(b)
    BY Active
  <1>2. PICK p : p = reqnet[1]
    OBVIOUS
  <1>3. PICK x \in Nat : x = place(b, p)
    BY <1>2, OldestRequest
  <1>4. RequestAt(b, p) /\ c <= x /\ nexec \in Nat /\ x < nexec
    BY <1>2, <1>3, OldestRequest
  <1>5. Total = 0
    <2>1. 1 \in 1 .. Len(reqnet)
      BY Shortened
    <2> QED
      BY <1>1, <2>1 DEF InStep, Lags
  <1>6. a = 0
    BY <1>1, <1>5 DEF AnswersAt
  <1>7. /\ head \in 1 .. Len(sq) + 1 /\ Len(sq) \in Nat /\ b[head] \in Nat
    BY <1>1, Ground
  <1>8. /\ b[head] <= c /\ (head <= Len(sq) => nexec < b[head + 1])
    <2>1. head + a = head
      BY <1>6, <1>7
    <2>2. resp.state = "READY"
      BY <1>1 DEF ExpectedAt
    <2> QED
      BY <1>1, <2>1, <2>2 DEF InStep
  <1>9. /\ p.msg \in 1 .. Len(sq) /\ b[p.msg] <= x /\ x < b[p.msg + 1] /\ p.off \in Nat
        /\ x = b[p.msg] + p.off
    <2>1. p.msg \in 1 .. Len(sq) /\ b[p.msg] <= x /\ x < b[p.msg + 1] /\ p.off \in Nat
      BY <1>1, <1>3, <1>4, RequestPlace
    <2> QED
      BY <1>3, <2>1 DEF place
  <1>10. b[head] <= x
    BY <1>4, <1>7, <1>8
  <1>11. head <= p.msg /\ (head <= Len(sq) /\ x < b[head + 1] => head = p.msg)
    BY <1>1, <1>7, <1>9, <1>10, OnePlace
  <1>12. head = p.msg
    <2>1. head <= Len(sq)
      BY <1>7, <1>9, <1>11
    <2>2. b[head + 1] \in Nat
      BY <1>1, <1>7, <2>1, Ground
    <2> QED
      BY <1>4, <1>8, <1>11, <2>1, <2>2
  <1>13. b[p.msg + 1] = b[p.msg] + sq[p.msg].n /\ sq[p.msg].n \in Nat /\ b[p.msg] \in Nat
    BY <1>1, <1>9, Ground, WqeGround
  <1>14. p.off # sq[p.msg].n - 1
    <2>1. PICK y \in Nat, z \in Nat, n \in Nat : y = b[p.msg] /\ z = p.off /\ n = sq[p.msg].n
      BY <1>9, <1>13
    <2>2. x = y + z /\ x < nexec /\ nexec < y + n
      BY <1>4, <1>8, <1>9, <1>12, <1>13, <2>1
    <2>3. z # n - 1
      BY <1>4, <2>2
    <2> QED
      BY <2>1, <2>3
  <1>15. ends(p) <=> p.off = sq[p.msg].n - 1
    BY <1>4 DEF RequestAt
  <1> QED
    BY <1>2, <1>14, <1>15

LEMMA QuietSteps ==
  ASSUME RCInv, NEW b, NEW c \in Nat, NEW r \in Nat, NEW a \in Nat, OrdInv(b, c, r, a), [Readable]_vars,
         RespDrop \/ RespError \/ RespFlush \/ RespDupSendWrite \/ LoseRequest \/ DropRequest
  PROVE  OrdInv(b, c, r, a)'
  <1>1. CASE RespDrop
    <2>1. /\ reqnet # <<>> /\ reqnet' = Tail(reqnet)
          /\ UNCHANGED <<posted, sq, req, rpc, comp, cpc, cpkt, cqes, run, timers, respnet, executed, resp, rq>>
      BY <1>1 DEF RespDrop, Responder, cleanup, silent, reqvars, compvars, respvars
    <2>2. Shorter(1)
      BY <2>1, Shortened
    <2> QED
      BY <2>1, <2>2, QuietStep
  <1>2. CASE RespError
    <2>1. /\ Responder("ERR_RKEY_VIOLATION") /\ reqnet # <<>> /\ reqnet' = Tail(reqnet)
          /\ resp.state # "ERROR" /\ get_req(Head(reqnet)) = "ERR_RKEY_VIOLATION"
      BY <1>2, NeverResp DEF RespError, Responder, cleanup
    <2>2. Shorter(1) /\ Head(reqnet) = reqnet[1]
      BY <2>1, Shortened
    <2>3. /\ RequestAt(b, reqnet[1]) /\ place(b, reqnet[1]) \in Nat /\ nexec \in Nat /\ Orderly
      BY <2>1, OldestRequest DEF OrdInv, Placed
    <2>4. place(b, reqnet[1]) = nexec
      <3>1. ~(place(b, reqnet[1]) < nexec)
        BY <2>1, <2>2, RequestDecision
      <3>2. ~(place(b, reqnet[1]) > nexec)
        BY <2>1, <2>2, RequestDecision
      <3> QED
        BY <2>3, <3>1, <3>2
    <2>5. /\ reqnet[1].op # "send" /\ ~sq[reqnet[1].msg].rkey
          /\ reqnet[1].off = 0 => resp.opcode = "none"
          /\ reqnet[1].off > 0 => resp.opcode = reqnet[1].op
      BY <2>1, <2>2, <2>4, RequestDecision
    <2>6. reqnet[1].msg \in 1 .. Len(sq) /\ reqnet[1].off \in Nat
      <3>1. Bases(b)
        BY DEF OrdInv, Placed
      <3> QED
        BY <2>3, <3>1, RequestPlace
    <2>7. resp.opcode # "send"
      BY <2>5, <2>6
    <2>8. /\ UNCHANGED <<posted, sq, req, rpc, comp, cpc, cpkt, cqes, run, timers, respnet, executed, rq>>
          /\ resp' = [resp EXCEPT !.sent_psn_nak = FALSE, !.state = "ERROR"]
      BY <1>2, <2>7 DEF RespError, silent, reqvars, compvars
    <2>9. /\ resp'.psn = resp.psn /\ resp'.opcode = resp.opcode /\ resp'.va = resp.va
          /\ resp'.res = resp.res /\ resp'.state = "ERROR" /\ ~resp'.sent_psn_nak
      <3>1. DOMAIN resp = RespFields
        BY DEF RCInv, RespTypes
      <3> QED
        BY <2>8, <3>1 DEF RespFields
    <2>10. \E m \in 1 .. Len(sq) : ~sq[m].rkey
      BY <2>5, <2>6
    <2> QED
      BY <2>1, <2>2, <2>4, <2>8, <2>9, <2>10, QuietStep
  <1>3. CASE RespFlush
    <2>1. /\ reqnet' = <<>> /\ resp.state = "ERROR"
          /\ UNCHANGED <<posted, sq, req, rpc, comp, cpc, cpkt, cqes, run, timers, respnet, executed, resp>>
      BY <1>3 DEF RespFlush, reqvars, compvars
    <2>2. Shorter(0)
      <3>1. CASE reqnet # <<>>
        BY <2>1, <3>1, Shortened
      <3>2. CASE reqnet = <<>>
        BY <2>1, <3>2 DEF Shorter
      <3> QED
        BY <3>1, <3>2
    <2> QED
      BY <2>1, <2>2, QuietStep
  <1>4. CASE RespDupSendWrite
    <2>1. /\ reqnet # <<>> /\ reqnet' = Tail(reqnet) /\ resp.state # "ERROR"
          /\ get_req(Head(reqnet)) = "DUPLICATE_REQUEST"
          /\ UNCHANGED <<posted, sq, req, rpc, comp, cpc, cpkt, cqes, timers, executed, resp, rq>>
          /\ IF ends(Head(reqnet)) THEN send_ack("ack", resp.psn - 1) ELSE silent
      BY <1>4 DEF RespDupSendWrite, Responder, cleanup, reqvars, compvars, respvars
    <2>2. Shorter(1) /\ Head(reqnet) = reqnet[1]
      BY <2>1, Shortened
    <2>3. place(b, reqnet[1]) \in Nat /\ nexec \in Nat
      BY <2>1, OldestRequest
    <2>4. place(b, reqnet[1]) < nexec
      <3>1. ~(place(b, reqnet[1]) = nexec)
        BY <2>1, <2>2, RequestDecision
      <3>2. ~(place(b, reqnet[1]) > nexec)
        BY <2>1, <2>2, RequestDecision
      <3> QED
        BY <2>3, <3>1, <3>2
    <2>5. UNCHANGED <<run, respnet>> \/ (req.state = "ERROR" /\ reqnet # <<>>)
      BY <2>1, <2>2, <2>4, DuplicateInside DEF silent
    <2> QED
      BY <2>1, <2>2, <2>5, QuietStep
  <1>5. CASE LoseRequest
    <2>1. /\ reqnet # <<>> /\ reqnet' = Tail(reqnet)
          /\ UNCHANGED <<posted, sq, req, rpc, comp, cpc, cpkt, cqes, run, timers, respnet, executed, resp, rq>>
      BY <1>5 DEF LoseRequest, reqvars, compvars, respvars
    <2>2. Shorter(1)
      BY <2>1, Shortened
    <2> QED
      BY <2>1, <2>2, QuietStep
  <1>6. CASE DropRequest
    <2>1. /\ reqnet # <<>> /\ reqnet' = Front(reqnet)
          /\ UNCHANGED <<posted, sq, req, rpc, comp, cpc, cpkt, cqes, run, timers, respnet, executed, resp, rq>>
      BY <1>6 DEF DropRequest, reqvars, compvars, respvars
    <2>2. Shorter(0)
      BY <2>1, Shortened
    <2> QED
      BY <2>1, <2>2, QuietStep
  <1> QED
    BY <1>1, <1>2, <1>3, <1>4, <1>5, <1>6

\* One more answer, after acknowledgements only: an acknowledgement, or the NAK.
LEMMA AnswersMore ==
  ASSUME RCInv, NEW b, NEW a \in Nat, AnswersAt(b, a), Total = a, NEW e \in {a, a + 1}, NEW x,
         respnet' = Append(respnet, x), UNCHANGED <<cpc, cpkt, cqes>>, Entry(b, e, x, a + 1)'
  PROVE  AnswersAt(b, e)' /\ Total' = a + 1
  <1>1. /\ Len(cpkt) \in Nat /\ Len(respnet) \in Nat /\ Len(respnet') = Len(respnet) + 1
        /\ respnet'[Len(respnet) + 1] = x
        /\ \A k \in 1 .. Len(respnet) : respnet'[k] = respnet[k]
        /\ cpkt # <<>> => Len(cpkt) # 0
    <2>1. respnet \in Seq(Answers) /\ cpkt \in Seq(Answers)
      BY DEF RCInv, RespNet
    <2> QED
      BY <2>1
  <1>2. PICK y \in Nat, z \in Nat : y = Len(cpkt) /\ z = Len(respnet)
    BY <1>1
  <1>3. y + z = a /\ Len(respnet') = z + 1 /\ y = Len(cpkt') /\ head' = head
    BY <1>1, <1>2 DEF Total, head
  <1>4. Total' = a + 1
    BY <1>2, <1>3 DEF Total
  <1>5. ASSUME NEW w, NEW k \in Nat, k <= a, Entry(b, a, w, k) PROVE Entry(b, e, w, k)'
    <2>1. k <= e /\ ~(k > e)
      BY <1>5
    <2> QED
      BY <1>3, <1>5, <2>1 DEF Entry
  <1>6. ASSUME NEW k \in 1 .. Len(respnet') PROVE Entry(b, e, respnet[k], Len(cpkt) + k)'
    <2>1. CASE k = z + 1
      <3>1. respnet'[k] = x /\ Len(cpkt') + k = a + 1
        BY <1>1, <1>2, <1>3, <2>1
      <3> QED
        BY <3>1
    <2>2. CASE k # z + 1
      <3>1. k \in 1 .. Len(respnet) /\ y + k \in Nat /\ y + k <= a
        BY <1>2, <1>3, <2>2
      <3>2. Entry(b, a, respnet[k], y + k)
        BY <1>2, <3>1 DEF AnswersAt
      <3>3. PICK w : w = respnet[k] /\ w = respnet'[k]
        BY <1>1, <3>1
      <3>4. Entry(b, e, w, y + k)'
        BY <1>5, <3>1, <3>2, <3>3
      <3> QED
        BY <1>3, <3>3, <3>4
    <2> QED
      BY <2>1, <2>2
  <1>7. ASSUME cpkt # <<>> PROVE Entry(b, e, cpkt[1], 1)'
    <2>1. 1 <= a
      BY <1>1, <1>2, <1>3, <1>7
    <2>2. PICK w : w = cpkt[1]
      OBVIOUS
    <2>3. Entry(b, a, w, 1)
      BY <1>7, <2>2 DEF AnswersAt
    <2>4. Entry(b, e, w, 1)'
      BY <1>5, <2>1, <2>3
    <2> QED
      BY <2>2, <2>4
  <1>8. Len(cpkt') <= 1 /\ (cpc' = "idle" => cpkt' = <<>>)
    BY DEF AnswersAt
  <1>9. Total' = e \/ Total' = e + 1
    BY <1>4
  <1> QED
    BY <1>4, <1>6, <1>7, <1>8, <1>9 DEF AnswersAt

LEMMA WrapMod == ASSUME NEW x \in Nat PROVE Wrap(x) % PsnMod = Wrap(x)
  <1>1. PsnMod \in Nat \ {0} /\ Wrap(x) \in 0 .. PsnMod - 1
    BY HalfIs, WrapIs DEF PSN
  <1>2. PICK y \in 0 .. PsnMod - 1 : y = Wrap(x)
    BY <1>1
  <1>3. y % PsnMod = y
    BY <1>1
  <1> QED
    BY <1>2, <1>3

LEMMA OutOfSeqStep ==
  ASSUME RCInv, NEW b, NEW c \in Nat, NEW r \in Nat, NEW a \in Nat, OrdInv(b, c, r, a), [Readable]_vars,
         RespOutOfSeq
  PROVE  OrdInv(b, c, r, a)'
  <1>1. /\ reqnet # <<>> /\ reqnet' = Tail(reqnet) /\ resp.state # "ERROR"
        /\ get_req(Head(reqnet)) = "ERR_PSN_OUT_OF_SEQ"
        /\ UNCHANGED <<posted, sq, req, rpc, comp, cpc, cpkt, cqes, timers, executed, rq, env>>
        /\ resp' = [resp EXCEPT !.sent_psn_nak = TRUE]
        /\ respnet' = Append(respnet, response("nak_seq", "only", resp.psn, 0, 0))
        /\ run' = run \cup {"comp"}
    BY DEF RespOutOfSeq, Responder, cleanup, reqvars, compvars, send_ack, send
  <1>2. /\ Placed(b, c, r) /\ Calls /\ CompletedAt(b) /\ Orderly /\ Bases(b) /\ Positions(b, c, r)
        /\ WqesAt(b) /\ NetAt(b, c, r) /\ ExecutedAt(b) /\ ExpectedAt(b) /\ Receives(b)
    BY DEF OrdInv, Placed
  <1>3. Shorter(1) /\ Head(reqnet) = reqnet[1] /\ Len(reqnet) \in Nat
    BY <1>1, Shortened
  <1>4. /\ place(b, reqnet[1]) \in Nat /\ nexec \in Nat
        /\ place(b, reqnet[1]) < r \/ Stale(b, 1)
        /\ \A k \in 2 .. Len(reqnet) : place(b, reqnet[1]) < place(b, reqnet[k]) \/ Stale(b, 1)
        /\ \A k \in 1 .. Len(reqnet) : place(b, reqnet[k]) \in Nat
        /\ Stale(b, 1) => resp.sent_psn_nak
    BY <1>1, OldestRequest
  <1>5. place(b, reqnet[1]) > nexec /\ ~resp.sent_psn_nak
    <2>1. ~(place(b, reqnet[1]) = nexec)
      BY <1>1, <1>3, RequestDecision
    <2>2. ~(place(b, reqnet[1]) < nexec)
      BY <1>1, <1>3, RequestDecision
    <2>3. place(b, reqnet[1]) > nexec
      BY <1>4, <2>1, <2>2
    <2> QED
      BY <1>1, <1>3, <2>3, RequestDecision
  <1>6. Orderly' /\ Bases(b)' /\ SameWork /\ SameEnv /\ Sends' = Sends
    BY <1>2, WorkKept
  <1>7. nexec' = nexec /\ head' = head /\ cur' = cur
    BY <1>1 DEF nexec, head, cur
  <1>8. /\ resp'.psn = resp.psn /\ resp'.opcode = resp.opcode /\ resp'.va = resp.va
        /\ resp'.res = resp.res /\ resp'.state = resp.state /\ resp'.sent_psn_nak
    <2>1. DOMAIN resp = RespFields
      BY DEF RCInv, RespTypes
    <2> QED
      BY <1>1, <2>1 DEF RespFields
  <1>9. Positions(b, c, r)'
    BY <1>1, <1>2, <1>7, <1>8 DEF Positions
  <1>10. WqesAt(b)'
    <2>1. ASSUME NEW m \in 1 .. Len(sq) PROVE WqeAt(b, m)'
      <3>1. WqeAt(b, m)
        BY <1>2 DEF WqesAt
      <3> QED
        BY <1>1, <1>7, <3>1 DEF WqeAt
    <2>2. Begun' <=> Begun
      BY <1>1, <1>7 DEF Begun
    <2> QED
      BY <1>1, <1>2, <1>7, <2>1, <2>2 DEF WqesAt
  <1>11. NetAt(b, c, r)'
    <2>1. \A j : ~Stale(b, j)
      BY <1>5 DEF Stale
    <2> QED
      BY <1>2, <1>3, <1>6, <2>1, NetShorter
  <1>12. ExecutedAt(b)'
    <2>1. sq' = sq /\ executed' = executed
      BY <1>1
    <2> QED
      BY <1>2, <2>1 DEF ExecutedAt, nexec
  <1>13. ExpectedAt(b)'
    BY <1>1, <1>2, <1>7, <1>8 DEF ExpectedAt
  <1>14. Receives(b)'
    <2>1. Pending(b)' = Pending(b)
      BY <1>1, <1>6, <1>7 DEF Pending
    <2> QED
      BY <1>1, <1>2, <1>8, <2>1 DEF Receives
  <1>15. Placed(b, c, r)'
    BY <1>6, <1>9, <1>10, <1>11, <1>12, <1>13, <1>14 DEF Placed
  <1>16. Calls'
    <2>1. posted # 0
      BY <1>1, <1>2 DEF Calls
    <2> QED
      BY <1>1, <1>2, <2>1 DEF Calls
  <1>17. CompletedAt(b)'
    BY <1>1, <1>2, CompletedSame
  <1>18. ASSUME req.state # "ERROR" PROVE Running(b, c, r, a)'
    <2>1. AnswersAt(b, a) /\ InStep(b, c, r, a) /\ Retrying(b) /\ Timing /\ Total \in Nat
      BY <1>18, Active
    <2>2. Total = a
      BY <1>5, <2>1 DEF AnswersAt, InStep
    <2>3. PICK x : x = response("nak_seq", "only", resp.psn, 0, 0)
      OBVIOUS
    <2>4. x.kind = "nak_seq" /\ x.pos = "only" /\ x.psn = Wrap(nexec)
      <3>1. resp.psn = Wrap(nexec)
        BY <1>2 DEF Positions
      <3>2. Wrap(nexec) % PsnMod = Wrap(nexec)
        BY <1>4, WrapMod
      <3>3. x.kind = "nak_seq" /\ x.pos = "only" /\ x.psn = resp.psn % PsnMod
        BY <2>3 DEF response
      <3> QED
        BY <3>1, <3>2, <3>3
    <2>5. Entry(b, a, x, a + 1)'
      BY <1>7, <2>4 DEF Entry
    <2>6. AnswersAt(b, a)' /\ Total' = a + 1
      BY <1>1, <2>1, <2>2, <2>3, <2>5, AnswersMore
    <2>7. r > nexec
      BY <1>4, <1>5
    <2>8. ASSUME NEW j \in 1 .. Len(reqnet') PROVE place(b, reqnet'[j]) > nexec
      <3>1. j + 1 \in 2 .. Len(reqnet) /\ reqnet'[j] = reqnet[j + 1]
        BY <1>3 DEF Shorter
      <3>2. place(b, reqnet[1]) < place(b, reqnet[j + 1])
        BY <1>4, <1>5, <3>1
      <3>3. place(b, reqnet[j + 1]) \in Nat
        BY <1>4, <3>1
      <3> QED
        BY <1>4, <1>5, <3>1, <3>2, <3>3
    <2>9. AllAhead(b)' /\ ~Lags(b, r)'
      <3>1. ASSUME NEW j \in 1 .. Len(reqnet') PROVE ~(place(b, reqnet'[j]) < nexec)
        <4>1. place(b, reqnet'[j]) \in Nat
          <5>1. j + 1 \in 1 .. Len(reqnet) /\ reqnet'[j] = reqnet[j + 1]
            BY <1>3 DEF Shorter
          <5> QED
            BY <1>4, <5>1
        <4> QED
          BY <1>4, <2>8, <4>1
      <3>2. ~(r < nexec)
        BY <1>4, <2>7
      <3> QED
        BY <1>7, <2>8, <3>1, <3>2 DEF AllAhead, Lags, place
    <2>10. InStep(b, c, r, a)'
      BY <1>1, <1>7, <1>8, <2>1, <2>6, <2>7, <2>9 DEF InStep
    <2>11. Retrying(b)' /\ Timing'
      BY <1>1, <1>5, <2>1 DEF Retrying, Timing, TimedOut
    <2> QED
      BY <2>6, <2>10, <2>11 DEF Running
  <1> QED
    BY <1>1, <1>15, <1>16, <1>17, <1>18 DEF OrdInv

\* The execution of a request: the packet is the one expected, and placed right.
LEMMA ExecuteEffect ==
  ASSUME RCInv, NEW b, NEW c \in Nat, NEW r \in Nat, NEW a \in Nat, OrdInv(b, c, r, a),
         RespSendWrite
  PROVE  /\ reqnet # <<>> /\ Shorter(1) /\ resp.state # "ERROR"
         /\ UNCHANGED <<posted, sq, req, rpc, comp, cpc, cpkt, cqes, timers, env>>
         /\ RequestAt(b, reqnet[1]) /\ place(b, reqnet[1]) = nexec /\ nexec \in Nat
         /\ executed' = Append(executed, <<reqnet[1].msg, reqnet[1].off, reqnet[1].off>>)
         /\ nexec' = nexec + 1 /\ resp'.psn = Wrap(nexec + 1)
         /\ resp'.opcode = IF ends(reqnet[1]) THEN "none" ELSE reqnet[1].op
         /\ resp'.va = reqnet[1].off + 1 /\ ~resp'.sent_psn_nak
         /\ resp'.res = resp.res /\ resp'.state = resp.state
         /\ rq' = IF reqnet[1].op = "send" /\ ends(reqnet[1]) THEN rq - 1 ELSE rq
         /\ IF ends(reqnet[1])
              THEN /\ \E x : /\ respnet' = Append(respnet, x) /\ x.kind = "ack" /\ x.pos = "only"
                             /\ x.psn = Wrap(nexec)
                   /\ run' = run \cup {"comp"}
              ELSE UNCHANGED <<respnet, run>>
  <1>1. PICK p : p = Head(reqnet)
    OBVIOUS
  <1>2. PICK va : va = (IF starts(p) THEN p.va ELSE resp.va)
    OBVIOUS
  <1>3. /\ reqnet # <<>> /\ reqnet' = Tail(reqnet) /\ resp.state # "ERROR" /\ get_req(p) = "EXECUTE"
        /\ UNCHANGED <<posted, sq, req, rpc, comp, cpc, cpkt, cqes, timers, env>>
        /\ executed' = Append(executed, <<p.msg, p.off, va>>)
        /\ resp' = [resp EXCEPT !.psn = psn_add(p.psn, 1), !.sent_psn_nak = FALSE,
                                !.opcode = IF ends(p) THEN "none" ELSE p.op, !.va = va + 1]
        /\ rq' = IF p.op = "send" /\ ends(p) THEN rq - 1 ELSE rq
        /\ IF ends(p) THEN send_ack("ack", p.psn) ELSE silent
    BY <1>1, <1>2 DEF RespSendWrite, Responder, cleanup, reqvars, compvars
  <1>4. Shorter(1) /\ p = reqnet[1]
    BY <1>1, <1>3, Shortened
  <1>5. /\ RequestAt(b, p) /\ place(b, p) \in Nat /\ nexec \in Nat
    BY <1>3, <1>4, OldestRequest
  <1>6. place(b, p) = nexec
    <2>1. ~(place(b, p) < nexec)
      BY <1>3, <1>4, RequestDecision
    <2>2. ~(place(b, p) > nexec)
      BY <1>3, <1>4, RequestDecision
    <2> QED
      BY <1>5, <2>1, <2>2
  <1>7. /\ p.off = 0 => resp.opcode = "none"
        /\ p.off > 0 => resp.opcode = p.op /\ resp.va = p.off
    BY <1>3, <1>4, <1>6, RequestDecision
  <1>8. Bases(b) /\ Orderly
    BY DEF OrdInv, Placed
  <1>9. va = p.off /\ p.off \in Nat
    <2>1. p.off \in Nat
      BY <1>5, <1>8, RequestPlace
    <2>2. (starts(p) <=> p.off = 0) /\ (p.off = 0 => p.va = 0)
      BY <1>5 DEF RequestAt
    <2> QED
      BY <1>2, <1>7, <2>1, <2>2
  <1>10. p.psn = Wrap(nexec) /\ psn_add(p.psn, 1) = Wrap(nexec + 1)
    <2>1. p.psn = Wrap(nexec)
      BY <1>5, <1>6 DEF RequestAt
    <2> QED
      BY <1>5, <2>1, WrapAdd
  <1>11. /\ resp'.psn = Wrap(nexec + 1) /\ resp'.va = p.off + 1 /\ ~resp'.sent_psn_nak
         /\ resp'.opcode = IF ends(p) THEN "none" ELSE p.op
         /\ resp'.res = resp.res /\ resp'.state = resp.state
    <2>1. DOMAIN resp = RespFields
      BY DEF RCInv, RespTypes
    <2>2. PICK o : o = IF ends(p) THEN "none" ELSE p.op
      OBVIOUS
    <2>3. resp' = [resp EXCEPT !.psn = Wrap(nexec + 1), !.sent_psn_nak = FALSE, !.opcode = o,
                               !.va = p.off + 1]
      BY <1>3, <1>9, <1>10, <2>2
    <2>4. /\ resp'.psn = Wrap(nexec + 1) /\ resp'.va = p.off + 1 /\ ~resp'.sent_psn_nak
          /\ resp'.opcode = o /\ resp'.res = resp.res /\ resp'.state = resp.state
      BY <2>1, <2>3 DEF RespFields
    <2> QED
      BY <2>2, <2>4
  <1>12. nexec' = nexec + 1
    <2>1. executed \in Seq(Execution)
      BY DEF OrdInv, Placed, ExecutedAt
    <2>2. PICK e : executed' = Append(executed, e)
      BY <1>3
    <2> QED
      BY <2>1, <2>2 DEF nexec
  <1>13. ASSUME ends(p)
         PROVE  /\ \E x : /\ respnet' = Append(respnet, x) /\ x.kind = "ack" /\ x.pos = "only"
                          /\ x.psn = Wrap(nexec)
                /\ run' = run \cup {"comp"}
    <2>1. PICK x : x = response("ack", "only", p.psn, 0, 0)
      OBVIOUS
    <2>2. x.kind = "ack" /\ x.pos = "only" /\ x.psn = p.psn % PsnMod
      BY <2>1 DEF response
    <2>3. x.psn = Wrap(nexec)
      BY <1>5, <1>10, <2>2, WrapMod
    <2>4. respnet' = Append(respnet, x) /\ run' = run \cup {"comp"}
      BY <1>3, <1>13, <2>1 DEF send_ack, send
    <2> QED
      BY <2>2, <2>3, <2>4
  <1>14. ~ends(p) => UNCHANGED <<respnet, run>>
    BY <1>3 DEF silent
  <1>15. executed' = Append(executed, <<p.msg, p.off, p.off>>)
    BY <1>3, <1>9
  <1>16. rq' = IF p.op = "send" /\ ends(p) THEN rq - 1 ELSE rq
    BY <1>3
  <1>17. /\ reqnet # <<>> /\ resp.state # "ERROR"
         /\ UNCHANGED <<posted, sq, req, rpc, comp, cpc, cpkt, cqes, timers, env>>
    BY <1>3
  <1> QED
    BY <1>4, <1>5, <1>6, <1>11, <1>12, <1>13, <1>14, <1>15, <1>16, <1>17

LEMMA AppendParts ==
  ASSUME NEW S, NEW s \in Seq(S), NEW e \in S
  PROVE  /\ Append(s, e)[Len(s) + 1] = e
         /\ \A j \in 1 .. Len(s) : Append(s, e)[j] = s[j]
  OBVIOUS

LEMMA ExecutePlaced ==
  ASSUME RCInv, NEW b, NEW c \in Nat, NEW r \in Nat, NEW a \in Nat, OrdInv(b, c, r, a),
         RespSendWrite, [Readable]_vars
  PROVE  Placed(b, c, r)' /\ Calls' /\ CompletedAt(b)'
  <1>1. PICK p : p = reqnet[1]
    OBVIOUS
  <1>2. /\ reqnet # <<>> /\ Shorter(1) /\ resp.state # "ERROR"
        /\ UNCHANGED <<posted, sq, req, rpc, comp, cpc, cpkt, cqes, timers, env>>
    BY ExecuteEffect
  <1>3. /\ RequestAt(b, p) /\ place(b, p) = nexec /\ nexec \in Nat
        /\ executed' = Append(executed, <<p.msg, p.off, p.off>>)
        /\ nexec' = nexec + 1 /\ resp'.psn = Wrap(nexec + 1)
    BY <1>1, ExecuteEffect
  <1>4. /\ resp'.opcode = IF ends(p) THEN "none" ELSE p.op
        /\ resp'.va = p.off + 1 /\ ~resp'.sent_psn_nak
        /\ resp'.res = resp.res /\ resp'.state = resp.state
        /\ rq' = IF p.op = "send" /\ ends(p) THEN rq - 1 ELSE rq
    BY <1>1, ExecuteEffect
  <1>5. /\ Placed(b, c, r) /\ Calls /\ CompletedAt(b) /\ Orderly /\ Bases(b) /\ Positions(b, c, r)
        /\ WqesAt(b) /\ NetAt(b, c, r) /\ ExecutedAt(b) /\ ExpectedAt(b) /\ Receives(b)
    BY DEF OrdInv, Placed
  <1>6. Orderly' /\ Bases(b)' /\ SameWork /\ SameEnv /\ Sends' = Sends
    BY <1>5, WorkKept
  <1>7. head' = head /\ cur' = cur
    BY <1>2 DEF head, cur
  <1>8. /\ p.msg \in 1 .. Len(sq) /\ p.off \in Nat /\ b[p.msg] \in Nat /\ b[p.msg + 1] \in Nat
        /\ sq[p.msg].n \in Nat /\ b[p.msg + 1] = b[p.msg] + sq[p.msg].n /\ nexec = b[p.msg] + p.off
        /\ p.off < sq[p.msg].n /\ b[p.msg] <= nexec /\ nexec < b[p.msg + 1]
        /\ p.op = sq[p.msg].op /\ Len(sq) \in Nat
        /\ ends(p) <=> p.off = sq[p.msg].n - 1
    <2>1. /\ p.msg \in 1 .. Len(sq) /\ p.op = sq[p.msg].op /\ p.off \in 0 .. sq[p.msg].n - 1
          /\ ends(p) <=> p.off = sq[p.msg].n - 1
      BY <1>3 DEF RequestAt
    <2>2. b[p.msg] <= nexec /\ nexec < b[p.msg + 1] /\ p.off \in Nat
      BY <1>3, <1>5, RequestPlace
    <2>3. /\ b[p.msg] \in Nat /\ b[p.msg + 1] \in Nat /\ sq[p.msg].n \in Nat /\ Len(sq) \in Nat
          /\ b[p.msg + 1] = b[p.msg] + sq[p.msg].n
      BY <1>5, <2>1, Ground, WqeGround
    <2>4. nexec = b[p.msg] + p.off
      BY <1>3 DEF place
    <2> QED
      BY <2>1, <2>2, <2>3, <2>4
  <1>18. /\ ends(p) => b[p.msg + 1] = nexec + 1
         /\ ~ends(p) => nexec + 1 < b[p.msg + 1]
    <2>1. PICK x \in Nat, y \in Nat, n \in Nat, k \in Nat :
            x = b[p.msg] /\ y = b[p.msg + 1] /\ n = sq[p.msg].n /\ k = p.off
      BY <1>8
    <2>2. y = x + n /\ nexec = x + k /\ k < n /\ (ends(p) <=> k = n - 1)
      BY <1>8, <2>1
    <2>3. (k = n - 1 => y = nexec + 1) /\ (k # n - 1 => nexec + 1 < y)
      BY <2>2
    <2> QED
      BY <2>1, <2>2, <2>3
  <1>19. ASSUME NEW m \in 1 .. Len(sq), b[m] <= nexec, nexec < b[m + 1] PROVE m = p.msg
    <2>1. PICK q \in 1 .. Len(sq) : q = p.msg
      BY <1>8
    <2>2. b[q] <= nexec /\ nexec < b[q + 1] /\ m \in 1 .. Len(sq) + 1 /\ m <= Len(sq)
      BY <1>8, <2>1
    <2>3. m <= q /\ (m <= Len(sq) /\ nexec < b[m + 1] => m = q)
      BY <1>3, <1>5, <1>19, <2>2, OnePlace
    <2> QED
      BY <1>19, <2>1, <2>2, <2>3
  <1>9. Positions(b, c, r)'
    <2>1. c <= place(b, p) /\ place(b, p) <= c + env.max_gap /\ env.max_gap \in Nat
      BY <1>1, <1>2, <1>5, OldestRequest, Ground
    <2>2. c <= nexec + 1 /\ nexec + 1 <= c + env.max_gap + 1
      BY <1>3, <2>1
    <2> QED
      BY <1>2, <1>3, <1>5, <1>7, <2>2 DEF Positions
  <1>10. WqesAt(b)'
    <2>1. ASSUME NEW m \in 1 .. Len(sq) PROVE WqeAt(b, m)'
      <3>1. WqeAt(b, m)
        BY <1>5 DEF WqesAt
      <3> QED
        BY <1>2, <1>7, <3>1 DEF WqeAt
    <2>2. Begun' <=> Begun
      BY <1>2, <1>7 DEF Begun
    <2> QED
      BY <1>2, <1>5, <1>7, <2>1, <2>2 DEF WqesAt
  <1>11. NetAt(b, c, r)'
    <2>1. ASSUME NEW j \in 1 .. Len(reqnet') PROVE ~Stale(b, j + 1)
      <3>1. 1 \in 1 .. j + 1 /\ ~(place(b, reqnet[1]) > nexec)
        BY <1>1, <1>2, <1>3 DEF Shorter
      <3> QED
        BY <3>1 DEF Stale
    <2> QED
      BY <1>2, <1>5, <1>6, <2>1, NetShorter
  <1>12. ExecutedAt(b)'
    <2>1. PICK e : e = <<p.msg, p.off, p.off>>
      OBVIOUS
    <2>2. executed \in Seq(Execution) /\ executed' = Append(executed, e)
      BY <1>3, <1>5, <2>1 DEF ExecutedAt
    <2>3. e \in Execution
      BY <1>8, <2>1 DEF Execution
    <2>4. executed' \in Seq(Execution)
      BY <2>2, <2>3
    <2>5. /\ executed'[nexec + 1] = e
          /\ \A j \in 1 .. nexec : executed'[j] = executed[j]
      <3>1. PICK n \in Nat : n = Len(executed) /\ n = nexec
        BY <1>3 DEF nexec
      <3>2. executed'[n + 1] = e /\ \A j \in 1 .. n : executed'[j] = executed[j]
        <4>1. PICK S : S = Execution
          OBVIOUS
        <4>2. executed \in Seq(S) /\ e \in S
          BY <2>2, <2>3, <4>1, Zenon
        <4>3. /\ Append(executed, e)[Len(executed) + 1] = e
              /\ \A j \in 1 .. Len(executed) : Append(executed, e)[j] = executed[j]
          BY <4>2, AppendParts
        <4> QED
          BY <2>2, <3>1, <4>3, Zenon
      <3> QED
        BY <3>1, <3>2
    <2>6. ASSUME NEW j \in 1 .. nexec + 1
          PROVE  \E m \in 1 .. Len(sq) : \E k \in 0 .. sq[m].n - 1 :
                    executed'[j] = <<m, k, k>> /\ j = b[m] + k + 1
      <3>1. CASE j = nexec + 1
        <4>1. p.off \in 0 .. sq[p.msg].n - 1 /\ j = b[p.msg] + p.off + 1
          <5>1. PICK x \in Nat, n \in Nat, k \in Nat : x = b[p.msg] /\ n = sq[p.msg].n /\ k = p.off
            BY <1>8
          <5>2. k < n /\ nexec = x + k
            BY <1>8, <5>1
          <5>3. k \in 0 .. n - 1 /\ j = x + k + 1
            BY <3>1, <5>2
          <5> QED
            BY <5>1, <5>3
        <4>2. executed'[j] = <<p.msg, p.off, p.off>>
          BY <2>1, <2>5, <3>1
        <4> QED
          BY <1>8, <4>1, <4>2
      <3>2. CASE j # nexec + 1
        <4>1. j \in 1 .. nexec
          BY <1>3, <3>2
        <4>2. executed'[j] = executed[j]
          BY <2>5, <4>1
        <4>3. \A i \in 1 .. nexec : \E m \in 1 .. Len(sq) : \E k \in 0 .. sq[m].n - 1 :
                 executed[i] = <<m, k, k>> /\ i = b[m] + k + 1
          BY <1>5 DEF ExecutedAt
        <4>4. \E m \in 1 .. Len(sq) : \E k \in 0 .. sq[m].n - 1 :
                 executed[j] = <<m, k, k>> /\ j = b[m] + k + 1
          BY <4>1, <4>3, Zenon
        <4> QED
          BY <4>2, <4>4, Zenon
      <3> QED
        BY <3>1, <3>2
    <2> QED
      BY <1>2, <1>3, <2>4, <2>6 DEF ExecutedAt
  <1>13. ExpectedAt(b)'
    <2>1. ASSUME NEW m \in 1 .. Len(sq), NEW k \in 0 .. sq[m].n - 1, nexec + 1 = b[m] + k
          PROVE  /\ k = 0 => resp'.opcode = "none"
                 /\ k > 0 => resp'.opcode = sq[m].op /\ resp'.va = k
      <3>1. b[m] \in Nat /\ b[m + 1] = b[m] + sq[m].n /\ sq[m].n \in Nat /\ k \in Nat /\ k < sq[m].n
        <4>1. b[m] \in Nat /\ b[m + 1] = b[m] + sq[m].n
          BY <1>5, Ground
        <4>2. PICK n \in Nat : n = sq[m].n
          BY <1>5, WqeGround
        <4>3. k \in Nat /\ k < n
          BY <4>2
        <4> QED
          BY <4>1, <4>2, <4>3
      <3>2. CASE k = 0
        <4>1. ends(p)
          <5>1. SUFFICES ASSUME ~ends(p) PROVE FALSE
            OBVIOUS
          <5>2. nexec + 1 < b[p.msg + 1] /\ b[p.msg] <= nexec + 1 /\ nexec + 1 \in Nat
            <6>1. PICK x \in Nat : x = b[p.msg] /\ x <= nexec
              BY <1>8
            <6>2. x <= nexec + 1 /\ nexec + 1 \in Nat
              BY <1>3, <6>1
            <6> QED
              BY <1>18, <5>1, <6>1, <6>2
          <5>3. b[m] <= nexec + 1 /\ nexec + 1 < b[m + 1]
            <6>1. PICK x \in Nat, n \in Nat : x = b[m] /\ n = sq[m].n
              BY <3>1
            <6>2. nexec + 1 = x /\ 0 < n /\ b[m + 1] = x + n
              BY <2>1, <3>1, <3>2, <6>1
            <6>3. x <= x /\ x < x + n
              BY <6>2
            <6> QED
              BY <6>1, <6>2, <6>3
          <5>4. m = p.msg
            <6>1. PICK q \in 1 .. Len(sq), x \in Nat : q = p.msg /\ x = nexec + 1
              BY <1>8, <5>2
            <6>2. b[q] <= x /\ x < b[q + 1] /\ b[m] <= x /\ x < b[m + 1]
              BY <5>2, <5>3, <6>1
            <6>3. m \in 1 .. Len(sq) + 1 /\ m <= Len(sq)
              BY <1>8
            <6>4. m <= q /\ (m <= Len(sq) /\ x < b[m + 1] => m = q)
              BY <1>5, <6>2, <6>3, OnePlace
            <6> QED
              BY <6>1, <6>2, <6>3, <6>4
          <5>5. b[m] <= nexec
            BY <1>8, <5>4
          <5> QED
            BY <1>3, <2>1, <3>1, <3>2, <5>5
        <4> QED
          BY <1>4, <3>2, <4>1
      <3>3. CASE k > 0
        <4>1. b[m] <= nexec /\ nexec < b[m + 1]
          <5>1. PICK x \in Nat, n \in Nat : x = b[m] /\ n = sq[m].n
            BY <3>1
          <5>2. nexec + 1 = x + k /\ k < n /\ b[m + 1] = x + n
            BY <2>1, <3>1, <5>1
          <5>3. x <= nexec /\ nexec < x + n
            BY <1>3, <3>1, <3>3, <5>2
          <5> QED
            BY <5>1, <5>2, <5>3
        <4>2. m = p.msg
          BY <1>19, <4>1
        <4>3. k = p.off + 1 /\ ~ends(p)
          <5>1. PICK x \in Nat, y \in Nat : x = b[m] /\ y = p.off
            BY <1>8, <3>1
          <5>2. nexec + 1 = x + k /\ nexec = x + y
            BY <1>8, <2>1, <4>2, <5>1
          <5>3. k = y + 1
            BY <3>1, <5>2
          <5>4. y + 1 < sq[m].n
            BY <3>1, <5>3
          <5>5. y # sq[m].n - 1
            BY <3>1, <5>4
          <5> QED
            BY <1>8, <4>2, <5>1, <5>3, <5>5
        <4> QED
          BY <1>4, <1>8, <3>3, <4>2, <4>3
      <3> QED
        BY <3>1, <3>2, <3>3
    <2> QED
      BY <1>2, <1>3, <1>4, <1>5, <2>1 DEF ExpectedAt
  <1>14. Receives(b)'
    <2>1. Pending(b)' = {m \in Sends : b[m + 1] > nexec + 1}
      BY <1>3, <1>6 DEF Pending
    <2>2. Pending(b)' \subseteq Pending(b)
      <3>1. ASSUME NEW m \in Sends, b[m + 1] > nexec + 1 PROVE b[m + 1] > nexec
        <4>1. b[m + 1] \in Nat
          BY <1>5, Ground DEF Sends
        <4> QED
          BY <1>3, <3>1, <4>1
      <3> QED
        BY <2>1, <3>1 DEF Pending
    <2>3. IsFiniteSet(Pending(b)) /\ Cardinality(Pending(b)) \in Nat /\ rq \in Nat
      BY PendingFinite DEF RCInv, RespTypes
    <2>4. Cardinality(Pending(b)) <= rq
      BY <1>2, <1>5 DEF Receives
    <2>5. PICK S : S = Pending(b)'
      OBVIOUS
    <2>6. IsFiniteSet(S) /\ Cardinality(S) \in Nat
      <3>1. IsFiniteSet(S)
        BY <2>2, <2>3, <2>5, FS_Subset
      <3> QED
        BY <3>1, FS_CardinalityType
    <2>7. CASE p.op = "send" /\ ends(p)
      <3>1. p.msg \in Pending(b) /\ p.msg \notin S
        <4>1. b[p.msg + 1] = nexec + 1
          BY <1>18, <2>7
        <4>2. p.msg \in Sends
          BY <1>8, <2>7 DEF Sends
        <4>3. b[p.msg + 1] > nexec /\ ~(b[p.msg + 1] > nexec + 1)
          BY <1>3, <4>1
        <4> QED
          BY <2>1, <2>5, <4>2, <4>3 DEF Pending
      <3>2. S \subseteq Pending(b) \ {p.msg}
        BY <2>2, <2>5, <3>1
      <3>3. Cardinality(Pending(b) \ {p.msg}) = Cardinality(Pending(b)) - 1
            /\ IsFiniteSet(Pending(b) \ {p.msg})
        BY <2>3, <3>1, FS_RemoveElement
      <3>4. Cardinality(S) <= Cardinality(Pending(b) \ {p.msg})
        BY <3>2, <3>3, FS_Subset
      <3>5. Cardinality(S) <= rq - 1
        BY <2>3, <2>4, <2>6, <3>3, <3>4
      <3>6. rq' = rq - 1
        BY <1>4, <2>7
      <3> QED
        BY <2>5, <3>5, <3>6 DEF Receives
    <2>8. CASE ~(p.op = "send" /\ ends(p))
      <3>1. Cardinality(S) <= Cardinality(Pending(b))
        BY <2>2, <2>3, <2>5, FS_Subset
      <3>2. rq' = rq
        BY <1>4, <2>8
      <3>3. Cardinality(S) <= rq
        BY <2>3, <2>4, <2>6, <3>1
      <3> QED
        BY <2>5, <3>2, <3>3 DEF Receives
    <2> QED
      BY <2>7, <2>8
  <1>15. Placed(b, c, r)'
    BY <1>6, <1>9, <1>10, <1>11, <1>12, <1>13, <1>14 DEF Placed
  <1>16. Calls'
    <2>1. posted # 0
      BY <1>2, <1>5 DEF Calls
    <2> QED
      BY <1>2, <1>5, <2>1 DEF Calls
  <1>17. CompletedAt(b)'
    <2>1. ASSUME NEW k \in 1 .. Len(cqes), cqes[k].status = "SUCCESS"
          PROVE  b[k + 1] <= nexec + 1 /\ cqes[k].data = <<>>
      <3>1. b[k + 1] <= nexec /\ cqes[k].data = <<>>
        BY <1>5, <2>1 DEF CompletedAt
      <3>2. k + 1 \in 1 .. Len(sq) + 1
        <4>1. head \in 1 .. Len(sq) + 1 /\ head = Len(cqes) + 1 /\ Len(cqes) \in Nat
          BY <1>5, Ground
        <4> QED
          BY <1>8, <4>1
      <3>3. b[k + 1] \in Nat
        BY <1>5, <3>2, Ground
      <3> QED
        BY <1>3, <3>1, <3>3
    <2>2. cqes' = cqes
      BY <1>2
    <2> QED
      BY <1>3, <2>1, <2>2 DEF CompletedAt
  <1> QED
    BY <1>15, <1>16, <1>17

\* The answers under way stay what they are while one packet more is executed.
LEMMA AnswersSame ==
  ASSUME RCInv, NEW b, NEW a \in Nat, AnswersAt(b, a), Total = a, UNCHANGED <<respnet, cpc, cpkt, cqes>>
  PROVE  AnswersAt(b, a)' /\ Total' = a
  <1>1. Len(cpkt) \in Nat /\ Len(respnet) \in Nat /\ (cpkt # <<>> => Len(cpkt) >= 1)
    <2>1. respnet \in Seq(Answers) /\ cpkt \in Seq(Answers)
      BY DEF RCInv, RespNet
    <2> QED
      BY <2>1
  <1>2. head' = head
    BY DEF head
  <1>3. PICK x \in Nat, y \in Nat : x = Len(cpkt) /\ y = Len(respnet) /\ x + y = a
    BY <1>1 DEF Total
  <1>4. ASSUME NEW k \in 1 .. Len(respnet) PROVE Entry(b, a, respnet[k], Len(cpkt) + k)'
    <2>1. Entry(b, a, respnet[k], Len(cpkt) + k)
      BY DEF AnswersAt
    <2>2. PICK z \in Nat : z = Len(cpkt) + k /\ z <= a
      BY <1>3
    <2>3. PICK u : u = respnet[k]
      OBVIOUS
    <2>4. Entry(b, a, u, z) /\ ~(z > a)
      BY <2>1, <2>2, <2>3
    <2>5. Entry(b, a, u, z)'
      BY <1>2, <2>4 DEF Entry
    <2>6. respnet'[k] = u /\ Len(cpkt') + k = z
      BY <2>2, <2>3
    <2> QED
      BY <2>5, <2>6, Zenon DEF Entry
  <1>5. cpkt # <<>> => Entry(b, a, cpkt[1], 1)'
    <2>1. SUFFICES ASSUME cpkt # <<>> PROVE Entry(b, a, cpkt[1], 1)'
      OBVIOUS
    <2>2. Entry(b, a, cpkt[1], 1)
      BY <2>1 DEF AnswersAt
    <2>3. ~(1 > a)
      <3>1. Len(cpkt) >= 1
        BY <1>1, <2>1
      <3> QED
        BY <1>3, <3>1
    <2> QED
      BY <1>2, <2>2, <2>3 DEF Entry
  <1>6. Total' = Total
    BY DEF Total
  <1> QED
    BY <1>4, <1>5, <1>6 DEF AnswersAt

LEMMA ExecuteStep ==
  ASSUME RCInv, NEW b, NEW c \in Nat, NEW r \in Nat, NEW a \in Nat, OrdInv(b, c, r, a),
         RespSendWrite, [Readable]_vars
  PROVE  \E e \in Nat : OrdInv(b, c, r, e)'
  <1>1. PICK p : p = reqnet[1]
    OBVIOUS
  <1>2. /\ reqnet # <<>> /\ Shorter(1)
        /\ UNCHANGED <<posted, sq, req, rpc, comp, cpc, cpkt, cqes, timers, env>>
    BY ExecuteEffect
  <1>3. /\ RequestAt(b, p) /\ place(b, p) = nexec /\ nexec \in Nat
        /\ nexec' = nexec + 1 /\ ~resp'.sent_psn_nak
    BY <1>1, ExecuteEffect
  <1>4. Placed(b, c, r)' /\ Calls' /\ CompletedAt(b)' /\ req'.state = req.state
    BY <1>2, ExecutePlaced
  <1>5. CASE req.state = "ERROR"
    BY <1>4, <1>5 DEF OrdInv
  <1>6. CASE req.state # "ERROR"
    <2>1. /\ AnswersAt(b, a) /\ InStep(b, c, r, a) /\ Retrying(b) /\ Timing /\ Total \in Nat
          /\ Orderly /\ Bases(b) /\ ExpectedAt(b)
      BY <1>6, Active
    <2>2. 1 \in 1 .. Len(reqnet) /\ ~AllAhead(b) /\ Len(reqnet) \in Nat
      <3>1. 1 \in 1 .. Len(reqnet) /\ Len(reqnet) \in Nat
        BY <1>2, Shortened
      <3> QED
        BY <1>1, <1>3, <3>1 DEF AllAhead
    <2>3. Total = a /\ ~req.need_retry /\ ~TimedOut
      BY <1>2, <2>1, <2>2 DEF AnswersAt, InStep, Retrying, Timing
    <2>4. head' = head /\ cur' = cur
      BY <1>2 DEF head, cur
    <2>5. ~Stale(b, 1)
      BY <1>1, <1>3 DEF Stale
    <2>6. /\ nexec < r
          /\ \A k \in 2 .. Len(reqnet) : nexec < place(b, reqnet[k])
          /\ \A k \in 1 .. Len(reqnet) : place(b, reqnet[k]) \in Nat
      BY <1>1, <1>2, <1>3, <2>5, OldestRequest
    <2>7. ~Lags(b, r)'
      <3>1. ASSUME NEW j \in 1 .. Len(reqnet') PROVE ~(place(b, reqnet'[j]) < nexec + 1)
        <4>1. j + 1 \in 2 .. Len(reqnet) /\ j + 1 \in 1 .. Len(reqnet) /\ reqnet'[j] = reqnet[j + 1]
          BY <1>2, <2>2 DEF Shorter
        <4>2. nexec < place(b, reqnet[j + 1]) /\ place(b, reqnet[j + 1]) \in Nat
          BY <2>6, <4>1
        <4>3. PICK z \in Nat : z = place(b, reqnet[j + 1])
          BY <4>2
        <4>4. ~(z < nexec + 1)
          BY <1>3, <4>2, <4>3
        <4> QED
          BY <4>1, <4>3, <4>4
      <3>2. ~(r < nexec + 1)
        BY <1>3, <2>6
      <3> QED
        BY <1>3, <3>1, <3>2 DEF Lags, place
    <2>8. PICK q \in 1 .. Len(sq) : q = p.msg
      BY <1>3 DEF RequestAt
    <2>9. /\ Len(sq) \in Nat /\ b[q] \in Nat /\ b[q + 1] \in Nat /\ b[q + 1] = b[q] + sq[q].n
          /\ sq[q].n \in Nat
      BY <2>1, <2>8, Ground, WqeGround
    <2>10. /\ b[q] <= nexec /\ nexec < b[q + 1]
           /\ ends(p) => b[q + 1] = nexec + 1
           /\ ~ends(p) => nexec + 1 < b[q + 1]
      <3>1. PICK x \in Nat, y \in Nat, n \in Nat : x = b[q] /\ y = b[q + 1] /\ n = sq[q].n
        BY <2>9
      <3>2. PICK k \in 0 .. n - 1 : k = p.off
        BY <1>3, <2>8, <3>1 DEF RequestAt
      <3>3. nexec = x + k /\ y = x + n /\ (ends(p) <=> k = n - 1)
        BY <1>3, <2>8, <2>9, <3>1, <3>2 DEF RequestAt, place
      <3>4. x <= nexec /\ nexec < y /\ (k = n - 1 => y = nexec + 1) /\ (k # n - 1 => nexec + 1 < y)
        BY <3>2, <3>3
      <3> QED
        BY <3>1, <3>3, <3>4
    <2>11. head \in Nat /\ head >= 1
      BY <2>1, <2>9, Ground
    <2>12. PICK l \in Nat : l = head + a
      BY <2>11
    <2>13. l \in 1 .. Len(sq) + 1 /\ b[l] <= nexec /\ (l <= Len(sq) => nexec < b[l + 1])
      <3>1. l <= Len(sq) + 1 /\ b[l] <= nexec /\ (l <= Len(sq) => nexec < b[l + 1])
        <4>1. resp.state = "READY"
          BY <2>1 DEF ExpectedAt, RespSendWrite, Responder
        <4> QED
          BY <2>1, <2>12, <4>1 DEF InStep
      <3> QED
        BY <2>9, <2>11, <2>12, <3>1
    <2>14. l = q
      <3>1. l <= q /\ (l <= Len(sq) /\ nexec < b[l + 1] => l = q)
        BY <1>3, <2>1, <2>10, <2>13, OnePlace
      <3>2. l <= Len(sq)
        BY <2>9, <2>13, <3>1
      <3> QED
        BY <2>13, <3>1, <3>2
    <2>15. Retrying(b)' /\ Timing'
      <3>1. rpc' = rpc /\ env' = env /\ posted' = posted /\ ~req'.need_retry /\ ~TimedOut'
        BY <1>2, <2>3 DEF TimedOut
      <3>2. cpc' = "wqe" => ~comp'.timeout
        BY <1>2, <2>1 DEF Timing
      <3> QED
        BY <3>1, <3>2 DEF Retrying, Timing
    <2>16. /\ b[head] <= c /\ (head <= Len(sq) => c < b[head + 1]) /\ cur >= head
           /\ cur <= Len(sq) /\ sq[cur].state \in {"posted", "error"} =>
                /\ cur = head => r = c
                /\ cur # head => sq[cur].resid = sq[cur].n
      BY <2>1 DEF InStep
    <2>17. CASE ends(p)
      <3>1. PICK x : /\ respnet' = Append(respnet, x) /\ x.kind = "ack" /\ x.pos = "only"
                     /\ x.psn = Wrap(nexec)
        BY <1>1, <2>17, ExecuteEffect
      <3>2. PICK e \in Nat : e = a + 1
        OBVIOUS
      <3>3. head + e = q + 1 /\ b[q + 1] = nexec + 1
        BY <2>10, <2>11, <2>12, <2>14, <2>17, <3>2
      <3>4. b[q + 1] - 1 = nexec
        BY <1>3, <3>3
      <3>5. Entry(b, e, x, a + 1)'
        <4>1. ~(a + 1 > e) /\ b[head + e] - 1 = nexec /\ head + (a + 1) = head + e
          BY <3>2, <3>3, <3>4
        <4> QED
          BY <2>4, <3>1, <4>1 DEF Entry
      <3>6. AnswersAt(b, e)' /\ Total' = e
        BY <1>2, <2>1, <2>3, <3>1, <3>2, <3>5, AnswersMore
      <3>7. /\ head + e <= Len(sq) + 1 /\ b[head + e] <= nexec + 1
            /\ head + e <= Len(sq) => nexec + 1 < b[head + e + 1]
        <4>1. head + e <= Len(sq) + 1 /\ b[head + e] <= nexec + 1
          BY <1>3, <2>9, <3>3
        <4>2. ASSUME head + e <= Len(sq) PROVE nexec + 1 < b[head + e + 1]
          <5>1. PICK m \in 1 .. Len(sq) : m = q + 1
            BY <2>9, <3>3, <4>2
          <5>2. b[m] \in Nat /\ b[m + 1] = b[m] + sq[m].n /\ sq[m].n \in Nat /\ sq[m].n > 0
            BY <2>1, Ground, WqeGround
          <5>3. PICK y \in Nat, n \in Nat : y = b[m] /\ n = sq[m].n /\ n > 0 /\ b[m + 1] = y + n
            BY <5>2
          <5>4. y = nexec + 1 /\ head + e + 1 = m + 1
            BY <3>3, <5>1, <5>3
          <5> QED
            BY <5>3, <5>4
        <4> QED
          BY <4>1, <4>2
      <3>8. InStep(b, c, r, e)'
        <4>1. ~(Total' = e + 1)
          BY <3>2, <3>6
        <4> QED
          BY <1>2, <1>3, <2>4, <2>7, <2>16, <3>7, <4>1 DEF InStep
      <3>9. Running(b, c, r, e)'
        BY <2>15, <3>6, <3>8 DEF Running
      <3> QED
        BY <1>4, <3>9 DEF OrdInv
    <2>18. CASE ~ends(p)
      <3>1. UNCHANGED <<respnet, run>>
        BY <1>1, <2>18, ExecuteEffect
      <3>2. AnswersAt(b, a)' /\ Total' = a
        BY <1>2, <2>1, <2>3, <3>1, AnswersSame
      <3>3. /\ head + a <= Len(sq) + 1 /\ b[head + a] <= nexec + 1
            /\ head + a <= Len(sq) => nexec + 1 < b[head + a + 1]
        <4>1. head + a = q /\ nexec + 1 < b[q + 1]
          BY <2>10, <2>12, <2>14, <2>18
        <4>2. b[q] <= nexec + 1
          BY <1>3, <2>9, <2>10
        <4> QED
          BY <2>9, <4>1, <4>2
      <3>4. InStep(b, c, r, a)'
        <4>1. ~(Total' = a + 1)
          BY <3>2
        <4> QED
          BY <1>2, <1>3, <2>4, <2>7, <2>16, <3>3, <4>1 DEF InStep
      <3>5. Running(b, c, r, a)'
        BY <2>15, <3>2, <3>4 DEF Running
      <3> QED
        BY <1>4, <3>5 DEF OrdInv
    <2> QED
      BY <2>17, <2>18
  <1> QED
    BY <1>5, <1>6

\* A response that is dropped in the error state of the responder is the last one,
\* and none follows it.
LEMMA DropResponseStep ==
  ASSUME RCInv, NEW b, NEW c \in Nat, NEW r \in Nat, NEW a \in Nat, OrdInv(b, c, r, a), DropResponse,
         [Readable]_vars
  PROVE  \E e \in Nat : OrdInv(b, c, r, e)'
  <1>1. /\ UNCHANGED <<posted, sq, req, rpc, comp, cpc, cpkt, cqes, run, timers, reqnet, resp, rq,
                       executed, env>>
        /\ resp.state = "ERROR" /\ respnet # <<>> /\ respnet' = Front(respnet)
    BY DEF DropResponse, reqvars, compvars, respvars
  <1>2. Placed(b, c, r) /\ Calls /\ CompletedAt(b) /\ Orderly /\ Bases(b)
    BY DEF OrdInv, Placed
  <1>3. Placed(b, c, r)'
    <2>1. /\ comp'.psn = Wrap(c) /\ c <= c /\ c <= nexec /\ c <= r
          /\ \A j \in 1 .. Len(reqnet) : c <= place(b, reqnet[j])
      BY <1>1, <1>2 DEF Placed, Positions, NetAt
    <2>2. rq' >= rq /\ posted' >= posted /\ Len(cqes') >= Len(cqes)
      BY <1>1 DEF RCInv, RespTypes, Indices
    <2>3. cur' = cur
      BY <1>1 DEF cur
    <2> QED
      BY <1>1, <1>2, <2>1, <2>2, <2>3, PlacedFrame
  <1>4. Calls' /\ CompletedAt(b)'
    BY <1>1, <1>2, CompletedSame DEF Calls
  <1>5. CASE req.state = "ERROR"
    BY <1>1, <1>3, <1>4, <1>5 DEF OrdInv
  <1>6. CASE req.state # "ERROR"
    <2>1. /\ AnswersAt(b, a) /\ InStep(b, c, r, a) /\ Retrying(b) /\ Timing /\ ExpectedAt(b)
          /\ nexec \in Nat /\ Len(cpkt) \in Nat
      BY <1>6, Active
    <2>2. ~resp.sent_psn_nak
      BY <1>1, <2>1 DEF ExpectedAt
    <2>3. /\ Len(respnet) \in Nat /\ Len(respnet) > 0 /\ Len(respnet') = Len(respnet) - 1
          /\ \A k \in 1 .. Len(respnet') : respnet'[k] = respnet[k]
      <3>1. respnet \in Seq(Answers)
        BY DEF RCInv, RespNet
      <3>2. Len(respnet) \in Nat /\ Len(respnet) > 0
        BY <1>1, <3>1
      <3>3. PICK n \in Nat : n = Len(respnet) - 1
        BY <3>2
      <3>4. respnet' = SubSeq(respnet, 1, n) /\ \A i \in 1 .. n : respnet[i] \in Answers
        BY <1>1, <3>1, <3>2, <3>3 DEF Front
      <3>5. /\ Len(SubSeq(respnet, 1, n)) = IF 1 <= n THEN n - 1 + 1 ELSE 0
            /\ \A i \in 1 .. n - 1 + 1 : SubSeq(respnet, 1, n)[i] = respnet[1 + i - 1]
        BY <3>4, SubSeqProperties
      <3>6. Len(SubSeq(respnet, 1, n)) = n /\ 1 .. n - 1 + 1 = 1 .. n
        BY <3>5
      <3>7. ASSUME NEW i \in 1 .. n PROVE SubSeq(respnet, 1, n)[i] = respnet[i]
        <4>1. 1 + i - 1 = i
          OBVIOUS
        <4> QED
          BY <3>5, <3>6, <4>1
      <3> QED
        BY <3>2, <3>3, <3>4, <3>6, <3>7
    <2>4. Total = a /\ a = Len(cpkt) + Len(respnet)
      <3>1. Total = a
        BY <2>1, <2>2 DEF AnswersAt, InStep
      <3> QED
        BY <3>1 DEF Total
    <2>5. PICK e \in Nat : e = a - 1
      <3>1. PICK x \in Nat, y \in Nat : x = Len(cpkt) /\ y = Len(respnet) /\ y > 0
        BY <2>1, <2>3
      <3>2. a = x + y
        BY <2>4, <3>1
      <3>3. a - 1 \in Nat
        BY <3>1, <3>2
      <3> QED
        BY <3>3
    <2>6. head' = head /\ nexec' = nexec /\ cur' = cur /\ Total' = e
      <3>1. head' = head /\ nexec' = nexec /\ cur' = cur
        BY <1>1 DEF head, nexec, cur
      <3>2. PICK x \in Nat, y \in Nat : x = Len(cpkt) /\ y = Len(respnet)
        BY <2>1, <2>3
      <3>3. a = x + y /\ e = x + (y - 1)
        BY <2>4, <2>5, <3>2
      <3>4. Total' = Len(cpkt) + (Len(respnet) - 1)
        BY <1>1, <2>3 DEF Total
      <3> QED
        BY <3>1, <3>2, <3>3, <3>4
    <2>7. AnswersAt(b, e)'
      <3>1. ASSUME cpkt # <<>> PROVE Entry(b, e, cpkt[1], 1)
        <4>1. Entry(b, a, cpkt[1], 1) /\ Len(cpkt) > 0
          BY <2>1, <3>1 DEF AnswersAt, RCInv, RespNet
        <4>2. 1 <= e
          BY <2>1, <2>3, <2>4, <2>5, <4>1
        <4> QED
          BY <2>5, <4>1, <4>2 DEF Entry
      <3>2. ASSUME NEW k \in 1 .. Len(respnet') PROVE Entry(b, e, respnet'[k], Len(cpkt) + k)
        <4>1. k \in 1 .. Len(respnet) /\ Len(cpkt) + k <= e /\ Len(cpkt) + k <= a
          BY <2>1, <2>3, <2>4, <2>5
        <4>2. Entry(b, a, respnet[k], Len(cpkt) + k) /\ respnet'[k] = respnet[k]
          BY <2>1, <2>3, <4>1 DEF AnswersAt
        <4> QED
          BY <2>1, <2>5, <4>1, <4>2 DEF Entry
      <3> QED
        BY <1>1, <2>1, <2>6, <3>1, <3>2 DEF AnswersAt, Entry
    <2>8. InStep(b, c, r, e)'
      <3>1. AllAhead(b)' <=> AllAhead(b)
        BY <1>1, <2>6 DEF AllAhead, place
      <3>2. Lags(b, r)' <=> Lags(b, r)
        BY <1>1, <2>6 DEF Lags, place
      <3>3. ~Lags(b, r)
        BY <2>1, <2>3, <2>4 DEF InStep
      <3>4. head + e <= Len(sq) + 1 /\ b[head + e] <= nexec
        <4>1. /\ head + a <= Len(sq) + 1 /\ b[head + a] <= nexec /\ head \in Nat /\ head >= 1
              /\ Len(sq) \in Nat
          BY <1>2, <2>1, Ground DEF InStep
        <4>2. PICK m \in 1 .. Len(sq) : m = head + e
          BY <2>5, <4>1
        <4>3. m + 1 = head + a /\ b[m + 1] = b[m] + sq[m].n /\ b[m] \in Nat /\ sq[m].n \in Nat
          BY <1>2, <2>5, <4>1, <4>2, Ground, WqeGround, SMTT(30)
        <4>4. b[m] <= nexec
          BY <2>1, <4>1, <4>3
        <4> QED
          BY <2>5, <4>1, <4>2, <4>4
      <3> QED
        BY <1>1, <2>1, <2>2, <2>6, <3>1, <3>2, <3>3, <3>4 DEF InStep
    <2>9. Retrying(b)' /\ Timing'
      <3>1. ~req.need_retry
        BY <2>1, <2>3, <2>4 DEF Retrying
      <3>2. ~TimedOut /\ ~TimedOut'
        BY <1>1, <2>1 DEF Timing, TimedOut
      <3> QED
        BY <1>1, <2>1, <3>1, <3>2 DEF Retrying, Timing
    <2>10. Running(b, c, r, e)'
      BY <2>7, <2>8, <2>9 DEF Running
    <2> QED
      BY <1>3, <1>4, <2>10 DEF OrdInv
  <1> QED
    BY <1>5, <1>6

LEMMA RespOrder ==
  ASSUME RCInv, NEW b, NEW c \in Nat, NEW r \in Nat, NEW a \in Nat, OrdInv(b, c, r, a),
         RespStep, [Readable]_vars
  PROVE  OrderInv'
  <1>1. CASE RespDrop \/ RespError \/ RespFlush \/ RespDupSendWrite
    <2>1. OrdInv(b, c, r, a)'
      BY <1>1, QuietSteps
    <2> QED
      BY <2>1 DEF OrderInv
  <1>2. CASE RespOutOfSeq
    <2>1. OrdInv(b, c, r, a)'
      BY <1>2, OutOfSeqStep
    <2> QED
      BY <2>1 DEF OrderInv
  <1>3. CASE RespSendWrite
    <2>1. PICK e \in Nat : OrdInv(b, c, r, e)'
      BY <1>3, ExecuteStep
    <2> QED
      BY <2>1 DEF OrderInv
  <1> QED
    BY <1>1, <1>2, <1>3, NeverResp DEF RespStep

\* Every step keeps the order.
LEMMA OrderStep == RCInv /\ OrderInv /\ [Readable]_vars => OrderInv'
  <1> SUFFICES ASSUME RCInv, OrderInv, [Readable]_vars PROVE OrderInv'
    OBVIOUS
  <1>1. PICK b, c, r, a : c \in Nat /\ r \in Nat /\ a \in Nat /\ OrdInv(b, c, r, a)
    BY DEF OrderInv
  <1>2. Orderly /\ Calls
    BY <1>1 DEF OrdInv, Placed
  <1>3. CASE ReqStep
    BY <1>1, <1>3, ReqOrder
  <1>4. CASE CompStep
    BY <1>1, <1>4, CompOrder
  <1>5. CASE RespStep
    BY <1>1, <1>5, RespOrder
  <1>6. CASE Post \/ PostRecv \/ RetransmitTimer \/ UNCHANGED vars
    <2>1. OrdInv(b, c, r, a)'
      BY <1>1, <1>6, SteadySteps
    <2> QED
      BY <1>1, <2>1 DEF OrderInv
  <1>7. CASE LoseRequest \/ DropRequest
    <2>1. OrdInv(b, c, r, a)'
      BY <1>1, <1>7, QuietSteps
    <2> QED
      BY <1>1, <2>1 DEF OrderInv
  <1>8. CASE Drain \/ Resume
    BY <1>2, <1>8 DEF Drain, Resume, Orderly, RCInv
  <1>9. CASE LoseResponse
    BY <1>2, <1>9 DEF LoseResponse, Orderly
  <1>10. CASE RnrNakTimer
    BY <1>2, <1>10 DEF RnrNakTimer, Calls
  <1>11. CASE DropResponse
    <2>1. PICK e \in Nat : OrdInv(b, c, r, e)'
      BY <1>1, <1>11, DropResponseStep
    <2> QED
      BY <1>1, <2>1 DEF OrderInv
  <1> QED
    BY <1>3, <1>4, <1>5, <1>6, <1>7, <1>8, <1>9, <1>10, <1>11 DEF Readable

LEMMA OrderAlways == Spec /\ Orderly => [](RCInv /\ OrderInv)
  <1>1. Init /\ Orderly => RCInv /\ OrderInv
    BY RCInit, OrderInit
  <1>2. RCInv /\ OrderInv /\ [Next]_vars => (RCInv /\ OrderInv)'
    <2>1. RCInv /\ OrderInv => LocalKeys
      BY WqesAre DEF OrderInv, OrdInv, Placed, Orderly, LocalKeys, Msgs
    <2> QED
      BY <2>1, NeverDirect, RCStep, OrderStep
  <1> QED
    BY <1>1, <1>2, PTL DEF Spec

-----------------------------------------------------------------------------
(* What the order gives *)

\* The execution at position x is that of the packet placed there.
LEMMA ExecutedPlace ==
  ASSUME RCInv, NEW b, Orderly, Bases(b), ExecutedAt(b), nexec \in Nat,
         NEW m \in 1 .. Len(sq), NEW k \in 0 .. sq[m].n - 1, NEW j \in 1 .. nexec, j = b[m] + k + 1
  PROVE  executed[j] = <<m, k, k>>
  <1>0. PICK p \in 1 .. Len(sq) :
          \E i \in 0 .. sq[p].n - 1 : executed[j] = <<p, i, i>> /\ j = b[p] + i + 1
    BY DEF ExecutedAt
  <1>1. PICK i \in 0 .. sq[p].n - 1 : executed[j] = <<p, i, i>> /\ j = b[p] + i + 1
    BY <1>0
  <1>2. /\ b[m] \in Nat /\ b[m + 1] = b[m] + sq[m].n /\ sq[m].n \in Nat
        /\ b[p] \in Nat /\ b[p + 1] = b[p] + sq[p].n /\ sq[p].n \in Nat /\ Len(sq) \in Nat
    BY Ground, WqeGround
  <1>3. PICK u \in Nat, v \in Nat, s \in Nat, t \in Nat :
          u = b[m] /\ v = b[p] /\ s = sq[m].n /\ t = sq[p].n
    BY <1>2
  <1>10. j = b[p] + i + 1
    BY <1>1
  <1>11. k \in 0 .. s - 1 /\ i \in 0 .. t - 1
    BY <1>3
  <1>12. j = u + k + 1 /\ j = v + i + 1
    BY <1>3, <1>10
  <1>4. PICK x \in Nat : x = u + k /\ x = v + i
    <2>1. u + k \in Nat /\ u + k = v + i
      BY <1>11, <1>12
    <2> QED
      BY <2>1
  <1>5. b[m] <= x /\ x < b[m + 1] /\ b[p] <= x /\ x < b[p + 1]
    <2>1. u <= x /\ x < u + s /\ v <= x /\ x < v + t
      BY <1>4, <1>11
    <2> QED
      BY <1>2, <1>3, <2>1
  <1>6. p \in 1 .. Len(sq) + 1 /\ p <= Len(sq)
    BY <1>2
  <1>7. p <= m /\ (p <= Len(sq) /\ x < b[p + 1] => p = m)
    BY <1>5, <1>6, OnePlace
  <1>8. p = m
    BY <1>5, <1>6, <1>7
  <1>9. i = k
    <2>1. u = v
      BY <1>3, <1>8
    <2> QED
      BY <1>4, <1>11, <2>1
  <1> QED
    BY <1>1, <1>8, <1>9

\* Where the order of the executions comes from: what follows a packet is the
\* next packet of its message, or the first one of the next message.
LEMMA InOrder ==
  ASSUME RCInv, NEW b, Orderly, Bases(b), ExecutedAt(b), nexec \in Nat
  PROVE  ExecutedOnceInOrder
  <1> SUFFICES ASSUME NEW i \in 1 .. nexec
               PROVE  executed[i] = IF i = 1 THEN <<1, 0, 0>> ELSE After(executed[i - 1])
    BY DEF ExecutedOnceInOrder, nexec
  <1>0. PICK m \in 1 .. Len(sq) :
          \E k \in 0 .. sq[m].n - 1 : executed[i] = <<m, k, k>> /\ i = b[m] + k + 1
    BY DEF ExecutedAt
  <1>1. PICK k \in 0 .. sq[m].n - 1 : executed[i] = <<m, k, k>> /\ i = b[m] + k + 1
    BY <1>0
  <1>2. b[m] \in Nat /\ sq[m].n \in Nat /\ Len(sq) \in Nat /\ b[1] = 0
    <2>1. b[m] \in Nat /\ sq[m].n \in Nat /\ Len(sq) \in Nat
      BY Ground, WqeGround
    <2> QED
      BY <2>1 DEF Bases
  <1>3. CASE i = 1
    <2>1. 1 \in 1 .. Len(sq) /\ sq[1].n \in Nat /\ sq[1].n > 0
      <3>1. 1 \in 1 .. Len(sq)
        BY <1>2
      <3> QED
        BY <3>1, WqeGround
    <2>2. 0 \in 0 .. sq[1].n - 1 /\ i = b[1] + 0 + 1
      BY <1>2, <1>3, <2>1
    <2> QED
      BY <1>3, <2>1, <2>2, ExecutedPlace
  <1>4. CASE i # 1
    <2>1. PICK h \in 1 .. nexec : h = i - 1
      BY <1>4
    <2>0. PICK p \in 1 .. Len(sq) :
            \E l \in 0 .. sq[p].n - 1 : executed[h] = <<p, l, l>> /\ h = b[p] + l + 1
      BY DEF ExecutedAt
    <2>2. PICK l \in 0 .. sq[p].n - 1 : executed[h] = <<p, l, l>> /\ h = b[p] + l + 1
      BY <2>0
    <2>3. /\ b[p] \in Nat /\ b[p + 1] = b[p] + sq[p].n /\ sq[p].n \in Nat /\ b[p + 1] \in Nat
          /\ ~IsReadAtomic(sq[p].op)
      BY Ground, WqeGround
    <2>4. PICK u \in Nat, n \in Nat : u = b[p] /\ n = sq[p].n
      BY <2>3
    <2>11. h = b[p] + l + 1
      BY <2>2
    <2>12. l \in 0 .. n - 1 /\ h = u + l + 1
      BY <2>4, <2>11
    <2>5. l \in 0 .. n - 1 /\ i = u + (l + 1) + 1
      BY <2>1, <2>12
    <2>6. ToExecute(p) = {<<p, j, j>> : j \in 0 .. n - 1}
      BY <2>3, <2>4 DEF ToExecute
    <2>7. PICK e : e = executed[i - 1]
      OBVIOUS
    <2>8. e[1] = p /\ e[2] = l
      BY <2>1, <2>2, <2>7
    <2>9. CASE l + 1 < n
      <3>1. l + 1 \in 0 .. sq[p].n - 1 /\ i = b[p] + (l + 1) + 1
        BY <2>4, <2>5, <2>9
      <3>2. executed[i] = <<p, l + 1, l + 1>>
        BY <3>1, ExecutedPlace
      <3>3. <<p, l + 1, l + 1>> \in ToExecute(p)
        BY <2>4, <2>6, <3>1
      <3>4. After(e) = <<p, l + 1, l + 1>>
        BY <2>8, <3>3 DEF After
      <3> QED
        BY <1>4, <2>7, <3>2, <3>4
    <2>10. CASE ~(l + 1 < n)
      <3>1. l + 1 = n /\ i = u + n + 1 /\ b[p + 1] = u + n
        BY <2>3, <2>4, <2>5, <2>10
      <3>13. PICK q \in Nat : q = p + 1
        OBVIOUS
      <3>14. PICK x \in Nat, y \in Nat : x = b[p + 1] /\ y = b[m]
        BY <1>2, <2>3
      <3>2. q = p + 1 /\ x = b[p + 1] /\ y = b[m]
        BY <3>13, <3>14
      <3>3. i = x + 1 /\ i = y + k + 1
        BY <1>1, <3>1, <3>2
      <3>4. y <= x /\ x < y + sq[m].n
        <4>1. PICK t \in Nat : t = sq[m].n
          BY <1>2
        <4>2. k \in 0 .. t - 1
          BY <4>1
        <4>3. y <= x /\ x < y + t
          BY <3>3, <4>2
        <4> QED
          BY <4>1, <4>3
      <3>5. b[m] <= x /\ x < b[m + 1] /\ b[q] <= x /\ q \in 1 .. Len(sq) + 1
        <4>1. b[m + 1] = b[m] + sq[m].n
          BY Ground
        <4> QED
          BY <1>2, <3>2, <3>4, <4>1
      <3>6. q <= m
        BY <3>5, OnePlace
      <3>7. q \in 1 .. Len(sq)
        BY <1>2, <3>2, <3>6
      <3>8. sq[q].n \in Nat /\ sq[q].n > 0
        BY <3>7, WqeGround
      <3>9. 0 \in 0 .. sq[q].n - 1 /\ i = b[q] + 0 + 1
        <4>1. 0 \in 0 .. sq[q].n - 1
          BY <3>8
        <4>2. b[q] = x /\ x + 0 + 1 = x + 1
          BY <3>2
        <4> QED
          BY <3>3, <4>1, <4>2
      <3>10. executed[i] = <<q, 0, 0>>
        BY <3>7, <3>9, ExecutedPlace
      <3>11. <<p, l + 1, l + 1>> \notin ToExecute(p)
        <4>1. ASSUME NEW j \in 0 .. n - 1, <<p, l + 1, l + 1>> = <<p, j, j>> PROVE FALSE
          <5>1. j = l + 1
            BY <4>1
          <5> QED
            BY <2>4, <3>1, <5>1
        <4> QED
          BY <2>6, <4>1
      <3>12. After(e) = <<p + 1, 0, 0>>
        BY <2>8, <3>11 DEF After
      <3> QED
        BY <1>4, <2>7, <3>2, <3>10, <3>12
    <2> QED
      BY <2>9, <2>10
  <1> QED
    BY <1>3, <1>4

LEMMA Succeeded ==
  ASSUME RCInv, NEW b, Orderly, Bases(b), ExecutedAt(b), CompletedAt(b), nexec \in Nat
  PROVE  SuccessIsTrue
  <1> SUFFICES ASSUME NEW i \in 1 .. Len(cqes), cqes[i].status = "SUCCESS"
               PROVE  /\ \A e \in ToExecute(i) : \E j \in 1 .. nexec : executed[j] = e
                      /\ cqes[i].data = Result(i)
    BY DEF SuccessIsTrue, nexec
  <1>1. b[i + 1] <= nexec /\ cqes[i].data = <<>>
    BY DEF CompletedAt
  <1>2. i \in 1 .. Len(sq)
    <2>1. head \in 1 .. Len(sq) + 1 /\ head = Len(cqes) + 1 /\ Len(cqes) \in Nat /\ Len(sq) \in Nat
      BY Ground
    <2> QED
      BY <2>1
  <1>3. /\ b[i] \in Nat /\ b[i + 1] = b[i] + sq[i].n /\ sq[i].n \in Nat
        /\ ~IsReadAtomic(sq[i].op) /\ sq[i].op \in {"send", "write"}
    BY <1>2, Ground, WqeGround
  <1>4. ASSUME NEW e \in ToExecute(i) PROVE \E j \in 1 .. nexec : executed[j] = e
    <2>1. PICK k \in 0 .. sq[i].n - 1 : e = <<i, k, k>>
      BY <1>3 DEF ToExecute
    <2>2. PICK u \in Nat, n \in Nat : u = b[i] /\ n = sq[i].n
      BY <1>3
    <2>3. u + n <= nexec /\ k \in 0 .. n - 1
      BY <1>1, <1>3, <2>1, <2>2
    <2>6. u + k + 1 \in 1 .. nexec
      BY <2>3
    <2>4. PICK j \in 1 .. nexec : j = u + k + 1
      BY <2>6
    <2>5. executed[j] = <<i, k, k>>
      BY <1>2, <2>1, <2>2, <2>4, ExecutedPlace
    <2> QED
      BY <2>1, <2>5
  <1>5. Result(i) = <<>>
    <2>1. sq[i].op # "read" /\ sq[i].op # "atomic"
      BY <1>3
    <2> QED
      BY <2>1 DEF Result
  <1> QED
    BY <1>1, <1>4, <1>5

LEMMA OrderParts ==
  ASSUME RCInv, OrderInv
  PROVE  \E b, c, r, a :
            /\ c \in Nat /\ r \in Nat /\ a \in Nat /\ OrdInv(b, c, r, a)
            /\ Orderly /\ Bases(b) /\ Positions(b, c, r) /\ ExecutedAt(b) /\ ExpectedAt(b) /\ Calls
            /\ CompletedAt(b) /\ nexec \in Nat
  <1>1. PICK b, c, r, a : c \in Nat /\ r \in Nat /\ a \in Nat /\ OrdInv(b, c, r, a)
    BY DEF OrderInv
  <1>2. /\ Orderly /\ Bases(b) /\ Positions(b, c, r) /\ ExecutedAt(b) /\ ExpectedAt(b) /\ Calls
        /\ CompletedAt(b)
    BY <1>1 DEF OrdInv, Placed
  <1>3. executed \in Seq(Execution)
    BY <1>2 DEF ExecutedAt
  <1>4. nexec \in Nat
    BY <1>3 DEF nexec
  <1> QED
    BY <1>1, <1>2, <1>4

(* ExecutedOnceInOrder for every orderly scenario: rxe_responder executes    *)
(* the packets of every send and write in the order of the send queue, each  *)
(* exactly once and at its own offset, whatever requests are lost, however   *)
(* often rxe_requester goes back and whenever the PSN wraps.                 *)
THEOREM ExecutionInOrder == Spec /\ Orderly => []ExecutedOnceInOrder
  <1>1. RCInv /\ OrderInv => ExecutedOnceInOrder
    BY OrderParts, InOrder
  <1> QED
    BY <1>1, OrderAlways, PTL

(* SuccessIsTrue for every orderly scenario: when rxe_completer completes a  *)
(* send or a write with IB_WC_SUCCESS, rxe_responder has executed every one  *)
(* of its packets.                                                           *)
THEOREM SuccessTrue == Spec /\ Orderly => []SuccessIsTrue
  <1>1. RCInv /\ OrderInv => SuccessIsTrue
    BY OrderParts, Succeeded
  <1> QED
    BY <1>1, OrderAlways, PTL

(* AckedWasExecuted for every orderly scenario: comp.psn, where a retry      *)
(* starts, never passes the PSN that rxe_responder expects next, so that     *)
(* req_retry skips only what has been executed.                              *)
THEOREM AckedExecuted == Spec /\ Orderly => []AckedWasExecuted
  <1>1. ASSUME RCInv, OrderInv PROVE AckedWasExecuted
    <2>1. PICK b, c, r, a :
            c \in Nat /\ Orderly /\ Bases(b) /\ Positions(b, c, r) /\ ExpectedAt(b) /\ nexec \in Nat
      BY <1>1, OrderParts
    <2>2. /\ comp.psn = Wrap(c) /\ resp.psn = Wrap(nexec) /\ c <= nexec
          /\ nexec <= c + env.max_gap + 1 /\ resp.res = 0
      BY <2>1 DEF Positions, ExpectedAt
    <2>3. env.max_gap \in Nat /\ env.max_gap + 1 < Half /\ Half \in Nat
      BY <1>1, <2>1, Ground
    <2>4. - Half <= c - nexec /\ c - nexec < Half /\ c - nexec <= 0
      BY <2>1, <2>2, <2>3
    <2>5. psn_compare(Wrap(c), Wrap(nexec)) = c - nexec
      BY <2>1, <2>4, WrapCompare
    <2> QED
      BY <2>2, <2>4, <2>5 DEF AckedWasExecuted, served
  <1> QED
    BY <1>1, OrderAlways, PTL

(* RetryHasWork for every orderly scenario: when rxe_requester finds         *)
(* need_retry set, req_retry finds a WQE at the head of the send queue, and  *)
(* the part of it that it skips is shorter than the WQE.                     *)
THEOREM RetryWork == Spec /\ Orderly => []RetryHasWork
  <1>1. ASSUME RCInv, OrderInv PROVE RetryHasWork
    <2> SUFFICES ASSUME req.need_retry, req.state # "ERROR"
                 PROVE  head <= posted /\ (comp.psn - sq[head].first_psn) % PsnMod < sq[head].n
      BY DEF RetryHasWork
    <2>1. PICK b, c, r, a : c \in Nat /\ r \in Nat /\ a \in Nat /\ OrdInv(b, c, r, a)
      BY <1>1, OrderParts
    <2>2. /\ head <= posted /\ c - b[head] < sq[head].n
          /\ (comp.psn - sq[head].first_psn) % PsnMod = c - b[head]
      BY <1>1, <2>1, RetryHead
    <2> QED
      BY <2>2
  <1> QED
    BY <1>1, OrderAlways, PTL

(* NoErrorWithoutCause for every orderly scenario: with valid keys and       *)
(* retry_cnt 7 the loss of requests alone brings neither the requester nor   *)
(* the responder into the error state.                                       *)
THEOREM NoErrorCause == Spec /\ Orderly => []NoErrorWithoutCause
  <1>1. ASSUME RCInv, OrderInv PROVE NoErrorWithoutCause
    <2> SUFFICES ASSUME Faultless PROVE req.state # "ERROR" /\ resp.state = "READY"
      BY DEF NoErrorWithoutCause
    <2>1. PICK b, c, r, a : Orderly /\ Bases(b) /\ ExpectedAt(b) /\ Calls
      BY <1>1, OrderParts
    <2>2. env.retry_cnt = 7 /\ \A m \in 1 .. Len(sq) : sq[m].lkey /\ sq[m].rkey
      <3>1. Msgs = 1 .. Len(sq)
        BY <1>1, <2>1, Ground
      <3> QED
        BY <3>1 DEF Faultless
    <2>3. req.state # "ERROR"
      BY <2>1, <2>2 DEF Calls
    <2>4. resp.state = "READY"
      BY <2>1, <2>2 DEF ExpectedAt
    <2> QED
      BY <2>3, <2>4
  <1> QED
    BY <1>1, OrderAlways, PTL
=============================================================================
