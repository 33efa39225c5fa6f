------------------------------ MODULE MCRxeRC ------------------------------
(* Instances of RxeRC for TLC: the scenarios. *)
EXTENDS RxeRC

wr(op, n)        == [op |-> op, n |-> n, fence |-> FALSE, lkey |-> TRUE, rkey |-> TRUE]
fenced_wr(op, n) == [wr(op, n) EXCEPT !.fence = TRUE]
bad_lkey(op, n)  == [wr(op, n) EXCEPT !.lkey = FALSE]
bad_rkey(op, n)  == [wr(op, n) EXCEPT !.rkey = FALSE]

\* Nothing is lost, and every receive WQE is there from the start.
quietly(wrs, list) == [wrs |-> wrs, list |-> list, timeout |-> TRUE, rq |-> 3,
                       recv |-> 0, req |-> 0, resp |-> 0, early |-> 0, net |-> 12,
                       max_rd_atomic |-> 2, retry_cnt |-> 7, rnr_retry |-> 7,
                       max_gap |-> 16, drains |-> FALSE]

\* Everything that can be limited is limited to 1.
limited(wrs, list) == [quietly(wrs, list) EXCEPT !.max_rd_atomic = 1, !.retry_cnt = 1,
                                                 !.rnr_retry = 1, !.max_gap = 1]

Mixed == <<wr("send", 2), wr("read", 2), wr("write", 3), wr("atomic", 1),
           wr("atomic", 1), wr("send", 1)>>

SendsWrites == <<wr("send", 2), wr("write", 3), wr("send", 1), wr("write", 1)>>

Waits == <<wr("read", 2), wr("atomic", 1), fenced_wr("write", 2), wr("read", 1),
           fenced_wr("send", 1)>>

BadRemoteKey == <<wr("write", 1), bad_rkey("write", 2), wr("send", 1)>>

\* Lost requests, lost acknowledgements, receive WQEs posted late.
Lossy == {[quietly(Mixed, 6) EXCEPT !.req = 3],
          [quietly(SendsWrites, 4) EXCEPT !.req = 3],
          [quietly(SendsWrites, 4) EXCEPT !.resp = 2],
          [quietly(<<wr("write", 2), wr("send", 1)>>, 2) EXCEPT !.rq = 0, !.recv = 1],
          [quietly(<<wr("read", 1)>>, 1) EXCEPT !.resp = 2]}

\* Fences, a small window and few rd_atomic; failures.
Limits == {[limited(Waits, 1) EXCEPT !.timeout = FALSE, !.req = 2, !.rq = 0, !.recv = 1],
           limited(<<bad_lkey("write", 2), wr("read", 1), wr("send", 1)>>, 1),
           [limited(BadRemoteKey, 1) EXCEPT !.req = 1],
           [limited(<<wr("atomic", 1)>>, 1) EXCEPT !.resp = 1, !.early = 1],
           [limited(<<wr("send", 2), wr("write", 1)>>, 2)
              EXCEPT !.timeout = FALSE, !.rq = 0, !.recv = 1, !.net = 5]}

\* The send queue is drained and resumed.
Drains == {[quietly(wrs, 1) EXCEPT !.drains = TRUE, !.timeout = FALSE] :
             wrs \in {<<wr("write", 2), wr("read", 1), wr("send", 1)>>,
                     <<wr("send", 2), wr("write", 1), wr("atomic", 1)>>}}

\* Retries without limit, and everything to wait for; the last acknowledgements, or
\* part of the data of a read, lost.
Fenced      == {quietly(<<wr("read", 1), fenced_wr("write", 1)>>, 2)}
SmallWindow == {[quietly([m \in 1 .. 4 |-> wr("write", 1)], 4) EXCEPT !.max_gap = 1]}
LastAckLost == {[quietly(SendsWrites, 4) EXCEPT !.resp = 3]}
LongRead    == {[quietly(<<wr("read", 2)>>, 1) EXCEPT !.resp = 1]}
Patient     == {[quietly(Waits, 5) EXCEPT !.max_rd_atomic = 1, !.max_gap = 1]}

\* The timer fires while packets are under way.
Impatient   == {[quietly(<<wr("write", 2), wr("send", 1)>>, 2) EXCEPT !.early = 1],
                [quietly(<<wr("write", 2)>>, 1) EXCEPT !.early = 2]}

Mixture == Lossy \cup Limits \cup Drains
           \cup Fenced \cup SmallWindow \cup LastAckLost \cup LongRead
           \cup Patient \cup Impatient

\* A single execution that breaks a promise of the code.
NakAsAck  == {[quietly([m \in 1 .. 3 |-> wr("write", 1)], 3) EXCEPT !.req = 1,
                                                                   !.resp = 1]}

\* More of them, to be tried by hand in place of that one (see the README).
BadLocalKey == {[limited(<<wr("send", 1), wr("write", 2), bad_lkey("write", 2),
                           wr("send", 1)>>, 1) EXCEPT !.req = 1]}
ReadAgain == {[quietly(<<wr("read", 1), wr("write", 1)>>, 2) EXCEPT !.early = 1]}
EarlyAtomic == {[quietly(<<wr("atomic", 1), wr("send", 1)>>, 2) EXCEPT !.early = 1]}
EarlyAndLost == {[quietly(<<wr("send", 1), wr("write", 2)>>, 2) EXCEPT !.early = 1,
                                                                      !.req = 1]}
AtomicLost  == {[quietly(<<wr("atomic", 1), wr("atomic", 1)>>, 2) EXCEPT !.resp = 1]}
ReadPastAck == {[quietly(<<wr("write", 1), wr("read", 1)>>, 2) EXCEPT !.resp = 1]}
DrainOne    == {[quietly(<<wr("write", 2)>>, 1) EXCEPT !.drains = TRUE]}
Resent      == {[quietly(<<wr("send", 2), wr("write", 2), wr("send", 1)>>, 1)
                   EXCEPT !.early = 1]}
LateReceives == {[quietly(<<wr("send", 1), wr("write", 1), wr("send", 1)>>, 3)
                    EXCEPT !.timeout = FALSE, !.rq = 0, !.recv = 2]}
PostedLate  == {[quietly(<<wr("write", 2), wr("write", 2)>>, 1) EXCEPT !.req = 2]}
=============================================================================
