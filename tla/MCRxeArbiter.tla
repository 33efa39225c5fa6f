---------------------------- MODULE MCRxeArbiter ----------------------------
(* Instances of RxeArbiter for TLC: the scenarios. *)
EXTENDS RxeArbiter

CONSTANTS q1, q2

\* QP q1 sends req request and resp response packets, q2 other request packets.
sending(req, resp, other) ==
  [pkts |-> [p \in Producers |-> CASE p = <<q1, "req">>  -> req
                                   [] p = <<q1, "resp">> -> resp
                                   [] p = <<q2, "req">>  -> other
                                   [] OTHER -> 0],
   stops |-> 0, errors |-> 0, no_skb |-> 0, bad_fills |-> 0, atomics |-> 0,
   fails |-> 0, destroys |-> 0]

\* A QP that throttles, fails and is destroyed, alone and beside another one; two
\* QPs and an interface that stops and refuses packets; a requester that throttles, is
\* out of memory once and cannot fill a packet once; a responder that answers atomics.
Mixed == {[sending(4, 1, 0) EXCEPT !.fails = 1, !.destroys = 1],
          [sending(1, 1, 1) EXCEPT !.fails = 1, !.destroys = 1],
          [sending(2, 1, 1) EXCEPT !.stops = 1, !.errors = 1],
          [sending(4, 0, 0) EXCEPT !.no_skb = 1, !.bad_fills = 1],
          [sending(1, 2, 0) EXCEPT !.atomics = 2, !.stops = 1, !.fails = 1, !.destroys = 1]}

Stopping == {[sending(2, 1, 0) EXCEPT !.stops = 1]}

\* To be tried by hand (see the README): the window in the throttle, and requests lost
\* to the account one after the other.
Throttled == {sending(4, 0, 0)}
Unfilled  == {[sending(1, 0, 0) EXCEPT !.bad_fills = 3]}
=============================================================================
