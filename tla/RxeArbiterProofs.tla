-------------------------- MODULE RxeArbiterProofs --------------------------
(***************************************************************************)
(* Theorems about RxeArbiter, for any number of QPs, any throttle limit    *)
(* and any scenario of the producers, the interface and the QPs' life: the *)
(* account of each side exceeds the packets on their way by exactly those  *)
(* never queued, no QP with packets is left off the list, and packets      *)
(* leave in the order in which they were queued.                           *)
(***************************************************************************)
EXTENDS RxeArbiter, FiniteSetTheorems, SequenceTheorems, TLAPS

Pkt == Sides \X (Nat \ {0})

\* An arbiter has a QP from the list to the end of its turn, and a packet of it
\* only between skb_dequeue and the end of xmit_one_packet.
HandsOK ==
  \A a \in Arbs :
    /\ (aqp[a] # None) <=> (apc[a] \in {"dequeue", "xmit", "readd"})
    /\ Len(askb[a]) = IF apc[a] = "xmit" THEN 1 ELSE 0

Waiting(q, s)    == Cardinality(OfSide(send_pkts[q], s))
InHands(a, q, s) == Cardinality(OfSide(Held(a, q), s))

\* Counted, and not (yet) on send_pkts.
Early(q, s) == unqueued[<<q, s>>] + InMaking(<<q, s>>)

ArbInv == TypeOK /\ HandsOK /\ SkbAccounted

-----------------------------------------------------------------------------
(* Counting the packets of a side *)

LEMMA OfSideFinite ==
  ASSUME NEW t \in Seq(Pkt), NEW s
  PROVE  IsFiniteSet(OfSide(t, s)) /\ Cardinality(OfSide(t, s)) \in Nat
  <1>1. Len(t) \in Nat /\ OfSide(t, s) \in SUBSET (1 .. Len(t))
    BY DEF OfSide
  <1>2. IsFiniteSet(1 .. Len(t))
    BY <1>1, FS_Interval
  <1> QED
    BY <1>1, <1>2, FS_Subset, FS_CardinalityType

\* A packet put at the end.
LEMMA AppendCounted ==
  ASSUME NEW t \in Seq(Pkt), NEW x \in Pkt, NEW s
  PROVE  Cardinality(OfSide(Append(t, x), s)) =
           Cardinality(OfSide(t, s)) + (IF x[1] = s THEN 1 ELSE 0)
  <1>1. Len(t) \in Nat /\ (Len(t) + 1) \notin OfSide(t, s)
    BY DEF OfSide
  <1>2. CASE x[1] = s
    <2>1. OfSide(Append(t, x), s) = OfSide(t, s) \cup {Len(t) + 1}
      BY <1>1, <1>2 DEF OfSide
    <2> QED
      BY <1>1, <1>2, <2>1, OfSideFinite, FS_AddElement
  <1>3. CASE x[1] # s
    <2>1. OfSide(Append(t, x), s) = OfSide(t, s)
      BY <1>1, <1>3 DEF OfSide
    <2> QED
      BY <1>3, <2>1, OfSideFinite
  <1> QED
    BY <1>2, <1>3

\* The first packet taken away: the others move down by one.
LEMMA TailCounted ==
  ASSUME NEW t \in Seq(Pkt), t # <<>>, NEW s
  PROVE  Cardinality(OfSide(t, s)) =
           Cardinality(OfSide(Tail(t), s)) + (IF Head(t)[1] = s THEN 1 ELSE 0)
  <1> DEFINE A == OfSide(Tail(t), s)
             B == OfSide(t, s) \ {1}
             f == [i \in A |-> i + 1]
  <1>1. /\ Tail(t) \in Seq(Pkt) /\ Len(t) \in Nat \ {0} /\ Len(Tail(t)) = Len(t) - 1
        /\ \A i \in 1 .. Len(t) - 1 : Tail(t)[i] = t[i + 1]
        /\ Head(t) = t[1]
    OBVIOUS
  <1>2. \A i \in A : i \in Int /\ i + 1 \in B
    BY <1>1 DEF OfSide
  <1>3. \A j \in B : j - 1 \in A /\ j \in Int
    BY <1>1 DEF OfSide
  <1>4. f \in Bijection(A, B)
    <2>1. f \in [A -> B]
      BY <1>2
    <2>2. \A i, j \in A : f[i] = f[j] => i = j
      BY <1>2
    <2>3. \A j \in B : \E i \in A : f[i] = j
      BY <1>3
    <2> QED
      BY <2>1, <2>2, <2>3 DEF Bijection, Injection, Surjection, IsInjective
  <1>5. IsFiniteSet(A) /\ Cardinality(A) \in Nat
    BY <1>1, OfSideFinite
  <1>6. Cardinality(B) = Cardinality(A)
    BY <1>4, <1>5, FS_Bijection DEF ExistsBijection
  <1>7. /\ IsFiniteSet(OfSide(t, s)) /\ Cardinality(OfSide(t, s)) \in Nat
        /\ Cardinality(B) = IF 1 \in OfSide(t, s) THEN Cardinality(OfSide(t, s)) - 1
                                                   ELSE Cardinality(OfSide(t, s))
    BY OfSideFinite, FS_RemoveElement
  <1>8. 1 \in OfSide(t, s) <=> Head(t)[1] = s
    BY <1>1 DEF OfSide
  <1> HIDE DEF A, B, f
  <1>9. Cardinality(OfSide(t, s)) = Cardinality(A) + (IF Head(t)[1] = s THEN 1 ELSE 0)
    BY <1>5, <1>6, <1>7, <1>8
  <1> QED
    BY <1>9 DEF A

\* One packet, or none.
LEMMA OneCounted ==
  ASSUME NEW u \in Seq(Pkt), Len(u) \in {0, 1}, NEW s
  PROVE  Cardinality(OfSide(u, s)) = IF Len(u) = 1 /\ u[1][1] = s THEN 1 ELSE 0
  <1>1. CASE Len(u) = 1 /\ u[1][1] = s
    <2>1. OfSide(u, s) = {1}
      BY <1>1 DEF OfSide
    <2> QED
      BY <1>1, <2>1, FS_Singleton
  <1>2. CASE ~(Len(u) = 1 /\ u[1][1] = s)
    <2>1. OfSide(u, s) = {}
      BY <1>2 DEF OfSide
    <2> QED
      BY <1>2, <2>1, FS_EmptySet
  <1> QED
    BY <1>1, <1>2

\* A packet in front of others.
LEMMA ConcatOne ==
  ASSUME NEW t \in Seq(Pkt)
  PROVE  /\ <<>> \o t = t
         /\ \A u \in Seq(Pkt) : Len(u) = 1 =>
              u \o t \in Seq(Pkt) /\ u \o t # <<>> /\ Head(u \o t) = u[1] /\ Tail(u \o t) = t
         /\ t # <<>> => <<Head(t)>> \o Tail(t) = t
  <1>1. /\ \A u \in Seq(Pkt) : u \o t \in Seq(Pkt) /\ Len(u \o t) = Len(u) + Len(t)
        /\ \A u \in Seq(Pkt) : \A i \in 1 .. Len(u) + Len(t) : (u \o t)[i] =
              IF i <= Len(u) THEN u[i] ELSE t[i - Len(u)]
    BY ConcatProperties, Zenon
  <1>2. Len(t) \in Nat
    OBVIOUS
  <1>3. <<>> \o t = t
    OBVIOUS
  <1>4. ASSUME NEW u \in Seq(Pkt), Len(u) = 1
        PROVE  u \o t \in Seq(Pkt) /\ u \o t # <<>> /\ Head(u \o t) = u[1] /\ Tail(u \o t) = t
    <2>1. /\ u \o t \in Seq(Pkt) /\ Len(u \o t) = 1 + Len(t)
          /\ \A i \in 1 .. 1 + Len(t) : (u \o t)[i] = IF i <= 1 THEN u[i] ELSE t[i - 1]
      BY <1>1, <1>4
    <2>2. u \o t # <<>> /\ Head(u \o t) = u[1]
      BY <1>2, <2>1
    <2>3. /\ Tail(u \o t) \in Seq(Pkt) /\ Len(Tail(u \o t)) = Len(t)
          /\ \A i \in 1 .. Len(t) : Tail(u \o t)[i] = (u \o t)[i + 1]
      BY <1>2, <2>1, <2>2, HeadTailProperties
    <2>4. \A i \in 1 .. Len(t) : Tail(u \o t)[i] = t[i]
      BY <1>2, <2>1, <2>3
    <2>5. Tail(u \o t) = t
      BY <2>3, <2>4, SeqEqual
    <2> QED
      BY <2>1, <2>2, <2>5
  <1>5. ASSUME t # <<>> PROVE <<Head(t)>> \o Tail(t) = t
    BY <1>5, HeadTailProperties
  <1> QED
    BY <1>3, <1>4, <1>5

\* A packet put back in front.
LEMMA PushCounted ==
  ASSUME NEW u \in Seq(Pkt), Len(u) = 1, NEW t \in Seq(Pkt), NEW s
  PROVE  Cardinality(OfSide(u \o t, s)) =
           Cardinality(OfSide(t, s)) + (IF u[1][1] = s THEN 1 ELSE 0)
  <1>1. u \o t \in Seq(Pkt) /\ u \o t # <<>> /\ Head(u \o t) = u[1] /\ Tail(u \o t) = t
    BY ConcatOne
  <1> QED
    BY <1>1, TailCounted, ZenonT(60)

-----------------------------------------------------------------------------
(* The arbiters' hands and the account *)

\* What an arbiter holds, by the step it is at.
HandsCount ==
  \A a \in Arbs, q \in QPs, s \in Sides :
    InHands(a, q, s) = IF apc[a] = "xmit" /\ aqp[a] = q /\ askb[a][1][1] = s THEN 1 ELSE 0

LEMMA InHandsIs == TypeOK /\ HandsOK => HandsCount
  <1> SUFFICES ASSUME TypeOK, HandsOK, NEW a \in Arbs, NEW q \in QPs, NEW s \in Sides
               PROVE  InHands(a, q, s) =
                        IF apc[a] = "xmit" /\ aqp[a] = q /\ askb[a][1][1] = s THEN 1 ELSE 0
    BY DEF HandsCount
  <1>1. askb[a] \in Seq(Pkt) /\ Len(askb[a]) = IF apc[a] = "xmit" THEN 1 ELSE 0
    BY DEF TypeOK, HandsOK, Pkt
  <1>2. CASE aqp[a] = q
    BY <1>1, <1>2, OneCounted DEF InHands, Held
  <1>3. CASE aqp[a] # q
    <2>1. Held(a, q) = <<>> /\ <<>> \in Seq(Pkt) /\ Len(<<>>) = 0
      BY <1>3 DEF Held
    <2> QED
      BY <1>3, <2>1, OneCounted DEF InHands
  <1> QED
    BY <1>2, <1>3

LEMMA InHandsNext == TypeOK' /\ HandsOK' => HandsCount'
  BY InHandsIs, PTL

LEMMA WaitingNat ==
  ASSUME TypeOK, NEW q \in QPs, NEW s
  PROVE  Waiting(q, s) \in Nat
  BY OfSideFinite DEF TypeOK, Waiting, Pkt

LEMMA EarlyNat ==
  ASSUME TypeOK, NEW q \in QPs, NEW s \in Sides
  PROVE  Early(q, s) \in Nat
  BY DEF TypeOK, Early, InMaking, Producers

LEMMA EarlyNext ==
  ASSUME TypeOK', NEW q \in QPs, NEW s \in Sides
  PROVE  Early(q, s)' \in Nat
  BY DEF TypeOK, Early, InMaking, Producers

LEMMA WaitingNext ==
  ASSUME TypeOK', NEW q \in QPs, NEW s
  PROVE  Waiting(q, s)' \in Nat
  BY OfSideFinite DEF TypeOK, Waiting, Pkt

LEMMA AccountIs ==
  SkbAccounted <=>
    \A q \in QPs, s \in Sides :
      skb_out[<<q, s>>] = Early(q, s) + Waiting(q, s) + InHands("task", q, s)
                          + InHands("destroy", q, s)
  BY DEF SkbAccounted, Waiting, InHands, Early

\* The packet in an arbiter's hands.
LEMMA PacketInHand ==
  ASSUME ArbInv, NEW a \in Arbs, apc[a] = "xmit"
  PROVE  /\ aqp[a] \in QPs /\ askb[a] \in Seq(Pkt) /\ Len(askb[a]) = 1
         /\ askb[a][1] \in Pkt /\ askb[a][1][1] \in Sides
         /\ skb_out[<<aqp[a], askb[a][1][1]>>] \in Nat \ {0}
  <1>1. /\ aqp[a] \in QPs /\ askb[a] \in Seq(Pkt) /\ Len(askb[a]) = 1
        /\ askb[a][1] \in Pkt
    BY DEF ArbInv, TypeOK, HandsOK, Pkt
  <1>2. askb[a][1][1] \in Sides
    BY <1>1 DEF Pkt
  <1>3. PICK q \in QPs, s \in Sides : q = aqp[a] /\ s = askb[a][1][1]
    BY <1>1, <1>2
  <1>4. InHands(a, q, s) = 1
    BY <1>3, InHandsIs DEF ArbInv, HandsCount
  <1>5. \A b \in Arbs : InHands(b, q, s) \in Nat
    BY InHandsIs DEF ArbInv, HandsCount
  <1>6. skb_out[<<q, s>>] = Early(q, s) + Waiting(q, s) + InHands("task", q, s)
                            + InHands("destroy", q, s)
    BY AccountIs DEF ArbInv
  <1>7. skb_out[<<q, s>>] \in Nat \ {0}
    BY <1>4, <1>5, <1>6, WaitingNat, EarlyNat DEF ArbInv, Arbs
  <1> QED
    BY <1>1, <1>2, <1>3, <1>7

\* Every step of an arbiter leaves its hands in order.
LEMMA HandsStep ==
  ASSUME ArbInv, [Next]_vars
  PROVE  HandsOK'
  <1> USE DEF HandsOK
  <1>1. HandsOK /\ TypeOK
    BY DEF ArbInv
  <1>2. CASE UNCHANGED <<apc, aqp, askb>>
    BY <1>1, <1>2
  <1>3. CASE TaskStart
    BY <1>1, <1>3 DEF TaskStart, TypeOK, Arbs
  <1>4. CASE \E q \in QPs : DestroyDrain(q)
    BY <1>1, <1>4 DEF DestroyDrain, TypeOK, Arbs
  <1>5. ASSUME NEW a \in Arbs, PickNone(a) \/ DequeueNone(a) PROVE HandsOK'
    BY <1>1, <1>5 DEF PickNone, DequeueNone, TypeOK
  <1>6. ASSUME NEW a \in Arbs, Pick(a) PROVE HandsOK'
    BY <1>1, <1>6, ArbiterAssumption DEF Pick, TypeOK
  <1>7. ASSUME NEW a \in Arbs, Dequeue(a) PROVE HandsOK'
    BY <1>1, <1>7 DEF Dequeue, TypeOK
  <1>8. ASSUME NEW a \in Arbs, XmitSent(a) PROVE HandsOK'
    BY <1>1, <1>8 DEF XmitSent, consume_skb, TypeOK
  <1>9. ASSUME NEW a \in Arbs, XmitStopped(a) PROVE HandsOK'
    BY <1>1, <1>9 DEF XmitStopped, give_up, TypeOK
  <1>10. ASSUME NEW a \in Arbs, XmitError(a) PROVE HandsOK'
    BY <1>1, <1>10 DEF XmitError, consume_skb, give_up, TypeOK
  <1>11. ASSUME NEW a \in Arbs, Readd(a) PROVE HandsOK'
    BY <1>1, <1>11 DEF Readd, TypeOK
  <1>12. CASE \/ \E q \in QPs, side \in Sides : Produce(q, side)
              \/ \E q \in QPs : ThrottleTest(q) \/ ThrottleSet(q) \/ BuildFails(q) \/ FillFails(q)
                                \/ SaveReply(q) \/ QPError(q) \/ DestroyEnd(q)
              \/ Stop \/ Restart \/ UNCHANGED vars
    <2>1. UNCHANGED <<apc, aqp, askb>>
      BY <1>12 DEF Produce, Build, Queue, Enlist, RunArbiter, ThrottleTest, ThrottleSet,
                   BuildFails, FillFails, SaveReply, QPError, DestroyEnd, Stop, Restart,
                   vars, avars
    <2> QED
      BY <1>2, <2>1
  <1> QED
    BY <1>3, <1>4, <1>5, <1>6, <1>7, <1>8, <1>9, <1>10, <1>11, <1>12 DEF Next, ArbStep

\* OnList and the list itself.
LEMMA ListTypes ==
  ASSUME TypeOK
  PROVE  /\ \A q \in QPs : ~OnList(q) => Append(qp_list, q) \in Seq(QPs)
                                         /\ IsInjective(Append(qp_list, q))
         /\ qp_list # <<>> => /\ Head(qp_list) \in QPs /\ Tail(qp_list) \in Seq(QPs)
                              /\ IsInjective(Tail(qp_list))
  <1>1. qp_list \in Seq(QPs) /\ IsInjective(qp_list)
    BY DEF TypeOK
  <1>2. ASSUME NEW q \in QPs, ~OnList(q)
        PROVE  Append(qp_list, q) \in Seq(QPs) /\ IsInjective(Append(qp_list, q))
    BY <1>1, <1>2 DEF OnList, IsInjective
  <1>3. ASSUME qp_list # <<>>
        PROVE  /\ Head(qp_list) \in QPs /\ Tail(qp_list) \in Seq(QPs)
               /\ IsInjective(Tail(qp_list))
    BY <1>1, <1>3 DEF IsInjective
  <1> QED
    BY <1>2, <1>3

\* A packet leaves: the types.
LEMMA ConsumeTypes ==
  ASSUME ArbInv, NEW a \in Arbs, apc[a] = "xmit", consume_skb(a)
  PROVE  /\ skb_out' \in [Producers -> Nat] /\ run_req' \in [QPs -> BOOLEAN]
         /\ wire' \in [Producers -> Seq(Pkt)] /\ askb' \in [Arbs -> Seq(Pkt)]
  <1>1. PICK q \in QPs, s \in Sides, x \in Pkt :
          /\ q = aqp[a] /\ x = askb[a][1] /\ s = x[1]
          /\ skb_out[<<q, s>>] \in Nat \ {0}
    BY PacketInHand
  <1>2. /\ skb_out' = [skb_out EXCEPT ![<<q, s>>] = @ - 1]
        /\ wire' = [wire EXCEPT ![<<q, s>>] = Append(@, x)]
        /\ askb' = [askb EXCEPT ![a] = <<>>]
        /\ run_req' = [run_req EXCEPT ![q] =
             @ \/ (s = "req" /\ need_req_skb[q] /\ skb_out[<<q, s>>] - 1 < MaxSkb)]
    BY <1>1 DEF consume_skb, account_skb
  <1>3. <<q, s>> \in Producers
    BY DEF Producers
  <1>4. /\ skb_out \in [Producers -> Nat] /\ run_req \in [QPs -> BOOLEAN]
        /\ wire \in [Producers -> Seq(Pkt)] /\ askb \in [Arbs -> Seq(Pkt)]
    BY DEF ArbInv, TypeOK, Pkt
  <1>5. skb_out' \in [Producers -> Nat]
    BY <1>1, <1>2, <1>3, <1>4
  <1>6. wire' \in [Producers -> Seq(Pkt)]
    BY <1>2, <1>3, <1>4
  <1>7. run_req' \in [QPs -> BOOLEAN]
    BY <1>2, <1>4
  <1>8. askb' \in [Arbs -> Seq(Pkt)]
    BY <1>2, <1>4
  <1> QED
    BY <1>5, <1>6, <1>7, <1>8

\* No step disturbs a type.
LEMMA TypeStep ==
  ASSUME ArbInv, [Next]_vars
  PROVE  TypeOK'
  <1>1. TypeOK /\ HandsOK
    BY DEF ArbInv
  <1> USE DEF TypeOK, Producers
  <1>2. ASSUME NEW q \in QPs, NEW side \in Sides, Queue(q, side) PROVE TypeOK'
    <2>1. <<q, side>> \in Producers /\ <<side, made[<<q, side>>] + 1>> \in Sides \X (Nat \ {0})
      BY <1>1
    <2>2. send_pkts' \in [QPs -> Seq(Sides \X (Nat \ {0}))]
      BY <1>1, <1>2, <2>1 DEF Queue
    <2>3. /\ made' \in [Producers -> Nat]
          /\ ppc' \in [Producers -> {"idle", "throttle", "built", "cloned", "list", "run"}]
      BY <1>1, <1>2, <2>1 DEF Queue
    <2> QED
      BY <1>1, <1>2, <2>2, <2>3 DEF Queue, qpvars, avars, nvars
  <1>3. ASSUME NEW q \in QPs, NEW side \in Sides, Enlist(q, side) PROVE TypeOK'
    <2>1. qp_list' \in Seq(QPs) /\ IsInjective(qp_list')
      BY <1>1, <1>3, ListTypes DEF Enlist
    <2> QED
      BY <1>1, <1>3, <2>1 DEF Enlist, qpvars, avars, nvars
  <1>4. ASSUME NEW q \in QPs, NEW side \in Sides, RunArbiter(q, side) PROVE TypeOK'
    BY <1>1, <1>4 DEF RunArbiter, qpvars, nvars
  <1>5. CASE \E q \in QPs : ThrottleTest(q) \/ ThrottleSet(q) \/ BuildFails(q)
    BY <1>1, <1>5 DEF ThrottleTest, ThrottleSet, BuildFails, avars, nvars, Sides
  <1>17. ASSUME NEW q \in QPs, NEW side \in Sides,
                Build(q, side) \/ FillFails(q) \/ SaveReply(q)
         PROVE  TypeOK'
    <2>1. \A t \in Sides : <<q, t>> \in Producers
      OBVIOUS
    <2>2. /\ skb_out' \in [Producers -> Nat] /\ unqueued' \in [Producers -> Nat]
          /\ ppc' \in [Producers -> {"idle", "throttle", "built", "cloned", "list", "run"}]
      <3>1. /\ "req" \in Sides /\ "resp" \in Sides
            /\ skb_out \in [Producers -> Nat] /\ unqueued \in [Producers -> Nat]
            /\ ppc \in [Producers -> {"idle", "throttle", "built", "cloned", "list", "run"}]
        BY <1>1 DEF Sides
      <3> HIDE DEF TypeOK, Producers
      <3>2. CASE Build(q, side)
        BY <2>1, <3>1, <3>2 DEF Build
      <3>3. CASE FillFails(q)
        BY <2>1, <3>1, <3>3 DEF FillFails
      <3>4. CASE SaveReply(q)
        BY <2>1, <3>1, <3>4 DEF SaveReply
      <3> QED
        BY <1>17, <3>2, <3>3, <3>4
    <2> QED
      BY <1>1, <1>17, <2>2 DEF Build, FillFails, SaveReply, qpvars, avars, nvars
  <1>6. CASE \E q \in QPs : QPError(q) \/ DestroyEnd(q)
    BY <1>1, <1>6 DEF QPError, DestroyEnd, avars
  <1>7. CASE TaskStart \/ \E q \in QPs : DestroyDrain(q)
    BY <1>1, <1>7 DEF TaskStart, DestroyDrain, qpvars, nvars
  <1>8. CASE Stop \/ Restart
    BY <1>1, <1>8 DEF Stop, Restart, qpvars, avars
  <1>9. ASSUME NEW a \in Arbs, PickNone(a) \/ DequeueNone(a) PROVE TypeOK'
    BY <1>1, <1>9 DEF PickNone, DequeueNone, qpvars, nvars
  <1>10. ASSUME NEW a \in Arbs, Pick(a) PROVE TypeOK'
    <2>1. /\ Head(qp_list) \in QPs /\ qp_list' \in Seq(QPs) /\ IsInjective(qp_list')
      BY <1>1, <1>10, ListTypes DEF Pick
    <2> QED
      BY <1>1, <1>10, <2>1 DEF Pick, qpvars, nvars
  <1>11. ASSUME NEW a \in Arbs, Dequeue(a) PROVE TypeOK'
    <2>1. aqp[a] \in QPs
      BY <1>1, <1>11 DEF Dequeue, HandsOK
    <2>2. /\ send_pkts' \in [QPs -> Seq(Sides \X (Nat \ {0}))]
          /\ askb' \in [Arbs -> Seq(Sides \X (Nat \ {0}))]
      BY <1>1, <1>11, <2>1 DEF Dequeue
    <2> QED
      BY <1>1, <1>11, <2>2 DEF Dequeue, qpvars, nvars
  <1>12. ASSUME NEW a \in Arbs, XmitSent(a) PROVE TypeOK'
    <2>1. /\ skb_out' \in [Producers -> Nat] /\ run_req' \in [QPs -> BOOLEAN]
          /\ wire' \in [Producers -> Seq(Pkt)] /\ askb' \in [Arbs -> Seq(Pkt)]
      BY <1>12, ConsumeTypes DEF XmitSent
    <2> QED
      BY <1>1, <1>12, <2>1 DEF XmitSent, nvars, Pkt
  <1>13. ASSUME NEW a \in Arbs, XmitError(a) PROVE TypeOK'
    <2>1. /\ skb_out' \in [Producers -> Nat] /\ run_req' \in [QPs -> BOOLEAN]
          /\ wire' \in [Producers -> Seq(Pkt)] /\ askb' \in [Arbs -> Seq(Pkt)]
      BY <1>13, ConsumeTypes DEF XmitError
    <2> QED
      BY <1>1, <1>13, <2>1 DEF XmitError, give_up, Pkt
  <1>14. ASSUME NEW a \in Arbs, XmitStopped(a) PROVE TypeOK'
    <2>1. aqp[a] \in QPs /\ askb[a] \in Seq(Pkt)
      BY <1>1, <1>14, PacketInHand DEF XmitStopped
    <2>2. askb[a] \o send_pkts[aqp[a]] \in Seq(Pkt)
      BY <1>1, <2>1, ConcatProperties DEF Pkt
    <2>3. send_pkts' \in [QPs -> Seq(Pkt)] /\ askb' \in [Arbs -> Seq(Pkt)]
      <3>1. /\ send_pkts \in [QPs -> Seq(Pkt)] /\ askb \in [Arbs -> Seq(Pkt)]
            /\ <<>> \in Seq(Pkt)
        BY <1>1 DEF Pkt
      <3>2. /\ send_pkts' = [send_pkts EXCEPT ![aqp[a]] = askb[a] \o send_pkts[aqp[a]]]
            /\ askb' = [askb EXCEPT ![a] = <<>>]
        BY <1>14 DEF XmitStopped
      <3> HIDE DEF TypeOK
      <3> QED
        BY <2>2, <3>1, <3>2
    <2> QED
      BY <1>1, <1>14, <2>3 DEF XmitStopped, give_up, qpvars, Pkt
  <1>15. ASSUME NEW a \in Arbs, Readd(a) PROVE TypeOK'
    <2>1. aqp[a] \in QPs
      BY <1>1, <1>15 DEF Readd, HandsOK
    <2>2. qp_list' \in Seq(QPs) /\ IsInjective(qp_list')
      BY <1>1, <1>15, <2>1, ListTypes DEF Readd
    <2> QED
      BY <1>1, <1>15, <2>2 DEF Readd, qpvars, nvars
  <1>16. CASE UNCHANGED vars
    BY <1>1, <1>16 DEF vars, qpvars, avars, nvars
  <1> QED
    BY <1>2, <1>3, <1>4, <1>5, <1>6, <1>7, <1>8, <1>9, <1>10, <1>11, <1>12, <1>13, <1>14,
       <1>15, <1>16, <1>17 DEF Next, ArbStep, Produce, Sides

\* One side of one QP has its account changed by d, and its packets by as many.
LEMMA AccountStep ==
  ASSUME ArbInv, [Next]_vars, TypeOK', HandsOK'
  PROVE  SkbAccounted'
  <1>1. TypeOK /\ HandsOK /\ SkbAccounted
    BY DEF ArbInv
  <1>2. HandsCount /\ HandsCount'
    BY <1>1, InHandsIs, InHandsNext
  <1>3. \A q \in QPs, s \in Sides :
          skb_out[<<q, s>>] = Early(q, s) + Waiting(q, s) + InHands("task", q, s)
                              + InHands("destroy", q, s)
    BY <1>1, AccountIs
  <1>4. \A q \in QPs, s \in Sides : Waiting(q, s) \in Nat /\ Early(q, s) \in Nat
    BY <1>1, WaitingNat, EarlyNat
  <1>5. SUFFICES ASSUME NEW q \in QPs, NEW s \in Sides
                 PROVE  skb_out'[<<q, s>>] = Early(q, s)' + Waiting(q, s)'
                                             + InHands("task", q, s)' + InHands("destroy", q, s)'
    BY DEF SkbAccounted, Waiting, InHands, Early
  <1> DEFINE h(a) == IF apc[a] = "xmit" /\ aqp[a] = q /\ askb[a][1][1] = s THEN 1 ELSE 0
  <1>6. /\ skb_out[<<q, s>>] = Early(q, s) + Waiting(q, s) + h("task") + h("destroy")
        /\ skb_out[<<q, s>>] \in Nat /\ Waiting(q, s) \in Nat /\ Early(q, s) \in Nat
        /\ InHands("task", q, s)' = h("task")' /\ InHands("destroy", q, s)' = h("destroy")'
        /\ <<q, s>> \in Producers
        /\ \A a \in Arbs : h(a) \in Nat /\ h(a)' \in Nat
    <2>1. "task" \in Arbs /\ "destroy" \in Arbs /\ <<q, s>> \in Producers
      BY DEF Arbs, Producers
    <2>2. \A a \in Arbs : InHands(a, q, s) = h(a) /\ InHands(a, q, s)' = h(a)'
      BY <1>2 DEF HandsCount
    <2>3. \A a \in Arbs : h(a) \in Nat /\ h(a)' \in Nat
      OBVIOUS
    <2>4. skb_out[<<q, s>>] \in Nat
      BY <1>1, <2>1 DEF TypeOK
    <2> HIDE DEF h
    <2> QED
      BY <1>3, <1>4, <2>1, <2>2, <2>3, <2>4
  <1>7. CASE /\ UNCHANGED <<send_pkts, skb_out>> /\ Early(q, s)' = Early(q, s)
             /\ h("task")' = h("task") /\ h("destroy")' = h("destroy")
    BY <1>6, <1>7 DEF Waiting
  <1> DEFINE m == IF ppc[<<q, s>>] \in {"built", "cloned"} THEN 1 ELSE 0
  <1>17. /\ Early(q, s) = unqueued[<<q, s>>] + m /\ Early(q, s)' = unqueued'[<<q, s>>] + m'
        /\ DOMAIN ppc = Producers /\ DOMAIN skb_out = Producers /\ DOMAIN unqueued = Producers
        /\ unqueued[<<q, s>>] \in Nat
    BY <1>1, <1>6 DEF Early, InMaking, TypeOK
  <1>18. ASSUME UNCHANGED <<unqueued, ppc>> PROVE Early(q, s)' = Early(q, s)
    BY <1>18 DEF Early, InMaking
  <1>8. ASSUME NEW p \in QPs, NEW side \in Sides, Queue(p, side)
        PROVE  skb_out'[<<q, s>>] = Early(q, s)' + Waiting(q, s)' + h("task")' + h("destroy")'
    <2>1. /\ UNCHANGED <<apc, aqp, askb, skb_out, unqueued>>
          /\ ppc[<<p, side>>] \in {"built", "cloned"}
          /\ ppc' = [ppc EXCEPT ![<<p, side>>] = "list"]
          /\ send_pkts' = [send_pkts EXCEPT ![p] = Append(@, <<side, made[<<p, side>>] + 1>>)]
      BY <1>8 DEF Queue, avars
    <2>2. /\ <<p, side>> \in Producers /\ <<side, made[<<p, side>>] + 1>> \in Pkt
          /\ send_pkts[p] \in Seq(Pkt) /\ DOMAIN send_pkts = QPs
      BY <1>1, SMTT(30) DEF TypeOK, Producers, Pkt
    <2>3. Waiting(q, s)' = Waiting(q, s) + (IF p = q /\ side = s THEN 1 ELSE 0)
      <3>1. CASE p = q
        BY <1>6, <2>1, <2>2, <3>1, AppendCounted DEF Waiting
      <3>2. CASE p # q
        BY <1>6, <2>1, <2>2, <3>2 DEF Waiting
      <3> QED
        BY <3>1, <3>2
    <2>4. Early(q, s) = Early(q, s)' + (IF p = q /\ side = s THEN 1 ELSE 0)
      BY <1>6, <1>17, <2>1, <2>2, SMTT(30)
    <2>5. h("task")' = h("task") /\ h("destroy")' = h("destroy") /\ Early(q, s)' \in Nat
      BY <1>17, <2>1
    <2> HIDE DEF h, m
    <2> QED
      BY <1>6, <2>1, <2>3, <2>4, <2>5
  <1>16. ASSUME NEW p \in QPs, NEW side \in Sides,
                Build(p, side) \/ FillFails(p) \/ SaveReply(p)
         PROVE  skb_out'[<<q, s>>] = Early(q, s)' + Waiting(q, s)' + h("task")' + h("destroy")'
    <2>1. /\ UNCHANGED <<apc, aqp, askb, send_pkts>>
          /\ \/ Build(p, side) \/ FillFails(p) \/ SaveReply(p)
      BY <1>16 DEF Build, FillFails, SaveReply, avars
    <2>2. \A t \in Sides : <<p, t>> \in Producers
      BY DEF Producers
    <2>3. skb_out'[<<q, s>>] + Early(q, s) = skb_out[<<q, s>>] + Early(q, s)'
      <3>1. CASE Build(p, side)
        BY <1>6, <1>17, <2>2, <3>1 DEF Build, may_build
      <3>2. CASE FillFails(p)
        <4>1. /\ <<p, "req">> \in Producers /\ UNCHANGED skb_out /\ ppc[<<p, "req">>] = "built"
              /\ unqueued' = [unqueued EXCEPT ![<<p, "req">>] = @ + 1]
              /\ ppc' = [ppc EXCEPT ![<<p, "req">>] = "idle"]
          BY <2>2, <3>2 DEF FillFails, Sides
        <4>2. Early(q, s)' = Early(q, s)
          BY <1>6, <1>17, <4>1
        <4> QED
          BY <1>6, <4>1, <4>2
      <3>3. CASE SaveReply(p)
        BY <1>6, <1>17, <2>2, <3>3 DEF SaveReply, Sides
      <3> QED
        BY <2>1, <3>1, <3>2, <3>3
    <2>4. /\ h("task")' = h("task") /\ h("destroy")' = h("destroy")
          /\ Waiting(q, s)' = Waiting(q, s)
      BY <2>1 DEF Waiting
    <2>5. Early(q, s)' \in Nat /\ skb_out'[<<q, s>>] \in Nat
      BY <1>6, EarlyNext DEF TypeOK
    <2>6. h("task") \in Nat /\ h("destroy") \in Nat
      OBVIOUS
    <2>7. skb_out[<<q, s>>] = Early(q, s) + Waiting(q, s) + h("task") + h("destroy")
      BY <1>6
    <2>8. Early(q, s) \in Nat /\ Waiting(q, s) \in Nat /\ skb_out[<<q, s>>] \in Nat
      BY <1>6
    <2> HIDE DEF h, m
    <2> QED
      BY <2>3, <2>4, <2>5, <2>6, <2>7, <2>8
  <1>9. ASSUME NEW a \in Arbs, Dequeue(a)
        PROVE  skb_out'[<<q, s>>] = Early(q, s)' + Waiting(q, s)' + h("task")' + h("destroy")'
    <2>1. PICK p \in QPs : p = aqp[a]
      BY <1>1, <1>9 DEF Dequeue, TypeOK, HandsOK
    <2>2. /\ UNCHANGED <<skb_out, aqp, unqueued, ppc>> /\ apc[a] = "dequeue"
          /\ send_pkts[p] # <<>>
          /\ apc' = [apc EXCEPT ![a] = "xmit"]
          /\ askb' = [askb EXCEPT ![a] = <<Head(send_pkts[p])>>]
          /\ send_pkts' = [send_pkts EXCEPT ![p] = Tail(@)]
      BY <1>9, <2>1 DEF Dequeue
    <2>3. /\ send_pkts[p] \in Seq(Pkt) /\ DOMAIN send_pkts = QPs
          /\ DOMAIN askb = Arbs /\ DOMAIN apc = Arbs
      BY <1>1 DEF TypeOK, Pkt
    <2>4. Waiting(q, s) = Waiting(q, s)' + (IF p = q /\ Head(send_pkts[p])[1] = s THEN 1 ELSE 0)
      <3>1. CASE p = q
        BY <2>2, <2>3, <3>1, TailCounted DEF Waiting
      <3>2. CASE p # q
        BY <1>6, <2>2, <2>3, <3>2 DEF Waiting
      <3> QED
        BY <3>1, <3>2
    <2>5. Waiting(q, s)' \in Nat
      BY WaitingNext
    <2>6. h(a) = 0 /\ h(a)' = IF p = q /\ Head(send_pkts[p])[1] = s THEN 1 ELSE 0
      BY <2>1, <2>2, <2>3
    <2>7. \A b \in Arbs : b # a => h(b)' = h(b)
      BY <2>2, <2>3
    <2>8. h("task")' + h("destroy")' = h("task") + h("destroy") + h(a)'
      BY <2>6, <2>7 DEF Arbs
    <2>9. \A b \in {"task", "destroy"} : h(b) \in Nat /\ h(b)' \in Nat
      BY <1>6 DEF Arbs
    <2>10. /\ skb_out'[<<q, s>>] = skb_out[<<q, s>>] /\ h(a)' \in Nat
           /\ Early(q, s)' = Early(q, s)
      BY <1>6, <1>18, <2>2
    <2>11. Waiting(q, s) = Waiting(q, s)' + h(a)'
      BY <2>4, <2>6
    <2> HIDE DEF h
    <2> QED
      BY <1>6, <2>5, <2>8, <2>9, <2>10, <2>11
  <1>10. ASSUME NEW a \in Arbs, apc[a] = "xmit", consume_skb(a), apc'[a] # "xmit",
                UNCHANGED <<send_pkts, unqueued, ppc>>,
                \A b \in Arbs : b # a => apc'[b] = apc[b] /\ aqp'[b] = aqp[b]
         PROVE  skb_out'[<<q, s>>] = Early(q, s)' + Waiting(q, s)' + h("task")' + h("destroy")'
    <2>1. PICK p \in QPs, side \in Sides : p = aqp[a] /\ side = askb[a][1][1]
      BY <1>10, PacketInHand
    <2>2. /\ skb_out' = [skb_out EXCEPT ![<<p, side>>] = @ - 1]
          /\ askb' = [askb EXCEPT ![a] = <<>>]
      BY <1>10, <2>1 DEF consume_skb, account_skb
    <2>3. <<p, side>> \in Producers /\ DOMAIN skb_out = Producers /\ DOMAIN askb = Arbs
      BY <1>1 DEF TypeOK, Producers
    <2>4. h(a) = (IF p = q /\ side = s THEN 1 ELSE 0) /\ h(a)' = 0
      BY <1>10, <2>1
    <2>5. \A b \in Arbs : b # a => h(b)' = h(b)
      BY <1>10, <2>2, <2>3
    <2>6. h("task") + h("destroy") = h("task")' + h("destroy")' + h(a)
      BY <2>4, <2>5 DEF Arbs
    <2>7. skb_out'[<<q, s>>] = skb_out[<<q, s>>] - (IF p = q /\ side = s THEN 1 ELSE 0)
      BY <1>6, <2>2, <2>3
    <2>8. Waiting(q, s)' = Waiting(q, s) /\ Early(q, s)' = Early(q, s)
      BY <1>10, <1>18 DEF Waiting
    <2>9. \A b \in {"task", "destroy"} : h(b) \in Nat /\ h(b)' \in Nat
      BY <1>6 DEF Arbs
    <2> HIDE DEF h
    <2> QED
      BY <1>6, <2>4, <2>6, <2>7, <2>8, <2>9
  <1>11. ASSUME NEW a \in Arbs, XmitStopped(a)
         PROVE  skb_out'[<<q, s>>] = Early(q, s)' + Waiting(q, s)' + h("task")' + h("destroy")'
    <2>1. PICK p \in QPs : p = aqp[a] /\ apc[a] = "xmit"
      BY <1>11, PacketInHand DEF XmitStopped
    <2>2. /\ UNCHANGED <<skb_out, unqueued, ppc>>
          /\ apc' = [apc EXCEPT ![a] = "idle"] /\ aqp' = [aqp EXCEPT ![a] = None]
          /\ askb' = [askb EXCEPT ![a] = <<>>]
          /\ send_pkts' = [send_pkts EXCEPT ![p] = askb[a] \o send_pkts[p]]
      BY <1>11, <2>1 DEF XmitStopped, give_up
    <2>3. /\ send_pkts[p] \in Seq(Pkt) /\ DOMAIN send_pkts = QPs
          /\ DOMAIN askb = Arbs /\ DOMAIN apc = Arbs /\ DOMAIN aqp = Arbs
          /\ askb[a] \in Seq(Pkt) /\ Len(askb[a]) = 1
      BY <1>1, <2>1 DEF TypeOK, HandsOK, Pkt
    <2>4. Waiting(q, s)' = Waiting(q, s) + (IF p = q /\ askb[a][1][1] = s THEN 1 ELSE 0)
      <3>1. CASE p = q
        <4>1. Waiting(q, s)' = Cardinality(OfSide(askb[a] \o send_pkts[p], s))
          BY <2>2, <2>3, <3>1 DEF Waiting
        <4> QED
          BY <2>3, <3>1, <4>1, PushCounted DEF Waiting
      <3>2. CASE p # q
        BY <1>6, <2>2, <2>3, <3>2 DEF Waiting
      <3> QED
        BY <3>1, <3>2
    <2>5. h(a) = (IF p = q /\ askb[a][1][1] = s THEN 1 ELSE 0) /\ h(a)' = 0
      BY <2>1, <2>2, <2>3
    <2>6. \A b \in Arbs : b # a => h(b)' = h(b)
      BY <2>2, <2>3
    <2>7. h("task") + h("destroy") = h("task")' + h("destroy")' + h(a)
      BY <2>5, <2>6 DEF Arbs
    <2>8. \A b \in {"task", "destroy"} : h(b) \in Nat /\ h(b)' \in Nat
      BY <1>6 DEF Arbs
    <2>9. /\ skb_out'[<<q, s>>] = skb_out[<<q, s>>] /\ h(a) \in Nat
          /\ Early(q, s)' = Early(q, s)
      BY <1>6, <1>18, <2>2
    <2>10. Waiting(q, s)' = Waiting(q, s) + h(a)
      BY <2>4, <2>5
    <2> HIDE DEF h
    <2> QED
      BY <1>6, <2>7, <2>8, <2>9, <2>10
  <1>12. ASSUME NEW a \in Arbs, XmitSent(a) \/ XmitError(a)
         PROVE  skb_out'[<<q, s>>] = Early(q, s)' + Waiting(q, s)' + h("task")' + h("destroy")'
    <2>1. /\ apc[a] = "xmit" /\ consume_skb(a) /\ UNCHANGED <<send_pkts, unqueued, ppc>>
          /\ \/ apc' = [apc EXCEPT ![a] = "readd"] /\ UNCHANGED aqp
             \/ apc' = [apc EXCEPT ![a] = "idle"] /\ aqp' = [aqp EXCEPT ![a] = None]
      BY <1>12 DEF XmitSent, XmitError, give_up
    <2>2. DOMAIN apc = Arbs /\ DOMAIN aqp = Arbs
      BY <1>1 DEF TypeOK
    <2>3. apc'[a] # "xmit" /\ \A b \in Arbs : b # a => apc'[b] = apc[b] /\ aqp'[b] = aqp[b]
      BY <2>1, <2>2
    <2> QED
      BY <1>10, <2>1, <2>3
  <1>13. ASSUME NEW a \in Arbs, PickNone(a) \/ Pick(a) \/ DequeueNone(a) \/ Readd(a)
         PROVE  /\ UNCHANGED <<send_pkts, skb_out>> /\ Early(q, s)' = Early(q, s)
                /\ h("task")' = h("task") /\ h("destroy")' = h("destroy")
    <2>1. /\ UNCHANGED <<send_pkts, skb_out, askb, unqueued, ppc>> /\ apc[a] # "xmit"
          /\ \E n \in {"idle", "dequeue", "readd", "pick"} : apc' = [apc EXCEPT ![a] = n]
          /\ UNCHANGED aqp \/ \E p : aqp' = [aqp EXCEPT ![a] = p]
      BY <1>13 DEF PickNone, Pick, DequeueNone, Readd
    <2>2. DOMAIN apc = Arbs /\ DOMAIN aqp = Arbs
      BY <1>1 DEF TypeOK
    <2> QED
      BY <1>18, <2>1, <2>2 DEF Arbs
  <1>14. CASE TaskStart \/ \E p \in QPs : DestroyDrain(p)
    <2>1. /\ UNCHANGED <<send_pkts, skb_out, askb, aqp, unqueued, ppc>>
          /\ \E a \in Arbs : apc[a] = "idle" /\ apc' = [apc EXCEPT ![a] = "pick"]
      BY <1>14 DEF TaskStart, DestroyDrain, Arbs
    <2>2. DOMAIN apc = Arbs
      BY <1>1 DEF TypeOK
    <2> QED
      BY <1>6, <1>7, <1>18, <2>1, <2>2 DEF Arbs
  <1>15. ASSUME NEW p \in QPs, NEW side \in Sides,
                \/ Enlist(p, side) \/ RunArbiter(p, side)
                \/ ThrottleTest(p) \/ ThrottleSet(p) \/ BuildFails(p)
         PROVE  skb_out'[<<q, s>>] = Early(q, s)' + Waiting(q, s)' + h("task")' + h("destroy")'
    <2>1. /\ UNCHANGED <<send_pkts, skb_out, apc, aqp, askb, unqueued>>
          /\ \E t \in Sides : \E n \in {"throttle", "idle", "run"} :
               /\ ppc[<<p, t>>] \notin {"built", "cloned"} /\ <<p, t>> \in Producers
               /\ ppc' = [ppc EXCEPT ![<<p, t>>] = n]
      BY <1>15 DEF Enlist, RunArbiter, ThrottleTest, ThrottleSet, BuildFails, may_build, avars,
                   Producers, Sides
    <2>2. Early(q, s)' = Early(q, s)
      BY <1>17, <2>1
    <2> QED
      BY <1>6, <1>7, <2>1, <2>2
  <1>19. CASE \/ \E p \in QPs : QPError(p) \/ DestroyEnd(p)
              \/ Stop \/ Restart \/ UNCHANGED vars
    <2>1. UNCHANGED <<send_pkts, skb_out, apc, aqp, askb, unqueued, ppc>>
      BY <1>19 DEF QPError, DestroyEnd, Stop, Restart, vars, avars
    <2> QED
      BY <1>6, <1>7, <1>18, <2>1
  <1> HIDE DEF h, m
  <1> QED
    BY <1>6, <1>7, <1>8, <1>9, <1>11, <1>12, <1>13, <1>14, <1>15, <1>16, <1>19
    DEF Next, ArbStep, Produce, Sides

LEMMA ArbInit == Init => ArbInv
  <1> SUFFICES ASSUME Init PROVE ArbInv
    OBVIOUS
  <1>1. TypeOK
    <2>1. <<>> \in Seq(Sides \X (Nat \ {0})) /\ <<>> \in Seq(QPs) /\ IsInjective(<<>>)
      BY DEF IsInjective
    <2> QED
      BY <2>1 DEF Init, TypeOK
  <1>2. HandsOK
    BY DEF Init, HandsOK
  <1>3. \A s : OfSide(<<>>, s) = {}
    BY DEF OfSide
  <1>4. SkbAccounted
    <2> SUFFICES ASSUME NEW q \in QPs, NEW s \in Sides
                 PROVE  skb_out[<<q, s>>] = Early(q, s) + Waiting(q, s)
                                            + InHands("task", q, s) + InHands("destroy", q, s)
      BY AccountIs
    <2>1. send_pkts[q] = <<>> /\ Held("task", q) = <<>> /\ Held("destroy", q) = <<>>
      BY DEF Init, Held, Arbs
    <2>2. skb_out[<<q, s>>] = 0 /\ Early(q, s) = 0
      BY DEF Init, Producers, Early, InMaking
    <2>3. Cardinality(OfSide(<<>>, s)) = 0
      BY <1>3, FS_EmptySet
    <2>4. Waiting(q, s) = 0 /\ InHands("task", q, s) = 0 /\ InHands("destroy", q, s) = 0
      BY <2>1, <2>3 DEF Waiting, InHands
    <2> QED
      BY <2>2, <2>4
  <1> QED
    BY <1>1, <1>2, <1>4 DEF ArbInv

LEMMA ArbStepKeeps == ArbInv /\ [Next]_vars => ArbInv'
  BY TypeStep, HandsStep, AccountStep DEF ArbInv

LEMMA ArbAlways == Spec => []ArbInv
  BY ArbInit, ArbStepKeeps, PTL DEF Spec

(* The variables of rxe_arbiter.c keep their types, the packet counters do   *)
(* not fall below zero, and a QP is on qp_list at most once.                 *)
THEOREM TypeCorrect == Spec => []TypeOK
  <1>1. ArbInv => TypeOK
    BY DEF ArbInv
  <1> QED
    BY <1>1, ArbAlways, PTL

(* req_skb_out and resp_skb_out are the packets being built, waiting and in  *)
(* an arbiter's hands, plus those that fill_packet or a saved atomic reply   *)
(* have taken for good, on every path of xmit_one_packet and with the        *)
(* arbiter's task and rxe_qp_destroy running rxe_arbiter at once.            *)
THEOREM AccountExact == Spec => []SkbAccounted
  <1>1. ArbInv => SkbAccounted
    BY DEF ArbInv
  <1> QED
    BY <1>1, ArbAlways, PTL

-----------------------------------------------------------------------------
(* No QP is left off the list *)

LEMMA StrandedStep ==
  ASSUME ArbInv, NoStrandedQP, [Next]_vars
  PROVE  NoStrandedQP'
  <1>1. TypeOK /\ HandsOK
    BY DEF ArbInv
  <1>2. SUFFICES ASSUME NEW q \in QPs, send_pkts'[q] # <<>>, ~refused'
                 PROVE  \/ OnList(q)'
                        \/ \E a \in Arbs : aqp'[a] = q
                        \/ \E s \in Sides : ppc'[<<q, s>>] = "list"
    BY DEF NoStrandedQP
  <1>3. \/ OnList(q) \/ \E a \in Arbs : aqp[a] = q
        \/ \E s \in Sides : ppc[<<q, s>>] = "list"
        \/ send_pkts[q] = <<>> \/ refused
    BY DEF NoStrandedQP
  <1>4. /\ DOMAIN apc = Arbs /\ DOMAIN aqp = Arbs /\ DOMAIN ppc = QPs \X Sides
        /\ DOMAIN send_pkts = QPs /\ qp_list \in Seq(QPs)
        /\ send_pkts[q] \in Seq(Pkt)
    BY <1>1 DEF TypeOK, Producers, Pkt
  <1>5. \A p \in QPs : /\ \E i \in 1 .. Len(Append(qp_list, p)) : Append(qp_list, p)[i] = p
                       /\ OnList(q) => \E i \in 1 .. Len(Append(qp_list, p)) :
                                          Append(qp_list, p)[i] = q
    <2> TAKE p \in QPs
    <2>1. /\ Len(qp_list) \in Nat /\ Len(Append(qp_list, p)) = Len(qp_list) + 1
          /\ Append(qp_list, p)[Len(qp_list) + 1] = p
          /\ \A i \in 1 .. Len(qp_list) : Append(qp_list, p)[i] = qp_list[i]
      BY <1>4
    <2>2. /\ Len(qp_list) + 1 \in 1 .. Len(Append(qp_list, p))
          /\ \A i \in 1 .. Len(qp_list) : i \in 1 .. Len(Append(qp_list, p))
      BY <2>1
    <2> QED
      BY <2>1, <2>2, Zenon DEF OnList
  <1>6. CASE UNCHANGED <<aqp, qp_list, ppc, send_pkts, refused>>
    BY <1>2, <1>3, <1>6 DEF OnList
  <1>7. ASSUME NEW p \in QPs, NEW side \in Sides, Queue(p, side)
        PROVE  \/ OnList(q)' \/ \E a \in Arbs : aqp'[a] = q
               \/ \E s \in Sides : ppc'[<<q, s>>] = "list"
    <2>1. CASE p = q
      BY <1>4, <1>7, <2>1 DEF Queue
    <2>2. CASE p # q
      BY <1>2, <1>3, <1>4, <1>7, <2>2 DEF Queue, OnList, avars, nvars
    <2> QED
      BY <2>1, <2>2
  <1>8. ASSUME NEW p \in QPs, NEW side \in Sides, Enlist(p, side)
        PROVE  \/ OnList(q)' \/ \E a \in Arbs : aqp'[a] = q
               \/ \E s \in Sides : ppc'[<<q, s>>] = "list"
    <2>1. /\ qp_list' = IF OnList(p) THEN qp_list ELSE Append(qp_list, p)
          /\ ppc' = [ppc EXCEPT ![<<p, side>>] = "run"]
          /\ UNCHANGED <<aqp, send_pkts, refused>>
      BY <1>8 DEF Enlist, avars, nvars
    <2>2. OnList(p)' /\ (OnList(q) => OnList(q)')
      BY <1>5, <2>1 DEF OnList
    <2> QED
      BY <1>2, <1>3, <1>4, <2>1, <2>2
  <1>9. ASSUME NEW a \in Arbs, Pick(a)
        PROVE  \/ OnList(q)' \/ \E b \in Arbs : aqp'[b] = q
               \/ \E s \in Sides : ppc'[<<q, s>>] = "list"
    <2>1. /\ apc[a] = "pick" /\ qp_list # <<>> /\ qp_list' = Tail(qp_list)
          /\ aqp' = [aqp EXCEPT ![a] = Head(qp_list)]
          /\ UNCHANGED <<ppc, send_pkts, refused>>
      BY <1>9 DEF Pick, nvars
    <2>2. aqp[a] # q
      BY <1>1, <2>1, ArbiterAssumption DEF HandsOK
    <2>3. OnList(q) => Head(qp_list) = q \/ OnList(q)'
      <3> SUFFICES ASSUME NEW i \in 1 .. Len(qp_list), qp_list[i] = q, Head(qp_list) # q
                   PROVE  OnList(q)'
        BY DEF OnList
      <3>1. i # 1 /\ i \in Nat /\ i <= Len(qp_list) /\ Len(Tail(qp_list)) = Len(qp_list) - 1
        BY <1>4, <2>1
      <3>2. i - 1 \in 1 .. Len(Tail(qp_list)) /\ Tail(qp_list)[i - 1] = q
        BY <1>4, <2>1, <3>1
      <3> QED
        BY <2>1, <3>2, Zenon DEF OnList
    <2> QED
      BY <1>2, <1>3, <1>4, <2>1, <2>2, <2>3
  <1>10. ASSUME NEW a \in Arbs, Readd(a)
         PROVE  \/ OnList(q)' \/ \E b \in Arbs : aqp'[b] = q
                \/ \E s \in Sides : ppc'[<<q, s>>] = "list"
    <2>1. /\ qp_list' = IF ~OnList(aqp[a]) /\ send_pkts[aqp[a]] # <<>>
                        THEN Append(qp_list, aqp[a]) ELSE qp_list
          /\ aqp' = [aqp EXCEPT ![a] = None] /\ aqp[a] \in QPs
          /\ UNCHANGED <<ppc, send_pkts, refused>>
      BY <1>1, <1>10 DEF Readd, nvars, HandsOK, TypeOK
    <2>2. /\ OnList(q) => OnList(q)'
          /\ aqp[a] = q => OnList(q)'
      BY <1>2, <1>5, <2>1 DEF OnList
    <2> QED
      BY <1>2, <1>3, <1>4, <2>1, <2>2
  <1>11. ASSUME NEW a \in Arbs, Dequeue(a)
         PROVE  \/ OnList(q)' \/ \E b \in Arbs : aqp'[b] = q
                \/ \E s \in Sides : ppc'[<<q, s>>] = "list"
    BY <1>2, <1>3, <1>4, <1>11 DEF Dequeue, OnList, nvars
  <1>12. CASE \/ \E p \in QPs : ThrottleTest(p) \/ ThrottleSet(p) \/ BuildFails(p)
                                \/ FillFails(p) \/ SaveReply(p)
              \/ \E p \in QPs, side \in Sides : RunArbiter(p, side) \/ Build(p, side)
    <2>1. /\ UNCHANGED <<qp_list, aqp, send_pkts, refused>>
          /\ \E p \in QPs, side \in Sides, n \in {"throttle", "idle", "built", "cloned"} :
               ppc[<<p, side>>] # "list" /\ ppc' = [ppc EXCEPT ![<<p, side>>] = n]
      BY <1>12 DEF ThrottleTest, ThrottleSet, BuildFails, FillFails, SaveReply, Build, may_build,
                   RunArbiter, avars, nvars, Sides
    <2>2. \A s \in Sides : ppc[<<q, s>>] = "list" => ppc'[<<q, s>>] = "list"
      BY <1>4, <2>1
    <2> QED
      BY <1>2, <1>3, <2>1, <2>2 DEF OnList
  <1>14. CASE \E a \in Arbs : XmitStopped(a) \/ XmitError(a)
    BY <1>2, <1>14 DEF XmitStopped, XmitError, give_up
  <1>15. CASE \/ \E a \in Arbs : PickNone(a) \/ DequeueNone(a) \/ XmitSent(a)
              \/ \E p \in QPs : QPError(p) \/ DestroyDrain(p) \/ DestroyEnd(p)
              \/ TaskStart \/ Stop \/ Restart \/ UNCHANGED vars
    <2>1. UNCHANGED <<aqp, qp_list, ppc, send_pkts, refused>>
      BY <1>15 DEF PickNone, DequeueNone, XmitSent, QPError, DestroyDrain, DestroyEnd, TaskStart,
                   Stop, Restart, vars, avars, nvars
    <2> QED
      BY <1>6, <2>1
  <1> QED
    BY <1>7, <1>8, <1>9, <1>10, <1>11, <1>12, <1>14, <1>15 DEF Next, ArbStep, Produce

(* A QP with packets is on qp_list, with an arbiter, or about to be listed:  *)
(* arbiter_skb_queue, the task and rxe_qp_destroy, each in its own critical  *)
(* sections, never leave it to one another, until the interface refuses.     *)
THEOREM NobodyStranded == Spec => []NoStrandedQP
  <1>1. Init => NoStrandedQP
    BY DEF Init, NoStrandedQP
  <1>2. ArbInv /\ NoStrandedQP /\ [Next]_vars => NoStrandedQP'
    BY StrandedStep
  <1> QED
    BY <1>1, <1>2, ArbAlways, PTL DEF Spec

-----------------------------------------------------------------------------
(* Order *)

\* Of m packets of side s queued, those on w have left, in order and none missing, and
\* the others are on l, in order.
InOrder(w, l, m, s) ==
  /\ Len(w) <= m
  /\ \A i \in 1 .. Len(w) : w[i] = <<s, i>>
  /\ \A i, j \in OfSide(l, s) : i < j => l[i][2] < l[j][2]
  /\ {l[i][2] : i \in OfSide(l, s)} = Len(w) + 1 .. m

\* SentInOrder, with the packets that have left counted among those queued.
AllInOrder ==
  (\A q \in QPs : ready[q]) =>
    \A q \in QPs, s \in Sides :
      InOrder(wire[<<q, s>>], Held("task", q) \o send_pkts[q], made[<<q, s>>], s)

\* The second arbiter runs only once a QP has failed.
DrainAfterFailure == apc["destroy"] # "idle" => \E q \in QPs : ~ready[q]

\* A packet is built.
LEMMA OrderAppend ==
  ASSUME NEW w \in Seq(Pkt), NEW l \in Seq(Pkt), NEW m \in Nat, NEW s \in Sides,
         NEW n \in Nat \ {0}, NEW side \in Sides, InOrder(w, l, m, s),
         side = s => n = m + 1
  PROVE  InOrder(w, Append(l, <<side, n>>), IF side = s THEN m + 1 ELSE m, s)
  <1> DEFINE l2 == Append(l, <<side, n>>)
  <1>1. /\ Len(l) \in Nat /\ Len(w) \in Nat /\ Len(l2) = Len(l) + 1
        /\ l2[Len(l) + 1] = <<side, n>>
        /\ \A i \in 1 .. Len(l) : l2[i] = l[i] /\ l[i] \in Pkt
    OBVIOUS
  <1> HIDE DEF l2
  <1>2. \A i \in OfSide(l, s) : i \in 1 .. Len(l) /\ l[i][2] \in Nat /\ l[i][2] <= m
    BY <1>1 DEF InOrder, OfSide, Pkt
  <1>3. CASE side = s
    <2>1. OfSide(l2, s) = OfSide(l, s) \cup {Len(l) + 1}
      BY <1>1, <1>3 DEF OfSide
    <2>2. \A i \in OfSide(l, s) : l2[i][2] = l[i][2] /\ i < Len(l) + 1
      BY <1>1, <1>2
    <2>3. l2[Len(l) + 1][2] = m + 1
      BY <1>1, <1>3
    <2>4. \A i, j \in OfSide(l2, s) : i < j => l2[i][2] < l2[j][2]
      BY <1>1, <1>2, <2>1, <2>2, <2>3, SMTT(30) DEF InOrder
    <2>5. {l2[i][2] : i \in OfSide(l2, s)} = {l[i][2] : i \in OfSide(l, s)} \cup {m + 1}
      BY <2>1, <2>2, <2>3
    <2>6. Len(w) <= m
      BY DEF InOrder
    <2>7. (Len(w) + 1 .. m) \cup {m + 1} = Len(w) + 1 .. m + 1 /\ Len(w) <= m + 1
      BY <1>1, <2>6
    <2> QED
      BY <1>3, <2>4, <2>5, <2>7 DEF InOrder, l2
  <1>4. CASE side # s
    <2>1. OfSide(l2, s) = OfSide(l, s)
      BY <1>1, <1>4 DEF OfSide
    <2>2. \A i \in OfSide(l, s) : l2[i][2] = l[i][2]
      BY <1>1, <1>2
    <2>3. {l2[i][2] : i \in OfSide(l2, s)} = {l[i][2] : i \in OfSide(l, s)}
      BY <2>1, <2>2
    <2> QED
      BY <1>4, <2>1, <2>2, <2>3 DEF InOrder, l2
  <1> QED
    BY <1>3, <1>4

\* The first packet leaves: it is the next of its side.
LEMMA OrderTail ==
  ASSUME NEW w \in Seq(Pkt), NEW l \in Seq(Pkt), l # <<>>, NEW m \in Nat, NEW s \in Sides,
         InOrder(w, l, m, s)
  PROVE  InOrder(IF Head(l)[1] = s THEN Append(w, Head(l)) ELSE w, Tail(l), m, s)
  <1>1. /\ Tail(l) \in Seq(Pkt) /\ Len(l) \in Nat \ {0} /\ Len(Tail(l)) = Len(l) - 1
        /\ \A i \in 1 .. Len(l) - 1 : Tail(l)[i] = l[i + 1]
        /\ Head(l) = l[1] /\ Head(l) \in Pkt /\ Len(w) \in Nat
        /\ \A i \in 1 .. Len(l) : l[i] \in Pkt
    OBVIOUS
  <1>2. \A i \in OfSide(l, s) : i \in 1 .. Len(l) /\ l[i][2] \in Nat
    BY <1>1 DEF OfSide, Pkt
  <1>3. ASSUME NEW i \in OfSide(Tail(l), s)
        PROVE  i \in Nat /\ i + 1 \in OfSide(l, s) \ {1} /\ Tail(l)[i] = l[i + 1]
    BY <1>1 DEF OfSide
  <1>4. \A i, j \in OfSide(Tail(l), s) : i < j => Tail(l)[i][2] < Tail(l)[j][2]
    <2> TAKE i, j \in OfSide(Tail(l), s)
    <2> HAVE i < j
    <2>1. i \in Nat /\ i + 1 \in OfSide(l, s) /\ Tail(l)[i] = l[i + 1]
      BY <1>3
    <2>2. j \in Nat /\ j + 1 \in OfSide(l, s) /\ Tail(l)[j] = l[j + 1]
      BY <1>3
    <2>3. i + 1 < j + 1
      BY <2>1, <2>2
    <2>4. l[i + 1][2] < l[j + 1][2]
      BY <2>1, <2>2, <2>3 DEF InOrder
    <2> QED
      BY <2>1, <2>2, <2>4
  <1>8. ASSUME NEW j \in OfSide(l, s) \ {1}
        PROVE  j - 1 \in OfSide(Tail(l), s) /\ Tail(l)[j - 1] = l[j]
    <2>2. j \in Nat /\ j <= Len(l) /\ j >= 1 /\ j # 1 /\ l[j][1] = s
      BY <1>1 DEF OfSide
    <2>3. j - 1 \in 1 .. Len(l) - 1 /\ (j - 1) + 1 = j
      BY <1>1, <2>2
    <2>4. Tail(l)[j - 1] = l[j]
      BY <1>1, <2>3
    <2>5. j - 1 \in 1 .. Len(Tail(l)) /\ Tail(l)[j - 1][1] = s
      BY <1>1, <2>2, <2>3, <2>4
    <2> QED
      BY <2>4, <2>5, Zenon DEF OfSide
  <1>5. {Tail(l)[i][2] : i \in OfSide(Tail(l), s)} = {l[j][2] : j \in OfSide(l, s) \ {1}}
    <2>1. \A i \in OfSide(Tail(l), s) : \E j \in OfSide(l, s) \ {1} : Tail(l)[i][2] = l[j][2]
      BY <1>3, Zenon
    <2>2. \A j \in OfSide(l, s) \ {1} : \E i \in OfSide(Tail(l), s) : Tail(l)[i][2] = l[j][2]
      BY <1>8, Zenon
    <2>3. ASSUME NEW x, x \in {Tail(l)[i][2] : i \in OfSide(Tail(l), s)}
          PROVE  x \in {l[j][2] : j \in OfSide(l, s) \ {1}}
      <3>1. PICK i \in OfSide(Tail(l), s) : x = Tail(l)[i][2]
        BY <2>3
      <3>2. PICK j \in OfSide(l, s) \ {1} : Tail(l)[i][2] = l[j][2]
        BY <2>1
      <3> QED
        BY <3>1, <3>2
    <2>4. ASSUME NEW x, x \in {l[j][2] : j \in OfSide(l, s) \ {1}}
          PROVE  x \in {Tail(l)[i][2] : i \in OfSide(Tail(l), s)}
      <3>1. PICK j \in OfSide(l, s) \ {1} : x = l[j][2]
        BY <2>4
      <3>2. PICK i \in OfSide(Tail(l), s) : Tail(l)[i][2] = l[j][2]
        BY <2>2
      <3> QED
        BY <3>1, <3>2
    <2> QED
      BY <2>3, <2>4, Zenon
  <1>6. CASE Head(l)[1] # s
    <2>1. OfSide(l, s) \ {1} = OfSide(l, s)
      BY <1>1, <1>6 DEF OfSide
    <2> QED
      BY <1>4, <1>5, <1>6, <2>1 DEF InOrder
  <1>7. CASE Head(l)[1] = s
    <2>1. 1 \in OfSide(l, s)
      BY <1>1, <1>7 DEF OfSide
    <2>2. \A j \in OfSide(l, s) \ {1} : l[1][2] < l[j][2]
      BY <1>2, <2>1 DEF InOrder
    <2>3. {l[i][2] : i \in OfSide(l, s)} = Len(w) + 1 .. m
      BY DEF InOrder
    <2>4. l[1][2] \in Len(w) + 1 .. m
      BY <2>1, <2>3
    <2>5. PICK k \in OfSide(l, s) : l[k][2] = Len(w) + 1
      <3>1. Len(w) + 1 \in Len(w) + 1 .. m
        BY <1>1, <2>4
      <3> QED
        BY <2>3, <3>1
    <2>6. l[1][2] = Len(w) + 1
      BY <1>1, <1>2, <2>1, <2>2, <2>4, <2>5
    <2>7. Head(l) = <<s, Len(w) + 1>>
      BY <1>1, <1>7, <2>6 DEF Pkt
    <2>8. /\ Len(Append(w, Head(l))) = Len(w) + 1
          /\ \A i \in 1 .. Len(w) + 1 : Append(w, Head(l))[i] = <<s, i>>
      BY <1>1, <2>7 DEF InOrder
    <2>9. {l[j][2] : j \in OfSide(l, s) \ {1}} = (Len(w) + 1 .. m) \ {Len(w) + 1}
      BY <1>1, <1>2, <2>1, <2>2, <2>3, <2>6
    <2>10. (Len(w) + 1 .. m) \ {Len(w) + 1} = Len(w) + 1 + 1 .. m
      BY <1>1
    <2> QED
      <3>1. Len(Append(w, Head(l))) <= m
        BY <1>1, <2>4, <2>8
      <3>2. InOrder(Append(w, Head(l)), Tail(l), m, s)
        BY <1>4, <1>5, <2>8, <2>9, <2>10, <3>1 DEF InOrder
      <3> QED
        BY <1>7, <3>2
  <1> QED
    BY <1>6, <1>7

LEMMA ConcatAppend ==
  ASSUME NEW u \in Seq(Pkt), NEW t \in Seq(Pkt), NEW x \in Pkt
  PROVE  u \o Append(t, x) = Append(u \o t, x)
  <1>1. <<x>> \in Seq(Pkt) /\ u \o t \in Seq(Pkt)
    BY ConcatProperties
  <1>2. Append(t, x) = t \o <<x>> /\ Append(u \o t, x) = (u \o t) \o <<x>>
    BY <1>1, AppendIsConcat
  <1>3. u \o (t \o <<x>>) = (u \o t) \o <<x>>
    BY <1>1, ConcatAssociative
  <1> QED
    BY <1>2, <1>3

\* What the task has of q, then what waits.
Left(q) == Held("task", q) \o send_pkts[q]

LeftParts ==
  \A q \in QPs : Left(q) \in Seq(Pkt) /\ Left(q) =
     IF apc["task"] = "xmit" /\ aqp["task"] = q THEN askb["task"] \o send_pkts[q] ELSE send_pkts[q]

LEMMA LeftIs == TypeOK /\ HandsOK => LeftParts
  <1> SUFFICES ASSUME TypeOK, HandsOK, NEW q \in QPs
               PROVE  /\ Left(q) \in Seq(Pkt)
                      /\ Left(q) = IF apc["task"] = "xmit" /\ aqp["task"] = q
                                   THEN askb["task"] \o send_pkts[q] ELSE send_pkts[q]
    BY DEF LeftParts
  <1>1. /\ askb["task"] \in Seq(Pkt) /\ send_pkts[q] \in Seq(Pkt)
        /\ Len(askb["task"]) = IF apc["task"] = "xmit" THEN 1 ELSE 0
    BY DEF TypeOK, HandsOK, Pkt, Arbs
  <1>2. CASE apc["task"] = "xmit" /\ aqp["task"] = q
    BY <1>1, <1>2, ConcatOne DEF Left, Held
  <1>3. CASE ~(apc["task"] = "xmit" /\ aqp["task"] = q)
    <2>1. Held("task", q) = <<>>
      BY <1>1, <1>3 DEF Held
    <2> QED
      BY <1>1, <1>3, <2>1, ConcatOne DEF Left
  <1> QED
    BY <1>2, <1>3

LEMMA LeftNext == TypeOK' /\ HandsOK' => LeftParts'
  BY LeftIs, PTL

LEMMA DrainStep ==
  ASSUME ArbInv, DrainAfterFailure, [Next]_vars
  PROVE  DrainAfterFailure' /\ \A q \in QPs : ready'[q] => ready[q]
  <1>1. TypeOK
    BY DEF ArbInv
  <1>2. DOMAIN apc = Arbs /\ "destroy" \in Arbs /\ "task" \in Arbs /\ ready \in [QPs -> BOOLEAN]
    BY <1>1 DEF TypeOK, Arbs
  <1>3. CASE \E q \in QPs : QPError(q)
    BY <1>2, <1>3 DEF QPError, avars, DrainAfterFailure
  <1>4. CASE \E q \in QPs : DestroyDrain(q)
    BY <1>2, <1>4 DEF DestroyDrain, qpvars, DrainAfterFailure
  <1>5. CASE TaskStart
    BY <1>2, <1>5 DEF TaskStart, qpvars, DrainAfterFailure
  <1>6. CASE \E a \in Arbs : ArbStep(a)
    <2>1. UNCHANGED ready /\ \E a \in Arbs : apc[a] # "idle" /\ \E n : apc' = [apc EXCEPT ![a] = n]
      BY <1>6 DEF ArbStep, PickNone, Pick, DequeueNone, Dequeue, XmitSent, XmitStopped, XmitError,
                  give_up, Readd, qpvars
    <2> QED
      BY <1>2, <2>1 DEF DrainAfterFailure
  <1>7. CASE \/ \E q \in QPs, side \in Sides : Produce(q, side)
             \/ \E q \in QPs : ThrottleTest(q) \/ ThrottleSet(q) \/ BuildFails(q) \/ FillFails(q)
                               \/ SaveReply(q) \/ DestroyEnd(q)
             \/ Stop \/ Restart \/ UNCHANGED vars
    <2>1. UNCHANGED <<apc, ready>>
      BY <1>7 DEF Produce, Build, Queue, Enlist, RunArbiter, ThrottleTest, ThrottleSet,
                  BuildFails, FillFails, SaveReply, DestroyEnd, Stop, Restart, vars, avars, qpvars
    <2> QED
      BY <2>1 DEF DrainAfterFailure
  <1> QED
    BY <1>3, <1>4, <1>5, <1>6, <1>7 DEF Next

\* With every QP ready only the task is an arbiter, and what it and send_pkts hold
\* stays in order.
LEMMA OrderStep ==
  ASSUME ArbInv, DrainAfterFailure, AllInOrder, [Next]_vars, TypeOK', HandsOK'
  PROVE  AllInOrder'
  <1>1. TypeOK /\ HandsOK /\ "task" \in Arbs /\ "destroy" \in Arbs
    BY DEF ArbInv, Arbs
  <1>2. SUFFICES ASSUME \A q \in QPs : ready'[q], NEW q \in QPs, NEW s \in Sides
                 PROVE  InOrder(wire'[<<q, s>>], Left(q)', made'[<<q, s>>], s)
    BY DEF AllInOrder, Left
  <1>3. (\A p \in QPs : ready[p]) /\ apc["destroy"] = "idle"
    BY <1>2, DrainStep DEF DrainAfterFailure
  <1>4. InOrder(wire[<<q, s>>], Left(q), made[<<q, s>>], s)
    BY <1>3 DEF AllInOrder, Left
  <1>5. /\ Left(q) \in Seq(Pkt)
        /\ Left(q) = IF apc["task"] = "xmit" /\ aqp["task"] = q
                     THEN askb["task"] \o send_pkts[q] ELSE send_pkts[q]
        /\ Left(q)' = IF apc'["task"] = "xmit" /\ aqp'["task"] = q
                      THEN askb'["task"] \o send_pkts'[q] ELSE send_pkts'[q]
    BY <1>1, LeftIs, LeftNext DEF LeftParts
  <1>6. /\ DOMAIN apc = Arbs /\ DOMAIN aqp = Arbs /\ DOMAIN askb = Arbs /\ DOMAIN send_pkts = QPs
        /\ DOMAIN wire = Producers /\ made \in [Producers -> Nat]
        /\ <<q, s>> \in Producers /\ wire[<<q, s>>] \in Seq(Pkt) /\ send_pkts[q] \in Seq(Pkt)
        /\ made[<<q, s>>] \in Nat
    BY <1>1 DEF TypeOK, Producers, Pkt
  <1>7. CASE UNCHANGED <<Left(q), wire, made>>
    BY <1>4, <1>7
  <1>8. CASE /\ UNCHANGED <<send_pkts, wire, made, askb, aqp>>
             /\ (apc'["task"] = "xmit") = (apc["task"] = "xmit")
    BY <1>5, <1>7, <1>8
  <1>9. ASSUME NEW p \in QPs, NEW side \in Sides, Queue(p, side)
        PROVE  InOrder(wire'[<<q, s>>], Left(q)', made'[<<q, s>>], s)
    <2>1. PICK n \in Nat \ {0} :
            /\ n = made[<<p, side>>] + 1 /\ made' = [made EXCEPT ![<<p, side>>] = n]
            /\ send_pkts' = [send_pkts EXCEPT ![p] = Append(@, <<side, n>>)]
            /\ UNCHANGED <<apc, aqp, askb, wire>>
      <3>1. made[<<p, side>>] \in Nat
        BY <1>6 DEF Producers
      <3>2. /\ made' = [made EXCEPT ![<<p, side>>] = made[<<p, side>>] + 1]
            /\ send_pkts' = [send_pkts EXCEPT ![p] = Append(@, <<side, made[<<p, side>>] + 1>>)]
            /\ UNCHANGED <<apc, aqp, askb, wire>>
        BY <1>9 DEF Queue, avars
      <3>3. made[<<p, side>>] + 1 \in Nat \ {0}
        BY <3>1
      <3> QED
        BY <3>2, <3>3
    <2>2. CASE p # q
      BY <1>5, <1>4, <1>6, <2>1, <2>2
    <2>3. CASE p = q
      <3>1. send_pkts'[q] = Append(send_pkts[q], <<side, n>>) /\ <<side, n>> \in Pkt
        BY <1>6, <2>1, <2>3 DEF Pkt
      <3>2. Left(q)' = Append(Left(q), <<side, n>>)
        <4>1. askb["task"] \in Seq(Pkt)
          BY <1>1 DEF TypeOK, Pkt
        <4>2. askb["task"] \o Append(send_pkts[q], <<side, n>>)
                = Append(askb["task"] \o send_pkts[q], <<side, n>>)
          BY <1>6, <3>1, <4>1, ConcatAppend
        <4> QED
          BY <1>5, <2>1, <3>1, <4>2
      <3>3. side = s => n = made[<<q, s>>] + 1
        BY <2>1, <2>3
      <3>4. made'[<<q, s>>] = IF side = s THEN made[<<q, s>>] + 1 ELSE made[<<q, s>>]
        BY <1>6, <2>1, <2>3
      <3> QED
        <4>1. InOrder(wire[<<q, s>>], Append(Left(q), <<side, n>>),
                      IF side = s THEN made[<<q, s>>] + 1 ELSE made[<<q, s>>], s)
          BY <1>4, <1>5, <1>6, <3>3, OrderAppend
        <4> QED
          BY <2>1, <3>2, <3>4, <4>1
    <2> QED
      BY <2>2, <2>3
  <1>10. CASE Dequeue("task")
    <2>1. PICK p \in QPs : p = aqp["task"]
      BY <1>1, <1>10 DEF Dequeue, TypeOK, HandsOK
    <2>2. /\ UNCHANGED <<aqp, wire, made>> /\ apc["task"] = "dequeue" /\ send_pkts[p] # <<>>
          /\ apc'["task"] = "xmit" /\ askb'["task"] = <<Head(send_pkts[p])>>
          /\ send_pkts' = [send_pkts EXCEPT ![p] = Tail(@)]
      BY <1>1, <1>6, <1>10, <2>1 DEF Dequeue
    <2>3. Left(q)' = Left(q)
      <3>1. CASE p = q
        BY <1>5, <1>6, <2>1, <2>2, <3>1, ConcatOne
      <3>2. CASE p # q
        BY <1>5, <1>6, <2>1, <2>2, <3>2
      <3> QED
        BY <3>1, <3>2
    <2> QED
      BY <1>7, <2>2, <2>3
  <1>11. CASE XmitStopped("task")
    <2>1. PICK p \in QPs : p = aqp["task"] /\ apc["task"] = "xmit"
      BY <1>1, <1>11, PacketInHand DEF XmitStopped
    <2>2. /\ UNCHANGED <<wire, made>> /\ apc'["task"] = "idle"
          /\ send_pkts' = [send_pkts EXCEPT ![p] = askb["task"] \o send_pkts[p]]
      BY <1>1, <1>6, <1>11, <2>1 DEF XmitStopped, give_up
    <2>3. Left(q)' = Left(q)
      BY <1>5, <1>6, <2>1, <2>2
    <2> QED
      BY <1>7, <2>2, <2>3
  <1>12. CASE XmitSent("task") \/ XmitError("task")
    <2>1. PICK p \in QPs, x \in Pkt : p = aqp["task"] /\ x = askb["task"][1] /\ x[1] \in Sides
                                      /\ askb["task"] \in Seq(Pkt) /\ Len(askb["task"]) = 1
      BY <1>1, <1>12, PacketInHand DEF XmitSent, XmitError
    <2>2. /\ UNCHANGED <<send_pkts, made>> /\ apc["task"] = "xmit" /\ apc'["task"] # "xmit"
          /\ wire' = [wire EXCEPT ![<<p, x[1]>>] = Append(@, x)]
      BY <1>1, <1>6, <1>12, <2>1 DEF XmitSent, XmitError, consume_skb, give_up
    <2>3. CASE p # q
      BY <1>4, <1>5, <1>6, <2>1, <2>2, <2>3
    <2>4. CASE p = q
      <3>1. /\ Left(q) = askb["task"] \o send_pkts[q] /\ Left(q)' = send_pkts[q]
            /\ wire'[<<q, s>>] = IF x[1] = s THEN Append(wire[<<q, s>>], x) ELSE wire[<<q, s>>]
        BY <1>5, <1>6, <2>1, <2>2, <2>4
      <3>2. Left(q) # <<>> /\ Head(Left(q)) = x /\ Tail(Left(q)) = Left(q)'
        BY <1>6, <2>1, <3>1, ConcatOne, SMTT(30)
      <3> QED
        <4>1. InOrder(IF Head(Left(q))[1] = s THEN Append(wire[<<q, s>>], Head(Left(q)))
                      ELSE wire[<<q, s>>], Tail(Left(q)), made[<<q, s>>], s)
          BY <1>4, <1>5, <1>6, <3>2, OrderTail
        <4> QED
          BY <2>2, <3>1, <3>2, <4>1
    <2> QED
      BY <2>3, <2>4
  <1>13. CASE PickNone("task") \/ DequeueNone("task")
    BY <1>1, <1>6, <1>8, <1>13 DEF PickNone, DequeueNone
  <1>14. CASE Pick("task") \/ Readd("task")
    <2>1. /\ UNCHANGED <<send_pkts, wire, made>>
          /\ apc["task"] # "xmit" /\ apc'["task"] # "xmit"
      BY <1>1, <1>6, <1>14 DEF Pick, Readd
    <2> QED
      BY <1>5, <1>7, <2>1
  <1>15. CASE TaskStart \/ \E p \in QPs : DestroyDrain(p)
    <2>1. /\ UNCHANGED <<send_pkts, wire, made, askb, aqp>>
          /\ (apc'["task"] = "xmit") = (apc["task"] = "xmit")
      BY <1>1, <1>6, <1>15 DEF TaskStart, DestroyDrain
    <2> QED
      BY <1>8, <2>1
  <1>16. CASE \/ \E p \in QPs, side \in Sides :
                   Build(p, side) \/ Enlist(p, side) \/ RunArbiter(p, side)
              \/ \E p \in QPs : ThrottleTest(p) \/ ThrottleSet(p) \/ BuildFails(p) \/ FillFails(p)
                                \/ SaveReply(p) \/ QPError(p) \/ DestroyEnd(p)
              \/ Stop \/ Restart \/ UNCHANGED vars
    <2>1. UNCHANGED <<send_pkts, wire, made, askb, aqp, apc>>
      BY <1>16 DEF Build, Enlist, RunArbiter, ThrottleTest, ThrottleSet, BuildFails, FillFails,
                   SaveReply, QPError, DestroyEnd, Stop, Restart, vars, avars
    <2> QED
      BY <1>8, <2>1
  <1>17. ~ArbStep("destroy")
    BY <1>3 DEF ArbStep, PickNone, Pick, DequeueNone, Dequeue, XmitSent, XmitStopped, XmitError,
                Readd
  <1> QED
    BY <1>9, <1>10, <1>11, <1>12, <1>13, <1>14, <1>15, <1>16, <1>17
    DEF Next, ArbStep, Produce, Arbs

(* While every QP is ready its packets leave in the order in which the       *)
(* requester or the responder queued them, none missing, also around an       *)
(* interface that stops and packets put back by skb_queue_head.              *)
THEOREM LeaveInOrder == Spec => []SentInOrder
  <1> DEFINE OrderInv == DrainAfterFailure /\ AllInOrder
  <1>1. Init => OrderInv
    <2> SUFFICES ASSUME Init PROVE OrderInv
      OBVIOUS
    <2>1. DrainAfterFailure
      BY DEF Init, DrainAfterFailure, Arbs
    <2>2. ASSUME NEW q \in QPs, NEW s \in Sides
          PROVE  InOrder(wire[<<q, s>>], Held("task", q) \o send_pkts[q], made[<<q, s>>], s)
      <3>1. wire[<<q, s>>] = <<>> /\ made[<<q, s>>] = 0
        BY DEF Init, Producers
      <3>2. Held("task", q) \o send_pkts[q] = <<>>
        BY DEF Init, Held, Arbs
      <3>3. OfSide(<<>>, s) = {} /\ 0 + 1 .. 0 = {} /\ Len(<<>>) = 0 /\ 0 <= 0
        BY DEF OfSide
      <3>4. InOrder(<<>>, <<>>, 0, s)
        <4>1. \A i \in 1 .. 0 : FALSE
          OBVIOUS
        <4>2. {<<>>[i][2] : i \in {}} = {}
          OBVIOUS
        <4> QED
          BY <3>3, <4>1, <4>2 DEF InOrder
      <3> QED
        BY <3>1, <3>2, <3>4
    <2> QED
      BY <2>1, <2>2 DEF AllInOrder
  <1>2. ArbInv /\ ArbInv' /\ OrderInv /\ [Next]_vars => OrderInv'
    BY DrainStep, OrderStep DEF ArbInv
  <1>3. OrderInv => SentInOrder
    BY DEF AllInOrder, InOrder, SentInOrder
  <1> HIDE DEF OrderInv
  <1> QED
    BY <1>1, <1>2, <1>3, ArbAlways, PTL DEF Spec
=============================================================================
