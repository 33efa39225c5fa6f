--------------------------- MODULE RxeMcastProofs ---------------------------
(***************************************************************************)
(* Theorems about RxeMcast: groups that have a lasting member, for any     *)
(* number of contexts, QPs and groups.                                     *)
(***************************************************************************)
EXTENDS RxeMcast, FiniteSetTheorems, TLAPS

\* Every group has a member that stays, so that none is created or released
\* while others work on it.  (Without it TLC finds the properties violated,
\* by the scenarios FirstAttach and LastDetach of MCRxeMcast.)
Steady == \A m \in Mgids : \E q \in QPs : <<q, m>> \in mode.stay

Types ==
  /\ mode \in Modes
  /\ live \subseteq Groups /\ tree = live
  /\ ref \in [Groups -> Nat] /\ num_qp \in [Groups -> Nat]
  /\ qp_list \in [Groups -> SUBSET QPs] /\ grp_list \in [QPs -> SUBSET live]
  /\ mgid \in [Groups -> Mgids \cup {None}]
  /\ qp_ref \in [QPs -> Nat] /\ destroyed \subseteq QPs /\ pkts \in Nat
  /\ pc \in [Contexts -> {"idle", "add_elem", "drop_elem", "put", "deliver", "clean", "leave"}]
  /\ cq \in [Contexts -> QPs \cup {None}] /\ cm \in [Contexts -> Mgids \cup {None}]
  /\ cg \in [Contexts -> live \cup {None}]
  /\ puts \in [Contexts -> 0 .. 2] /\ cleaning \in [Contexts -> BOOLEAN]

\* One group per mgid.
Keys ==
  /\ \A m \in Mgids : \E g \in live : mgid[g] = m
  /\ \A g \in live : mgid[g] \in Mgids
  /\ \A g, h \in live : mgid[g] = mgid[h] => g = h
  /\ filter = [m \in Mgids |-> 1]

\* The members that stay.
Lasting ==
  /\ \A g \in live : \A q \in QPs : <<q, mgid[g]>> \in mode.stay => q \in qp_list[g]
  /\ \A q \in QPs, m \in Mgids : <<q, m>> \in mode.stay => q \notin destroyed

\* What a context works on at each step.
Hand(c) ==
  /\ cleaning[c] => cq[c] \in destroyed
  /\ pc[c] = "idle" => ~cleaning[c] /\ cg[c] = None
  /\ pc[c] \in {"add_elem", "drop_elem"} =>
       /\ cq[c] \in QPs /\ cq[c] \notin destroyed /\ cg[c] \in live /\ ~cleaning[c]
       /\ mgid[cg[c]] = cm[c]
  /\ pc[c] = "drop_elem" => <<cq[c], cm[c]>> \notin mode.stay
  /\ pc[c] = "deliver" => cg[c] \in live /\ ~cleaning[c]
  /\ pc[c] = "put" => cg[c] \in live /\ puts[c] \in 1 .. 2
  /\ pc[c] = "clean" => cleaning[c] /\ cg[c] = None
  /\ pc[c] = "leave" =>
       /\ cleaning[c] /\ cg[c] \in live
       /\ cq[c] \in qp_list[cg[c]] /\ cg[c] \notin grp_list[cq[c]]

Hands ==
  /\ \A c \in Contexts : Hand(c)
  /\ \A c, d \in Contexts :
       pc[c] = "leave" /\ pc[d] = "leave" /\ cq[c] = cq[d] /\ cg[c] = cg[d] => c = d

\* References to a group: one of each member, and those of the contexts.
Holders(g) == {c \in Contexts : cg[c] = g /\ pc[c] \in {"add_elem", "drop_elem", "deliver", "put"}}
Twice(g)   == {c \in Contexts : cg[c] = g /\ pc[c] = "put" /\ puts[c] = 2}

RefsCounted ==
  \A g \in live :
    ref[g] = Cardinality(qp_list[g]) + Cardinality(Holders(g)) + Cardinality(Twice(g))

McastInv == Types /\ Keys /\ Lasting /\ Hands /\ ListsAgree /\ RefsCounted

-----------------------------------------------------------------------------
(* Counting the references *)

LEMMA CountOne ==
  ASSUME NEW S, IsFiniteSet(S), NEW c
  PROVE  /\ Cardinality(S \ {c}) \in Nat
         /\ Cardinality(S) = Cardinality(S \ {c}) + IF c \in S THEN 1 ELSE 0
  <1>1. IsFiniteSet(S \ {c})
    BY FS_Difference
  <1>2. Cardinality(S) \in Nat /\ Cardinality(S \ {c}) \in Nat
    BY <1>1, FS_CardinalityType
  <1>3. CASE c \in S
    <2>1. Cardinality(S \ {c}) = Cardinality(S) - 1
      BY <1>3, FS_RemoveElement
    <2> QED
      BY <1>2, <1>3, <2>1
  <1>4. CASE c \notin S
    <2>1. S \ {c} = S
      BY <1>4
    <2> QED
      BY <1>2, <1>4, <2>1
  <1> QED
    BY <1>3, <1>4

\* What context c holds of group g.
Units(c, g) == IF cg[c] = g /\ pc[c] \in {"add_elem", "drop_elem", "deliver", "put"}
               THEN IF pc[c] = "put" /\ puts[c] = 2 THEN 2 ELSE 1
               ELSE 0

\* What the other contexts are about.
OthersKept(c) ==
  \A d \in Contexts \ {c} : /\ pc'[d] = pc[d] /\ cq'[d] = cq[d] /\ cm'[d] = cm[d] /\ cg'[d] = cg[d]
                            /\ puts'[d] = puts[d] /\ cleaning'[d] = cleaning[d]

LEMMA Recount ==
  ASSUME NEW c \in Contexts, NEW g, OthersKept(c)
  PROVE  \E k \in Nat : /\ Cardinality(Holders(g)) + Cardinality(Twice(g)) = k + Units(c, g)
                        /\ Cardinality(Holders(g)') + Cardinality(Twice(g)') = k + Units(c, g)'
  <1>1. PICK h, h1, t, t1 : h = Holders(g) /\ h1 = Holders(g)' /\ t = Twice(g) /\ t1 = Twice(g)'
    OBVIOUS
  <1>2. IsFiniteSet(h) /\ IsFiniteSet(h1) /\ IsFiniteSet(t) /\ IsFiniteSet(t1)
    <2>1. h \subseteq Contexts /\ h1 \subseteq Contexts /\ t \subseteq Contexts /\ t1 \subseteq Contexts
      BY <1>1 DEF Holders, Twice
    <2> QED
      BY <2>1, McastAssumption, FS_Subset
  <1>3. h \ {c} = h1 \ {c} /\ t \ {c} = t1 \ {c}
    BY <1>1 DEF Holders, Twice, OthersKept
  <1>4. /\ Cardinality(h \ {c}) \in Nat /\ Cardinality(t \ {c}) \in Nat
        /\ Cardinality(h) = Cardinality(h \ {c}) + (IF c \in h THEN 1 ELSE 0)
        /\ Cardinality(t) = Cardinality(t \ {c}) + (IF c \in t THEN 1 ELSE 0)
        /\ Cardinality(h1) = Cardinality(h \ {c}) + (IF c \in h1 THEN 1 ELSE 0)
        /\ Cardinality(t1) = Cardinality(t \ {c}) + (IF c \in t1 THEN 1 ELSE 0)
    BY <1>2, <1>3, CountOne
  <1>5. Units(c, g) = (IF c \in h THEN 1 ELSE 0) + (IF c \in t THEN 1 ELSE 0)
    BY <1>1 DEF Units, Holders, Twice
  <1>6. Units(c, g)' = (IF c \in h1 THEN 1 ELSE 0) + (IF c \in t1 THEN 1 ELSE 0)
    BY <1>1 DEF Units, Holders, Twice
  <1>7. PICK k \in Nat : k = Cardinality(h \ {c}) + Cardinality(t \ {c})
    BY <1>4
  <1> QED
    BY <1>1, <1>4, <1>5, <1>6, <1>7

LEMMA Members ==
  ASSUME Types, NEW g \in live
  PROVE  g \in Groups /\ qp_list[g] \subseteq QPs /\ IsFiniteSet(qp_list[g])
         /\ Cardinality(qp_list[g]) \in Nat
  <1>1. g \in Groups /\ qp_list[g] \subseteq QPs
    BY DEF Types
  <1>2. IsFiniteSet(qp_list[g])
    BY <1>1, McastAssumption, FS_Subset
  <1> QED
    BY <1>1, <1>2, FS_CardinalityType

\* A group's count changes as its members and what context c holds of it do.
LEMMA Balance ==
  ASSUME McastInv, NEW c \in Contexts, OthersKept(c), live' = live,
         \A g \in live : /\ ref'[g] \in Nat /\ Cardinality(qp_list'[g]) \in Nat
                         /\ ref'[g] + Cardinality(qp_list[g]) + Units(c, g)
                              = ref[g] + Cardinality(qp_list'[g]) + Units(c, g)'
  PROVE  RefsCounted'
  <1> SUFFICES ASSUME NEW g \in live
               PROVE  ref'[g] = Cardinality(qp_list'[g]) + Cardinality(Holders(g)') + Cardinality(Twice(g)')
    BY DEF RefsCounted
  <1>1. PICK k \in Nat : /\ Cardinality(Holders(g)) + Cardinality(Twice(g)) = k + Units(c, g)
                         /\ Cardinality(Holders(g)') + Cardinality(Twice(g)') = k + Units(c, g)'
    BY Recount
  <1>2. /\ ref[g] = Cardinality(qp_list[g]) + Cardinality(Holders(g)) + Cardinality(Twice(g))
        /\ ref[g] \in Nat
    BY Members DEF McastInv, RefsCounted, Types
  <1>3. Units(c, g) \in Nat /\ Units(c, g)' \in Nat /\ Cardinality(qp_list[g]) \in Nat
    BY Members DEF Units, McastInv
  <1>4. /\ Cardinality(Holders(g)) \in Nat /\ Cardinality(Twice(g)) \in Nat
        /\ Cardinality(Holders(g)') \in Nat /\ Cardinality(Twice(g)') \in Nat
    <2>1. PICK h, h1, t, t1 : h = Holders(g) /\ h1 = Holders(g)' /\ t = Twice(g) /\ t1 = Twice(g)'
      OBVIOUS
    <2>2. h \subseteq Contexts /\ h1 \subseteq Contexts /\ t \subseteq Contexts /\ t1 \subseteq Contexts
      BY <2>1 DEF Holders, Twice
    <2>3. IsFiniteSet(h) /\ IsFiniteSet(h1) /\ IsFiniteSet(t) /\ IsFiniteSet(t1)
      BY <2>2, McastAssumption, FS_Subset
    <2> QED
      BY <2>1, <2>3, FS_CardinalityType
  <1>5. PICK x, y, z, u, v \in Int :
          /\ x = Cardinality(Holders(g)) + Cardinality(Twice(g))
          /\ y = Cardinality(Holders(g)') + Cardinality(Twice(g)')
          /\ z = Cardinality(qp_list[g]) /\ u = Units(c, g) /\ v = Units(c, g)'
    BY <1>3, <1>4
  <1>6. ref'[g] + z + u = ref[g] + Cardinality(qp_list'[g]) + v
    BY <1>5
  <1>7. ref[g] = z + x /\ x = k + u /\ y = k + v
    BY <1>1, <1>2, <1>3, <1>4, <1>5
  <1>8. ref'[g] = Cardinality(qp_list'[g]) + y
    BY <1>2, <1>6, <1>7
  <1> QED
    BY <1>4, <1>5, <1>8

\* While a context is about to drop a reference, the group has another one.
LEMMA NotTheLast ==
  ASSUME Steady, McastInv, NEW c \in Contexts, pc[c] = "put"
  PROVE  cg[c] \in live /\ puts[c] \in 1 .. 2 /\ ref[cg[c]] > 1
  <1>1. PICK g \in live : g = cg[c] /\ puts[c] \in 1 .. 2
    BY DEF McastInv, Hands, Hand
  <1>2. qp_list[g] # {}
    <2>1. mgid[g] \in Mgids
      BY DEF McastInv, Keys
    <2>2. PICK q \in QPs : <<q, mgid[g]>> \in mode.stay
      BY <2>1 DEF Steady
    <2> QED
      BY <2>2 DEF McastInv, Lasting
  <1>3. Cardinality(qp_list[g]) \in Nat \ {0}
    BY <1>2, Members, FS_EmptySet DEF McastInv
  <1>4. IsFiniteSet(Holders(g)) /\ IsFiniteSet(Twice(g))
    <2>1. Holders(g) \subseteq Contexts /\ Twice(g) \subseteq Contexts
      BY DEF Holders, Twice
    <2> QED
      BY <2>1, McastAssumption, FS_Subset
  <1>5. c \in Holders(g)
    BY <1>1 DEF Holders
  <1>6. Cardinality(Holders(g)) \in Nat \ {0} /\ Cardinality(Twice(g)) \in Nat
    BY <1>4, <1>5, FS_CardinalityType, FS_EmptySet
  <1>7. ref[g] = Cardinality(qp_list[g]) + Cardinality(Holders(g)) + Cardinality(Twice(g))
    BY DEF McastInv, RefsCounted
  <1> QED
    BY <1>1, <1>3, <1>6, <1>7

-----------------------------------------------------------------------------
(* Groups are neither created nor released *)

Frame == UNCHANGED <<mode, live, tree, mgid, filter>>

LEMMA FrameStep ==
  ASSUME McastInv, [Next]_vars
  PROVE  Frame
  <1>1. CASE UNCHANGED vars
    BY <1>1 DEF vars, gvars, Frame
  <1>2. ASSUME NEW c \in Contexts, GoOn(c) PROVE Frame
    <2>1. pc[c] \in {"idle", "add_elem", "drop_elem", "put", "deliver", "clean", "leave"}
      BY DEF McastInv, Types
    <2>2. ~AllocGroup(c) /\ ~AllocFails(c) /\ ~McastAdd(c) /\ ~McastAddFails(c) /\ ~AddKey(c) /\ ~DropKey(c)
          /\ ~FreeGroup(c)
      BY <2>1 DEF AllocGroup, AllocFails, McastAdd, McastAddFails, AddKey, DropKey, FreeGroup
    <2>3. CASE AddElem(c) \/ AddElemFails(c) \/ DropElem(c) \/ Put(c) \/ Deliver(c)
      BY <2>3 DEF AddElem, AddElemFails, DropElem, Put, Deliver, gvars, Frame
    <2>4. CASE LeaveGroup(c) \/ LeftGroup(c) \/ FreeQP(c)
      BY <2>4 DEF LeaveGroup, LeftGroup, FreeQP, gvars, Frame
    <2> QED
      BY <1>2, <2>2, <2>3, <2>4 DEF GoOn
  <1>3. ASSUME NEW c \in Contexts, NEW q \in QPs, NEW m \in Mgids,
               Attach(c, q, m) \/ Detach(c, q, m) \/ DestroyQP(c, q) \/ PacketDone(c, q) \/ Receive(c, m)
        PROVE  Frame
    BY <1>3 DEF Attach, Detach, DestroyQP, PacketDone, Receive, gvars, Frame
  <1>4. CASE \E c \in Contexts, q \in QPs : DestroyQP(c, q) \/ PacketDone(c, q)
    BY <1>4 DEF DestroyQP, PacketDone, gvars, Frame
  <1>5. CASE \E c \in Contexts, m \in Mgids : Receive(c, m)
    BY <1>5 DEF Receive, gvars, Frame
  <1> QED
    BY <1>1, <1>2, <1>3, <1>4, <1>5 DEF Next

LEMMA KeysKept == ASSUME McastInv, Frame PROVE Keys'
  BY DEF McastInv, Keys, Frame

\* A step of context c takes a reference to a group that it looked up.
LEMMA LookUp ==
  ASSUME McastInv, Frame, NEW c \in Contexts, NEW g \in live, pc[c] = "idle",
         get_key(c, g), UNCHANGED <<lists, puts, cleaning, destroyed>>,
         NEW st \in {"add_elem", "drop_elem", "deliver"}, Goto(c, st),
         NEW q \in QPs \cup {None}, cq' = [cq EXCEPT ![c] = q], cm' = [cm EXCEPT ![c] = mgid[g]],
         st # "deliver" => q \in QPs /\ q \notin destroyed,
         st = "drop_elem" => <<q, mgid[g]>> \notin mode.stay,
         pkts' \in Nat, qp_ref' = qp_ref
  PROVE  McastInv'
  <1>1. Types /\ Hands /\ Lasting /\ ListsAgree /\ Keys
    BY DEF McastInv
  <1>2. Types'
    BY <1>1 DEF Types, Frame, get_key, Goto, lists, Keys
  <1>3. Lasting'
    BY <1>1 DEF Lasting, Frame, lists
  <1>4. OthersKept(c)
    BY <1>1 DEF OthersKept, Types, get_key, Goto
  <1>5. /\ pc'[c] = st /\ cq'[c] = q /\ cm'[c] = mgid[g] /\ cg'[c] = g /\ ~cleaning'[c]
        /\ pc[c] = "idle" /\ cg[c] = None /\ ref'[g] = ref[g] + 1
        /\ \A h \in live \ {g} : ref'[h] = ref[h]
    BY <1>1 DEF Types, get_key, Goto, Hands, Hand
  <1>6. Hands'
    BY <1>1, <1>4, <1>5 DEF Hands, Hand, OthersKept, Frame, lists
  <1>7. ListsAgree'
    <2>1. ASSUME NEW p, NEW h PROVE Leaving(p, h)' <=> Leaving(p, h)
      BY <1>4, <1>5 DEF Leaving, OthersKept
    <2> QED
      BY <1>1, <2>1 DEF ListsAgree, lists, Frame
  <1>8. RefsCounted'
    <2>1. ASSUME NEW h \in live
          PROVE  /\ ref'[h] \in Nat /\ Cardinality(qp_list'[h]) \in Nat
                 /\ ref'[h] + Cardinality(qp_list[h]) + Units(c, h)
                      = ref[h] + Cardinality(qp_list'[h]) + Units(c, h)'
      <3>1. ref[h] \in Nat /\ Cardinality(qp_list[h]) \in Nat /\ qp_list' = qp_list
        BY <1>1, Members DEF Types, lists
      <3>2. Units(c, h) = 0 /\ Units(c, h)' = IF h = g THEN 1 ELSE 0
        BY <1>5 DEF Units
      <3> QED
        BY <1>5, <3>1, <3>2
    <2> QED
      BY <1>4, <2>1, Balance DEF Frame
  <1> QED
    BY <1>2, <1>3, <1>6, <1>7, <1>8, KeysKept DEF McastInv

LEMMA AttachStep ==
  ASSUME McastInv, Frame, NEW c \in Contexts, NEW q \in QPs, NEW m \in Mgids, Attach(c, q, m)
  PROVE  McastInv'
  <1>1. Found(m) # {} /\ Found(m) \subseteq live /\ \A g \in Found(m) : mgid[g] = m
    BY DEF McastInv, Keys, Types, Found
  <1>2. PICK g \in live : mgid[g] = m /\ get_key(c, g) /\ Goto(c, "add_elem")
    BY <1>1 DEF Attach
  <1>3. /\ pc[c] = "idle" /\ q \notin destroyed /\ UNCHANGED <<lists, puts, cleaning, destroyed>>
        /\ cq' = [cq EXCEPT ![c] = q] /\ cm' = [cm EXCEPT ![c] = mgid[g]] /\ UNCHANGED <<pkts, qp_ref>>
    BY <1>2 DEF Attach, qvars
  <1>4. pkts' \in Nat
    BY <1>3 DEF McastInv, Types
  <1> QED
    BY <1>2, <1>3, <1>4, LookUp

LEMMA DetachStep ==
  ASSUME McastInv, Frame, NEW c \in Contexts, NEW q \in QPs, NEW m \in Mgids, Detach(c, q, m)
  PROVE  McastInv'
  <1>1. PICK g \in live : mgid[g] = m /\ get_key(c, g)
    BY DEF McastInv, Types, Detach, Found
  <1>2. /\ pc[c] = "idle" /\ q \notin destroyed /\ UNCHANGED <<lists, puts, cleaning, destroyed>>
        /\ cq' = [cq EXCEPT ![c] = q] /\ cm' = [cm EXCEPT ![c] = mgid[g]] /\ UNCHANGED <<pkts, qp_ref>>
        /\ Goto(c, "drop_elem") /\ <<q, mgid[g]>> \notin mode.stay
    BY <1>1 DEF Detach, qvars
  <1>3. pkts' \in Nat
    BY <1>2 DEF McastInv, Types
  <1> QED
    BY <1>1, <1>2, <1>3, LookUp

LEMMA ReceiveStep ==
  ASSUME McastInv, Frame, NEW c \in Contexts, NEW m \in Mgids, Receive(c, m)
  PROVE  McastInv'
  <1>1. PICK g \in live : mgid[g] = m /\ get_key(c, g)
    BY DEF McastInv, Types, Receive, Found
  <1>2. /\ pc[c] = "idle" /\ UNCHANGED <<lists, puts, cleaning, destroyed>>
        /\ cq' = [cq EXCEPT ![c] = None] /\ cm' = [cm EXCEPT ![c] = mgid[g]] /\ qp_ref' = qp_ref
        /\ Goto(c, "deliver")
    BY <1>1 DEF Receive
  <1>3. pkts' \in Nat
    BY DEF Receive, McastInv, Types
  <1> QED
    BY <1>1, <1>2, <1>3, LookUp

-----------------------------------------------------------------------------
(* Steps that change the lists, or drop references *)

LEMMA AddElemStep ==
  ASSUME McastInv, Frame, NEW c \in Contexts, AddElem(c) \/ AddElemFails(c)
  PROVE  McastInv'
  <1>1. Types /\ Hands /\ Lasting /\ ListsAgree /\ Keys /\ pc[c] = "add_elem"
    BY DEF McastInv, AddElem, AddElemFails
  <1>2. PICK q \in QPs, g \in live : q = cq[c] /\ g = cg[c] /\ q \notin destroyed /\ ~cleaning[c]
    BY <1>1 DEF Hands, Hand
  <1>3. /\ pc'[c] = "put" /\ puts'[c] = 1 /\ OthersKept(c)
        /\ UNCHANGED <<cq, cm, cg, cleaning, qp_ref, destroyed, pkts>>
        /\ pc' = [pc EXCEPT ![c] = "put"] /\ puts' = [puts EXCEPT ![c] = 1]
    BY <1>1 DEF AddElem, AddElemFails, Goto, Types, OthersKept, qvars
  <1>4. ~Leaving(q, g)
    BY <1>1, <1>2 DEF Leaving, Hands, Hand
  <1>5. ASSUME NEW p, NEW h PROVE Leaving(p, h)' <=> Leaving(p, h)
    BY <1>1, <1>3 DEF Leaving, OthersKept
  <1>6. g \in Groups /\ IsFiniteSet(qp_list[g]) /\ Cardinality(qp_list[g]) \in Nat
    BY <1>1, Members
  <1>7. ASSUME NEW h \in live
        PROVE  Units(c, h) = (IF h = g THEN 1 ELSE 0) /\ Units(c, h)' = IF h = g THEN 1 ELSE 0
    BY <1>1, <1>2, <1>3 DEF Units
  <1>8. CASE AddElem(c) /\ may_join(q, g)
    <2>1. /\ ref' = [ref EXCEPT ![g] = @ + 1] /\ num_qp' = [num_qp EXCEPT ![g] = @ + 1]
          /\ qp_list' = [qp_list EXCEPT ![g] = @ \cup {q}]
          /\ grp_list' = [grp_list EXCEPT ![q] = @ \cup {g}]
          /\ q \notin qp_list[g] /\ num_qp[g] < MaxAttach
      BY <1>2, <1>8 DEF AddElem, may_join
    <2>2. Cardinality(qp_list'[g]) = Cardinality(qp_list[g]) + 1
      BY <1>1, <1>6, <2>1, FS_AddElement DEF Types
    <2>3. Types'
      BY <1>1, <1>3, <2>1 DEF Types, Frame
    <2>4. Lasting'
      BY <1>1, <1>3, <2>1 DEF Lasting, Frame, Types
    <2>5. Hands'
      BY <1>1, <1>2, <1>3, <2>1 DEF Hands, Hand, OthersKept, Frame, Types
    <2>6. ListsAgree'
      <3> SUFFICES ASSUME NEW h \in live
                   PROVE  /\ num_qp'[h] = Cardinality(qp_list'[h]) /\ num_qp'[h] <= MaxAttach
                          /\ \A p \in QPs : p \in qp_list'[h] <=> h \in grp_list'[p] \/ Leaving(p, h)
        BY <1>5 DEF ListsAgree, Frame
      <3>1. num_qp'[h] = Cardinality(qp_list'[h]) /\ num_qp'[h] <= MaxAttach
        BY <1>1, <1>6, <2>1, <2>2, McastAssumption DEF ListsAgree, Types
      <3>2. \A p \in QPs : p \in qp_list'[h] <=> h \in grp_list'[p] \/ Leaving(p, h)
        BY <1>1, <1>6, <2>1 DEF ListsAgree, Types
      <3> QED
        BY <3>1, <3>2
    <2>7. RefsCounted'
      <3>1. ASSUME NEW h \in live
            PROVE  /\ ref'[h] \in Nat /\ Cardinality(qp_list'[h]) \in Nat
                   /\ ref'[h] + Cardinality(qp_list[h]) + Units(c, h)
                        = ref[h] + Cardinality(qp_list'[h]) + Units(c, h)'
        <4>1. h \in Groups /\ ref[h] \in Nat /\ Cardinality(qp_list[h]) \in Nat
          BY <1>1, Members DEF Types
        <4>2. ref'[h] = (IF h = g THEN ref[h] + 1 ELSE ref[h])
              /\ Cardinality(qp_list'[h]) =
                   IF h = g THEN Cardinality(qp_list[h]) + 1 ELSE Cardinality(qp_list[h])
          BY <1>1, <2>1, <2>2, <4>1 DEF Types
        <4> QED
          BY <1>7, <4>1, <4>2
      <3> QED
        BY <1>3, <3>1, Balance DEF Frame
    <2> QED
      BY <2>3, <2>4, <2>5, <2>6, <2>7, KeysKept DEF McastInv
  <1>9. CASE AddElemFails(c) \/ ~may_join(q, g)
    <2>1. UNCHANGED <<ref, qp_list, grp_list, num_qp>>
      BY <1>2, <1>9 DEF AddElem, AddElemFails, lists
    <2>2. Types' /\ Lasting'
      BY <1>1, <1>3, <2>1 DEF Types, Lasting, Frame
    <2>3. Hands'
      BY <1>1, <1>2, <1>3, <2>1 DEF Hands, Hand, OthersKept, Frame, Types
    <2>4. ListsAgree'
      BY <1>1, <1>5, <2>1 DEF ListsAgree, Frame
    <2>5. RefsCounted'
      <3>1. ASSUME NEW h \in live
            PROVE  /\ ref'[h] \in Nat /\ Cardinality(qp_list'[h]) \in Nat
                   /\ ref'[h] + Cardinality(qp_list[h]) + Units(c, h)
                        = ref[h] + Cardinality(qp_list'[h]) + Units(c, h)'
        BY <1>1, <1>7, <2>1, Members DEF Types
      <3> QED
        BY <1>3, <3>1, Balance DEF Frame
    <2> QED
      BY <2>2, <2>3, <2>4, <2>5, KeysKept DEF McastInv
  <1> QED
    BY <1>8, <1>9

LEMMA DropElemStep ==
  ASSUME McastInv, Frame, NEW c \in Contexts, DropElem(c)
  PROVE  McastInv'
  <1>1. Types /\ Hands /\ Lasting /\ ListsAgree /\ Keys /\ pc[c] = "drop_elem"
    BY DEF McastInv, DropElem
  <1>2. PICK q \in QPs, g \in live :
          /\ q = cq[c] /\ g = cg[c] /\ q \notin destroyed /\ ~cleaning[c]
          /\ <<q, mgid[g]>> \notin mode.stay
    BY <1>1 DEF Hands, Hand
  <1>3. PICK n \in 1 .. 2 : n = IF q \in qp_list[g] THEN 2 ELSE 1
    OBVIOUS
  <1>4. /\ pc'[c] = "put" /\ puts'[c] = n /\ OthersKept(c)
        /\ UNCHANGED <<cq, cm, cg, cleaning, qp_ref, destroyed, pkts, ref>>
        /\ pc' = [pc EXCEPT ![c] = "put"] /\ puts' = [puts EXCEPT ![c] = n]
    BY <1>1, <1>2, <1>3 DEF DropElem, Goto, Types, OthersKept, qvars, references_held
  <1>5. ASSUME NEW h PROVE ~Leaving(q, h)
    BY <1>1, <1>2 DEF Leaving, Hands, Hand
  <1>6. ASSUME NEW p, NEW h PROVE Leaving(p, h)' <=> Leaving(p, h)
    BY <1>1, <1>4 DEF Leaving, OthersKept
  <1>7. g \in Groups /\ IsFiniteSet(qp_list[g]) /\ Cardinality(qp_list[g]) \in Nat
    BY <1>1, Members
  <1>8. ASSUME NEW h \in live
        PROVE  Units(c, h) = (IF h = g THEN 1 ELSE 0) /\ Units(c, h)' = IF h = g THEN n ELSE 0
    BY <1>1, <1>2, <1>4 DEF Units
  <1>9. /\ qp_list' = [qp_list EXCEPT ![g] = @ \ {q}]
        /\ grp_list' = [grp_list EXCEPT ![q] = IF q \in qp_list[g] THEN @ \ {g} ELSE @]
        /\ num_qp' = [num_qp EXCEPT ![g] = IF q \in qp_list[g] THEN @ - 1 ELSE @]
    BY <1>2 DEF DropElem
  <1>10. /\ qp_list'[g] = qp_list[g] \ {q}
         /\ \A h \in live \ {g} : qp_list'[h] = qp_list[h] /\ num_qp'[h] = num_qp[h]
    BY <1>1, <1>7, <1>9 DEF Types
  <1>11. /\ Cardinality(qp_list'[g]) \in Nat
         /\ Cardinality(qp_list[g]) = Cardinality(qp_list'[g]) + (n - 1)
    BY <1>3, <1>7, <1>10, CountOne
  <1>12. num_qp'[g] = Cardinality(qp_list'[g]) /\ num_qp'[g] <= MaxAttach
    <2>1. num_qp[g] = Cardinality(qp_list[g]) /\ num_qp[g] <= MaxAttach /\ num_qp[g] \in Nat
      BY <1>1, <1>7 DEF ListsAgree, Types
    <2>2. num_qp'[g] = num_qp[g] - (n - 1)
      BY <1>1, <1>3, <1>7, <1>9, <2>1 DEF Types
    <2> QED
      BY <1>11, <2>1, <2>2, McastAssumption
  <1>13. Types'
    <2>1. num_qp' \in [Groups -> Nat]
      BY <1>1, <1>7, <1>9, <1>11, <1>12 DEF Types
    <2>2. qp_list' \in [Groups -> SUBSET QPs] /\ grp_list' \in [QPs -> SUBSET live]
      BY <1>1, <1>9 DEF Types
    <2> QED
      BY <1>1, <1>4, <2>1, <2>2 DEF Types, Frame
  <1>14. Lasting'
    BY <1>1, <1>2, <1>4, <1>10 DEF Lasting, Frame, Types
  <1>15. Hands'
    BY <1>1, <1>2, <1>4, <1>9, <1>10 DEF Hands, Hand, OthersKept, Frame, Types
  <1>16. ListsAgree'
    <2> SUFFICES ASSUME NEW h \in live
                 PROVE  /\ num_qp'[h] = Cardinality(qp_list'[h]) /\ num_qp'[h] <= MaxAttach
                        /\ \A p \in QPs : p \in qp_list'[h] <=> h \in grp_list'[p] \/ Leaving(p, h)
      BY <1>6 DEF ListsAgree, Frame
    <2>1. num_qp'[h] = Cardinality(qp_list'[h]) /\ num_qp'[h] <= MaxAttach
      BY <1>1, <1>10, <1>12 DEF ListsAgree
    <2>2. \A p \in QPs : p \in qp_list'[h] <=> h \in grp_list'[p] \/ Leaving(p, h)
      BY <1>1, <1>5, <1>7, <1>9, <1>10 DEF ListsAgree, Types
    <2> QED
      BY <2>1, <2>2
  <1>17. RefsCounted'
    <2>1. ASSUME NEW h \in live
          PROVE  /\ ref'[h] \in Nat /\ Cardinality(qp_list'[h]) \in Nat
                 /\ ref'[h] + Cardinality(qp_list[h]) + Units(c, h)
                      = ref[h] + Cardinality(qp_list'[h]) + Units(c, h)'
      <3>1. ref[h] \in Nat /\ Cardinality(qp_list[h]) \in Nat /\ ref'[h] = ref[h]
        BY <1>1, <1>4, Members DEF Types
      <3>2. CASE h = g
        BY <1>8, <1>11, <3>1, <3>2
      <3>3. CASE h # g
        BY <1>8, <1>10, <3>1, <3>3
      <3> QED
        BY <3>2, <3>3
    <2> QED
      BY <1>4, <2>1, Balance DEF Frame
  <1> QED
    BY <1>13, <1>14, <1>15, <1>16, <1>17, KeysKept DEF McastInv

LEMMA PutStep ==
  ASSUME Steady, McastInv, Frame, NEW c \in Contexts, Put(c)
  PROVE  McastInv'
  <1>1. Types /\ Hands /\ Lasting /\ ListsAgree /\ Keys /\ pc[c] = "put"
    BY DEF McastInv, Put
  <1>2. PICK g \in live : g = cg[c] /\ puts[c] \in 1 .. 2 /\ ref[g] > 1 /\ g \in Groups
    BY <1>1, NotTheLast DEF Types
  <1>3. PICK st, k :
          /\ st = (IF puts[c] > 1 THEN "put" ELSE IF cleaning[c] THEN "clean" ELSE "idle")
          /\ k = IF puts[c] > 1 THEN g ELSE None
    OBVIOUS
  <1>4. pc' = [pc EXCEPT ![c] = st] /\ cg' = [cg EXCEPT ![c] = k]
    <2>1. CASE puts[c] > 1
      <3>1. UNCHANGED <<pc, cg>>
        BY <1>2, <2>1 DEF Put
      <3> QED
        BY <1>1, <1>2, <1>3, <2>1, <3>1 DEF Types
    <2>2. CASE ~(puts[c] > 1)
      <3>1. puts[c] = 1 /\ st = (IF cleaning[c] THEN "clean" ELSE "idle") /\ k = None
        BY <1>2, <1>3, <2>2
      <3>2. Goto(c, IF cleaning[c] THEN "clean" ELSE "idle") /\ cg' = [cg EXCEPT ![c] = None]
        BY <1>2, <3>1 DEF Put
      <3> QED
        BY <3>1, <3>2 DEF Goto
    <2> QED
      BY <2>1, <2>2
  <1>5. /\ ref' = [ref EXCEPT ![g] = @ - 1] /\ puts' = [puts EXCEPT ![c] = @ - 1]
        /\ UNCHANGED <<qp_list, grp_list, num_qp, cq, cm, cleaning, qp_ref, destroyed, pkts>>
    BY <1>2 DEF Put, lists, qvars
  <1>6. pc'[c] = st /\ puts'[c] = puts[c] - 1 /\ cg'[c] = k /\ OthersKept(c)
    BY <1>1, <1>4, <1>5 DEF Types, OthersKept
  <1>7. st \in {"put", "clean", "idle"} /\ st # "leave"
    BY <1>3
  <1>8. Types'
    <2>1. puts' \in [Contexts -> 0 .. 2]
      BY <1>1, <1>2, <1>5 DEF Types
    <2>2. ref' \in [Groups -> Nat]
      BY <1>1, <1>2, <1>5 DEF Types
    <2>3. pc' \in [Contexts -> {"idle", "add_elem", "drop_elem", "put", "deliver", "clean", "leave"}]
      BY <1>1, <1>4, <1>7 DEF Types
    <2>4. cg' \in [Contexts -> live \cup {None}]
      BY <1>1, <1>3, <1>4 DEF Types
    <2> QED
      BY <1>1, <1>5, <2>1, <2>2, <2>3, <2>4 DEF Types, Frame
  <1>9. Lasting'
    BY <1>1, <1>5 DEF Lasting, Frame
  <1>10. Hands'
    <2>1. Hand(c)'
      <3>1. /\ cleaning[c] => cq[c] \in destroyed
            /\ cq'[c] = cq[c] /\ cleaning'[c] = cleaning[c] /\ destroyed' = destroyed /\ live' = live
        BY <1>1, <1>5 DEF Hands, Hand, Frame
      <3>2. CASE puts[c] > 1
        <4>1. pc'[c] = "put" /\ cg'[c] = g /\ puts'[c] \in 1 .. 2
          BY <1>2, <1>3, <1>6, <3>2
        <4> QED
          BY <3>1, <4>1 DEF Hand
      <3>3. CASE ~(puts[c] > 1)
        <4>1. pc'[c] = (IF cleaning[c] THEN "clean" ELSE "idle") /\ cg'[c] = None
          BY <1>3, <1>6, <3>3
        <4> QED
          BY <3>1, <4>1 DEF Hand
      <3> QED
        BY <3>2, <3>3
    <2>2. \A d \in Contexts \ {c} : Hand(d)'
      BY <1>1, <1>5, <1>6 DEF Hands, Hand, Frame, OthersKept
    <2> QED
      BY <1>1, <1>5, <1>6, <1>7, <2>1, <2>2 DEF Hands, OthersKept
  <1>11. ListsAgree'
    <2>1. ASSUME NEW p, NEW h PROVE Leaving(p, h)' <=> Leaving(p, h)
      BY <1>1, <1>6, <1>7 DEF Leaving, OthersKept
    <2> QED
      BY <1>1, <1>5, <2>1 DEF ListsAgree, Frame
  <1>12. RefsCounted'
    <2>1. ASSUME NEW h \in live
          PROVE  /\ ref'[h] \in Nat /\ Cardinality(qp_list'[h]) \in Nat
                 /\ ref'[h] + Cardinality(qp_list[h]) + Units(c, h)
                      = ref[h] + Cardinality(qp_list'[h]) + Units(c, h)'
      <3>1. h \in Groups /\ ref[h] \in Nat /\ Cardinality(qp_list[h]) \in Nat /\ qp_list' = qp_list
        BY <1>1, <1>5, Members DEF Types
      <3>2. Units(c, h) = IF h = g THEN puts[c] ELSE 0
        BY <1>1, <1>2 DEF Units
      <3>3. Units(c, h)' = IF h = g THEN puts[c] - 1 ELSE 0
        <4>1. h # None
          BY <3>1, McastAssumption
        <4> QED
          BY <1>2, <1>3, <1>6, <4>1 DEF Units
      <3>4. ref'[h] = IF h = g THEN ref[h] - 1 ELSE ref[h]
        BY <1>1, <1>5, <3>1 DEF Types
      <3> QED
        BY <1>2, <3>1, <3>2, <3>3, <3>4
    <2> QED
      BY <1>6, <2>1, Balance DEF Frame
  <1> QED
    BY <1>8, <1>9, <1>10, <1>11, <1>12, KeysKept DEF McastInv

-----------------------------------------------------------------------------
(* Steps that change neither lists nor references *)

LEMMA QuietStep ==
  ASSUME McastInv, Frame, NEW c \in Contexts, UNCHANGED <<ref, lists, cg, cm>>, Types',
         OthersKept(c), pc[c] # "leave", pc'[c] # "leave",
         \A h \in live : Units(c, h)' = Units(c, h), Hand(c)', destroyed \subseteq destroyed',
         \A d \in Contexts \ {c} : pc[d] \in {"add_elem", "drop_elem"} => cq[d] \notin destroyed',
         \A q \in QPs, m \in Mgids : <<q, m>> \in mode.stay => q \notin destroyed'
  PROVE  McastInv'
  <1>1. Types /\ Hands /\ Lasting /\ ListsAgree /\ UNCHANGED <<qp_list, grp_list, num_qp>>
    BY DEF McastInv, lists
  <1>2. Lasting'
    BY <1>1 DEF Lasting, Frame
  <1>3. Hands'
    <2>1. ASSUME NEW d \in Contexts \ {c} PROVE Hand(d)'
      BY <1>1 DEF Hands, Hand, OthersKept, Frame
    <2>2. \A d \in Contexts : Hand(d)'
      BY <2>1
    <2> QED
      BY <1>1, <2>2 DEF Hands, OthersKept
  <1>4. ListsAgree'
    <2>1. ASSUME NEW p, NEW h PROVE Leaving(p, h)' <=> Leaving(p, h)
      BY DEF Leaving, OthersKept
    <2> QED
      BY <1>1, <2>1 DEF ListsAgree, Frame
  <1>5. RefsCounted'
    <2>1. ASSUME NEW h \in live
          PROVE  /\ ref'[h] \in Nat /\ Cardinality(qp_list'[h]) \in Nat
                 /\ ref'[h] + Cardinality(qp_list[h]) + Units(c, h)
                      = ref[h] + Cardinality(qp_list'[h]) + Units(c, h)'
      <3>1. ref[h] \in Nat /\ Cardinality(qp_list[h]) \in Nat
        BY <1>1, Members DEF Types
      <3>2. Units(c, h)' = Units(c, h) /\ ref' = ref /\ qp_list' = qp_list
        BY <1>1
      <3> QED
        BY <3>1, <3>2
    <2> QED
      BY <2>1, Balance DEF Frame
  <1> QED
    BY <1>2, <1>3, <1>4, <1>5, KeysKept DEF McastInv

LEMMA DeliverStep ==
  ASSUME McastInv, Frame, NEW c \in Contexts, Deliver(c)
  PROVE  McastInv'
  <1>1. Types /\ Hands /\ Lasting /\ pc[c] = "deliver" /\ cg[c] \in live /\ ~cleaning[c]
    BY DEF McastInv, Deliver, Hands, Hand
  <1>2. /\ UNCHANGED <<ref, lists, cg, cm, cq, cleaning, destroyed, pkts>>
        /\ pc' = [pc EXCEPT ![c] = "put"] /\ puts' = [puts EXCEPT ![c] = 1]
    BY DEF Deliver, Goto
  <1>3. PICK takers : qp_ref' = [q \in QPs |-> IF q \in takers THEN qp_ref[q] + 1 ELSE qp_ref[q]]
    BY DEF Deliver
  <1>4. pc'[c] = "put" /\ puts'[c] = 1 /\ cg'[c] = cg[c]
    BY <1>1, <1>2 DEF Types
  <1>5. OthersKept(c)
    BY <1>1, <1>2 DEF Types, OthersKept
  <1>6. Types'
    <2>1. qp_ref' \in [QPs -> Nat]
      BY <1>1, <1>3 DEF Types
    <2> QED
      BY <1>1, <1>2, <2>1 DEF Types, Frame, lists
  <1>7. Hand(c)'
    BY <1>1, <1>2, <1>4 DEF Hand, Frame
  <1>8. \A h \in live : Units(c, h)' = Units(c, h)
    BY <1>1, <1>4 DEF Units
  <1>9. /\ \A d \in Contexts \ {c} : pc[d] \in {"add_elem", "drop_elem"} => cq[d] \notin destroyed'
        /\ \A q \in QPs, m \in Mgids : <<q, m>> \in mode.stay => q \notin destroyed'
    BY <1>1, <1>2 DEF Hands, Hand, Lasting
  <1> QED
    BY <1>1, <1>2, <1>4, <1>5, <1>6, <1>7, <1>8, <1>9, QuietStep

\* DestroyQP and PacketDone.
LEMMA DropQPStep ==
  ASSUME McastInv, Frame, NEW c \in Contexts, NEW q \in QPs, pc[c] = "idle", drop_qp_ref(c, q),
         qp_ref[q] > 0, UNCHANGED <<ref, lists, pkts, cm, cg, puts>>,
         destroyed' \subseteq destroyed \cup {q}, destroyed \subseteq destroyed',
         qp_ref[q] = 1 => q \in destroyed',
         destroyed' # destroyed =>
           /\ \A m \in Mgids : <<q, m>> \notin mode.stay
           /\ \A d \in Contexts : cq[d] = q => pc[d] = "idle"
  PROVE  McastInv'
  <1>1. Types /\ Hands /\ Lasting /\ cg[c] = None /\ ~cleaning[c]
    BY DEF McastInv, Hands, Hand
  <1>2. qp_ref' = [qp_ref EXCEPT ![q] = @ - 1]
    BY DEF drop_qp_ref
  <1>3. \/ /\ qp_ref[q] = 1 /\ cq' = [cq EXCEPT ![c] = q] /\ cleaning' = [cleaning EXCEPT ![c] = TRUE]
           /\ pc' = [pc EXCEPT ![c] = "clean"]
        \/ UNCHANGED <<cq, cleaning, pc>>
    BY DEF drop_qp_ref, Goto
  <1>4. Types'
    <2>1. qp_ref' \in [QPs -> Nat] /\ destroyed' \subseteq QPs
      BY <1>1, <1>2 DEF Types
    <2>2. pc' \in [Contexts -> {"idle", "add_elem", "drop_elem", "put", "deliver", "clean", "leave"}]
      BY <1>1, <1>3 DEF Types
    <2>3. cq' \in [Contexts -> QPs \cup {None}]
      BY <1>1, <1>3 DEF Types
    <2>4. cleaning' \in [Contexts -> BOOLEAN]
      <3>1. CASE cleaning' = cleaning
        BY <1>1, <3>1 DEF Types
      <3>2. CASE cleaning' = [cleaning EXCEPT ![c] = TRUE]
        BY <1>1, <3>2 DEF Types
      <3> QED
        BY <1>3, <3>1, <3>2
    <2> QED
      BY <1>1, <2>1, <2>2, <2>3, <2>4 DEF Types, Frame, lists
  <1>5. OthersKept(c)
    BY <1>1, <1>3 DEF Types, OthersKept
  <1>6. \/ pc'[c] = "clean" /\ cleaning'[c] /\ cq'[c] = q /\ q \in destroyed'
        \/ pc'[c] = "idle" /\ ~cleaning'[c]
    BY <1>1, <1>3 DEF Types
  <1>7. Hand(c)'
    BY <1>1, <1>6 DEF Hand, Frame
  <1>8. \A h \in live : Units(c, h)' = Units(c, h)
    BY <1>6 DEF Units
  <1>9. \A d \in Contexts \ {c} : pc[d] \in {"add_elem", "drop_elem"} => cq[d] \notin destroyed'
    BY <1>1 DEF Hands, Hand
  <1>10. \A p \in QPs, m \in Mgids : <<p, m>> \in mode.stay => p \notin destroyed'
    BY <1>1 DEF Lasting
  <1>11. pc'[c] # "leave"
    BY <1>6
  <1> QED
    BY <1>4, <1>5, <1>7, <1>8, <1>9, <1>10, <1>11, QuietStep

LEMMA DestroyStep ==
  ASSUME McastInv, Frame, NEW c \in Contexts, NEW q \in QPs, DestroyQP(c, q), qp_ref[q] > 0
  PROVE  McastInv'
  <1>1. /\ pc[c] = "idle" /\ drop_qp_ref(c, q) /\ UNCHANGED <<ref, lists, pkts, cm, cg, puts>>
        /\ destroyed' = destroyed \cup {q}
        /\ \A m \in Mgids : <<q, m>> \notin mode.stay
        /\ \A d \in Contexts : cq[d] = q => pc[d] = "idle"
    BY DEF DestroyQP
  <1> QED
    BY <1>1, DropQPStep

LEMMA PacketDoneStep ==
  ASSUME McastInv, Frame, NEW c \in Contexts, NEW q \in QPs, PacketDone(c, q)
  PROVE  McastInv'
  <1>1. /\ pc[c] = "idle" /\ drop_qp_ref(c, q) /\ UNCHANGED <<ref, lists, pkts, cm, cg, puts>>
        /\ destroyed' = destroyed /\ qp_ref[q] > IF q \in destroyed THEN 0 ELSE 1
    BY DEF PacketDone
  <1>2. qp_ref[q] \in Nat
    BY DEF McastInv, Types
  <1>3. qp_ref[q] > 0 /\ (qp_ref[q] = 1 => q \in destroyed')
    BY <1>1, <1>2
  <1> QED
    BY <1>1, <1>3, DropQPStep

LEMMA FreeQPStep ==
  ASSUME McastInv, Frame, NEW c \in Contexts, FreeQP(c)
  PROVE  McastInv'
  <1>1. Types /\ Hands /\ Lasting /\ pc[c] = "clean" /\ cg[c] = None
    BY DEF McastInv, FreeQP, Hands, Hand
  <1>2. /\ UNCHANGED <<ref, lists, cg, cm, destroyed, pkts, qp_ref, puts>>
        /\ cq' = [cq EXCEPT ![c] = None] /\ cleaning' = [cleaning EXCEPT ![c] = FALSE]
        /\ pc' = [pc EXCEPT ![c] = "idle"]
    BY DEF FreeQP, Goto
  <1>3. pc'[c] = "idle" /\ cleaning'[c] = FALSE /\ cg'[c] = None
    BY <1>1, <1>2 DEF Types
  <1>4. OthersKept(c)
    BY <1>1, <1>2 DEF Types, OthersKept
  <1>5. Types'
    BY <1>1, <1>2 DEF Types, Frame, lists
  <1>6. Hand(c)'
    BY <1>3 DEF Hand
  <1>7. \A h \in live : Units(c, h)' = Units(c, h)
    BY <1>1, <1>3 DEF Units
  <1>8. /\ \A d \in Contexts \ {c} : pc[d] \in {"add_elem", "drop_elem"} => cq[d] \notin destroyed'
        /\ \A q \in QPs, m \in Mgids : <<q, m>> \in mode.stay => q \notin destroyed'
    BY <1>1, <1>2 DEF Hands, Hand, Lasting
  <1> QED
    BY <1>1, <1>2, <1>3, <1>4, <1>5, <1>6, <1>7, <1>8, QuietStep

-----------------------------------------------------------------------------
(* rxe_drop_all_mcast_groups *)

LEMMA LeaveGroupStep ==
  ASSUME McastInv, Frame, NEW c \in Contexts, LeaveGroup(c)
  PROVE  McastInv'
  <1>1. /\ Types /\ Hands /\ Lasting /\ ListsAgree
        /\ pc[c] = "clean" /\ cg[c] = None /\ cleaning[c] /\ cq[c] \in destroyed
    BY DEF McastInv, LeaveGroup, Hands, Hand
  <1>2. PICK q \in QPs : q = cq[c] /\ q \in destroyed
    BY <1>1 DEF Types
  <1>3. PICK g \in live : /\ g \in grp_list[q] /\ grp_list' = [grp_list EXCEPT ![q] = @ \ {g}]
                          /\ cg' = [cg EXCEPT ![c] = g]
    BY <1>1, <1>2 DEF LeaveGroup, Types
  <1>4. /\ UNCHANGED <<ref, qp_list, num_qp, cq, cm, destroyed, pkts, qp_ref, puts, cleaning>>
        /\ pc' = [pc EXCEPT ![c] = "leave"]
    BY DEF LeaveGroup, Goto, qvars
  <1>5. pc'[c] = "leave" /\ cg'[c] = g /\ cq'[c] = q /\ cleaning'[c] /\ OthersKept(c)
    BY <1>1, <1>2, <1>3, <1>4 DEF Types, OthersKept
  <1>6. q \in qp_list[g] /\ g \notin grp_list'[q]
    BY <1>1, <1>2, <1>3 DEF ListsAgree, Types
  <1>7. Types'
    BY <1>1, <1>3, <1>4 DEF Types, Frame
  <1>8. Lasting'
    BY <1>1, <1>4 DEF Lasting, Frame
  <1>9. \A p \in QPs : grp_list'[p] = IF p = q THEN grp_list[p] \ {g} ELSE grp_list[p]
    BY <1>1, <1>3 DEF Types
  <1>10. Hands'
    <2>1. Hand(c)'
      BY <1>1, <1>2, <1>4, <1>5, <1>6 DEF Hand, Frame
    <2>2. ASSUME NEW d \in Contexts \ {c} PROVE Hand(d)'
      <3>1. pc[d] = "leave" => cq[d] \in QPs
        BY <1>1 DEF Hands, Hand, Types
      <3>2. Hand(d) /\ pc'[d] = pc[d] /\ cq'[d] = cq[d] /\ cm'[d] = cm[d] /\ cg'[d] = cg[d]
            /\ puts'[d] = puts[d] /\ cleaning'[d] = cleaning[d]
        BY <1>1, <1>5 DEF Hands, OthersKept
      <3> QED
        BY <1>4, <1>9, <3>1, <3>2 DEF Hand, Frame
    <2>3. ASSUME NEW d \in Contexts \ {c}, pc[d] = "leave", cq[d] = q, cg[d] = g PROVE FALSE
      BY <1>1, <1>3, <2>3 DEF Hands, Hand
    <2>4. \A d \in Contexts : Hand(d)'
      BY <2>1, <2>2
    <2> QED
      BY <1>1, <1>5, <2>3, <2>4 DEF Hands, OthersKept
  <1>11. ListsAgree'
    <2>1. ASSUME NEW p \in QPs, NEW h \in live
          PROVE  Leaving(p, h)' <=> Leaving(p, h) \/ (p = q /\ h = g)
      BY <1>1, <1>5 DEF Leaving, OthersKept
    <2> SUFFICES ASSUME NEW h \in live
                 PROVE  /\ num_qp[h] = Cardinality(qp_list[h]) /\ num_qp[h] <= MaxAttach
                        /\ \A p \in QPs : p \in qp_list[h] <=> h \in grp_list'[p] \/ Leaving(p, h)'
      BY <1>4 DEF ListsAgree, Frame
    <2>2. num_qp[h] = Cardinality(qp_list[h]) /\ num_qp[h] <= MaxAttach
      BY <1>1 DEF ListsAgree
    <2>3. ASSUME NEW p \in QPs
          PROVE  p \in qp_list[h] <=> h \in grp_list'[p] \/ Leaving(p, h)'
      <3>1. p \in qp_list[h] <=> h \in grp_list[p] \/ Leaving(p, h)
        BY <1>1 DEF ListsAgree
      <3> QED
        BY <1>3, <1>9, <2>1, <3>1
    <2> QED
      BY <2>2, <2>3
  <1>12. RefsCounted'
    <2>1. ASSUME NEW h \in live
          PROVE  /\ ref'[h] \in Nat /\ Cardinality(qp_list'[h]) \in Nat
                 /\ ref'[h] + Cardinality(qp_list[h]) + Units(c, h)
                      = ref[h] + Cardinality(qp_list'[h]) + Units(c, h)'
      <3>1. ref[h] \in Nat /\ Cardinality(qp_list[h]) \in Nat
        BY <1>1, Members DEF Types
      <3>2. Units(c, h) = 0 /\ Units(c, h)' = 0 /\ ref' = ref /\ qp_list' = qp_list
        BY <1>1, <1>4, <1>5 DEF Units
      <3> QED
        BY <3>1, <3>2
    <2> QED
      BY <1>5, <2>1, Balance DEF Frame
  <1> QED
    BY <1>7, <1>8, <1>10, <1>11, <1>12, KeysKept DEF McastInv

LEMMA LeftGroupStep ==
  ASSUME McastInv, Frame, NEW c \in Contexts, LeftGroup(c)
  PROVE  McastInv'
  <1>1. /\ Types /\ Hands /\ Lasting /\ ListsAgree /\ Keys /\ pc[c] = "leave" /\ cleaning[c]
        /\ cq[c] \in destroyed /\ cg[c] \in live
    BY DEF McastInv, LeftGroup, Hands, Hand
  <1>2. PICK q \in QPs, g \in live : /\ q = cq[c] /\ q \in destroyed /\ g = cg[c]
                                     /\ q \in qp_list[g] /\ g \notin grp_list[q]
    BY <1>1 DEF Types, Hands, Hand
  <1>3. /\ UNCHANGED <<ref, grp_list, cq, cm, cg, destroyed, pkts, qp_ref, cleaning>>
        /\ qp_list' = [qp_list EXCEPT ![g] = @ \ {q}] /\ num_qp' = [num_qp EXCEPT ![g] = @ - 1]
        /\ pc' = [pc EXCEPT ![c] = "put"] /\ puts' = [puts EXCEPT ![c] = 1]
    BY <1>2 DEF LeftGroup, Goto, qvars
  <1>4. pc'[c] = "put" /\ puts'[c] = 1 /\ cg'[c] = g /\ cq'[c] = q /\ cleaning'[c] /\ OthersKept(c)
    BY <1>1, <1>2, <1>3 DEF Types, OthersKept
  <1>5. g \in Groups /\ IsFiniteSet(qp_list[g]) /\ Cardinality(qp_list[g]) \in Nat
    BY <1>1, Members
  <1>6. /\ qp_list'[g] = qp_list[g] \ {q} /\ num_qp'[g] = num_qp[g] - 1
        /\ \A h \in live \ {g} : qp_list'[h] = qp_list[h] /\ num_qp'[h] = num_qp[h]
    BY <1>1, <1>3, <1>5 DEF Types
  <1>7. /\ Cardinality(qp_list'[g]) \in Nat
        /\ Cardinality(qp_list[g]) = Cardinality(qp_list'[g]) + 1
    BY <1>2, <1>5, <1>6, CountOne
  <1>8. num_qp[g] = Cardinality(qp_list[g]) /\ num_qp[g] <= MaxAttach /\ num_qp[g] \in Nat
    BY <1>1, <1>5 DEF ListsAgree, Types
  <1>9. num_qp'[g] = Cardinality(qp_list'[g]) /\ num_qp'[g] <= MaxAttach
    BY <1>6, <1>7, <1>8, McastAssumption
  <1>10. Types'
    <2>1. num_qp' \in [Groups -> Nat]
      BY <1>1, <1>3, <1>7, <1>8 DEF Types
    <2>2. qp_list' \in [Groups -> SUBSET QPs]
      BY <1>1, <1>3 DEF Types
    <2> QED
      BY <1>1, <1>3, <2>1, <2>2 DEF Types, Frame
  <1>11. Lasting'
    <2>1. <<q, mgid[g]>> \notin mode.stay
      BY <1>1, <1>2 DEF Lasting, Keys
    <2> QED
      BY <1>1, <1>3, <1>6, <2>1 DEF Lasting, Frame
  <1>12. Hands'
    <2>1. Hand(c)'
      BY <1>1, <1>2, <1>3, <1>4 DEF Hand, Frame
    <2>2. ASSUME NEW d \in Contexts \ {c} PROVE Hand(d)'
      <3>1. Hand(d) /\ pc'[d] = pc[d] /\ cq'[d] = cq[d] /\ cm'[d] = cm[d] /\ cg'[d] = cg[d]
            /\ puts'[d] = puts[d] /\ cleaning'[d] = cleaning[d]
        BY <1>1, <1>4 DEF Hands, OthersKept
      <3>2. pc[d] = "leave" => ~(cq[d] = q /\ cg[d] = g)
        BY <1>1, <1>2 DEF Hands
      <3>3. pc[d] = "leave" => cq[d] \in qp_list'[cg[d]]
        BY <1>6, <3>1, <3>2 DEF Hand
      <3> QED
        BY <1>3, <3>1, <3>3 DEF Hand, Frame
    <2>3. \A d \in Contexts : Hand(d)'
      BY <2>1, <2>2
    <2> QED
      BY <1>1, <1>4, <2>3 DEF Hands, OthersKept
  <1>13. ListsAgree'
    <2>1. ASSUME NEW p \in QPs, NEW h \in live
          PROVE  Leaving(p, h)' <=> Leaving(p, h) /\ ~(p = q /\ h = g)
      BY <1>1, <1>2, <1>4 DEF Leaving, OthersKept, Hands
    <2> SUFFICES ASSUME NEW h \in live
                 PROVE  /\ num_qp'[h] = Cardinality(qp_list'[h]) /\ num_qp'[h] <= MaxAttach
                        /\ \A p \in QPs : p \in qp_list'[h] <=> h \in grp_list[p] \/ Leaving(p, h)'
      BY <1>3 DEF ListsAgree, Frame
    <2>2. num_qp'[h] = Cardinality(qp_list'[h]) /\ num_qp'[h] <= MaxAttach
      BY <1>1, <1>6, <1>9 DEF ListsAgree
    <2>3. ASSUME NEW p \in QPs
          PROVE  p \in qp_list'[h] <=> h \in grp_list[p] \/ Leaving(p, h)'
      <3>1. p \in qp_list[h] <=> h \in grp_list[p] \/ Leaving(p, h)
        BY <1>1 DEF ListsAgree
      <3> QED
        BY <1>2, <1>6, <2>1, <3>1
    <2> QED
      BY <2>2, <2>3
  <1>14. RefsCounted'
    <2>1. ASSUME NEW h \in live
          PROVE  /\ ref'[h] \in Nat /\ Cardinality(qp_list'[h]) \in Nat
                 /\ ref'[h] + Cardinality(qp_list[h]) + Units(c, h)
                      = ref[h] + Cardinality(qp_list'[h]) + Units(c, h)'
      <3>1. ref[h] \in Nat /\ Cardinality(qp_list[h]) \in Nat /\ ref' = ref
        BY <1>1, <1>3, Members DEF Types
      <3>2. Units(c, h) = 0 /\ Units(c, h)' = IF h = g THEN 1 ELSE 0
        BY <1>1, <1>4 DEF Units
      <3>3. CASE h = g
        BY <1>7, <3>1, <3>2, <3>3
      <3>4. CASE h # g
        BY <1>6, <3>1, <3>2, <3>4
      <3> QED
        BY <3>3, <3>4
    <2> QED
      BY <1>4, <2>1, Balance DEF Frame
  <1> QED
    BY <1>10, <1>11, <1>12, <1>13, <1>14, KeysKept DEF McastInv

-----------------------------------------------------------------------------
(* Every step *)

\* The verbs hold a reference to a QP until it is destroyed.
Held == \A q \in QPs \ destroyed : qp_ref[q] > 0

LEMMA NextCases ==
  ASSUME Next, McastInv
  PROVE  \/ \E c \in Contexts, q \in QPs, m \in Mgids : Attach(c, q, m) \/ Detach(c, q, m)
         \/ \E c \in Contexts, q \in QPs : DestroyQP(c, q) \/ PacketDone(c, q)
         \/ \E c \in Contexts, m \in Mgids : Receive(c, m)
         \/ \E c \in Contexts : \/ AddElem(c) \/ AddElemFails(c) \/ DropElem(c) \/ Put(c) \/ Deliver(c)
                                \/ LeaveGroup(c) \/ LeftGroup(c) \/ FreeQP(c)
  <1>1. ASSUME NEW c \in Contexts
        PROVE  ~AllocGroup(c) /\ ~AllocFails(c) /\ ~McastAdd(c) /\ ~McastAddFails(c) /\ ~AddKey(c) /\ ~DropKey(c)
               /\ ~FreeGroup(c)
    <2>1. pc[c] \in {"idle", "add_elem", "drop_elem", "put", "deliver", "clean", "leave"}
      BY DEF McastInv, Types
    <2> QED
      BY <2>1 DEF AllocGroup, AllocFails, McastAdd, McastAddFails, AddKey, DropKey, FreeGroup
  <1> QED
    BY <1>1 DEF Next, GoOn

LEMMA HeldStep ==
  ASSUME McastInv, Held, [Next]_vars
  PROVE  Held'
  <1>1. Types
    BY DEF McastInv
  <1>2. CASE UNCHANGED vars
    BY <1>2 DEF Held, vars, qvars
  <1>3. ASSUME NEW c \in Contexts, NEW q \in QPs, drop_qp_ref(c, q),
               \/ destroyed' = destroyed \cup {q}
               \/ destroyed' = destroyed /\ qp_ref[q] > IF q \in destroyed THEN 0 ELSE 1
        PROVE  Held'
    BY <1>1, <1>3 DEF Held, Types, drop_qp_ref
  <1>4. ASSUME NEW c \in Contexts, Deliver(c) PROVE Held'
    <2>1. PICK takers : qp_ref' = [q \in QPs |-> IF q \in takers THEN qp_ref[q] + 1 ELSE qp_ref[q]]
      BY <1>4 DEF Deliver
    <2>2. destroyed' = destroyed
      BY <1>4 DEF Deliver
    <2> QED
      BY <1>1, <2>1, <2>2 DEF Held, Types
  <1>5. ASSUME UNCHANGED <<qp_ref, destroyed>> PROVE Held'
    BY <1>5 DEF Held
  <1>6. CASE Next
    <2>1. CASE \E c \in Contexts, q \in QPs, m \in Mgids : Attach(c, q, m) \/ Detach(c, q, m)
      BY <1>5, <2>1 DEF Attach, Detach, qvars
    <2>2. CASE \E c \in Contexts, q \in QPs : DestroyQP(c, q) \/ PacketDone(c, q)
      BY <1>3, <2>2 DEF DestroyQP, PacketDone
    <2>3. CASE \E c \in Contexts, m \in Mgids : Receive(c, m)
      BY <1>5, <2>3 DEF Receive
    <2>4. CASE \E c \in Contexts : AddElem(c) \/ AddElemFails(c) \/ DropElem(c) \/ Put(c) \/ LeaveGroup(c) \/ LeftGroup(c)
      BY <1>5, <2>4 DEF AddElem, AddElemFails, DropElem, Put, LeaveGroup, LeftGroup, qvars
    <2>5. CASE \E c \in Contexts : FreeQP(c)
      BY <1>5, <2>5 DEF FreeQP
    <2> QED
      BY <1>4, <1>6, <2>1, <2>2, <2>3, <2>4, <2>5, NextCases
  <1> QED
    BY <1>2, <1>6

LEMMA McastStep ==
  ASSUME Steady, McastInv, Held, [Next]_vars
  PROVE  Steady' /\ McastInv' /\ Held'
  <1>1. Frame
    BY FrameStep
  <1>2. Steady'
    BY <1>1 DEF Steady, Frame
  <1>3. Held'
    BY HeldStep
  <1>4. CASE UNCHANGED vars
    <2>1. /\ Types' <=> Types
          /\ Keys' <=> Keys
          /\ Lasting' <=> Lasting
      BY <1>4 DEF vars, gvars, qvars, lists, cvars, Types, Keys, Lasting
    <2>2. /\ Hands' <=> Hands
          /\ ListsAgree' <=> ListsAgree
      BY <1>4 DEF vars, gvars, qvars, lists, cvars, Hands, Hand, ListsAgree, Leaving
    <2>3. RefsCounted' <=> RefsCounted
      BY <1>4 DEF vars, gvars, qvars, lists, cvars, RefsCounted, Holders, Twice
    <2> QED
      BY <1>2, <1>3, <2>1, <2>2, <2>3 DEF McastInv
  <1>5. CASE Next
    <2>1. ASSUME NEW c \in Contexts, NEW q \in QPs, DestroyQP(c, q) PROVE McastInv'
      <3>1. qp_ref[q] > 0
        BY <2>1 DEF DestroyQP, Held
      <3> QED
        BY <1>1, <2>1, <3>1, DestroyStep
    <2>2. CASE \E c \in Contexts, q \in QPs, m \in Mgids : Attach(c, q, m) \/ Detach(c, q, m)
      BY <1>1, <1>2, <1>3, <2>2, AttachStep, DetachStep
    <2>3. CASE \E c \in Contexts, q \in QPs : DestroyQP(c, q) \/ PacketDone(c, q)
      BY <1>1, <1>2, <1>3, <2>1, <2>3, PacketDoneStep
    <2>4. CASE \E c \in Contexts, m \in Mgids : Receive(c, m)
      BY <1>1, <1>2, <1>3, <2>4, ReceiveStep
    <2>5. CASE \E c \in Contexts : AddElem(c) \/ AddElemFails(c) \/ DropElem(c) \/ Put(c) \/ Deliver(c)
      BY <1>1, <1>2, <1>3, <2>5, AddElemStep, DropElemStep, PutStep, DeliverStep
    <2>6. CASE \E c \in Contexts : LeaveGroup(c) \/ LeftGroup(c) \/ FreeQP(c)
      BY <1>1, <1>2, <1>3, <2>6, LeaveGroupStep, LeftGroupStep, FreeQPStep
    <2> QED
      BY <1>5, <2>2, <2>3, <2>4, <2>5, <2>6, NextCases
  <1> QED
    BY <1>4, <1>5

LEMMA McastInit ==
  ASSUME Init, Steady
  PROVE  McastInv /\ Held
  <1> DEFINE used == {m \in Mgids : \E q \in QPs : <<q, m>> \in mode.stay}
             mem(f, h) == {q \in QPs : \E m \in used : f[m] = h /\ <<q, m>> \in mode.stay}
  <1>1. used = Mgids
    BY DEF Steady
  <1>2. PICK f \in [Mgids -> Groups] :
          /\ \A m, n \in Mgids : f[m] = f[n] => m = n
          /\ live = {f[m] : m \in Mgids} /\ tree = live
          /\ qp_list = [h \in Groups |-> mem(f, h)]
          /\ grp_list = [q \in QPs |-> {h \in Groups : q \in mem(f, h)}]
          /\ num_qp = [h \in Groups |-> Cardinality(mem(f, h))]
          /\ ref = num_qp
          /\ mgid = [h \in Groups |-> IF h \in live THEN CHOOSE m \in Mgids : f[m] = h ELSE None]
          /\ filter = [m \in Mgids |-> 1]
    <2>1. PICK f \in [used -> Groups] :
            /\ \A m, n \in used : f[m] = f[n] => m = n
            /\ live = {f[m] : m \in used} /\ tree = live
            /\ qp_list = [h \in Groups |-> mem(f, h)]
            /\ grp_list = [q \in QPs |-> {h \in Groups : q \in mem(f, h)}]
            /\ num_qp = [h \in Groups |-> Cardinality(mem(f, h))]
            /\ ref = num_qp
            /\ mgid = [h \in Groups |-> IF h \in live THEN CHOOSE m \in used : f[m] = h ELSE None]
            /\ filter = [m \in Mgids |-> IF m \in used THEN 1 ELSE 0]
      BY Zenon DEF Init
    <2> HIDE DEF used, mem
    <2>2. filter = [m \in Mgids |-> 1]
      BY <1>1, <2>1
    <2>3. f \in [Mgids -> Groups] /\ live = {f[m] : m \in Mgids}
      BY <1>1, <2>1
    <2>4. mgid = [h \in Groups |-> IF h \in live THEN CHOOSE m \in Mgids : f[m] = h ELSE None]
      BY <1>1, <2>1
    <2>5. \A m, n \in Mgids : f[m] = f[n] => m = n
      BY <1>1, <2>1
    <2> QED
      BY <2>1, <2>2, <2>3, <2>4, <2>5
  <1>3. /\ mode \in Modes /\ pkts = mode.pkts /\ qp_ref = [q \in QPs |-> 1] /\ destroyed = {}
        /\ pc = [c \in Contexts |-> "idle"] /\ cq = [c \in Contexts |-> None]
        /\ cm = [c \in Contexts |-> None] /\ cg = [c \in Contexts |-> None]
        /\ puts = [c \in Contexts |-> 0] /\ cleaning = [c \in Contexts |-> FALSE]
    BY DEF Init
  <1>4. \A m \in Mgids : mem(f, f[m]) = {q \in QPs : <<q, m>> \in mode.stay}
    BY <1>1, <1>2
  <1> HIDE DEF used
  <1>5. \A h \in Groups \ live : mem(f, h) = {}
    BY <1>1, <1>2
  <1> HIDE DEF mem
  <1>6. \A m \in Mgids : f[m] \in live /\ mgid[f[m]] = m
    BY <1>2
  <1>7. \A h \in live : \E m \in Mgids : h = f[m]
    BY <1>2
  <1>8. \A h \in Groups : mem(f, h) \subseteq QPs /\ IsFiniteSet(mem(f, h)) /\ Cardinality(mem(f, h)) \in Nat
    <2> SUFFICES ASSUME NEW h \in Groups
                 PROVE  mem(f, h) \subseteq QPs /\ IsFiniteSet(mem(f, h)) /\ Cardinality(mem(f, h)) \in Nat
      OBVIOUS
    <2>1. mem(f, h) \subseteq QPs
      BY DEF mem
    <2>2. IsFiniteSet(mem(f, h))
      BY <2>1, McastAssumption, FS_Subset
    <2> QED
      BY <2>1, <2>2, FS_CardinalityType
  <1>9. Types
    <2>1. live \subseteq Groups /\ tree = live /\ pkts \in Nat /\ mode \in Modes
      BY <1>2, <1>3, McastAssumption
    <2>2. ref \in [Groups -> Nat] /\ num_qp \in [Groups -> Nat] /\ qp_list \in [Groups -> SUBSET QPs]
      BY <1>2, <1>8
    <2>3. grp_list \in [QPs -> SUBSET live]
      BY <1>2, <1>5
    <2>4. mgid \in [Groups -> Mgids \cup {None}]
      <3>1. \A h \in Groups : mgid[h] \in Mgids \cup {None}
        BY <1>2, <1>6, <1>7
      <3> QED
        BY <1>2, <3>1
    <2> QED
      BY <1>3, <2>1, <2>2, <2>3, <2>4 DEF Types
  <1>10. Keys
    <2>1. \A m \in Mgids : \E h \in live : mgid[h] = m
      BY <1>6
    <2>2. \A h \in live : mgid[h] \in Mgids
      BY <1>6, <1>7
    <2>3. \A h, k \in live : mgid[h] = mgid[k] => h = k
      BY <1>6, <1>7
    <2> QED
      BY <1>2, <2>1, <2>2, <2>3 DEF Keys
  <1>11. Lasting
    BY <1>2, <1>3, <1>4, <1>6, <1>7 DEF Lasting
  <1>12. Hands
    <2>1. \A c \in Contexts : pc[c] = "idle" /\ cleaning[c] = FALSE /\ cg[c] = None
      BY <1>3
    <2>2. ASSUME NEW c \in Contexts PROVE Hand(c)
      BY <2>1 DEF Hand
    <2>3. \A c, d \in Contexts :
            pc[c] = "leave" /\ pc[d] = "leave" /\ cq[c] = cq[d] /\ cg[c] = cg[d] => c = d
      BY <2>1
    <2> QED
      BY <2>2, <2>3 DEF Hands
  <1>13. ListsAgree
    <2> SUFFICES ASSUME NEW h \in live
                 PROVE  /\ num_qp[h] = Cardinality(qp_list[h]) /\ num_qp[h] <= MaxAttach
                        /\ \A q \in QPs : q \in qp_list[h] <=> h \in grp_list[q] \/ Leaving(q, h)
      BY DEF ListsAgree
    <2>1. PICK m \in Mgids : h = f[m]
      BY <1>7
    <2>2. h \in Groups /\ qp_list[h] = mem(f, h) /\ num_qp[h] = Cardinality(mem(f, h))
      BY <1>2
    <2>3. Cardinality(mem(f, h)) <= MaxAttach
      BY <1>3, <1>4, <2>1, McastAssumption
    <2>4. ASSUME NEW q \in QPs PROVE q \in qp_list[h] <=> h \in grp_list[q] \/ Leaving(q, h)
      BY <1>2, <1>3, <2>2 DEF Leaving
    <2> QED
      BY <2>2, <2>3, <2>4
  <1>14. RefsCounted
    <2> SUFFICES ASSUME NEW h \in live
                 PROVE  ref[h] = Cardinality(qp_list[h]) + Cardinality(Holders(h)) + Cardinality(Twice(h))
      BY DEF RefsCounted
    <2>1. Holders(h) = {} /\ Twice(h) = {}
      BY <1>3 DEF Holders, Twice
    <2>2. h \in Groups /\ ref[h] = Cardinality(qp_list[h]) /\ Cardinality(qp_list[h]) \in Nat
      BY <1>2, <1>8
    <2> QED
      BY <2>1, <2>2, FS_EmptySet
  <1>15. Held
    BY <1>3 DEF Held
  <1> QED
    BY <1>9, <1>10, <1>11, <1>12, <1>13, <1>14, <1>15 DEF McastInv

-----------------------------------------------------------------------------
(* QPs that are freed *)

Freed == qp_gone \subseteq destroyed

\* The consumer detaches a QP before it destroys it.
Careful == \A g \in live : \A q \in qp_list[g] : q \notin destroyed

\* Without packets only the destroy verb drops the last reference, once, and the
\* QP is freed by the context that has taken it off its groups.
Dry ==
  /\ pkts = 0 /\ \A c \in Contexts : pc[c] # "deliver"
  /\ \A q \in QPs : qp_ref[q] = IF q \in destroyed THEN 0 ELSE 1
  /\ \A c, d \in Contexts : cleaning[c] /\ cleaning[d] /\ cq[c] = cq[d] => c = d
  /\ \A q \in qp_gone : grp_list[q] = {} /\ \A c \in Contexts : cleaning[c] => cq[c] # q

LEMMA FreedStep ==
  ASSUME McastInv, Freed, [Next]_vars
  PROVE  Freed'
  <1>1. CASE UNCHANGED vars
    BY <1>1 DEF vars, qvars, Freed
  <1>2. CASE Next
    <2>1. CASE \E c \in Contexts, q \in QPs, m \in Mgids : Attach(c, q, m) \/ Detach(c, q, m)
      BY <2>1 DEF Attach, Detach, qvars, Freed
    <2>2. CASE \E c \in Contexts, q \in QPs : DestroyQP(c, q) \/ PacketDone(c, q)
      BY <2>2 DEF DestroyQP, PacketDone, Freed
    <2>3. CASE \E c \in Contexts, m \in Mgids : Receive(c, m)
      BY <2>3 DEF Receive, Freed
    <2>4. CASE \E c \in Contexts : \/ AddElem(c) \/ AddElemFails(c) \/ DropElem(c) \/ Put(c) \/ Deliver(c)
                                   \/ LeaveGroup(c) \/ LeftGroup(c)
      BY <2>4 DEF AddElem, AddElemFails, DropElem, Put, Deliver, LeaveGroup, LeftGroup, qvars, Freed
    <2>5. ASSUME NEW c \in Contexts, FreeQP(c) PROVE Freed'
      <3>1. cq[c] \in destroyed
        BY <2>5 DEF McastInv, Hands, Hand, FreeQP
      <3> QED
        BY <2>5, <3>1 DEF FreeQP, Freed
    <2> QED
      BY <1>2, <2>1, <2>2, <2>3, <2>4, <2>5, NextCases
  <1> QED
    BY <1>1, <1>2

\* A QP that no context works on and that is on no group's list of the QP's own
\* is no member.
LEMMA NoMember ==
  ASSUME McastInv, NEW q \in QPs, grp_list[q] = {}, NEW g \in live,
         \A c \in Contexts : cq[c] = q => pc[c] # "leave"
  PROVE  q \notin qp_list[g]
  BY DEF McastInv, ListsAgree, Leaving

LEMMA CarefulStep ==
  ASSUME McastInv, Careful, ~mode.forget, [Next]_vars
  PROVE  Careful'
  <1>1. live' = live /\ Types
    BY FrameStep DEF Frame, McastInv
  <1>2. ASSUME UNCHANGED destroyed, \A g \in live : qp_list'[g] \subseteq qp_list[g]
        PROVE  Careful'
    BY <1>1, <1>2 DEF Careful
  <1>3. CASE UNCHANGED vars
    BY <1>2, <1>3 DEF vars, qvars, lists
  <1>4. CASE Next
    <2>1. CASE \E c \in Contexts, q \in QPs, m \in Mgids : Attach(c, q, m) \/ Detach(c, q, m)
      BY <1>2, <2>1 DEF Attach, Detach, qvars, lists
    <2>2. CASE \E c \in Contexts, q \in QPs : PacketDone(c, q)
      BY <1>2, <2>2 DEF PacketDone, lists
    <2>3. ASSUME NEW c \in Contexts, NEW q \in QPs, DestroyQP(c, q) PROVE Careful'
      <3>1. grp_list[q] = {} /\ destroyed' = destroyed \cup {q} /\ qp_list' = qp_list
        BY <2>3 DEF DestroyQP, lists
      <3>2. \A d \in Contexts : cq[d] = q => pc[d] # "leave"
        BY <2>3 DEF DestroyQP
      <3>3. \A g \in live : q \notin qp_list[g]
        BY <3>1, <3>2, NoMember
      <3> QED
        BY <1>1, <3>1, <3>3 DEF Careful
    <2>4. CASE \E c \in Contexts, m \in Mgids : Receive(c, m)
      BY <1>2, <2>4 DEF Receive, lists
    <2>5. ASSUME NEW c \in Contexts, AddElem(c) \/ AddElemFails(c) PROVE Careful'
      <3>1. cq[c] \in QPs /\ cq[c] \notin destroyed /\ cg[c] \in live /\ cg[c] \in Groups
        BY <1>1, <2>5 DEF AddElem, AddElemFails, McastInv, Hands, Hand, Types
      <3>2. /\ destroyed' = destroyed
            /\ \A g \in live : qp_list'[g] \subseteq qp_list[g] \cup {cq[c]}
        BY <1>1, <2>5, <3>1 DEF AddElem, AddElemFails, qvars, lists, Types
      <3> QED
        BY <1>1, <3>1, <3>2 DEF Careful
    <2>6. ASSUME NEW c \in Contexts, DropElem(c) \/ LeftGroup(c) PROVE Careful'
      <3>1. /\ destroyed' = destroyed
            /\ \E g : \E q : qp_list' = [qp_list EXCEPT ![g] = @ \ {q}]
        BY <2>6 DEF DropElem, LeftGroup, qvars
      <3>2. \A g \in live : qp_list'[g] \subseteq qp_list[g]
        BY <1>1, <3>1 DEF Types
      <3> QED
        BY <1>2, <3>1, <3>2
    <2>7. CASE \E c \in Contexts : Put(c) \/ Deliver(c) \/ LeaveGroup(c) \/ FreeQP(c)
      BY <1>2, <2>7 DEF Put, Deliver, LeaveGroup, FreeQP, qvars, lists
    <2> QED
      BY <1>4, <2>1, <2>2, <2>3, <2>4, <2>5, <2>6, <2>7, NextCases
  <1> QED
    BY <1>3, <1>4

\* Steps that neither free a QP nor touch its references.
LEMMA DryKept ==
  ASSUME McastInv, Dry, NEW c \in Contexts, OthersKept(c),
         UNCHANGED <<pkts, qp_ref, destroyed, qp_gone>>, cleaning'[c] = cleaning[c],
         cleaning[c] => cq'[c] = cq[c], pc'[c] # "deliver",
         \A q \in qp_gone : grp_list'[q] = {}
  PROVE  Dry'
  <1>1. /\ pkts' = 0
        /\ \A d \in Contexts : pc'[d] # "deliver"
    BY DEF Dry, OthersKept
  <1>2. \A q \in QPs : qp_ref'[q] = IF q \in destroyed' THEN 0 ELSE 1
    BY DEF Dry
  <1>3. \A d \in Contexts : /\ cleaning'[d] = cleaning[d]
                            /\ cleaning[d] => cq'[d] = cq[d]
    BY DEF OthersKept
  <1>4. \A d, e \in Contexts : cleaning'[d] /\ cleaning'[e] /\ cq'[d] = cq'[e] => d = e
    BY <1>3 DEF Dry
  <1>5. \A q \in qp_gone' : grp_list'[q] = {} /\ \A d \in Contexts : cleaning'[d] => cq'[d] # q
    BY <1>3 DEF Dry
  <1> QED
    BY <1>1, <1>2, <1>4, <1>5 DEF Dry

LEMMA DryStep ==
  ASSUME McastInv, Freed, Dry, [Next]_vars
  PROVE  Dry'
  <1>1. Types /\ Hands
    BY DEF McastInv
  <1>2. CASE UNCHANGED vars
    BY <1>2 DEF vars, qvars, lists, cvars, Dry
  <1>3. ASSUME NEW c \in Contexts, NEW q \in QPs, NEW m \in Mgids, Attach(c, q, m) \/ Detach(c, q, m)
        PROVE  Dry'
    <2>1. OthersKept(c) /\ pc'[c] # "deliver" /\ ~cleaning[c]
      <3>1. /\ \E st \in {"alloc", "add_elem", "drop_elem"} : pc' = [pc EXCEPT ![c] = st]
            /\ cg' = cg \/ \E g : cg' = [cg EXCEPT ![c] = g]
            /\ cq' = [cq EXCEPT ![c] = q] /\ cm' = [cm EXCEPT ![c] = m]
            /\ UNCHANGED <<puts, cleaning>> /\ pc[c] = "idle"
        BY <1>3 DEF Attach, Detach, get_key, Goto
      <3> QED
        BY <1>1, <3>1 DEF OthersKept, Types, Hands, Hand
    <2>2. UNCHANGED <<pkts, qp_ref, destroyed, qp_gone, cleaning, grp_list>>
      BY <1>3 DEF Attach, Detach, qvars, lists
    <2>3. \A p \in qp_gone : grp_list'[p] = {}
      BY <2>2 DEF Dry
    <2> QED
      BY <2>1, <2>2, <2>3, DryKept
  <1>4. ASSUME NEW c \in Contexts, NEW m \in Mgids, Receive(c, m) PROVE FALSE
    BY <1>4 DEF Receive, Dry
  <1>5. ASSUME NEW c \in Contexts, Deliver(c) PROVE FALSE
    BY <1>5 DEF Deliver, Dry
  <1>6. ASSUME NEW c \in Contexts, NEW q \in QPs, PacketDone(c, q) PROVE FALSE
    BY <1>6 DEF PacketDone, Dry
  <1>7. ASSUME NEW c \in Contexts, AddElem(c) \/ AddElemFails(c) \/ DropElem(c) PROVE Dry'
    <2>1. OthersKept(c) /\ pc'[c] # "deliver"
      BY <1>1, <1>7 DEF AddElem, AddElemFails, DropElem, Goto, OthersKept, Types
    <2>2. UNCHANGED <<pkts, qp_ref, destroyed, qp_gone, cleaning, cq>>
      BY <1>7 DEF AddElem, AddElemFails, DropElem, qvars
    <2>3. cq[c] \in QPs /\ cq[c] \notin qp_gone
      BY <1>1, <1>7 DEF AddElem, AddElemFails, DropElem, Hands, Hand, Freed
    <2>4. qp_gone \subseteq QPs
      BY <1>1 DEF Freed, Types
    <2>5. \A p \in QPs : p # cq[c] => grp_list'[p] = grp_list[p]
      BY <1>1, <1>7 DEF AddElem, AddElemFails, DropElem, Types, lists
    <2>6. \A p \in qp_gone : grp_list'[p] = {}
      BY <2>3, <2>4, <2>5 DEF Dry
    <2> QED
      BY <2>1, <2>2, <2>6, DryKept
  <1>8. ASSUME NEW c \in Contexts, Put(c) \/ LeftGroup(c) PROVE Dry'
    <2>1. OthersKept(c)
      BY <1>1, <1>8 DEF Put, LeftGroup, Goto, OthersKept, Types
    <2>2. pc'[c] # "deliver"
      BY <1>1, <1>8 DEF Put, LeftGroup, Goto, Types
    <2>3. UNCHANGED <<pkts, qp_ref, destroyed, qp_gone, cleaning, cq, grp_list>>
      BY <1>8 DEF Put, LeftGroup, qvars, lists
    <2>4. \A p \in qp_gone : grp_list'[p] = {}
      BY <2>3 DEF Dry
    <2> QED
      BY <2>1, <2>2, <2>3, <2>4, DryKept
  <1>9. ASSUME NEW c \in Contexts, LeaveGroup(c) PROVE Dry'
    <2>1. OthersKept(c) /\ pc'[c] # "deliver"
      BY <1>1, <1>9 DEF LeaveGroup, Goto, OthersKept, Types
    <2>2. UNCHANGED <<pkts, qp_ref, destroyed, qp_gone, cleaning, cq>>
      BY <1>9 DEF LeaveGroup, qvars
    <2>3. \E g : grp_list' = [grp_list EXCEPT ![cq[c]] = @ \ {g}]
      BY <1>9 DEF LeaveGroup
    <2>4. qp_gone \subseteq QPs
      BY <1>1 DEF Freed, Types
    <2>5. \A p \in qp_gone : grp_list'[p] = {}
      BY <1>1, <2>3, <2>4 DEF Dry, Types
    <2> QED
      BY <2>1, <2>2, <2>5, DryKept
  <1>10. ASSUME NEW c \in Contexts, FreeQP(c) PROVE Dry'
    <2>1. /\ cleaning[c] /\ grp_list[cq[c]] = {} /\ qp_gone' = qp_gone \cup {cq[c]}
          /\ UNCHANGED <<pkts, qp_ref, destroyed, grp_list>>
      BY <1>1, <1>10 DEF FreeQP, Hands, Hand, lists
    <2>2. OthersKept(c) /\ pc'[c] = "idle" /\ cleaning'[c] = FALSE
      BY <1>1, <1>10 DEF FreeQP, Goto, OthersKept, Types
    <2>3. \A d \in Contexts : pc'[d] # "deliver"
      BY <2>2 DEF OthersKept, Dry
    <2>4. \A d \in Contexts : cleaning'[d] => d # c /\ cleaning[d] /\ cq'[d] = cq[d]
      BY <2>2 DEF OthersKept
    <2>5. \A d, e \in Contexts : cleaning'[d] /\ cleaning'[e] /\ cq'[d] = cq'[e] => d = e
      BY <2>4 DEF Dry
    <2>6. \A q \in qp_gone' : grp_list'[q] = {} /\ \A d \in Contexts : cleaning'[d] => cq'[d] # q
      BY <2>1, <2>4 DEF Dry
    <2>7. pkts' = 0 /\ \A q \in QPs : qp_ref'[q] = IF q \in destroyed' THEN 0 ELSE 1
      BY <2>1 DEF Dry
    <2> QED
      BY <2>3, <2>5, <2>6, <2>7 DEF Dry
  <1>11. ASSUME NEW c \in Contexts, NEW q \in QPs, DestroyQP(c, q) PROVE Dry'
    <2>1. /\ q \notin destroyed /\ destroyed' = destroyed \cup {q} /\ qp_ref[q] = 1
          /\ UNCHANGED <<pkts, qp_gone, grp_list>>
      BY <1>11 DEF DestroyQP, Dry, lists
    <2>2. /\ qp_ref' = [qp_ref EXCEPT ![q] = @ - 1] /\ cq' = [cq EXCEPT ![c] = q]
          /\ cleaning' = [cleaning EXCEPT ![c] = TRUE] /\ pc' = [pc EXCEPT ![c] = "clean"]
      BY <1>11, <2>1 DEF DestroyQP, drop_qp_ref, Goto
    <2>3. /\ pc'[c] = "clean" /\ cq'[c] = q /\ cleaning'[c] = TRUE
          /\ \A d \in Contexts \ {c} : /\ pc'[d] = pc[d] /\ cq'[d] = cq[d]
                                       /\ cleaning'[d] = cleaning[d]
      BY <1>1, <2>2 DEF Types
    <2>4. \A d \in Contexts \ {c} : cleaning[d] => cq[d] # q
      BY <1>1, <2>1 DEF Hands, Hand
    <2>5. q \notin qp_gone
      BY <2>1 DEF Freed
    <2>6. \A d \in Contexts : pc'[d] # "deliver"
      BY <2>3 DEF Dry
    <2>7. \A p \in QPs : qp_ref'[p] = IF p \in destroyed' THEN 0 ELSE 1
      BY <1>1, <2>1, <2>2 DEF Dry, Types
    <2>8. \A d, e \in Contexts : cleaning'[d] /\ cleaning'[e] /\ cq'[d] = cq'[e] => d = e
      BY <2>3, <2>4 DEF Dry
    <2>9. \A p \in qp_gone' : grp_list'[p] = {} /\ \A d \in Contexts : cleaning'[d] => cq'[d] # p
      BY <2>1, <2>3, <2>5 DEF Dry
    <2>10. pkts' = 0
      BY <2>1 DEF Dry
    <2> QED
      BY <2>6, <2>7, <2>8, <2>9, <2>10 DEF Dry
  <1>12. CASE Next
    <2>1. CASE \E c \in Contexts, q \in QPs : DestroyQP(c, q) \/ PacketDone(c, q)
      BY <1>6, <1>11, <2>1
    <2>2. CASE \E c \in Contexts : \/ AddElem(c) \/ AddElemFails(c) \/ DropElem(c) \/ Put(c) \/ Deliver(c)
                                   \/ LeaveGroup(c) \/ LeftGroup(c) \/ FreeQP(c)
      BY <1>5, <1>7, <1>8, <1>9, <1>10, <2>2
    <2> QED
      BY <1>3, <1>4, <1>12, <2>1, <2>2, NextCases
  <1> QED
    BY <1>2, <1>12

\* A scenario lasts.
LEMMA ModeFixed == ASSUME [Next]_vars PROVE mode' = mode
  <1>1. CASE UNCHANGED vars
    BY <1>1 DEF vars
  <1>2. ASSUME NEW c \in Contexts, GoOn(c) PROVE mode' = mode
    BY <1>2 DEF GoOn, AllocGroup, AllocFails, McastAdd, McastAddFails, AddKey, AddElem, AddElemFails, DropElem, Put,
                DropKey, FreeGroup, Deliver, LeaveGroup, LeftGroup, FreeQP
  <1>3. ASSUME NEW c \in Contexts, NEW q \in QPs, NEW m \in Mgids, Attach(c, q, m) \/ Detach(c, q, m)
        PROVE  mode' = mode
    BY <1>3 DEF Attach, Detach
  <1>4. ASSUME NEW c \in Contexts, NEW q \in QPs, DestroyQP(c, q) \/ PacketDone(c, q)
        PROVE  mode' = mode
    BY <1>4 DEF DestroyQP, PacketDone
  <1>5. ASSUME NEW c \in Contexts, NEW m \in Mgids, Receive(c, m) PROVE mode' = mode
    BY <1>5 DEF Receive
  <1> QED
    BY <1>1, <1>2, <1>3, <1>4, <1>5 DEF Next

LEMMA DryInit ==
  ASSUME Init, mode.pkts = 0
  PROVE  Dry
  <1>1. /\ pkts = 0 /\ qp_ref = [q \in QPs |-> 1] /\ destroyed = {} /\ qp_gone = {}
        /\ pc = [c \in Contexts |-> "idle"] /\ cleaning = [c \in Contexts |-> FALSE]
    BY DEF Init
  <1>2. \A c \in Contexts : pc[c] = "idle" /\ cleaning[c] = FALSE
    BY <1>1
  <1> QED
    BY <1>1, <1>2 DEF Dry

\* What a context works on has a reference.
LEMMA WorkedOn ==
  ASSUME McastInv, NEW c \in Contexts, pc[c] \in {"add_elem", "drop_elem", "deliver"}
  PROVE  ref[cg[c]] > 0
  <1>1. PICK g \in live : g = cg[c]
    BY DEF McastInv, Hands, Hand
  <1>2. IsFiniteSet(Holders(g)) /\ IsFiniteSet(Twice(g)) /\ c \in Holders(g)
    <2>1. Holders(g) \subseteq Contexts /\ Twice(g) \subseteq Contexts
      BY DEF Holders, Twice
    <2> QED
      BY <1>1, <2>1, McastAssumption, FS_Subset DEF Holders
  <1>3. Cardinality(Holders(g)) \in Nat \ {0} /\ Cardinality(Twice(g)) \in Nat
    BY <1>2, FS_CardinalityType, FS_EmptySet
  <1>4. Cardinality(qp_list[g]) \in Nat
    BY Members DEF McastInv
  <1>5. ref[g] = Cardinality(qp_list[g]) + Cardinality(Holders(g)) + Cardinality(Twice(g))
    BY DEF McastInv, RefsCounted
  <1> QED
    BY <1>1, <1>3, <1>4, <1>5

\* The members of a group with a lasting member can be reached.
LEMMA InvReached == ASSUME McastInv PROVE MembersReached
  BY DEF McastInv, MembersReached, Types, Keys

LEMMA InvReleased == ASSUME Steady, McastInv PROVE GroupsReleased
  <1> SUFFICES ASSUME \A c \in Contexts : pc[c] = "idle"
               PROVE  /\ \A g \in live : ref[g] = Cardinality(qp_list[g]) /\ ref[g] > 0
                      /\ \A m \in Mgids : filter[m] = Cardinality({g \in live : mgid[g] = m})
    BY DEF GroupsReleased
  <1>1. ASSUME NEW g \in live PROVE ref[g] = Cardinality(qp_list[g]) /\ ref[g] > 0
    <2>1. Holders(g) = {} /\ Twice(g) = {}
      BY DEF Holders, Twice
    <2>2. ref[g] = Cardinality(qp_list[g]) + 0 + 0
      BY <2>1, FS_EmptySet DEF McastInv, RefsCounted
    <2>3. mgid[g] \in Mgids
      BY DEF McastInv, Keys
    <2>4. PICK q \in QPs : <<q, mgid[g]>> \in mode.stay
      BY <2>3 DEF Steady
    <2>5. q \in qp_list[g]
      BY <2>4 DEF McastInv, Lasting
    <2>6. Cardinality(qp_list[g]) \in Nat \ {0}
      BY <2>5, Members, FS_EmptySet DEF McastInv
    <2> QED
      BY <2>2, <2>6
  <1>2. ASSUME NEW m \in Mgids PROVE filter[m] = Cardinality({g \in live : mgid[g] = m})
    <2>1. PICK h \in live : mgid[h] = m
      BY DEF McastInv, Keys
    <2>2. {g \in live : mgid[g] = m} = {h}
      BY <2>1 DEF McastInv, Keys
    <2>3. filter[m] = 1
      BY DEF McastInv, Keys
    <2> QED
      BY <2>2, <2>3, FS_Singleton
  <1> QED
    BY <1>1, <1>2

LEMMA InvDangling ==
  ASSUME McastInv, Freed, Careful \/ Dry
  PROVE  NothingDangling
  <1>1. \A g \in tree \cup {cg[c] : c \in Contexts} : g # None => g \in live
    BY DEF McastInv, Types
  <1>2. \A q \in QPs : grp_list[q] \subseteq live
    BY DEF McastInv, Types
  <1>3. ASSUME NEW g \in live, NEW q \in qp_list[g] PROVE q \notin qp_gone
    <2>1. CASE Careful
      BY <2>1 DEF Careful, Freed
    <2>2. CASE Dry
      <3> SUFFICES ASSUME q \in qp_gone PROVE FALSE
        OBVIOUS
      <3>1. q \in QPs
        BY Members DEF McastInv
      <3>2. grp_list[q] = {} /\ \A c \in Contexts : cleaning[c] => cq[c] # q
        BY <2>2 DEF Dry
      <3>3. \A c \in Contexts : cq[c] = q => pc[c] # "leave"
        BY <3>2 DEF McastInv, Hands, Hand
      <3> QED
        BY <3>1, <3>2, <3>3, NoMember
    <2> QED
      BY <2>1, <2>2
  <1>4. \A c \in Contexts : pc[c] \in {"add_elem", "drop_elem", "deliver"} => ref[cg[c]] > 0
    BY WorkedOn
  <1> QED
    BY <1>1, <1>2, <1>3, <1>4 DEF NothingDangling

-----------------------------------------------------------------------------
(* The theorems *)

(* McastInv is an invariant: while every group has a lasting member, attach,   *)
(* detach, receive and the cleanup of QPs keep the lists, the references and   *)
(* what each context holds consistent.                                         *)
LEMMA SteadyGroups == Spec => [](Steady => McastInv /\ Held)
  <1>1. Init => (Steady => McastInv /\ Held)
    BY McastInit
  <1>2. (Steady => McastInv /\ Held) /\ [Next]_vars => (Steady => McastInv /\ Held)'
    <2> SUFFICES ASSUME Steady => McastInv /\ Held, [Next]_vars, Steady'
                 PROVE  (McastInv /\ Held)'
      OBVIOUS
    <2>1. mode' = mode
      BY ModeFixed
    <2>2. Steady
      BY <2>1 DEF Steady
    <2> QED
      BY <2>2, McastStep
  <1> QED
    BY <1>1, <1>2, PTL DEF Spec

(* Whatever attaches, detaches, packets and releases of QPs run next to each   *)
(* other, rxe_mcast_get_grp finds the group that a QP has joined and the       *)
(* interface listens to it, as long as each group has a lasting member.        *)
THEOREM MembersFound == Spec => [](Steady => MembersReached)
  <1>1. (Steady => McastInv /\ Held) => (Steady => MembersReached)
    BY InvReached
  <1> QED
    BY <1>1, SteadyGroups, PTL

(* num_qp, the group's list and the QP's list agree, and the limit of          *)
(* rxe_mcast_add_grp_elem is kept, although rxe_drop_all_mcast_groups takes    *)
(* the two locks one after the other.                                          *)
THEOREM ListsConsistent == Spec => [](Steady => ListsAgree)
  <1>1. (Steady => McastInv /\ Held) => (Steady => ListsAgree)
    BY DEF McastInv
  <1> QED
    BY <1>1, SteadyGroups, PTL

(* No path of attach, detach, receive or QP cleanup leaks or loses a reference *)
(* of a group: when nobody works on it, its count is its number of members.    *)
THEOREM ReferencesReturned == Spec => [](Steady => GroupsReleased)
  <1>1. (Steady => McastInv /\ Held) => (Steady => GroupsReleased)
    BY InvReleased
  <1> QED
    BY <1>1, SteadyGroups, PTL

(* Nobody holds a freed group or QP, provided that QPs are detached before     *)
(* they are destroyed (what uverbs enforces), or that no packet arrives.       *)
THEOREM NothingFreedIsHeld ==
  Spec => [](Steady /\ (~mode.forget \/ mode.pkts = 0) => NothingDangling)
  <1> DEFINE Inv == Steady => /\ McastInv /\ Held /\ Freed
                              /\ ~mode.forget => Careful
                              /\ mode.pkts = 0 => Dry
  <1>1. Init => Inv
    <2> SUFFICES ASSUME Init, Steady
                 PROVE  /\ McastInv /\ Held /\ Freed
                        /\ ~mode.forget => Careful
                        /\ mode.pkts = 0 => Dry
      OBVIOUS
    <2>1. Freed /\ Careful
      BY DEF Init, Freed, Careful
    <2> QED
      BY <2>1, McastInit, DryInit
  <1>2. Inv /\ [Next]_vars => Inv'
    <2> SUFFICES ASSUME Inv, [Next]_vars, Steady'
                 PROVE  /\ McastInv' /\ Held' /\ Freed'
                        /\ ~mode'.forget => Careful'
                        /\ mode'.pkts = 0 => Dry'
      OBVIOUS
    <2>1. mode' = mode
      BY ModeFixed
    <2>2. Steady
      BY <2>1 DEF Steady
    <2> QED
      BY <2>1, <2>2, McastStep, FreedStep, CarefulStep, DryStep
  <1>3. Inv => (Steady /\ (~mode.forget \/ mode.pkts = 0) => NothingDangling)
    BY InvDangling
  <1> QED
    BY <1>1, <1>2, <1>3, PTL DEF Spec
=============================================================================
