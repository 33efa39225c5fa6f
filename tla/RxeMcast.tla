------------------------------- MODULE RxeMcast -------------------------------
(***************************************************************************)
(* Multicast groups (rxe_mcast.c): QPs attach to and detach from groups,   *)
(* received packets are delivered to the members, and a QP that is freed   *)
(* leaves its groups.  Groups are objects of a keyed pool: they are looked *)
(* up by their mgid, are counted by their members and by whoever works on  *)
(* them, and the last reference frees them.  Members do not count their QP.*)
(*                                                                         *)
(* Each section under pool_lock, mcg_lock or grp_lock is one step.         *)
(***************************************************************************)
EXTENDS Naturals, FiniteSets

CONSTANTS Contexts, QPs, Mgids,
          Groups,      \* the memory of the groups' slab cache
          MaxAttach,   \* rxe->attr.max_mcast_qp_attach
          Modes        \* see Init

None == "none"

ASSUME McastAssumption ==
  /\ IsFiniteSet(Contexts) /\ IsFiniteSet(QPs) /\ IsFiniteSet(Groups)
  /\ MaxAttach \in Nat \ {0} /\ None \notin QPs \cup Groups \cup Mgids
  /\ \A s \in Modes :
       /\ s.on \in [Contexts -> SUBSET Mgids] /\ s.stay \subseteq QPs \X Mgids
       /\ s.pkts \in Nat /\ s.fails \in Nat
       /\ \A m \in Mgids : Cardinality({q \in QPs : <<q, m>> \in s.stay}) <= MaxAttach

VARIABLES
  mode,
  live,       \* groups between kmem_cache_zalloc and kmem_cache_free
  ref,        \* per group: ref_cnt
  mgid,       \* per group: its key, or None
  tree,       \* groups linked in rxe->mc_grp_pool.tree
  qp_list,    \* per group: the QPs on its list of members
  grp_list,   \* per QP: the groups on its list of memberships
  num_qp,     \* per group
  filter,     \* per mgid: how often the interface was told to listen to it
  qp_ref,     \* per QP: ref_cnt
  qp_gone,    \* QPs that have been freed
  destroyed,  \* QPs whose destroy verb has dropped its reference
  pkts,       \* packets that may still arrive
  fails,      \* mcast_add calls that may still fail
  pc, cq, cm, cg,  \* per context: step, QP, mgid and group it works on
  puts,       \* per context: references to the group it has to drop
  cleaning    \* per context: it is in rxe_qp_cleanup

gvars == <<mgid, filter, fails>>
qvars == <<qp_ref, qp_gone, destroyed, pkts>>
lists == <<qp_list, grp_list, num_qp>>
cvars == <<pc, cq, cm, cg, puts, cleaning>>
vars  == <<mode, live, ref, tree, gvars, lists, qvars, cvars>>

\* A mode gives the mgids each context works on (none: it does nothing), member-
\* ships that exist from the start and stay, the number of packets and of failures
\* of the interface, and whether a consumer may destroy a QP that is still attached
\* (uverbs refuses it).
\* The groups of the initial memberships have been created one by one.
Init ==
  /\ mode \in Modes
  /\ LET used == {m \in Mgids : \E q \in QPs : <<q, m>> \in mode.stay} IN
     \E g \in [used -> Groups] :
       LET members(h) == {q \in QPs : \E m \in used : g[m] = h /\ <<q, m>> \in mode.stay}
       IN
       /\ \A m, n \in used : g[m] = g[n] => m = n
       /\ live = {g[m] : m \in used} /\ tree = live
       /\ qp_list = [h \in Groups |-> members(h)]
       /\ grp_list = [q \in QPs |-> {h \in Groups : q \in members(h)}]
       /\ num_qp = [h \in Groups |-> Cardinality(members(h))]
       /\ ref = num_qp
       /\ mgid = [h \in Groups |-> IF h \in live THEN CHOOSE m \in used : g[m] = h
                                                 ELSE None]
       /\ filter = [m \in Mgids |-> IF m \in used THEN 1 ELSE 0]
  /\ fails = mode.fails /\ pkts = mode.pkts
  /\ qp_ref = [q \in QPs |-> 1] /\ qp_gone = {} /\ destroyed = {}
  /\ pc = [c \in Contexts |-> "idle"]
  /\ cq = [c \in Contexts |-> None] /\ cm = [c \in Contexts |-> None]
  /\ cg = [c \in Contexts |-> None]
  /\ puts = [c \in Contexts |-> 0] /\ cleaning = [c \in Contexts |-> FALSE]

Busy(c) == mode.on[c] # {}

Goto(c, step) == pc' = [pc EXCEPT ![c] = step]

Found(m) == {g \in tree : mgid[g] = m}

\* rxe_pool_get_key takes a reference, whatever the count is.
get_key(c, g) ==
  /\ ref' = [ref EXCEPT ![g] = @ + 1]
  /\ cg' = [cg EXCEPT ![c] = g]

-----------------------------------------------------------------------------
(* rxe_attach_mcast: rxe_mcast_get_grp, rxe_mcast_add_grp_elem *)

Attach(c, q, m) ==
  /\ pc[c] = "idle" /\ m \in mode.on[c] /\ q \notin destroyed
  /\ \/ /\ Found(m) = {}
        /\ Goto(c, "alloc")
        /\ UNCHANGED <<ref, cg>>
     \/ /\ \E g \in Found(m) : get_key(c, g)
        /\ Goto(c, "add_elem")
  /\ cq' = [cq EXCEPT ![c] = q] /\ cm' = [cm EXCEPT ![c] = m]
  /\ UNCHANGED <<mode, live, tree, gvars, lists, qvars, puts, cleaning>>

\* rxe_alloc(&rxe->mc_grp_pool)
AllocGroup(c) ==
  /\ pc[c] = "alloc"
  /\ \E g \in Groups \ live :
       /\ live' = live \cup {g}
       /\ ref' = [ref EXCEPT ![g] = 1]
       /\ mgid' = [mgid EXCEPT ![g] = None]
       /\ num_qp' = [num_qp EXCEPT ![g] = 0]
       /\ qp_list' = [qp_list EXCEPT ![g] = {}]
       /\ cg' = [cg EXCEPT ![c] = g]
  /\ Goto(c, "mcast_add")
  /\ UNCHANGED <<mode, tree, filter, fails, grp_list, qvars, cq, cm, puts, cleaning>>

\* The verb returns -ENOMEM.
AllocFails(c) ==
  /\ pc[c] = "alloc"
  /\ Goto(c, "idle")
  /\ UNCHANGED <<mode, live, ref, tree, gvars, lists, qvars, cq, cm, cg, puts, cleaning>>

\* rxe->ifc_ops->mcast_add, which may fail: the new group is dropped again.
McastAdd(c) ==
  /\ pc[c] = "mcast_add"
  /\ filter' = [filter EXCEPT ![cm[c]] = @ + 1]
  /\ Goto(c, "add_key")
  /\ UNCHANGED <<mode, live, ref, tree, mgid, fails, lists, qvars, cq, cm, cg, puts,
                 cleaning>>

\* Mutant: the new group is kept.
McastAddFails_leaks(c) ==
  /\ pc[c] = "mcast_add" /\ fails > 0
  /\ fails' = fails - 1
  /\ cg' = [cg EXCEPT ![c] = None]
  /\ Goto(c, "idle")
  /\ UNCHANGED <<mode, live, ref, tree, mgid, filter, lists, qvars, cq, cm, puts,
                 cleaning>>

McastAddFails(c) ==
  /\ pc[c] = "mcast_add" /\ fails > 0
  /\ fails' = fails - 1
  /\ puts' = [puts EXCEPT ![c] = 1]
  /\ Goto(c, "put")
  /\ UNCHANGED <<mode, live, ref, tree, mgid, filter, lists, qvars, cq, cm, cg,
                 cleaning>>

\* rxe_add_key: insert_key does not link a group whose key is in the tree.
AddKey(c) ==
  LET g == cg[c] IN
  /\ pc[c] = "add_key"
  /\ mgid' = [mgid EXCEPT ![g] = cm[c]]
  /\ tree' = IF Found(cm[c]) = {} THEN tree \cup {g} ELSE tree
  /\ Goto(c, "add_elem")
  /\ UNCHANGED <<mode, live, ref, filter, fails, lists, qvars, cq, cm, cg, puts,
                 cleaning>>

\* Mutant: the limit on members is not tested.
may_join_unlimited(q, g) == q \notin qp_list[g]

may_join(q, g) == q \notin qp_list[g] /\ num_qp[g] < MaxAttach

\* Mutant: members hold no reference to their group.
AddElem_without_ref(c) ==
  LET q == cq[c]
      g == cg[c]
  IN
  /\ pc[c] = "add_elem"
  /\ IF may_join(q, g)
       THEN /\ num_qp' = [num_qp EXCEPT ![g] = @ + 1]
            /\ qp_list' = [qp_list EXCEPT ![g] = @ \cup {q}]
            /\ grp_list' = [grp_list EXCEPT ![q] = @ \cup {g}]
       ELSE UNCHANGED lists
  /\ puts' = [puts EXCEPT ![c] = 1]
  /\ Goto(c, "put")
  /\ UNCHANGED <<mode, live, ref, tree, gvars, qvars, cq, cm, cg, cleaning>>

\* rxe_mcast_add_grp_elem under grp_lock and mcg_lock; then the verb drops its
\* own reference.
AddElem(c) ==
  LET q == cq[c]
      g == cg[c]
  IN
  /\ pc[c] = "add_elem"
  /\ IF may_join(q, g)
       THEN /\ ref' = [ref EXCEPT ![g] = @ + 1]
            /\ num_qp' = [num_qp EXCEPT ![g] = @ + 1]
            /\ qp_list' = [qp_list EXCEPT ![g] = @ \cup {q}]
            /\ grp_list' = [grp_list EXCEPT ![q] = @ \cup {g}]
       ELSE UNCHANGED <<ref, lists>>
  /\ puts' = [puts EXCEPT ![c] = 1]
  /\ Goto(c, "put")
  /\ UNCHANGED <<mode, live, tree, gvars, qvars, cq, cm, cg, cleaning>>

\* There is no memory for the membership.
AddElemFails(c) ==
  /\ pc[c] = "add_elem" /\ may_join(cq[c], cg[c])
  /\ puts' = [puts EXCEPT ![c] = 1]
  /\ Goto(c, "put")
  /\ UNCHANGED <<mode, live, ref, tree, gvars, lists, qvars, cq, cm, cg, cleaning>>

-----------------------------------------------------------------------------
(* rxe_detach_mcast: rxe_mcast_drop_grp_elem *)

Detach(c, q, m) ==
  /\ pc[c] = "idle" /\ m \in mode.on[c] /\ q \notin destroyed
  /\ <<q, m>> \notin mode.stay
  /\ \E g \in Found(m) : get_key(c, g)
  /\ cq' = [cq EXCEPT ![c] = q] /\ cm' = [cm EXCEPT ![c] = m]
  /\ Goto(c, "drop_elem")
  /\ UNCHANGED <<mode, live, tree, gvars, lists, qvars, puts, cleaning>>

\* Mutant: a QP that is not a member drops the member's reference too.
references_always(member) == 2

\* The reference of the membership, and the one of get_key.
references_held(member) == IF member THEN 2 ELSE 1

\* Both locks: the element leaves both lists.
DropElem(c) ==
  LET q == cq[c]
      g == cg[c]
  IN
  /\ pc[c] = "drop_elem"
  /\ qp_list' = [qp_list EXCEPT ![g] = @ \ {q}]
  /\ grp_list' = [grp_list EXCEPT ![q] = IF q \in qp_list[g] THEN @ \ {g} ELSE @]
  /\ num_qp' = [num_qp EXCEPT ![g] = IF q \in qp_list[g] THEN @ - 1 ELSE @]
  /\ puts' = [puts EXCEPT ![c] = references_held(q \in qp_list[g])]
  /\ Goto(c, "put")
  /\ UNCHANGED <<mode, live, ref, tree, gvars, qvars, cq, cm, cg, cleaning>>

-----------------------------------------------------------------------------
(* The reference count of a group *)

\* rxe_drop_ref; the last one releases the group.
Put(c) ==
  LET g == cg[c] IN
  /\ pc[c] = "put"
  /\ ref' = [ref EXCEPT ![g] = @ - 1]
  /\ puts' = [puts EXCEPT ![c] = @ - 1]
  /\ \/ /\ ref[g] = 1
        /\ Goto(c, "drop_key") /\ UNCHANGED cg
     \/ /\ ref[g] # 1 /\ puts[c] > 1
        /\ UNCHANGED <<pc, cg>>
     \/ /\ ref[g] # 1 /\ puts[c] = 1
        /\ Goto(c, IF cleaning[c] THEN "clean" ELSE "idle")
        /\ cg' = [cg EXCEPT ![c] = None]
  /\ UNCHANGED <<mode, live, tree, gvars, lists, qvars, cq, cm, cleaning>>

\* rxe_mc_cleanup: rb_erase of a node that was never linked empties the tree.
DropKey(c) ==
  LET g == cg[c] IN
  /\ pc[c] = "drop_key"
  /\ tree' = IF g \in tree THEN tree \ {g} ELSE {}
  /\ Goto(c, "free")
  /\ UNCHANGED <<mode, live, ref, gvars, lists, qvars, cq, cm, cg, puts, cleaning>>

\* mcast_delete, and the rest of rxe_elem_release.
FreeGroup(c) ==
  LET g == cg[c] IN
  /\ pc[c] = "free"
  /\ filter' = [m \in Mgids |-> IF m = mgid[g] /\ filter[m] > 0 THEN filter[m] - 1
                                                              ELSE filter[m]]
  /\ live' = live \ {g}
  /\ cg' = [cg EXCEPT ![c] = IF puts[c] > 0 THEN g ELSE None]
  /\ Goto(c, CASE puts[c] > 0 -> "put"
              [] puts[c] = 0 /\ cleaning[c] -> "clean"
              [] OTHER -> "idle")
  /\ UNCHANGED <<mode, ref, tree, mgid, fails, lists, qvars, cq, cm, puts, cleaning>>

-----------------------------------------------------------------------------
(* rxe_rcv_mcast_pkt *)

\* A packet for an mgid the interface listens to.
Receive(c, m) ==
  /\ pc[c] = "idle" /\ m \in mode.on[c] /\ pkts > 0 /\ filter[m] > 0
  /\ pkts' = pkts - 1
  /\ \E g \in Found(m) : get_key(c, g)
  /\ cm' = [cm EXCEPT ![c] = m] /\ cq' = [cq EXCEPT ![c] = None]
  /\ Goto(c, "deliver")
  /\ UNCHANGED <<mode, live, tree, gvars, lists, qp_ref, qp_gone, destroyed, puts,
                 cleaning>>

\* mcg_lock: a reference to each QP that takes the packet (some fail the checks,
\* or the clone of the packet fails).
Deliver(c) ==
  /\ pc[c] = "deliver"
  /\ \E takers \in SUBSET qp_list[cg[c]] :
       qp_ref' = [q \in QPs |-> IF q \in takers THEN qp_ref[q] + 1 ELSE qp_ref[q]]
  /\ puts' = [puts EXCEPT ![c] = 1]
  /\ Goto(c, "put")
  /\ UNCHANGED <<mode, live, ref, tree, gvars, lists, qp_gone, destroyed, pkts, cq, cm,
                 cg, cleaning>>

-----------------------------------------------------------------------------
(* The QP *)

drop_qp_ref(c, q) ==
  /\ qp_ref' = [qp_ref EXCEPT ![q] = @ - 1]
  /\ IF qp_ref[q] = 1
       THEN /\ cq' = [cq EXCEPT ![c] = q]
            /\ cleaning' = [cleaning EXCEPT ![c] = TRUE]
            /\ Goto(c, "clean")
       ELSE UNCHANGED <<cq, cleaning, pc>>

\* rxe_destroy_qp drops the verbs' reference.
DestroyQP(c, q) ==
  /\ pc[c] = "idle" /\ Busy(c) /\ q \notin destroyed
  /\ \A m \in Mgids : <<q, m>> \notin mode.stay
  /\ \A d \in Contexts : cq[d] = q => pc[d] = "idle"
  /\ mode.forget \/ grp_list[q] = {}
  /\ destroyed' = destroyed \cup {q}
  /\ drop_qp_ref(c, q)
  /\ UNCHANGED <<mode, live, ref, tree, gvars, lists, qp_gone, pkts, cm, cg, puts>>

\* A QP is done with a packet.
PacketDone(c, q) ==
  /\ pc[c] = "idle" /\ Busy(c)
  /\ qp_ref[q] > IF q \in destroyed THEN 0 ELSE 1
  /\ drop_qp_ref(c, q)
  /\ UNCHANGED <<mode, live, ref, tree, gvars, lists, qp_gone, destroyed, pkts, cm, cg,
                 puts>>

\* rxe_drop_all_mcast_groups, under grp_lock: the QP forgets a group ...
LeaveGroup(c) ==
  LET q == cq[c] IN
  /\ pc[c] = "clean" /\ grp_list[q] # {}
  /\ \E g \in grp_list[q] :
       /\ grp_list' = [grp_list EXCEPT ![q] = @ \ {g}]
       /\ cg' = [cg EXCEPT ![c] = g]
  /\ Goto(c, "leave")
  /\ UNCHANGED <<mode, live, ref, tree, gvars, qp_list, num_qp, qvars, cq, cm, puts,
                 cleaning>>

\* ... and, under mcg_lock, the group the QP.
LeftGroup(c) ==
  LET g == cg[c] IN
  /\ pc[c] = "leave"
  /\ qp_list' = [qp_list EXCEPT ![g] = @ \ {cq[c]}]
  /\ num_qp' = [num_qp EXCEPT ![g] = @ - 1]
  /\ puts' = [puts EXCEPT ![c] = 1]
  /\ Goto(c, "put")
  /\ UNCHANGED <<mode, live, ref, tree, gvars, grp_list, qvars, cq, cm, cg, cleaning>>

FreeQP(c) ==
  LET q == cq[c] IN
  /\ pc[c] = "clean" /\ grp_list[q] = {}
  /\ qp_gone' = qp_gone \cup {q}
  /\ cq' = [cq EXCEPT ![c] = None]
  /\ cleaning' = [cleaning EXCEPT ![c] = FALSE]
  /\ Goto(c, "idle")
  /\ UNCHANGED <<mode, live, ref, tree, gvars, lists, qp_ref, destroyed, pkts, cm, cg,
                 puts>>

-----------------------------------------------------------------------------
GoOn(c) ==
  \/ AllocGroup(c) \/ AllocFails(c) \/ McastAdd(c) \/ McastAddFails(c) \/ AddKey(c)
  \/ AddElem(c) \/ AddElemFails(c) \/ DropElem(c) \/ Put(c) \/ DropKey(c) \/ FreeGroup(c) \/ Deliver(c)
  \/ LeaveGroup(c) \/ LeftGroup(c) \/ FreeQP(c)

Next ==
  \E c \in Contexts :
    \/ GoOn(c)
    \/ \E q \in QPs, m \in Mgids : Attach(c, q, m) \/ Detach(c, q, m)
    \/ \E q \in QPs : DestroyQP(c, q) \/ PacketDone(c, q)
    \/ \E m \in Mgids : Receive(c, m)

Spec == Init /\ [][Next]_vars

-----------------------------------------------------------------------------
(* Properties *)

(* A QP that has joined a group gets its packets: the group is the one that   *)
(* rxe_pool_get_key finds for its mgid, and the interface listens to it.  So  *)
(* it is for a group that keeps a member, whatever attaches, detaches and     *)
(* releases of QPs run next to each other, and for groups that come and go if *)
(* no two contexts work on the same one.  (Two contexts that create one group *)
(* at once, rxe_mcast.c:50, leave members that no lookup finds.)              *)
MembersReached ==
  \A g \in live : qp_list[g] # {} => g \in tree /\ filter[mgid[g]] > 0

(* num_qp and both lists agree and the limit on members is kept, although     *)
(* attach and detach take grp_lock and mcg_lock together and the cleanup of a *)
(* QP one after the other.  A QP that is half out is on the group's list only.*)
Leaving(q, g) == \E c \in Contexts : pc[c] = "leave" /\ cq[c] = q /\ cg[c] = g

ListsAgree ==
  \A g \in live :
    /\ num_qp[g] = Cardinality(qp_list[g]) /\ num_qp[g] <= MaxAttach
    /\ \A q \in QPs : q \in qp_list[g] <=> g \in grp_list[q] \/ Leaving(q, g)

(* Nobody holds a freed object: the groups on a list, in the tree or in a     *)
(* context's hands are live and counted, and the members of a group have not  *)
(* been freed, which nothing but rxe_drop_all_mcast_groups sees to.           *)
NothingDangling ==
  /\ \A g \in tree \cup {cg[c] : c \in Contexts} : g # None => g \in live
  /\ \A q \in QPs : grp_list[q] \subseteq live
  /\ \A g \in live : \A q \in qp_list[g] : q \notin qp_gone
  /\ \A c \in Contexts : pc[c] \in {"add_elem", "drop_elem", "deliver"} => ref[cg[c]] > 0

(* A group whose members have left and on which nobody works is freed, and    *)
(* the interface no longer listens to its mgid: references are not leaked on  *)
(* any path, the failing ones included.                                       *)
GroupsReleased ==
  (\A c \in Contexts : pc[c] = "idle") =>
    /\ \A g \in live : ref[g] = Cardinality(qp_list[g]) /\ ref[g] > 0
    /\ \A m \in Mgids : filter[m] = Cardinality({g \in live : mgid[g] = m})
=============================================================================
