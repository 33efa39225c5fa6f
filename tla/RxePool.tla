------------------------------- MODULE RxePool -------------------------------
(***************************************************************************)
(* A pool of indexed objects (rxe_pool.c), as used for QPs, SRQs and       *)
(* memory regions, and the device that owns it (rxe.c).                    *)
(*                                                                         *)
(* Contexts create and destroy objects (the verbs of rxe_verbs.c) and look *)
(* them up by index (hdr_check for a received packet, lookup_mem for a     *)
(* key), keep them in use for a while and drop them.  An object, its pool  *)
(* and its device are freed by whoever drops the last reference; one more  *)
(* context removes the device.  Each atomic counter operation and each     *)
(* section under pool_lock is one step.                                    *)
(***************************************************************************)
EXTENDS Naturals, FiniteSets

CONSTANTS Contexts,
          Elems,       \* the memory of the slab cache: one object each
          MaxElem,     \* pool->max_elem
          IndexRange,       \* number of indices: max_index - min_index + 1
          MaxLeaks     \* bound: references to one object that packets leak

None    == "none"
Indices == 0 .. (IndexRange - 1)

\* rxe_pool_init_index refuses a range smaller than max_elem.
ASSUME PoolAssumption ==
  /\ IsFiniteSet(Contexts) /\ IsFiniteSet(Elems) /\ None \notin Elems
  /\ MaxElem \in Nat \ {0} /\ IndexRange \in Nat /\ MaxElem <= IndexRange
  /\ MaxLeaks \in Nat

VARIABLES
  live,        \* objects between kmem_cache_zalloc and kmem_cache_free
  ref,         \* per object: ref_cnt
  index,       \* per object: index
  tree,        \* objects linked in pool->tree
  table,       \* bits set in pool->table
  last,        \* pool->last
  num_elem,    \* pool->num_elem
  pool_ref,    \* pool->ref_cnt
  valid,       \* pool->state = rxe_pool_valid
  dev_ref,     \* rxe->ref_cnt
  registered,  \* between rxe_register_device and rxe_unregister_device
  freed,       \* the device, and the pool inside it, has been deallocated
  owned,       \* objects handed out by a create verb and not yet destroyed
  leaked,      \* history, per object: references that nobody will ever drop
  pc, el       \* per context: its step, and the object in its hands

tvars == <<tree, table, last>>
rvars == <<num_elem, pool_ref, valid, dev_ref, registered, freed>>
vars  == <<live, ref, index, owned, leaked, pc, el, tvars, rvars>>

Init ==
  /\ live = {} /\ tree = {} /\ table = {} /\ owned = {}
  /\ ref = [e \in Elems |-> 0] /\ index = [e \in Elems |-> 0]
  /\ leaked = [e \in Elems |-> 0]
  /\ last = 0 /\ num_elem = 0 /\ pool_ref = 1 /\ valid = TRUE
  /\ dev_ref = 1 /\ registered = TRUE /\ freed = FALSE
  /\ pc = [c \in Contexts |-> "idle"] /\ el = [c \in Contexts |-> None]

Goto(c, step) == pc' = [pc EXCEPT ![c] = step]
Hold(c, e)    == el' = [el EXCEPT ![c] = e]

-----------------------------------------------------------------------------
(* rxe_alloc *)

\* pool_lock: a valid pool is referenced.
AllocRef(c) ==
  /\ pc[c] = "idle" /\ registered /\ valid
  /\ pool_ref' = pool_ref + 1
  /\ Goto(c, "ref_dev")
  /\ UNCHANGED <<live, ref, index, owned, leaked, el, tvars, num_elem, valid, dev_ref,
                 registered, freed>>

\* kref_get(&pool->rxe->ref_cnt)
AllocDev(c) ==
  /\ pc[c] = "ref_dev"
  /\ dev_ref' = dev_ref + 1
  /\ Goto(c, "count")
  /\ UNCHANGED <<live, ref, index, owned, leaked, el, tvars, num_elem, pool_ref, valid,
                 registered, freed>>

\* atomic_inc_return(&pool->num_elem) > pool->max_elem
over_limit == num_elem + 1 > MaxElem

\* The object is counted; over the limit it is not allocated, and the count and
\* the references are given back.
AllocCount(c) ==
  /\ pc[c] = "count"
  /\ num_elem' = num_elem + 1
  /\ Goto(c, IF over_limit THEN "dec" ELSE "zalloc")
  /\ UNCHANGED <<live, ref, index, owned, leaked, el, tvars, pool_ref, valid, dev_ref,
                 registered, freed>>

\* kmem_cache_zalloc, and kref_init of the new object.
Zalloc(c) ==
  /\ pc[c] = "zalloc"
  /\ \E e \in Elems \ live :
       /\ live' = live \cup {e}
       /\ ref' = [ref EXCEPT ![e] = 1]
       /\ Hold(c, e)
  /\ Goto(c, "add_index")
  /\ UNCHANGED <<index, owned, leaked, tvars, rvars>>

\* There is no memory: rxe_alloc uses the null pointer and the context dies, with
\* what it has counted and referenced.
ZallocFails(c) ==
  /\ pc[c] = "zalloc"
  /\ Goto(c, "oops")
  /\ UNCHANGED <<live, ref, index, owned, leaked, el, tvars, rvars>>

-----------------------------------------------------------------------------
(* rxe_add_index, rxe_drop_index *)

\* The first zero bit at or after n, or IndexRange.
find_next_zero_bit(n) ==
  LET zero == {i \in n .. (IndexRange - 1) : i \notin table}
  IN  IF zero = {} THEN IndexRange ELSE CHOOSE i \in zero : \A j \in zero : i <= j

\* Mutant: the search does not start again at the first bit.
alloc_index_no_wrap == find_next_zero_bit(last)

\* Mutant: the next index, without a look at the bitmap.
alloc_index_next == (last + 1) % IndexRange

alloc_index ==
  IF find_next_zero_bit(last) < IndexRange THEN find_next_zero_bit(last)
                                      ELSE find_next_zero_bit(0)

\* pool_lock: a free index is taken; insert_index does not link the object when
\* the tree already has its index.
AddIndex(c) ==
  LET i == alloc_index IN
  /\ pc[c] = "add_index"
  /\ index' = [index EXCEPT ![el[c]] = i]
  /\ table' = table \cup {i} /\ last' = i
  /\ tree' = IF \E e \in tree : index[e] = i THEN tree ELSE tree \cup {el[c]}
  /\ Goto(c, "init")
  /\ UNCHANGED <<live, ref, owned, leaked, el, rvars>>

\* The rest of a create verb: the object is handed out.
Created(c) ==
  /\ pc[c] = "init"
  /\ owned' = owned \cup {el[c]}
  /\ Hold(c, None) /\ Goto(c, "idle")
  /\ UNCHANGED <<live, ref, index, leaked, tvars, rvars>>

\* The rest of a create verb fails.
CreateFails(c) ==
  /\ pc[c] = "init"
  /\ Goto(c, "drop_index")
  /\ UNCHANGED <<live, ref, index, owned, leaked, el, tvars, rvars>>

\* Mutant: the destroy verb drops its reference and leaves the index to the
\* cleanup.
Destroy_without_drop_index(c) ==
  /\ pc[c] = "idle" /\ registered
  /\ \E e \in owned : owned' = owned \ {e} /\ Hold(c, e)
  /\ Goto(c, "drop")
  /\ UNCHANGED <<live, ref, index, leaked, tvars, rvars>>

\* A destroy verb; the consumer calls it once for each object.
Destroy(c) ==
  /\ pc[c] = "idle" /\ registered
  /\ \E e \in owned : owned' = owned \ {e} /\ Hold(c, e)
  /\ Goto(c, "drop_index")
  /\ UNCHANGED <<live, ref, index, leaked, tvars, rvars>>

\* pool_lock
DropIndex(c) ==
  /\ pc[c] = "drop_index"
  /\ table' = table \ {index[el[c]]} /\ tree' = tree \ {el[c]}
  /\ Goto(c, "drop")
  /\ UNCHANGED <<live, ref, index, owned, leaked, el, last, rvars>>

-----------------------------------------------------------------------------
(* Lookups and reference counts *)

\* rxe_pool_get_index finds an object and takes a reference.
Lookup(c) ==
  /\ pc[c] = "idle" /\ registered /\ valid
  /\ \E i \in Indices, e \in tree :
       /\ index[e] = i
       /\ ref' = [ref EXCEPT ![e] = @ + 1]
       /\ Hold(c, e)
  /\ Goto(c, "use")
  /\ UNCHANGED <<live, index, owned, leaked, tvars, rvars>>

\* Mutant: every drop of a reference frees the object.
DropRef_frees(c) ==
  /\ pc[c] \in {"use", "drop"}
  /\ ref' = [ref EXCEPT ![el[c]] = @ - 1]
  /\ Goto(c, "free")
  /\ UNCHANGED <<live, index, owned, leaked, el, tvars, rvars>>

\* rxe_drop_ref: the last one releases the object.
DropRef(c) ==
  LET e == el[c] IN
  /\ pc[c] \in {"use", "drop"}
  /\ ref' = [ref EXCEPT ![e] = @ - 1]
  /\ IF ref[e] = 1 THEN Goto(c, "free") /\ UNCHANGED el
                   ELSE Goto(c, "idle") /\ Hold(c, None)
  /\ UNCHANGED <<live, index, owned, leaked, tvars, rvars>>

\* The packet in use is forgotten, and with it the reference to the QP it is for:
\* rxe_completer leaves by "goto exit" when it retries or fails a request.
Leak(c) ==
  LET e == el[c] IN
  /\ pc[c] = "use" /\ leaked[e] < MaxLeaks
  /\ leaked' = [leaked EXCEPT ![e] = @ + 1]
  /\ Goto(c, "idle") /\ Hold(c, None)
  /\ UNCHANGED <<live, ref, index, owned, tvars, rvars>>

\* rxe_elem_release: the object's own cleanup, and kmem_cache_free.
Free(c) ==
  /\ pc[c] = "free"
  /\ live' = live \ {el[c]}
  /\ Hold(c, None) /\ Goto(c, "dec")
  /\ UNCHANGED <<ref, index, owned, leaked, tvars, rvars>>

\* atomic_dec(&pool->num_elem)
Dec(c) ==
  /\ pc[c] = "dec"
  /\ num_elem' = num_elem - 1
  /\ Goto(c, "put_dev")
  /\ UNCHANGED <<live, ref, index, owned, leaked, el, tvars, pool_ref, valid, dev_ref,
                 registered, freed>>

\* Mutant: rxe_elem_release forgets the device's reference.
PutDev_forgotten(c) ==
  /\ pc[c] = "put_dev"
  /\ Goto(c, "put_pool")
  /\ UNCHANGED <<live, ref, index, owned, leaked, el, tvars, rvars>>

\* kref_put(&pool->rxe->ref_cnt, rxe_release)
PutDev(c) ==
  /\ pc[c] = "put_dev"
  /\ dev_ref' = dev_ref - 1
  /\ Goto(c, IF dev_ref = 1 THEN "release" ELSE "put_pool")
  /\ UNCHANGED <<live, ref, index, owned, leaked, el, tvars, num_elem, pool_ref, valid,
                 registered, freed>>

\* kref_put(&pool->ref_cnt, rxe_pool_release)
PutPool(c) ==
  /\ pc[c] = "put_pool"
  /\ pool_ref' = pool_ref - 1
  /\ valid' = (valid /\ pool_ref # 1)
  /\ Goto(c, "idle")
  /\ UNCHANGED <<live, ref, index, owned, leaked, el, tvars, num_elem, dev_ref,
                 registered, freed>>

-----------------------------------------------------------------------------
(* The device *)

InVerb(c) == pc[c] \in {"ref_dev", "count", "zalloc", "add_index", "init", "drop_index"}

\* Mutant: the device is removed while objects exist, without their references.
Remove_at_once(c) ==
  /\ pc[c] = "idle" /\ registered
  /\ owned = {} /\ \A d \in Contexts : ~InVerb(d)
  /\ registered' = FALSE /\ dev_ref' = 0
  /\ Goto(c, "rm_release")
  /\ UNCHANGED <<live, ref, index, owned, leaked, el, tvars, num_elem, pool_ref, valid,
                 freed>>

\* rxe_remove: rxe_unregister_device waits until the consumers have destroyed
\* their objects and left the verbs; objects may still be in use by packets.
Remove(c) ==
  /\ pc[c] = "idle" /\ registered
  /\ owned = {} /\ \A d \in Contexts : ~InVerb(d)
  /\ registered' = FALSE /\ dev_ref' = dev_ref - 1
  /\ Goto(c, IF dev_ref = 1 THEN "rm_release" ELSE "idle")
  /\ UNCHANGED <<live, ref, index, owned, leaked, el, tvars, num_elem, pool_ref, valid,
                 freed>>

\* rxe_release: rxe_pool_cleanup invalidates the pool and drops its reference.
PoolCleanup(c) ==
  /\ pc[c] \in {"release", "rm_release"}
  /\ valid' = FALSE /\ pool_ref' = pool_ref - 1
  /\ Goto(c, IF pc[c] = "release" THEN "dealloc" ELSE "rm_dealloc")
  /\ UNCHANGED <<live, ref, index, owned, leaked, el, tvars, num_elem, dev_ref, registered,
                 freed>>

\* rxe_release: ib_dealloc_device; then an rxe_elem_release that came here goes on.
Dealloc(c) ==
  /\ pc[c] \in {"dealloc", "rm_dealloc"}
  /\ freed' = TRUE
  /\ Goto(c, IF pc[c] = "dealloc" THEN "put_pool" ELSE "idle")
  /\ UNCHANGED <<live, ref, index, owned, leaked, el, tvars, num_elem, pool_ref, valid,
                 dev_ref, registered>>

-----------------------------------------------------------------------------
GoOn(c) ==
  \/ AllocDev(c) \/ AllocCount(c) \/ Zalloc(c) \/ ZallocFails(c)
  \/ AddIndex(c) \/ Created(c) \/ CreateFails(c) \/ DropIndex(c)
  \/ DropRef(c) \/ Leak(c) \/ Free(c) \/ Dec(c) \/ PutDev(c) \/ PutPool(c)
  \/ PoolCleanup(c) \/ Dealloc(c)

Next ==
  \E c \in Contexts :
    AllocRef(c) \/ Destroy(c) \/ Lookup(c) \/ Remove(c) \/ GoOn(c)

Spec == Init /\ [][Next]_vars

\* A context that has begun goes on: it finishes its verb or its packet, or forgets
\* the packet, or dies.
Fairness == \A c \in Contexts : WF_vars(GoOn(c))

FairSpec == Spec /\ Fairness

-----------------------------------------------------------------------------
(* Properties *)

(* Types of the state of rxe_pool.c: counters do not fall below zero, and    *)
(* alloc_index never returns a bit past the end of the table, which          *)
(* set_bit would write to.                                                    *)
TypeOK ==
  /\ live \subseteq Elems /\ owned \subseteq Elems /\ tree \subseteq Elems
  /\ ref \in [Elems -> Nat] /\ leaked \in [Elems -> Nat] /\ index \in [Elems -> Indices]
  /\ table \subseteq Indices /\ last \in Indices
  /\ num_elem \in Nat /\ pool_ref \in Nat /\ dev_ref \in Nat
  /\ valid \in BOOLEAN /\ registered \in BOOLEAN /\ freed \in BOOLEAN
  /\ pc \in [Contexts -> {"idle", "ref_dev", "count", "zalloc", "oops", "add_index",
                          "init", "drop_index", "use", "drop", "free", "dec",
                          "put_dev", "put_pool", "release", "dealloc", "rm_release", "rm_dealloc"}]
  /\ el \in [Contexts -> Elems \cup {None}]

(* Every object that a create verb has handed out is found by its index, and *)
(* by no other object's: bits, tree and objects agree although indices are   *)
(* given back before the object is freed and are used again by others.        *)
Reachable ==
  /\ owned \subseteq tree
  /\ \A e, f \in tree : index[e] = index[f] => e = f
  /\ table = {index[e] : e \in tree}

(* rxe_pool_get_index never returns an object whose last reference is gone:  *)
(* the destroy verbs unlink an object before they drop the reference that    *)
(* keeps it alive, so what a lookup finds cannot be in rxe_elem_release.      *)
FoundIsAlive == \A e \in tree : e \in live /\ ref[e] > 0

Holders(e) == {c \in Contexts : el[c] = e /\ pc[c] # "free"}

(* An object's count is that of its holders, the verb that owns it included, *)
(* and of the references rxe_completer has leaked: it is freed when, and only *)
(* when, nobody uses it any more and nothing was leaked.                      *)
RefsExact ==
  \A e \in live :
    ref[e] = Cardinality(Holders(e)) + (IF e \in owned THEN 1 ELSE 0) + leaked[e]

(* The device is deallocated only after the last object of its pool is gone, *)
(* also when rxe_remove comes while received packets hold objects ("called   *)
(* when all references have been dropped", rxe.c).                            *)
DeviceLast == dev_ref = 0 => live = {} /\ tree = {} /\ \A c \in Contexts : el[c] = None

(* A removed device is deallocated in the end, unless a packet that           *)
(* rxe_completer forgot keeps its QP, or an rxe_alloc died for want of        *)
(* memory: no other path of rxe_alloc, rxe_elem_release or the create verbs   *)
(* keeps a reference.                                                         *)
DeviceFreed ==
  ~registered ~> \/ freed
                 \/ \E e \in live : leaked[e] > 0
                 \/ \E c \in Contexts : pc[c] = "oops"

(* Without that exception (rxe_release, "called when all references have been *)
(* dropped"): after one forgotten packet the device is never deallocated.     *)
AlwaysFreed == ~registered ~> freed

(* The pool is not touched after the device it is part of has been            *)
(* deallocated.                                                               *)
PoolOutlivesUse == freed => \A c \in Contexts : pc[c] # "put_pool"
=============================================================================
