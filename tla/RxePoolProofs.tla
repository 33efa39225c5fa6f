---------------------------- MODULE RxePoolProofs ----------------------------
(***************************************************************************)
(* Theorems about RxePool, for any number of contexts, any slab cache and  *)
(* any size of the index table: the counters and alloc_index keep their    *)
(* types, an index finds the one object it was given to, a lookup never    *)
(* finds an object that is being released, reference counts are exact, and *)
(* the device outlives its objects.                                        *)
(***************************************************************************)
EXTENDS RxePool, FiniteSetTheorems, TLAPS

\* The steps at which a context has an object in its hands.
InHand == {"add_index", "init", "drop_index", "use", "drop", "free"}

\* Those at which the object is its alone to make, unlink or release.
Exclusive == {"add_index", "init", "drop_index", "free"}

Releasing == {"release", "rm_release"}

HandsMatchStep == \A c \in Contexts : (el[c] # None) <=> (pc[c] \in InHand)
HandsLive      == \A c \in Contexts : pc[c] \in InHand => el[c] \in live

\* Two contexts never make, unlink or release the same object, nor one that the
\* consumer owns.
OneExclusive ==
  \A c \in Contexts : pc[c] \in Exclusive =>
    /\ el[c] \notin owned
    /\ \A d \in Contexts : pc[d] \in Exclusive /\ el[d] = el[c] => d = c

\* Nobody else has found an object that has no index yet.
FreshUnknown ==
  \A c, d \in Contexts : pc[c] = "add_index" /\ el[d] = el[c] => d = c

ReleasedAtZero == \A c \in Contexts : pc[c] = "free" => ref[el[c]] = 0

\* The tree holds what is owned, and what is between its two index calls.
TreeIsLinked ==
  \A e \in Elems :
    (e \in tree) <=> \/ e \in owned
                     \/ \E c \in Contexts : pc[c] \in {"init", "drop_index"} /\ el[c] = e

Hands ==
  /\ HandsMatchStep /\ HandsLive /\ owned \subseteq live
  /\ OneExclusive /\ FreshUnknown /\ ReleasedAtZero /\ TreeIsLinked

\* A leaked reference keeps its object.
LeaksLive == \A e \in Elems : leaked[e] # 0 => e \in live

At(S) == {c \in Contexts : pc[c] \in S}

\* How many contexts are at a step of S.
NumAt(S) == Cardinality(At(S))

\* num_elem counts the objects, and those that were not allocated or are freed
\* but not yet taken off.
ElemUsers == {"zalloc", "oops", "dec"}

ElemsExact == num_elem = Cardinality(live) + NumAt(ElemUsers)

LimitKept == Cardinality(live) + NumAt({"zalloc"}) <= MaxElem

\* Each object, each allocation and the rest of each release has a reference to
\* the device.
DevUsers == {"count", "zalloc", "oops", "dec", "put_dev"}

DevExact ==
  dev_ref = Cardinality(live) + NumAt(DevUsers) + (IF registered THEN 1 ELSE 0)

PoolUsers ==
  {"ref_dev", "count", "zalloc", "oops", "dec", "put_dev", "put_pool", "release", "dealloc"}

\* Each object, and each allocation or release under way, has a reference to
\* the pool; the device has one until rxe_pool_cleanup.
PoolExact ==
  pool_ref = Cardinality(live) + NumAt(PoolUsers)
             + (IF dev_ref # 0 \/ (\E c \in Contexts : pc[c] \in Releasing) THEN 1 ELSE 0)

OneRelease ==
  \A c \in Contexts : pc[c] \in Releasing =>
    dev_ref = 0 /\ \A d \in Contexts : pc[d] \in Releasing => d = c

\* rxe_unregister_device has waited for the consumers.
UnregisteredQuiet ==
  ~registered => owned = {} /\ \A c \in Contexts : ~InVerb(c)

Counters ==
  /\ ElemsExact /\ LimitKept /\ DevExact /\ PoolExact /\ OneRelease
  /\ UnregisteredQuiet

PoolInv == TypeOK /\ Hands /\ LeaksLive /\ Reachable /\ RefsExact /\ Counters

-----------------------------------------------------------------------------
(* Counting contexts *)

\* A context that moves to step s leaves and joins the sets of contexts.
LEMMA AtMove ==
  ASSUME TypeOK, NEW c \in Contexts, NEW s, Goto(c, s), NEW S
  PROVE  /\ IsFiniteSet(At(S)) /\ Cardinality(At(S)) \in Nat
         /\ Cardinality(At(S)') \in Nat
         /\ Cardinality(At(S)') = Cardinality(At(S)) + (IF s \in S THEN 1 ELSE 0)
                                                     - (IF pc[c] \in S THEN 1 ELSE 0)
         /\ pc[c] \in S => Cardinality(At(S)) > 0
  <1>1. IsFiniteSet(At(S))
    BY FS_Subset, PoolAssumption DEF At
  <1>2. Cardinality(At(S)) \in Nat
    BY <1>1, FS_CardinalityType
  <1>3. CASE s \in S
    <2>1. At(S)' = At(S) \cup {c}
      BY <1>3 DEF At, Goto, TypeOK
    <2>2. Cardinality(At(S)') = IF c \in At(S) THEN Cardinality(At(S))
                                               ELSE Cardinality(At(S)) + 1
      BY <1>1, <2>1, FS_AddElement
    <2>3. c \in At(S) <=> pc[c] \in S
      BY DEF At
    <2>4. c \in At(S) => Cardinality(At(S)) > 0
      BY <1>1, <1>2, FS_EmptySet
    <2> QED
      BY <1>1, <1>2, <1>3, <2>2, <2>3, <2>4
  <1>4. CASE s \notin S
    <2>1. At(S)' = At(S) \ {c}
      BY <1>4 DEF At, Goto, TypeOK
    <2>2. Cardinality(At(S)') = IF c \in At(S) THEN Cardinality(At(S)) - 1
                                               ELSE Cardinality(At(S))
      BY <1>1, <2>1, FS_RemoveElement
    <2>3. c \in At(S) <=> pc[c] \in S
      BY DEF At
    <2>4. c \in At(S) => Cardinality(At(S)) > 0
      BY <1>1, <1>2, FS_EmptySet
    <2> QED
      BY <1>1, <1>2, <1>4, <2>2, <2>3, <2>4
  <1> QED
    BY <1>3, <1>4

\* The set of objects is finite.
LEMMA LiveFinite ==
  ASSUME live \subseteq Elems
  PROVE  IsFiniteSet(live) /\ Cardinality(live) \in Nat
  BY FS_Subset, FS_CardinalityType, PoolAssumption

-----------------------------------------------------------------------------
(* alloc_index *)

\* Every set of indices that is not empty has a least one.
LEMMA LeastIndex ==
  ASSUME NEW S \in SUBSET Nat, S # {}
  PROVE  \E i \in S : \A j \in S : i <= j
  <1> DEFINE R == OpToRel(<, Nat)
  <1>1. PICK i \in S : \A j \in S : ~ (<<j, i>> \in R)
    BY NatLessThanWellFounded, WFMin
  <1>2. \A j \in S : ~ (j < i)
    BY <1>1 DEF OpToRel
  <1> QED
    BY <1>2

\* find_next_zero_bit returns a clear bit when there is one at or after n.
LEMMA ZeroBit ==
  ASSUME NEW n \in Nat, NEW b \in n .. (IndexRange - 1), b \notin table
  PROVE  /\ find_next_zero_bit(n) \in n .. (IndexRange - 1)
         /\ find_next_zero_bit(n) \notin table
  <1> DEFINE zero == {i \in n .. (IndexRange - 1) : i \notin table}
  <1>1. zero # {} /\ zero \in SUBSET Nat
    BY PoolAssumption
  <1>2. \E i \in zero : \A j \in zero : i <= j
    BY <1>1, LeastIndex
  <1>3. find_next_zero_bit(n) = CHOOSE i \in zero : \A j \in zero : i <= j
    BY <1>1 DEF find_next_zero_bit
  <1>4. find_next_zero_bit(n) \in zero
    BY <1>2, <1>3
  <1> QED
    BY <1>4

\* alloc_index returns a clear bit of the table as long as there is one: it also
\* looks before pool->last.
LEMMA AllocIndexClear ==
  ASSUME TypeOK, NEW b \in Indices, b \notin table
  PROVE  alloc_index \in Indices /\ alloc_index \notin table
  <1>1. last \in Nat /\ 0 \in Nat /\ IndexRange \in Nat
    BY PoolAssumption DEF TypeOK, Indices
  <1>2. CASE \E d \in last .. (IndexRange - 1) : d \notin table
    BY <1>1, <1>2, ZeroBit DEF alloc_index, Indices
  <1>3. CASE ~ \E d \in last .. (IndexRange - 1) : d \notin table
    <2>1. find_next_zero_bit(last) = IndexRange
      BY <1>3 DEF find_next_zero_bit
    <2>2. find_next_zero_bit(0) \in 0 .. (IndexRange - 1) /\ find_next_zero_bit(0) \notin table
      BY ZeroBit DEF Indices
    <2> QED
      BY <1>1, <2>1, <2>2 DEF alloc_index, Indices
  <1> QED
    BY <1>2, <1>3

\* An object without an index leaves a bit clear: there are at most MaxElem
\* objects, and at least as many bits.
LEMMA IndexLeft ==
  ASSUME PoolInv, NEW c \in Contexts, pc[c] = "add_index"
  PROVE  alloc_index \in Indices /\ alloc_index \notin table
  <1>1. /\ IsFiniteSet(live) /\ Cardinality(live) \in Nat
        /\ Cardinality(live) <= MaxElem
    <2>1. IsFiniteSet(At({"zalloc"}))
      BY FS_Subset, PoolAssumption DEF At
    <2> QED
      BY <2>1, LiveFinite, FS_CardinalityType, PoolAssumption
      DEF PoolInv, TypeOK, Counters, LimitKept, NumAt
  <1>2. el[c] \in live /\ tree \subseteq live \ {el[c]}
    BY DEF PoolInv, TypeOK, Hands, HandsLive, TreeIsLinked, OneExclusive, InHand, Exclusive
  <1>3. /\ IsFiniteSet(live \ {el[c]})
        /\ Cardinality(live \ {el[c]}) = Cardinality(live) - 1
    BY <1>1, <1>2, FS_RemoveElement
  <1>4. IsFiniteSet(tree) /\ Cardinality(tree) <= Cardinality(live) - 1
    BY <1>2, <1>3, FS_Subset
  <1> DEFINE f == [e \in tree |-> index[e]]
  <1>5. f \in Surjection(tree, table)
    BY DEF PoolInv, Reachable, Surjection
  <1>6. IsFiniteSet(table) /\ Cardinality(table) <= Cardinality(tree)
    BY <1>4, <1>5, FS_Surjection
  <1>7. Cardinality(Indices) = IndexRange
    BY FS_Interval, PoolAssumption DEF Indices
  <1>8. Cardinality(tree) \in Nat /\ Cardinality(table) \in Nat
    BY <1>4, <1>6, FS_CardinalityType
  <1>9. table # Indices
    BY <1>1, <1>4, <1>6, <1>7, <1>8, PoolAssumption
  <1>10. \E b \in Indices : b \notin table
    BY <1>9 DEF PoolInv, TypeOK
  <1> QED
    BY <1>10, AllocIndexClear DEF PoolInv

-----------------------------------------------------------------------------
(* Holders and references *)

LEMMA HoldersFinite ==
  ASSUME NEW e
  PROVE  IsFiniteSet(Holders(e)) /\ Cardinality(Holders(e)) \in Nat
  BY FS_Subset, FS_CardinalityType, PoolAssumption DEF Holders

\* The count is zero only when nobody holds the object, and falls to zero with
\* its only holder.
LEMMA RefsTellHolders ==
  ASSUME PoolInv, NEW e \in live
  PROVE  /\ ref[e] = 0 => Holders(e) = {} /\ e \notin owned /\ leaked[e] = 0
         /\ \A c \in Holders(e) : ref[e] = 1 => Holders(e) = {c} /\ e \notin owned
  <1>1. /\ IsFiniteSet(Holders(e)) /\ Cardinality(Holders(e)) \in Nat
        /\ ref[e] = Cardinality(Holders(e)) + (IF e \in owned THEN 1 ELSE 0) + leaked[e]
        /\ leaked[e] \in Nat
    BY HoldersFinite DEF PoolInv, RefsExact, TypeOK
  <1>2. ref[e] = 0 => Holders(e) = {} /\ e \notin owned /\ leaked[e] = 0
    BY <1>1, FS_EmptySet
  <1>3. ASSUME NEW c \in Holders(e), ref[e] = 1
        PROVE  Holders(e) = {c} /\ e \notin owned
    <2>1. Cardinality(Holders(e)) # 0
      BY <1>1, <1>3, FS_EmptySet
    <2>2. Cardinality(Holders(e)) = 1 /\ e \notin owned
      BY <1>1, <1>3, <2>1
    <2>3. \E x : Holders(e) = {x}
      BY <1>1, <2>2, FS_Singleton
    <2> QED
      BY <1>3, <2>2, <2>3
  <1> QED
    BY <1>2, <1>3

\* What is linked is alive.
LEMMA TreeAlive ==
  ASSUME PoolInv
  PROVE  FoundIsAlive
  <1> SUFFICES ASSUME NEW e \in tree PROVE e \in live /\ ref[e] > 0
    BY DEF FoundIsAlive
  <1>1. e \in live
    BY DEF PoolInv, TypeOK, Hands, HandsLive, TreeIsLinked, InHand
  <1>2. ref[e] \in Nat
    BY DEF PoolInv, TypeOK
  <1>3. e \in owned \/ Holders(e) # {}
    BY DEF PoolInv, TypeOK, Hands, TreeIsLinked, Holders
  <1> QED
    BY <1>1, <1>2, <1>3, RefsTellHolders

-----------------------------------------------------------------------------
(* The steps *)

\* A context without an object goes on: no object is touched.
LEMMA HandsQuiet ==
  ASSUME PoolInv, NEW c \in Contexts, NEW s, Goto(c, s),
         pc[c] \notin InHand, s \notin InHand,
         UNCHANGED <<live, ref, owned, leaked, tree, el>>
  PROVE  Hands' /\ RefsExact'
  <1> USE DEF PoolInv, TypeOK, Hands, Goto, InHand, Exclusive
  <1>1. \A d \in Contexts : pc'[d] \in InHand \/ pc[d] \in InHand => pc'[d] = pc[d]
    OBVIOUS
  <1>2. HandsMatchStep' /\ HandsLive'
    BY <1>1 DEF HandsMatchStep, HandsLive
  <1>3. OneExclusive' /\ FreshUnknown' /\ ReleasedAtZero'
    BY <1>1 DEF OneExclusive, FreshUnknown, ReleasedAtZero
  <1>4. TreeIsLinked'
    BY <1>1 DEF TreeIsLinked
  <1>5. \A e \in live : Holders(e)' = Holders(e)
    BY <1>1, PoolAssumption DEF Holders, HandsMatchStep
  <1> QED
    BY <1>2, <1>3, <1>4, <1>5 DEF RefsExact

\* Every step keeps the rules of who holds what.
LEMMA HandsStep ==
  ASSUME PoolInv, Next
  PROVE  Hands'
  <1> USE PoolAssumption DEF PoolInv, TypeOK, Hands, Goto, Hold, InHand, Exclusive
  <1>1. PICK c \in Contexts :
          AllocRef(c) \/ Destroy(c) \/ Lookup(c) \/ Remove(c) \/ GoOn(c)
    BY DEF Next
  <1>2. CASE AllocRef(c) \/ AllocDev(c) \/ AllocCount(c) \/ ZallocFails(c) \/ Remove(c)
             \/ Dec(c) \/ PutDev(c) \/ PutPool(c) \/ PoolCleanup(c) \/ Dealloc(c)
    <2>1. /\ pc[c] \notin InHand
          /\ \E s : s \notin InHand /\ Goto(c, s)
          /\ UNCHANGED <<live, ref, owned, leaked, tree, el>>
      BY <1>2 DEF AllocRef, AllocDev, AllocCount, ZallocFails, Remove, Dec, PutDev, PutPool,
                  PoolCleanup, Dealloc, tvars, rvars
    <2> QED
      BY <2>1, HandsQuiet
  <1>3. CASE Zalloc(c)
    <2>1. PICK e \in Elems \ live :
            /\ live' = live \cup {e} /\ ref' = [ref EXCEPT ![e] = 1]
            /\ el' = [el EXCEPT ![c] = e] /\ pc' = [pc EXCEPT ![c] = "add_index"]
            /\ UNCHANGED <<owned, tree>>
      BY <1>3 DEF Zalloc, tvars
    <2>2. pc[c] = "zalloc" /\ \A d \in Contexts : el[d] # e
      BY <1>3, <2>1 DEF Zalloc, HandsMatchStep, HandsLive
    <2>3. HandsMatchStep' /\ HandsLive' /\ (owned \subseteq live)'
      BY <2>1, <2>2 DEF HandsMatchStep, HandsLive
    <2>4. OneExclusive' /\ FreshUnknown'
      BY <2>1, <2>2 DEF OneExclusive, FreshUnknown
    <2>5. ReleasedAtZero'
      BY <2>1, <2>2 DEF ReleasedAtZero, HandsMatchStep, HandsLive
    <2>6. TreeIsLinked'
      BY <2>1, <2>2 DEF TreeIsLinked
    <2> QED
      BY <2>3, <2>4, <2>5, <2>6
  <1>4. CASE AddIndex(c)
    <2>1. alloc_index \notin table
      BY <1>4, IndexLeft DEF AddIndex
    <2>2. /\ tree' = tree \cup {el[c]}
          /\ pc[c] = "add_index" /\ pc' = [pc EXCEPT ![c] = "init"]
          /\ UNCHANGED <<live, ref, owned, el>>
      BY <1>4, <2>1 DEF AddIndex, Reachable
    <2>3. HandsMatchStep' /\ HandsLive'
      BY <2>2 DEF HandsMatchStep, HandsLive
    <2>4. OneExclusive' /\ FreshUnknown' /\ ReleasedAtZero'
      BY <2>2 DEF OneExclusive, FreshUnknown, ReleasedAtZero
    <2>5. TreeIsLinked'
      BY <2>2 DEF TreeIsLinked, HandsLive
    <2> QED
      BY <2>2, <2>3, <2>4, <2>5
  <1>5. CASE Created(c)
    <2>1. /\ owned' = owned \cup {el[c]} /\ el' = [el EXCEPT ![c] = None]
          /\ pc[c] = "init" /\ pc' = [pc EXCEPT ![c] = "idle"]
          /\ UNCHANGED <<live, ref, tree>>
      BY <1>5 DEF Created, tvars
    <2>2. HandsMatchStep' /\ HandsLive' /\ (owned \subseteq live)'
      BY <2>1 DEF HandsMatchStep, HandsLive
    <2>3. OneExclusive' /\ FreshUnknown' /\ ReleasedAtZero'
      BY <2>1 DEF OneExclusive, FreshUnknown, ReleasedAtZero, HandsMatchStep
    <2>4. TreeIsLinked'
      BY <2>1 DEF TreeIsLinked, HandsLive
    <2> QED
      BY <2>2, <2>3, <2>4
  <1>6. CASE CreateFails(c)
    <2>1. /\ pc[c] = "init" /\ pc' = [pc EXCEPT ![c] = "drop_index"]
          /\ UNCHANGED <<live, ref, owned, el, tree>>
      BY <1>6 DEF CreateFails, tvars
    <2> QED
      BY <2>1 DEF HandsMatchStep, HandsLive, OneExclusive, FreshUnknown, ReleasedAtZero,
                  TreeIsLinked
  <1>7. CASE Destroy(c)
    <2>1. PICK e \in owned :
            /\ owned' = owned \ {e} /\ el' = [el EXCEPT ![c] = e]
            /\ pc[c] = "idle" /\ pc' = [pc EXCEPT ![c] = "drop_index"]
            /\ UNCHANGED <<live, ref, tree>>
      BY <1>7 DEF Destroy, tvars
    <2>2. HandsMatchStep' /\ HandsLive' /\ (owned \subseteq live)'
      BY <2>1 DEF HandsMatchStep, HandsLive
    <2>3. OneExclusive' /\ FreshUnknown' /\ ReleasedAtZero'
      BY <2>1 DEF OneExclusive, FreshUnknown, ReleasedAtZero
    <2>4. TreeIsLinked'
      BY <2>1 DEF TreeIsLinked
    <2> QED
      BY <2>2, <2>3, <2>4
  <1>8. CASE DropIndex(c)
    <2>1. /\ tree' = tree \ {el[c]}
          /\ pc[c] = "drop_index" /\ pc' = [pc EXCEPT ![c] = "drop"]
          /\ UNCHANGED <<live, ref, owned, el>>
      BY <1>8 DEF DropIndex
    <2>2. HandsMatchStep' /\ HandsLive'
      BY <2>1 DEF HandsMatchStep, HandsLive
    <2>3. OneExclusive' /\ FreshUnknown' /\ ReleasedAtZero'
      BY <2>1 DEF OneExclusive, FreshUnknown, ReleasedAtZero
    <2>4. TreeIsLinked'
      BY <2>1 DEF TreeIsLinked, OneExclusive
    <2> QED
      BY <2>1, <2>2, <2>3, <2>4
  <1>9. CASE Lookup(c)
    <2>1. PICK e \in tree :
            /\ ref' = [ref EXCEPT ![e] = @ + 1] /\ el' = [el EXCEPT ![c] = e]
            /\ pc[c] = "idle" /\ pc' = [pc EXCEPT ![c] = "use"]
            /\ UNCHANGED <<live, owned, tree>>
      BY <1>9 DEF Lookup, tvars
    <2>2. e \in live /\ ref[e] > 0
      BY TreeAlive DEF FoundIsAlive
    <2>3. HandsMatchStep' /\ HandsLive'
      BY <2>1, <2>2 DEF HandsMatchStep, HandsLive
    <2>4. OneExclusive'
      BY <2>1 DEF OneExclusive
    <2>5. FreshUnknown'
      BY <2>1 DEF FreshUnknown, TreeIsLinked, OneExclusive
    <2>6. ReleasedAtZero'
      BY <2>1, <2>2 DEF ReleasedAtZero
    <2>7. TreeIsLinked'
      BY <2>1 DEF TreeIsLinked
    <2> QED
      BY <2>1, <2>3, <2>4, <2>5, <2>6, <2>7
  <1>10. CASE DropRef(c)
    <2>1. /\ pc[c] \in {"use", "drop"} /\ ref' = [ref EXCEPT ![el[c]] = @ - 1]
          /\ UNCHANGED <<live, owned, tree>>
      BY <1>10 DEF DropRef, tvars
    <2>2. el[c] \in live /\ c \in Holders(el[c]) /\ el[c] \in Elems
      BY <2>1 DEF HandsLive, Holders
    <2>3. CASE ref[el[c]] = 1
      <3>1. pc' = [pc EXCEPT ![c] = "free"] /\ el' = el
        BY <1>10, <2>3 DEF DropRef
      <3>2. Holders(el[c]) = {c} /\ el[c] \notin owned
        BY <2>2, <2>3, RefsTellHolders
      <3>3. \A d \in Contexts : el[d] = el[c] => d = c
        BY <2>2, <2>3, <3>2 DEF Holders, ReleasedAtZero
      <3>4. HandsMatchStep' /\ HandsLive'
        BY <2>1, <3>1 DEF HandsMatchStep, HandsLive
      <3>5. OneExclusive' /\ FreshUnknown'
        BY <2>1, <3>1, <3>2, <3>3 DEF OneExclusive, FreshUnknown
      <3>6. ReleasedAtZero'
        BY <2>1, <2>2, <2>3, <3>1, <3>3 DEF ReleasedAtZero
      <3>7. TreeIsLinked'
        BY <2>1, <3>1 DEF TreeIsLinked
      <3> QED
        BY <2>1, <3>4, <3>5, <3>6, <3>7
    <2>4. CASE ref[el[c]] # 1
      <3>1. pc' = [pc EXCEPT ![c] = "idle"] /\ el' = [el EXCEPT ![c] = None]
        BY <1>10, <2>4 DEF DropRef
      <3>2. ref[el[c]] # 0
        BY <2>2, RefsTellHolders
      <3>3. HandsMatchStep' /\ HandsLive'
        BY <2>1, <3>1 DEF HandsMatchStep, HandsLive
      <3>4. OneExclusive' /\ FreshUnknown'
        BY <2>1, <3>1 DEF OneExclusive, FreshUnknown, HandsMatchStep
      <3>5. ReleasedAtZero'
        BY <2>1, <2>2, <3>1, <3>2 DEF ReleasedAtZero
      <3>6. TreeIsLinked'
        BY <2>1, <3>1 DEF TreeIsLinked
      <3> QED
        BY <2>1, <3>3, <3>4, <3>5, <3>6
    <2> QED
      BY <2>3, <2>4
  <1>11. CASE Free(c)
    <2>1. /\ live' = live \ {el[c]} /\ el' = [el EXCEPT ![c] = None]
          /\ pc[c] = "free" /\ pc' = [pc EXCEPT ![c] = "dec"]
          /\ UNCHANGED <<ref, owned, tree>>
      BY <1>11 DEF Free, tvars
    <2>2. el[c] \in live /\ ref[el[c]] = 0
      BY <2>1 DEF HandsLive, ReleasedAtZero
    <2>3. Holders(el[c]) = {} /\ el[c] \notin owned
      BY <2>2, RefsTellHolders
    <2>4. \A d \in Contexts : el[d] = el[c] => d = c
      BY <2>1, <2>3 DEF Holders, OneExclusive
    <2>5. HandsMatchStep' /\ HandsLive' /\ (owned \subseteq live)'
      BY <2>1, <2>3, <2>4 DEF HandsMatchStep, HandsLive
    <2>6. OneExclusive' /\ FreshUnknown' /\ ReleasedAtZero'
      BY <2>1 DEF OneExclusive, FreshUnknown, ReleasedAtZero, HandsMatchStep
    <2>7. TreeIsLinked'
      BY <2>1 DEF TreeIsLinked
    <2> QED
      BY <2>5, <2>6, <2>7
  <1>12. CASE Leak(c)
    <2>1. /\ pc[c] = "use" /\ UNCHANGED <<live, ref, owned, tree>>
          /\ pc' = [pc EXCEPT ![c] = "idle"] /\ el' = [el EXCEPT ![c] = None]
      BY <1>12 DEF Leak, tvars
    <2>2. HandsMatchStep' /\ HandsLive'
      BY <2>1 DEF HandsMatchStep, HandsLive
    <2>3. OneExclusive' /\ FreshUnknown' /\ ReleasedAtZero'
      BY <2>1 DEF OneExclusive, FreshUnknown, ReleasedAtZero, HandsMatchStep
    <2>4. TreeIsLinked'
      BY <2>1 DEF TreeIsLinked
    <2> QED
      BY <2>1, <2>2, <2>3, <2>4
  <1> QED
    BY <1>1, <1>2, <1>3, <1>4, <1>5, <1>6, <1>7, <1>8, <1>9, <1>10, <1>11, <1>12 DEF GoOn

\* The consumer's reference, and those that are lost.
Own(e) == (IF e \in owned THEN 1 ELSE 0) + leaked[e]

\* Only object e is touched.
OnlyTouches(e) ==
  /\ UNCHANGED live
  /\ \A f \in live : f # e => /\ Holders(f)' = Holders(f) /\ ref'[f] = ref[f]
                              /\ (f \in owned') <=> (f \in owned)
                              /\ leaked'[f] = leaked[f]

\* A holder more, or one less: the count follows.
LEMMA HolderJoins ==
  ASSUME PoolInv, NEW e \in live, NEW c, OnlyTouches(e),
         c \notin Holders(e), Holders(e)' = Holders(e) \cup {c},
         ref'[e] - Own(e)' = ref[e] + 1 - Own(e), ref'[e] \in Nat, Own(e)' \in Nat,
         leaked'[e] \in Nat
  PROVE  RefsExact'
  <1>1. Cardinality(Holders(e)') = Cardinality(Holders(e)) + 1
    BY HoldersFinite, FS_AddElement
  <1>2. /\ ref[e] = Cardinality(Holders(e)) + Own(e)
        /\ ref[e] \in Nat /\ Cardinality(Holders(e)) \in Nat /\ Own(e) \in Nat
    BY HoldersFinite DEF PoolInv, TypeOK, RefsExact, Own
  <1>3. ref'[e] = Cardinality(Holders(e)') + Own(e)'
    BY <1>1, <1>2
  <1>4. ref'[e] = Cardinality(Holders(e)') + (IF e \in owned' THEN 1 ELSE 0) + leaked'[e]
    <2>1. Cardinality(Holders(e)') \in Int
      BY <1>1, <1>2
    <2> QED
      BY <1>3, <2>1 DEF Own
  <1>5. ASSUME NEW f \in live, f # e
        PROVE  ref'[f] = Cardinality(Holders(f)') + (IF f \in owned' THEN 1 ELSE 0) + leaked'[f]
    BY <1>5 DEF PoolInv, RefsExact, OnlyTouches
  <1> QED
    BY <1>4, <1>5 DEF RefsExact, OnlyTouches

LEMMA HolderLeaves ==
  ASSUME PoolInv, NEW e \in live, NEW c, OnlyTouches(e),
         c \in Holders(e), Holders(e)' = Holders(e) \ {c},
         ref'[e] - Own(e)' = ref[e] - 1 - Own(e), ref'[e] \in Int, Own(e)' \in Nat,
         leaked'[e] \in Nat
  PROVE  RefsExact'
  <1>1. Cardinality(Holders(e)') = Cardinality(Holders(e)) - 1
    BY HoldersFinite, FS_RemoveElement
  <1>2. /\ ref[e] = Cardinality(Holders(e)) + Own(e)
        /\ ref[e] \in Nat /\ Cardinality(Holders(e)) \in Nat /\ Own(e) \in Nat
    BY HoldersFinite DEF PoolInv, TypeOK, RefsExact, Own
  <1>3. ref'[e] = Cardinality(Holders(e)') + Own(e)'
    BY <1>1, <1>2
  <1>4. ref'[e] = Cardinality(Holders(e)') + (IF e \in owned' THEN 1 ELSE 0) + leaked'[e]
    <2>1. Cardinality(Holders(e)') \in Int
      BY <1>1, <1>2
    <2> QED
      BY <1>3, <2>1 DEF Own
  <1>5. ASSUME NEW f \in live, f # e
        PROVE  ref'[f] = Cardinality(Holders(f)') + (IF f \in owned' THEN 1 ELSE 0) + leaked'[f]
    BY <1>5 DEF PoolInv, RefsExact, OnlyTouches
  <1> QED
    BY <1>4, <1>5 DEF RefsExact, OnlyTouches

\* Every step changes a count with the number of holders.
LEMMA RefsStep ==
  ASSUME PoolInv, Next
  PROVE  RefsExact'
  <1> USE PoolAssumption DEF PoolInv, TypeOK, Hands, Goto, Hold, InHand
  <1>1. PICK c \in Contexts :
          AllocRef(c) \/ Destroy(c) \/ Lookup(c) \/ Remove(c) \/ GoOn(c)
    BY DEF Next
  <1>2. CASE AllocRef(c) \/ AllocDev(c) \/ AllocCount(c) \/ ZallocFails(c) \/ Remove(c)
             \/ Dec(c) \/ PutDev(c) \/ PutPool(c) \/ PoolCleanup(c) \/ Dealloc(c)
    <2>1. /\ pc[c] \notin InHand
          /\ \E s : s \notin InHand /\ Goto(c, s)
          /\ UNCHANGED <<live, ref, owned, leaked, tree, el>>
      BY <1>2 DEF AllocRef, AllocDev, AllocCount, ZallocFails, Remove, Dec, PutDev, PutPool,
                  PoolCleanup, Dealloc, tvars, rvars
    <2> QED
      BY <2>1, HandsQuiet
  <1>3. CASE Zalloc(c)
    <2>1. PICK e \in Elems \ live :
            /\ live' = live \cup {e} /\ ref' = [ref EXCEPT ![e] = 1]
            /\ el' = [el EXCEPT ![c] = e] /\ pc' = [pc EXCEPT ![c] = "add_index"]
            /\ UNCHANGED <<owned, leaked>>
      BY <1>3 DEF Zalloc, tvars
    <2>2. pc[c] = "zalloc" /\ \A d \in Contexts : el[d] # e
      BY <1>3, <2>1 DEF Zalloc, HandsMatchStep, HandsLive
    <2>3. Holders(e)' = {c} /\ \A f \in live : Holders(f)' = Holders(f)
      BY <2>1, <2>2 DEF Holders, HandsMatchStep
    <2>4. Cardinality(Holders(e)') = 1
      BY <2>3, FS_Singleton
    <2>5. e \notin owned' /\ leaked'[e] = 0 /\ ref'[e] = 1 /\ \A f \in live : ref'[f] = ref[f]
      BY <2>1 DEF LeaksLive
    <2>6. \A f \in live : (f \in owned' <=> f \in owned) /\ leaked'[f] = leaked[f]
      BY <2>1
    <2>7. \A f \in live : ref[f] = Cardinality(Holders(f)) + (IF f \in owned THEN 1 ELSE 0) + leaked[f]
      BY DEF RefsExact
    <2>8. \A f \in live : ref'[f] = Cardinality(Holders(f)') + (IF f \in owned' THEN 1 ELSE 0) + leaked'[f]
      BY <2>3, <2>5, <2>6, <2>7
    <2>9. ref'[e] = Cardinality(Holders(e)') + (IF e \in owned' THEN 1 ELSE 0) + leaked'[e]
      BY <2>4, <2>5
    <2> QED
      BY <2>1, <2>8, <2>9 DEF RefsExact
  <1>4. CASE AddIndex(c) \/ CreateFails(c) \/ DropIndex(c)
    <2>1. /\ pc[c] \in {"add_index", "init", "drop_index"}
          /\ \E s \in {"init", "drop_index", "drop"} : pc' = [pc EXCEPT ![c] = s]
          /\ UNCHANGED <<live, ref, owned, leaked, el>>
      BY <1>4 DEF AddIndex, CreateFails, DropIndex
    <2>2. \A f \in live : Holders(f)' = Holders(f)
      BY <2>1 DEF Holders
    <2> QED
      BY <2>1, <2>2 DEF RefsExact
  <1>5. CASE Created(c)
    <2>1. PICK e \in live :
            /\ e = el[c] /\ owned' = owned \cup {e} /\ el' = [el EXCEPT ![c] = None]
            /\ pc[c] = "init" /\ pc' = [pc EXCEPT ![c] = "idle"]
            /\ UNCHANGED <<live, ref, leaked>>
      BY <1>5 DEF Created, HandsLive
    <2>2. /\ Holders(e)' = Holders(e) \ {c}
          /\ \A f \in live : f # e => Holders(f)' = Holders(f)
      BY <2>1 DEF Holders
    <2>3. e \in live /\ e \notin owned /\ c \in Holders(e)
      BY <2>1 DEF HandsLive, OneExclusive, Exclusive, Holders
    <2>4. OnlyTouches(e)
      BY <2>1, <2>2, <2>3 DEF OnlyTouches
    <2>5. /\ ref'[e] - Own(e)' = ref[e] - 1 - Own(e) /\ ref'[e] \in Int /\ Own(e)' \in Nat
          /\ leaked'[e] \in Nat
      BY <2>1, <2>2, <2>3 DEF Own
    <2> QED
      BY <2>1, <2>2, <2>3, <2>4, <2>5, HolderLeaves
  <1>6. CASE Destroy(c)
    <2>1. PICK e \in owned :
            /\ owned' = owned \ {e} /\ el' = [el EXCEPT ![c] = e]
            /\ pc[c] = "idle" /\ pc' = [pc EXCEPT ![c] = "drop_index"]
            /\ UNCHANGED <<live, ref, leaked>>
      BY <1>6 DEF Destroy
    <2>2. el[c] = None /\ c \notin Holders(e)
      BY <2>1 DEF HandsMatchStep, Holders
    <2>3. /\ Holders(e)' = Holders(e) \cup {c}
          /\ \A f \in live : f # e => Holders(f)' = Holders(f)
      BY <2>1, <2>2 DEF Holders
    <2>4. OnlyTouches(e)
      BY <2>1, <2>2, <2>3 DEF OnlyTouches
    <2>5. /\ ref'[e] - Own(e)' = ref[e] + 1 - Own(e) /\ ref'[e] \in Nat /\ Own(e)' \in Nat
          /\ leaked'[e] \in Nat
      BY <2>1, <2>2, <2>3 DEF Own
    <2> QED
      BY <2>1, <2>2, <2>3, <2>4, <2>5, HolderJoins
  <1>7. CASE Lookup(c)
    <2>1. PICK e \in tree :
            /\ ref' = [ref EXCEPT ![e] = @ + 1] /\ el' = [el EXCEPT ![c] = e]
            /\ pc[c] = "idle" /\ pc' = [pc EXCEPT ![c] = "use"]
            /\ UNCHANGED <<live, owned, leaked>>
      BY <1>7 DEF Lookup
    <2>2. e \in live /\ el[c] = None /\ c \notin Holders(e)
      BY <2>1, TreeAlive DEF HandsMatchStep, Holders, FoundIsAlive
    <2>3. /\ Holders(e)' = Holders(e) \cup {c}
          /\ \A f \in live : f # e => Holders(f)' = Holders(f)
      BY <2>1, <2>2 DEF Holders
    <2>4. OnlyTouches(e)
      BY <2>1, <2>2, <2>3 DEF OnlyTouches
    <2>5. /\ ref'[e] - Own(e)' = ref[e] + 1 - Own(e) /\ ref'[e] \in Nat /\ Own(e)' \in Nat
          /\ leaked'[e] \in Nat
      BY <2>1, <2>2, <2>3 DEF Own
    <2> QED
      BY <2>1, <2>2, <2>3, <2>4, <2>5, HolderJoins
  <1>8. CASE DropRef(c)
    <2>1. PICK e \in live :
            /\ e = el[c] /\ pc[c] \in {"use", "drop"} /\ ref' = [ref EXCEPT ![e] = @ - 1]
            /\ UNCHANGED <<live, owned, leaked>>
            /\ \/ pc' = [pc EXCEPT ![c] = "free"] /\ el' = el
               \/ pc' = [pc EXCEPT ![c] = "idle"] /\ el' = [el EXCEPT ![c] = None]
      BY <1>8 DEF DropRef, HandsLive
    <2>2. e \in live /\ c \in Holders(e)
      BY <2>1 DEF HandsLive, Holders
    <2>3. /\ Holders(e)' = Holders(e) \ {c}
          /\ \A f \in live : f # e => Holders(f)' = Holders(f)
      BY <2>1, <2>2 DEF Holders
    <2>4. OnlyTouches(e)
      BY <2>1, <2>2, <2>3 DEF OnlyTouches
    <2>5. /\ ref'[e] - Own(e)' = ref[e] - 1 - Own(e) /\ ref'[e] \in Int /\ Own(e)' \in Nat
          /\ leaked'[e] \in Nat
      BY <2>1, <2>2, <2>3 DEF Own
    <2> QED
      BY <2>1, <2>2, <2>3, <2>4, <2>5, HolderLeaves
  <1>9. CASE Free(c)
    <2>1. /\ live' = live \ {el[c]} /\ el' = [el EXCEPT ![c] = None]
          /\ pc[c] = "free" /\ pc' = [pc EXCEPT ![c] = "dec"]
          /\ UNCHANGED <<ref, owned, leaked>>
      BY <1>9 DEF Free
    <2>2. \A f \in live' : Holders(f)' = Holders(f)
      BY <2>1 DEF Holders
    <2> QED
      BY <2>1, <2>2 DEF RefsExact
  <1>10. CASE Leak(c)
    <2>1. PICK e \in live :
            /\ e = el[c] /\ pc[c] = "use" /\ leaked' = [leaked EXCEPT ![e] = @ + 1]
            /\ UNCHANGED <<live, ref, owned>>
            /\ pc' = [pc EXCEPT ![c] = "idle"] /\ el' = [el EXCEPT ![c] = None]
      BY <1>10 DEF Leak, HandsLive
    <2>2. e \in live /\ c \in Holders(e)
      BY <2>1 DEF HandsLive, Holders
    <2>3. /\ Holders(e)' = Holders(e) \ {c}
          /\ \A f \in live : f # e => Holders(f)' = Holders(f)
      BY <2>1, <2>2 DEF Holders
    <2>4. OnlyTouches(e)
      BY <2>1, <2>2, <2>3 DEF OnlyTouches
    <2>5. /\ ref'[e] - Own(e)' = ref[e] - 1 - Own(e) /\ ref'[e] \in Int /\ Own(e)' \in Nat
          /\ leaked'[e] \in Nat
      BY <2>1, <2>2 DEF Own
    <2> QED
      BY <2>1, <2>2, <2>3, <2>4, <2>5, HolderLeaves
  <1> QED
    BY <1>1, <1>2, <1>3, <1>4, <1>5, <1>6, <1>7, <1>8, <1>9, <1>10 DEF GoOn

\* What is leaked stays.
LEMMA LeakStep ==
  ASSUME PoolInv, Next
  PROVE  LeaksLive'
  <1> USE DEF PoolInv, TypeOK, LeaksLive
  <1>1. PICK c \in Contexts :
          AllocRef(c) \/ Destroy(c) \/ Lookup(c) \/ Remove(c) \/ GoOn(c)
    BY DEF Next
  <1>2. CASE Leak(c)
    <2>1. el[c] \in live
      BY <1>2 DEF Leak, Hands, HandsLive, InHand
    <2> QED
      BY <1>2, <2>1 DEF Leak
  <1>3. CASE Free(c)
    <2>1. el[c] \in live /\ ref[el[c]] = 0
      BY <1>3 DEF Free, Hands, HandsLive, ReleasedAtZero, InHand
    <2>2. leaked[el[c]] = 0
      BY <2>1, RefsTellHolders
    <2> QED
      BY <1>3, <2>2 DEF Free
  <1>4. CASE Zalloc(c)
    BY <1>4 DEF Zalloc
  <1>5. CASE UNCHANGED <<live, leaked>>
    BY <1>5
  <1> QED
    BY <1>1, <1>2, <1>3, <1>4, <1>5
    DEF GoOn, AllocRef, Destroy, Lookup, Remove, AllocDev, AllocCount, ZallocFails, AddIndex,
        Created, CreateFails, DropIndex, DropRef, Dec, PutDev, PutPool, PoolCleanup, Dealloc

\* Bits, tree and indices agree after every step.
LEMMA IndexStep ==
  ASSUME PoolInv, Next, Hands'
  PROVE  Reachable'
  <1> USE DEF PoolInv, TypeOK, Hands, Goto
  <1>1. PICK c \in Contexts :
          AllocRef(c) \/ Destroy(c) \/ Lookup(c) \/ Remove(c) \/ GoOn(c)
    BY DEF Next
  <1>2. (owned \subseteq tree)'
    <2>1. owned' \subseteq Elems
      BY <1>1 DEF GoOn, AllocRef, Destroy, Lookup, Remove, AllocDev, AllocCount, Zalloc,
           ZallocFails, AddIndex, Created, CreateFails, DropIndex, DropRef, Leak, Free, Dec, PutDev, PutPool, PoolCleanup, Dealloc,
           HandsLive, InHand
    <2> QED
      BY <2>1 DEF TreeIsLinked
  <1>3. CASE AddIndex(c)
    <2>1. alloc_index \in Indices /\ alloc_index \notin table
      BY <1>3, IndexLeft DEF AddIndex
    <2>2. el[c] \in Elems /\ el[c] \notin tree
      BY <1>3 DEF AddIndex, HandsLive, TreeIsLinked, OneExclusive, InHand, Exclusive
    <2>3. /\ tree' = tree \cup {el[c]} /\ table' = table \cup {alloc_index}
          /\ index' = [index EXCEPT ![el[c]] = alloc_index]
      BY <1>3, <2>1 DEF AddIndex, Reachable
    <2>4. \A e \in tree : index'[e] = index[e] /\ index[e] \in table
      BY <2>2, <2>3 DEF Reachable
    <2>5. \A e, f \in tree' : index'[e] = index'[f] => e = f
      BY <2>1, <2>2, <2>3, <2>4 DEF Reachable
    <2>6. table' = {index'[e] : e \in tree'}
      BY <2>2, <2>3, <2>4 DEF Reachable
    <2> QED
      BY <1>2, <2>5, <2>6 DEF Reachable
  <1>4. CASE DropIndex(c)
    <2>1. el[c] \in tree
      BY <1>4 DEF DropIndex, TreeIsLinked, HandsLive, InHand
    <2>2. tree' = tree \ {el[c]} /\ table' = table \ {index[el[c]]} /\ index' = index
      BY <1>4 DEF DropIndex
    <2>3. table' = {index'[e] : e \in tree'}
      BY <2>1, <2>2 DEF Reachable
    <2> QED
      BY <1>2, <2>2, <2>3 DEF Reachable
  <1>5. CASE UNCHANGED <<tree, table, index>>
    BY <1>2, <1>5 DEF Reachable
  <1> QED
    BY <1>1, <1>3, <1>4, <1>5
       DEF GoOn, AllocRef, Destroy, Lookup, Remove, AllocDev, AllocCount, Zalloc, ZallocFails,
           Created, CreateFails, DropRef, Leak, Free, Dec, PutDev, PutPool, PoolCleanup, Dealloc, tvars

\* Joins(s, S) is 1 at a step of S.
Joins(s, S) == IF s \in S THEN 1 ELSE 0

\* The numbers that the counters depend on, after a step of one context.
LEMMA CountersMove ==
  ASSUME PoolInv, NEW c \in Contexts, NEW s, Goto(c, s), NEW S
  PROVE  /\ Cardinality(live) \in Nat /\ NumAt(S) \in Nat /\ NumAt(S)' \in Nat
         /\ NumAt(S)' = NumAt(S) + Joins(s, S) - Joins(pc[c], S)
  <1>1. Cardinality(live) \in Nat
    BY LiveFinite DEF PoolInv, TypeOK
  <1> QED
    BY <1>1, AtMove DEF PoolInv, NumAt, Joins

\* A registered device, and one with a release under way, is referenced.
LEMMA DeviceReferenced ==
  ASSUME PoolInv
  PROVE  /\ registered => dev_ref > 0
         /\ \A c \in Contexts : InVerb(c) => registered
         /\ \A c \in Contexts : pc[c] \in DevUsers => dev_ref > 0
         /\ dev_ref > 0 => \A c \in Contexts : pc[c] \notin Releasing
  <1> DEFINE V == At(DevUsers)
  <1>1. /\ IsFiniteSet(V) /\ Cardinality(V) \in Nat /\ Cardinality(live) \in Nat
        /\ registered \in BOOLEAN
    BY LiveFinite, FS_Subset, FS_CardinalityType, PoolAssumption DEF At, PoolInv, TypeOK
  <1>2. \A c \in Contexts : pc[c] \in DevUsers => Cardinality(V) > 0
    BY <1>1, FS_EmptySet DEF At
  <1>3. dev_ref = Cardinality(live) + Cardinality(V) + (IF registered THEN 1 ELSE 0)
    BY DEF PoolInv, Counters, DevExact, NumAt
  <1> HIDE DEF V
  <1> QED
    BY <1>1, <1>2, <1>3 DEF PoolInv, Counters, OneRelease, UnregisteredQuiet, Releasing

\* Once unregistered, nobody enters a verb.
LEMMA QuietStep ==
  ASSUME PoolInv, Next
  PROVE  UnregisteredQuiet'
  <1>1. PICK c \in Contexts :
          AllocRef(c) \/ Destroy(c) \/ Lookup(c) \/ Remove(c) \/ GoOn(c)
    BY DEF Next
  <1>2. UnregisteredQuiet /\ DOMAIN pc = Contexts
    BY DEF PoolInv, Counters, TypeOK
  <1>3. CASE AllocRef(c) \/ Destroy(c) \/ Lookup(c) \/ Remove(c)
    BY <1>2, <1>3 DEF UnregisteredQuiet, AllocRef, Destroy, Lookup, Remove, InVerb, Goto, rvars
  <1>4. CASE AllocDev(c) \/ AllocCount(c) \/ Zalloc(c) \/ ZallocFails(c) \/ AddIndex(c) \/ Created(c)
             \/ CreateFails(c) \/ DropIndex(c)
    BY <1>2, <1>4 DEF UnregisteredQuiet, AllocDev, AllocCount, Zalloc, ZallocFails, AddIndex,
                      Created, CreateFails, DropIndex,
                      InVerb, Goto, rvars
  <1>5. CASE DropRef(c) \/ Leak(c) \/ Free(c) \/ Dec(c) \/ PutDev(c) \/ PutPool(c) \/ PoolCleanup(c)
             \/ Dealloc(c)
    BY <1>2, <1>5 DEF UnregisteredQuiet, DropRef, Leak, Free, Dec, PutDev, PutPool, PoolCleanup,
                      Dealloc, InVerb, Goto, rvars
  <1> QED
    BY <1>1, <1>3, <1>4, <1>5 DEF GoOn

\* rxe_release runs once, after the last reference to the device.
LEMMA ReleaseStep ==
  ASSUME PoolInv, Next
  PROVE  OneRelease'
  <1> USE DEF Goto, Releasing
  <1>1. PICK c \in Contexts :
          AllocRef(c) \/ Destroy(c) \/ Lookup(c) \/ Remove(c) \/ GoOn(c)
    BY DEF Next
  <1>2. OneRelease /\ DOMAIN pc = Contexts /\ dev_ref \in Nat
    BY DEF PoolInv, Counters, TypeOK
  <1>3. CASE PutDev(c) \/ Remove(c)
    <2>1. \A d \in Contexts : pc[d] \notin Releasing
      BY <1>3, DeviceReferenced DEF PutDev, Remove, DevUsers
    <2> QED
      BY <1>2, <1>3, <2>1 DEF OneRelease, PutDev, Remove
  <1>4. CASE AllocDev(c)
    <2>1. \A d \in Contexts : pc[d] \notin Releasing
      BY <1>4, DeviceReferenced DEF AllocDev, InVerb
    <2> QED
      BY <1>2, <1>4, <2>1 DEF OneRelease, AllocDev
  <1>5. CASE AllocRef(c) \/ AllocCount(c) \/ Zalloc(c) \/ ZallocFails(c) \/ Destroy(c) \/ Lookup(c) \/ AddIndex(c) \/ Created(c)
             \/ CreateFails(c) \/ DropIndex(c)
    BY <1>2, <1>5 DEF OneRelease, AllocRef, AllocCount, Zalloc, ZallocFails, Destroy, Lookup, AddIndex, Created, CreateFails,
                      DropIndex, rvars
  <1>6. CASE DropRef(c) \/ Leak(c) \/ Free(c) \/ Dec(c) \/ PutPool(c) \/ PoolCleanup(c) \/ Dealloc(c)
    BY <1>2, <1>6 DEF OneRelease, DropRef, Leak, Free, Dec, PutPool, PoolCleanup, Dealloc, rvars
  <1> QED
    BY <1>1, <1>3, <1>4, <1>5, <1>6 DEF GoOn

\* num_elem and dev_ref follow the objects and the contexts.
LEMMA DevStep ==
  ASSUME PoolInv, Next
  PROVE  /\ ElemsExact' /\ LimitKept' /\ DevExact'
         /\ num_elem' \in Nat /\ dev_ref' \in Nat
  <1> DEFINE Z == NumAt({"zalloc"})
             E == NumAt(ElemUsers)
             D == NumAt(DevUsers)
             Live == Cardinality(live)
  <1>1. PICK c \in Contexts :
          AllocRef(c) \/ Destroy(c) \/ Lookup(c) \/ Remove(c) \/ GoOn(c)
    BY DEF Next
  <1>2. /\ num_elem = Live + E /\ Live + Z <= MaxElem
        /\ dev_ref = Live + D + (IF registered THEN 1 ELSE 0)
        /\ num_elem \in Nat /\ dev_ref \in Nat /\ registered \in BOOLEAN
        /\ MaxElem \in Nat
    BY PoolAssumption DEF PoolInv, TypeOK, Counters, ElemsExact, LimitKept, DevExact
  <1>s. /\ "zalloc" \in ElemUsers /\ "dec" \in ElemUsers /\ "oops" \in ElemUsers
        /\ \A s \in {"ref_dev", "count", "init", "idle", "drop_index", "use", "drop", "free",
                     "dealloc", "rm_dealloc", "put_pool", "add_index", "put_dev", "release",
                     "rm_release"} : s \notin ElemUsers
        /\ \A s \in {"count", "zalloc", "oops", "dec", "put_dev"} : s \in DevUsers
        /\ \A s \in {"ref_dev", "init", "idle", "drop_index", "use", "drop", "free", "dealloc",
                     "rm_dealloc", "put_pool", "add_index", "release", "rm_release"} :
             s \notin DevUsers
    BY DEF ElemUsers, DevUsers
  <1>z. Z <= E
    <2>1. At({"zalloc"}) \subseteq At(ElemUsers) /\ IsFiniteSet(At(ElemUsers))
      BY <1>s, FS_Subset, PoolAssumption DEF At
    <2> QED
      BY <2>1, FS_Subset DEF NumAt
  <1>m. ASSUME NEW s, Goto(c, s)
        PROVE  /\ Live \in Nat /\ Z \in Nat /\ E \in Nat /\ D \in Nat
               /\ Z' \in Nat /\ E' \in Nat /\ D' \in Nat
               /\ Z' = Z + Joins(s, {"zalloc"}) - Joins(pc[c], {"zalloc"})
               /\ E' = E + Joins(s, ElemUsers) - Joins(pc[c], ElemUsers)
               /\ D' = D + Joins(s, DevUsers) - Joins(pc[c], DevUsers)
    BY <1>m, CountersMove
  <1>g. SUFFICES /\ num_elem' = Live' + E' /\ Live' + Z' <= MaxElem
                 /\ dev_ref' = Live' + D' + (IF registered' THEN 1 ELSE 0)
                 /\ num_elem' \in Nat /\ dev_ref' \in Nat
    BY DEF ElemsExact, LimitKept, DevExact
  <1> HIDE DEF Z, E, D
  \* Steps that count nowhere.
  <1>3. CASE AllocRef(c) \/ Destroy(c) \/ Lookup(c) \/ AddIndex(c) \/ Created(c)
             \/ CreateFails(c) \/ DropIndex(c) \/ DropRef(c) \/ Leak(c) \/ PutPool(c)
             \/ PoolCleanup(c) \/ Dealloc(c)
    <2>1. PICK s \in {"ref_dev", "init", "idle", "drop_index", "use", "drop", "free", "dealloc",
                      "rm_dealloc", "put_pool"} :
            /\ Goto(c, s)
            /\ pc[c] \in {"init", "idle", "drop_index", "use", "drop", "dealloc", "rm_dealloc",
                          "put_pool", "add_index", "release", "rm_release"}
      BY <1>3 DEF AllocRef, Destroy, Lookup, AddIndex, Created, CreateFails, DropIndex,
                  DropRef, Leak, PutPool, PoolCleanup, Dealloc
    <2>2. UNCHANGED <<live, num_elem, dev_ref, registered>>
      BY <1>3 DEF AllocRef, Destroy, Lookup, AddIndex, Created, CreateFails, DropIndex,
                  DropRef, Leak, PutPool, PoolCleanup, Dealloc, rvars
    <2>3. Z' = Z /\ E' = E /\ D' = D
      BY <1>m, <1>s, <2>1 DEF Joins
    <2> QED
      BY <1>2, <2>2, <2>3
  <1>4. CASE AllocDev(c)
    <2>1. /\ Goto(c, "count") /\ pc[c] = "ref_dev" /\ UNCHANGED <<live, num_elem, registered>>
          /\ dev_ref' = dev_ref + 1
      BY <1>4 DEF AllocDev
    <2>2. Z' = Z /\ E' = E /\ D' = D + 1 /\ D \in Nat /\ Live \in Nat
      BY <1>m, <1>s, <2>1 DEF Joins
    <2> QED
      BY <1>2, <2>1, <2>2
  <1>5. CASE AllocCount(c) /\ over_limit
    <2>1. /\ Goto(c, "dec") /\ pc[c] = "count" /\ UNCHANGED <<live, dev_ref, registered>>
          /\ num_elem' = num_elem + 1
      BY <1>5 DEF AllocCount
    <2>2. Z' = Z /\ E' = E + 1 /\ D' = D /\ E \in Nat /\ Live \in Nat
      BY <1>m, <1>s, <2>1 DEF Joins
    <2> QED
      BY <1>2, <2>1, <2>2
  <1>6. CASE AllocCount(c) /\ ~over_limit
    <2>1. /\ Goto(c, "zalloc") /\ pc[c] = "count" /\ UNCHANGED <<live, dev_ref, registered>>
          /\ num_elem' = num_elem + 1 /\ num_elem + 1 <= MaxElem
      BY <1>2, <1>6 DEF AllocCount, over_limit
    <2>2. Z' = Z + 1 /\ E' = E + 1 /\ D' = D /\ Z \in Nat /\ E \in Nat /\ Live \in Nat
      BY <1>m, <1>s, <2>1 DEF Joins
    <2> QED
      BY <1>2, <1>z, <2>1, <2>2
  <1>7. CASE Zalloc(c)
    <2>1. /\ Goto(c, "add_index") /\ pc[c] = "zalloc" /\ UNCHANGED <<num_elem, dev_ref, registered>>
          /\ \E e \in Elems \ live : live' = live \cup {e}
      BY <1>7 DEF Zalloc, rvars
    <2>2. Live' = Live + 1
      BY <2>1, LiveFinite, FS_AddElement DEF PoolInv, TypeOK
    <2>3. /\ Z' = Z - 1 /\ E' = E - 1 /\ D' = D - 1
          /\ Z \in Nat /\ E \in Nat /\ D \in Nat /\ Live \in Nat
      BY <1>m, <1>s, <2>1 DEF Joins
    <2> QED
      BY <1>2, <2>1, <2>2, <2>3
  <1>8. CASE ZallocFails(c)
    <2>1. /\ Goto(c, "oops") /\ pc[c] = "zalloc"
          /\ UNCHANGED <<live, num_elem, dev_ref, registered>>
      BY <1>8 DEF ZallocFails, rvars
    <2>2. Z' = Z - 1 /\ E' = E /\ D' = D /\ Z \in Nat /\ Live \in Nat
      BY <1>m, <1>s, <2>1 DEF Joins
    <2> QED
      BY <1>2, <2>1, <2>2
  <1>9. CASE Free(c)
    <2>1. /\ Goto(c, "dec") /\ pc[c] = "free" /\ UNCHANGED <<num_elem, dev_ref, registered>>
          /\ el[c] \in live /\ live' = live \ {el[c]}
      BY <1>9 DEF Free, rvars, PoolInv, Hands, HandsLive, InHand
    <2>2. Live' = Live - 1
      BY <2>1, LiveFinite, FS_RemoveElement DEF PoolInv, TypeOK
    <2>3. /\ Z' = Z /\ E' = E + 1 /\ D' = D + 1
          /\ Z \in Nat /\ E \in Nat /\ D \in Nat /\ Live \in Nat
      BY <1>m, <1>s, <2>1 DEF Joins
    <2> QED
      BY <1>2, <2>1, <2>2, <2>3
  <1>10. CASE Dec(c)
    <2>1. /\ Goto(c, "put_dev") /\ pc[c] = "dec" /\ UNCHANGED <<live, dev_ref, registered>>
          /\ num_elem' = num_elem - 1
      BY <1>10 DEF Dec
    <2>2. Z' = Z /\ E' = E - 1 /\ D' = D /\ E \in Nat /\ E' \in Nat /\ Live \in Nat
      BY <1>m, <1>s, <2>1 DEF Joins
    <2> QED
      BY <1>2, <2>1, <2>2
  <1>11. CASE PutDev(c)
    <2>1. PICK s \in {"release", "put_pool"} :
            /\ Goto(c, s) /\ pc[c] = "put_dev"
            /\ UNCHANGED <<live, num_elem, registered>> /\ dev_ref' = dev_ref - 1
      BY <1>11 DEF PutDev
    <2>2. Z' = Z /\ E' = E /\ D' = D - 1 /\ D \in Nat /\ D' \in Nat /\ Live \in Nat
      BY <1>m, <1>s, <2>1 DEF Joins
    <2> QED
      BY <1>2, <2>1, <2>2
  <1>12. CASE Remove(c)
    <2>1. PICK s \in {"rm_release", "idle"} :
            /\ Goto(c, s) /\ pc[c] = "idle"
            /\ UNCHANGED <<live, num_elem>> /\ dev_ref' = dev_ref - 1
            /\ registered /\ ~registered'
      BY <1>12 DEF Remove
    <2>2. Z' = Z /\ E' = E /\ D' = D /\ D \in Nat /\ Live \in Nat
      BY <1>m, <1>s, <2>1 DEF Joins
    <2> QED
      BY <1>2, <2>1, <2>2
  <1> QED
    BY <1>1, <1>3, <1>4, <1>5, <1>6, <1>7, <1>8, <1>9, <1>10, <1>11, <1>12 DEF GoOn

\* pool_ref follows them too, and the device's own reference.
LEMMA PoolRefStep ==
  ASSUME PoolInv, Next
  PROVE  PoolExact' /\ pool_ref' \in Nat
  <1> DEFINE P == NumAt(PoolUsers)
             Base == IF dev_ref # 0 \/ (\E d \in Contexts : pc[d] \in Releasing)
                     THEN 1 ELSE 0
  <1>1. PICK c \in Contexts :
          AllocRef(c) \/ Destroy(c) \/ Lookup(c) \/ Remove(c) \/ GoOn(c)
    BY DEF Next
  <1>2. /\ pool_ref = Cardinality(live) + P + Base /\ Base \in {0, 1}
        /\ pool_ref \in Nat /\ dev_ref \in Nat /\ DOMAIN pc = Contexts
    BY DEF PoolInv, TypeOK, Counters, PoolExact
  <1>3. SUFFICES pool_ref' = Cardinality(live)' + P' + Base' /\ pool_ref' \in Nat
    BY DEF PoolExact
  \* Steps that count nowhere.
  <1>4. CASE Destroy(c) \/ Lookup(c) \/ AddIndex(c) \/ Created(c) \/ CreateFails(c)
             \/ DropIndex(c) \/ DropRef(c) \/ Leak(c) \/ Dealloc(c) \/ Dec(c)
             \/ AllocCount(c) \/ ZallocFails(c)
    <2>1. PICK s \in {"init", "idle", "drop_index", "use", "drop", "free", "put_pool", "put_dev",
                      "dec", "zalloc", "oops"} :
            /\ Goto(c, s) /\ pc[c] \notin Releasing /\ s \notin Releasing
            /\ s \in PoolUsers <=> pc[c] \in PoolUsers
      BY <1>4 DEF Destroy, Lookup, AddIndex, Created, CreateFails, DropIndex, DropRef,
                  Leak, Dealloc, Dec, AllocCount, ZallocFails, Releasing, PoolUsers
    <2>2. UNCHANGED <<live, pool_ref, dev_ref>>
      BY <1>4 DEF Destroy, Lookup, AddIndex, Created, CreateFails, DropIndex, DropRef,
                  Leak, Dealloc, Dec, AllocCount, ZallocFails, rvars
    <2>3. P' = P
      BY <2>1, CountersMove DEF Joins
    <2>4. Base' = Base
      BY <1>2, <2>1, <2>2 DEF Goto
    <2> QED
      BY <1>2, <2>2, <2>3, <2>4
  <1>5. CASE AllocRef(c)
    <2>1. /\ Goto(c, "ref_dev") /\ pc[c] = "idle" /\ UNCHANGED <<live, dev_ref>>
          /\ pool_ref' = pool_ref + 1
      BY <1>5 DEF AllocRef
    <2>2. P' = P + 1 /\ P \in Nat /\ Cardinality(live) \in Nat
      BY <2>1, CountersMove DEF Joins, PoolUsers
    <2>3. Base' = Base
      BY <1>2, <2>1 DEF Goto, Releasing
    <2> QED
      BY <1>2, <2>1, <2>2, <2>3
  <1>6. CASE AllocDev(c)
    <2>1. dev_ref > 0
      BY <1>6, DeviceReferenced DEF AllocDev, InVerb
    <2>2. /\ pc[c] = "ref_dev" /\ Goto(c, "count") /\ dev_ref' = dev_ref + 1
          /\ UNCHANGED <<live, pool_ref>>
      BY <1>6 DEF AllocDev
    <2>3. Base = 1 /\ Base' = 1
      BY <1>2, <2>1, <2>2
    <2>4. P' = P
      BY <2>2, CountersMove DEF Joins, PoolUsers
    <2> QED
      BY <1>2, <2>2, <2>3, <2>4
  <1>11. CASE Zalloc(c)
    <2>1. /\ Goto(c, "add_index") /\ pc[c] = "zalloc" /\ UNCHANGED <<pool_ref, dev_ref>>
          /\ \E e \in Elems \ live : live' = live \cup {e}
      BY <1>11 DEF Zalloc, rvars
    <2>2. Cardinality(live') = Cardinality(live) + 1
      BY <2>1, LiveFinite, FS_AddElement DEF PoolInv, TypeOK
    <2>3. P' = P - 1 /\ P \in Nat /\ Cardinality(live) \in Nat
      BY <2>1, CountersMove DEF Joins, PoolUsers
    <2>4. Base' = Base
      BY <1>2, <2>1 DEF Goto, Releasing
    <2> QED
      BY <1>2, <2>1, <2>2, <2>3, <2>4
  <1>7. CASE Free(c)
    <2>1. /\ Goto(c, "dec") /\ pc[c] = "free" /\ UNCHANGED <<pool_ref, dev_ref>>
          /\ el[c] \in live /\ live' = live \ {el[c]}
      BY <1>7 DEF Free, rvars, PoolInv, Hands, HandsLive, InHand
    <2>2. Cardinality(live') = Cardinality(live) - 1
      BY <2>1, LiveFinite, FS_RemoveElement DEF PoolInv, TypeOK
    <2>3. P' = P + 1 /\ P \in Nat /\ Cardinality(live) \in Nat
      BY <2>1, CountersMove DEF Joins, PoolUsers
    <2>4. Base' = Base
      BY <1>2, <2>1 DEF Goto, Releasing
    <2> QED
      BY <1>2, <2>1, <2>2, <2>3, <2>4
  <1>8. CASE PutDev(c) \/ Remove(c)
    <2>1. PICK s \in {"release", "put_pool", "rm_release", "idle"} :
            /\ Goto(c, s) /\ UNCHANGED <<live, pool_ref>> /\ dev_ref' = dev_ref - 1
            /\ dev_ref = 1 <=> s \in Releasing
            /\ s \in PoolUsers <=> pc[c] \in PoolUsers
      BY <1>8 DEF PutDev, Remove, Releasing, PoolUsers
    <2>2. P' = P
      BY <2>1, CountersMove DEF Joins
    <2>3. dev_ref > 0
      BY <1>8, DeviceReferenced DEF PutDev, Remove, DevUsers
    <2>4. Base = 1 /\ Base' = 1
      BY <1>2, <2>1, <2>3 DEF Goto
    <2> QED
      BY <1>2, <2>1, <2>2, <2>4
  <1>9. CASE PutPool(c)
    <2>1. /\ Goto(c, "idle") /\ pc[c] = "put_pool" /\ UNCHANGED <<live, dev_ref>>
          /\ pool_ref' = pool_ref - 1
      BY <1>9 DEF PutPool
    <2>2. P' = P - 1 /\ P \in Nat /\ P' \in Nat /\ Cardinality(live) \in Nat
      BY <2>1, CountersMove DEF Joins, PoolUsers
    <2>3. Base' = Base
      BY <1>2, <2>1 DEF Goto, Releasing
    <2> QED
      BY <1>2, <2>1, <2>2, <2>3
  <1>10. CASE PoolCleanup(c)
    <2>1. PICK s \in {"dealloc", "rm_dealloc"} :
            /\ Goto(c, s) /\ pc[c] \in Releasing /\ UNCHANGED <<live, dev_ref>>
            /\ pool_ref' = pool_ref - 1
            /\ s \in PoolUsers <=> pc[c] \in PoolUsers
      BY <1>10 DEF PoolCleanup, Releasing, PoolUsers
    <2>2. P' = P /\ P \in Nat /\ Cardinality(live) \in Nat
      BY <2>1, CountersMove DEF Joins
    <2>3. dev_ref = 0 /\ \A d \in Contexts : pc[d] \in Releasing => d = c
      BY <2>1 DEF PoolInv, Counters, OneRelease
    <2>4. Base = 1 /\ Base' = 0
      BY <1>2, <2>1, <2>3 DEF Goto, Releasing
    <2> QED
      BY <1>2, <2>1, <2>2, <2>4
  <1> QED
    BY <1>1, <1>4, <1>5, <1>6, <1>7, <1>8, <1>9, <1>10, <1>11 DEF GoOn

\* No step disturbs a type; alloc_index stays inside the table.
LEMMA TypeStep ==
  ASSUME PoolInv, Next
  PROVE  TypeOK'
  <1> USE DEF Goto, Hold
  <1>1. PICK c \in Contexts :
          AllocRef(c) \/ Destroy(c) \/ Lookup(c) \/ Remove(c) \/ GoOn(c)
    BY DEF Next
  <1>2. num_elem' \in Nat /\ pool_ref' \in Nat /\ dev_ref' \in Nat
    BY DevStep, PoolRefStep
  <1>3. TypeOK /\ (pc[c] \in InHand => el[c] \in Elems)
    BY DEF PoolInv, TypeOK, Hands, HandsLive
  <1>4. CASE AllocRef(c) \/ AllocDev(c) \/ AllocCount(c) \/ ZallocFails(c) \/ Remove(c)
             \/ Dec(c) \/ PutDev(c) \/ PutPool(c) \/ PoolCleanup(c) \/ Dealloc(c)
    BY <1>2, <1>3, <1>4 DEF TypeOK, AllocRef, AllocDev, AllocCount, ZallocFails, Remove, Dec,
                            PutDev, PutPool, PoolCleanup, Dealloc, tvars, rvars
  <1>5. CASE Zalloc(c)
    BY <1>2, <1>3, <1>5 DEF TypeOK, Zalloc, tvars, rvars
  <1>6. CASE AddIndex(c)
    <2>1. alloc_index \in Indices
      BY <1>6, IndexLeft DEF AddIndex
    <2> QED
      BY <1>2, <1>3, <1>6, <2>1 DEF TypeOK, AddIndex, rvars, InHand
  <1>7. CASE Created(c) \/ CreateFails(c) \/ DropIndex(c) \/ Free(c)
    BY <1>2, <1>3, <1>7 DEF TypeOK, Created, CreateFails, DropIndex, Free, tvars, rvars, InHand
  <1>8. CASE Destroy(c)
    BY <1>2, <1>3, <1>8 DEF TypeOK, Destroy, tvars, rvars
  <1>9. CASE Lookup(c)
    BY <1>2, <1>3, <1>9 DEF TypeOK, Lookup, tvars, rvars
  <1>10. CASE DropRef(c)
    <2>1. el[c] \in live /\ c \in Holders(el[c])
      BY <1>10 DEF DropRef, PoolInv, Hands, HandsLive, InHand, Holders
    <2>2. ref[el[c]] \in Nat /\ ref[el[c]] # 0
      BY <2>1, RefsTellHolders DEF PoolInv, TypeOK
    <2>3. ref' \in [Elems -> Nat]
      BY <1>3, <1>10, <2>2 DEF TypeOK, DropRef, InHand
    <2>4. \/ pc' = [pc EXCEPT ![c] = "free"] /\ el' = el
          \/ pc' = [pc EXCEPT ![c] = "idle"] /\ el' = [el EXCEPT ![c] = None]
      BY <1>10 DEF DropRef
    <2>5. UNCHANGED <<live, index, owned, leaked, tvars, rvars>>
      BY <1>10 DEF DropRef
    <2> QED
      BY <1>2, <1>3, <2>3, <2>4, <2>5 DEF TypeOK, tvars, rvars
  <1>11. CASE Leak(c)
    <2>1. el[c] \in Elems
      BY <1>3, <1>11 DEF Leak, InHand
    <2> QED
      BY <1>2, <1>3, <1>11, <2>1 DEF TypeOK, Leak, tvars, rvars
  <1> QED
    BY <1>1, <1>4, <1>5, <1>6, <1>7, <1>8, <1>9, <1>10, <1>11 DEF GoOn

\* A step that changes nothing.
LEMMA PoolStutters == PoolInv /\ UNCHANGED vars => PoolInv'
  BY DEF PoolInv, TypeOK, Hands, HandsMatchStep, HandsLive, OneExclusive, FreshUnknown,
         ReleasedAtZero, TreeIsLinked, LeaksLive, Reachable, RefsExact, Holders, Counters, ElemsExact,
         LimitKept, DevExact, PoolExact, OneRelease, UnregisteredQuiet, InVerb, NumAt, At,
         vars, tvars, rvars

LEMMA PoolStep == PoolInv /\ [Next]_vars => PoolInv'
  <1>1. ASSUME PoolInv, Next PROVE PoolInv'
    <2>1. Hands'
      BY <1>1, HandsStep
    <2>2. Reachable'
      BY <1>1, <2>1, IndexStep
    <2>3. RefsExact'
      BY <1>1, RefsStep
    <2>6. LeaksLive'
      BY <1>1, LeakStep
    <2>4. Counters'
      BY <1>1, DevStep, PoolRefStep, ReleaseStep, QuietStep DEF Counters
    <2>5. TypeOK'
      BY <1>1, TypeStep
    <2> QED
      BY <2>1, <2>2, <2>3, <2>4, <2>5, <2>6 DEF PoolInv
  <1> QED
    BY <1>1, PoolStutters DEF vars

\* An empty pool, referenced by its device, which is referenced by rxe_add.
LEMMA PoolInit == Init => PoolInv
  <1> SUFFICES ASSUME Init PROVE PoolInv
    OBVIOUS
  <1>1. TypeOK
    <2>1. 0 \in Indices
      BY PoolAssumption DEF Indices
    <2>2. index \in [Elems -> Indices] /\ ref \in [Elems -> Nat] /\ leaked \in [Elems -> Nat]
      BY <2>1 DEF Init
    <2>3. pc \in [Contexts -> {"idle"}] /\ el \in [Contexts -> {None}]
      BY DEF Init
    <2> QED
      BY <2>1, <2>2, <2>3 DEF Init, TypeOK
  <1>2. Hands
    BY PoolAssumption DEF Init, Hands, HandsMatchStep, HandsLive, OneExclusive, FreshUnknown,
       ReleasedAtZero, TreeIsLinked, InHand, Exclusive
  <1>3. Reachable /\ RefsExact /\ LeaksLive
    BY DEF Init, Reachable, RefsExact, LeaksLive
  <1>4. /\ NumAt(ElemUsers) = 0 /\ NumAt({"zalloc"}) = 0 /\ NumAt(DevUsers) = 0
        /\ NumAt(PoolUsers) = 0 /\ Cardinality(live) = 0
    <2>1. At(ElemUsers) = {} /\ At({"zalloc"}) = {} /\ At(DevUsers) = {} /\ At(PoolUsers) = {}
      BY DEF Init, At, ElemUsers, DevUsers, PoolUsers
    <2> QED
      BY <2>1, FS_EmptySet DEF NumAt, Init
  <1>5. Counters
    BY <1>4, PoolAssumption DEF Init, Counters, ElemsExact, LimitKept, DevExact, PoolExact,
       OneRelease, UnregisteredQuiet, Releasing
  <1> QED
    BY <1>1, <1>2, <1>3, <1>5 DEF PoolInv

LEMMA PoolAlways == Spec => []PoolInv
  BY PoolInit, PoolStep, PTL DEF Spec

-----------------------------------------------------------------------------
(* The counters of rxe_pool.c never fall below zero, and alloc_index never   *)
(* returns a bit past the end of the table: rxe_alloc's limit, and a range of*)
(* at least max_elem indices, leave one clear for every object.              *)
THEOREM TypeCorrect == Spec => []TypeOK
  <1>1. PoolInv => TypeOK
    BY DEF PoolInv
  <1> QED
    BY <1>1, PoolAlways, PTL

(* Every object that a create verb has handed out is found by its index, and *)
(* by no other's (rxe_add_index, rxe_drop_index, rxe_pool_get_index).        *)
THEOREM ObjectsReachable == Spec => []Reachable
  <1>1. PoolInv => Reachable
    BY DEF PoolInv
  <1> QED
    BY <1>1, PoolAlways, PTL

(* rxe_pool_get_index never takes a reference to an object that is being     *)
(* released: what is in the tree is alive.                                   *)
THEOREM LookupsFindLive == Spec => []FoundIsAlive
  <1>1. PoolInv => FoundIsAlive
    BY TreeAlive
  <1> QED
    BY <1>1, PoolAlways, PTL

(* An object's ref_cnt is the number of its holders and of the references    *)
(* that rxe_completer has leaked: rxe_add_ref and rxe_drop_ref are balanced  *)
(* on every other path.                                                      *)
THEOREM CountsExact == Spec => []RefsExact
  <1>1. PoolInv => RefsExact
    BY DEF PoolInv
  <1> QED
    BY <1>1, PoolAlways, PTL

(* rxe_release runs only when no object of the pool exists any more and      *)
(* nobody has one in its hands.                                              *)
THEOREM DeviceOutlivesObjects == Spec => []DeviceLast
  <1>1. ASSUME PoolInv PROVE DeviceLast
    <2> SUFFICES ASSUME dev_ref = 0
                 PROVE  live = {} /\ tree = {} /\ \A c \in Contexts : el[c] = None
      BY DEF DeviceLast
    <2>1. IsFiniteSet(At(DevUsers))
      BY FS_Subset, PoolAssumption DEF At
    <2>2. /\ IsFiniteSet(live) /\ Cardinality(live) \in Nat
          /\ NumAt(DevUsers) \in Nat
      BY <1>1, <2>1, LiveFinite, FS_CardinalityType DEF PoolInv, TypeOK, NumAt
    <2>3. Cardinality(live) = 0
      BY <1>1, <2>2 DEF PoolInv, TypeOK, Counters, DevExact
    <2>4. live = {}
      BY <2>2, <2>3, FS_EmptySet
    <2>5. tree = {}
      BY <1>1, <2>4, TreeAlive DEF FoundIsAlive
    <2>6. \A c \in Contexts : el[c] = None
      BY <1>1, <2>4 DEF PoolInv, Hands, HandsMatchStep, HandsLive
    <2> QED
      BY <2>4, <2>5, <2>6
  <1> QED
    BY <1>1, PoolAlways, PTL
=============================================================================
