---------------------------- MODULE RxeSRQProofs ----------------------------
(***************************************************************************)
(* Theorems about RxeSRQ, for any number of posters and responders, any    *)
(* sizes, limits and failures, for the SRQ of a process and of a kernel    *)
(* consumer: buffers are freed exactly when nothing refers to them, every  *)
(* receive WQE is taken once and in order, and no armed limit is missed.   *)
(***************************************************************************)
EXTENDS RxeSRQ, RxeQueueProofs

Rings == [slots : Nat \ {0}, prod : Nat, cons : Nat, data : UNION {[0 .. n - 1 -> Nat] : n \in Nat}]
Buffers == [q : Rings, ref : Nat, pending : BOOLEAN, freed : BOOLEAN]

Modifying == {"init", "finish", "cleanup", "munmap", "mmap", "remap"}

BufTypes ==
  /\ buf \in Seq(Buffers) /\ \A n \in 1 .. latest : IsQueue(buf[n].q, Nat)
  /\ kq \in 0 .. latest /\ uq \in 0 .. latest /\ child \in 0 .. latest

PlainTypes ==
  /\ kind \in {"user", "kernel"}
  /\ limit \in Nat
  /\ lock \in Posters \cup {Nobody, Modifier} /\ clock \in Responders \cup {Nobody}
  /\ pc \in [Posters \cup Responders -> {"idle", "post", "advance", "limit", "disarm", "event"}]
  /\ copy \in [Responders -> Nat]
  /\ mod \in [pc : {"idle", "destroyed"} \cup Modifying, size : Nat]
  /\ mod.pc \in {"init", "finish"} => mod.size \in ResizeTo
  /\ posted \in Seq(Nat) /\ taken \in Seq(Nat)
  /\ armed \in BOOLEAN /\ tookSince \in BOOLEAN

\* Who holds which lock.
Locked ==
  /\ \A p \in Posters : /\ pc[p] \in {"idle", "post", "advance"}
                        /\ pc[p] # "idle" <=> lock = p
  /\ \A c \in Responders : /\ pc[c] \in {"idle", "advance", "limit", "disarm", "event"}
                           /\ pc[c] \in {"advance", "limit", "disarm"} <=> clock = c
  /\ lock = Modifier <=> kind = "user" /\ mod.pc \in Modifying
  /\ kind = "kernel" => mod.pc \in {"idle", "init", "finish", "cleanup", "destroyed"}

\* Which buffers the SRQ and the process have, by the step of the resize.
Placed ==
  /\ mod.pc \in Modifying => kq # 0
  /\ mod.pc \in {"finish", "cleanup"} =>
       kq < latest /\ uq < latest /\ child < latest /\ buf[latest].q.cons = 0
  /\ mod.pc \in {"munmap", "mmap", "remap"} => kq = latest
  /\ mod.pc \in {"mmap", "remap"} => uq = 0
  /\ mod.pc = "destroyed" => kq = 0
  /\ kind = "kernel" => uq = 0 /\ child = 0
  /\ kq # 0 /\ uq # 0 /\ mod.pc # "munmap" => uq = kq

BufInv == BufTypes /\ PlainTypes /\ Locked /\ Placed /\ BuffersCounted

\* Between fill_producer and advance_producer, and between the copy of the head and
\* advance_consumer.
InHand ==
  kq # 0 =>
    /\ \A p \in Posters : pc[p] = "advance" =>
         queue_count(ring) < ring.slots - 1 /\ ring.data[ring.prod] = Len(posted) + 1
    /\ \A c \in Responders : pc[c] = "advance" =>
         queue_count(ring) > 0 /\ copy[c] = elem_at(ring, 0)

-----------------------------------------------------------------------------
(* Buffers *)

LEMMA Names ==
  /\ Posters \cap Responders = {}
  /\ Nobody \notin Posters /\ Nobody \notin Responders
  /\ Modifier \notin Posters /\ Nobody # Modifier
  BY SRQAssumption DEF Nobody, Modifier

LEMMA QueueIsRing ==
  ASSUME NEW q, IsQueue(q, Nat)
  PROVE  q \in Rings
  <1>1. /\ q.slots \in Nat \ {0} /\ q.prod \in Nat /\ q.cons \in Nat
        /\ q.data \in [0 .. q.slots - 1 -> Nat]
        /\ q = [slots |-> q.slots, prod |-> q.prod, cons |-> q.cons, data |-> q.data]
    BY DEF IsQueue
  <1>2. q.data \in UNION {[0 .. n - 1 -> Nat] : n \in Nat}
    BY <1>1
  <1> QED
    BY <1>1, <1>2 DEF Rings

\* rxe_queue_init makes an empty queue for every size that is asked for.
LEMMA NewQueue ==
  ASSUME NEW n \in ResizeTo \cup {MaxWr}
  PROVE  LET q == queue_init(n, Blank)
         IN  IsQueue(q, Nat) /\ queue_count(q) = 0 /\ q.prod = 0 /\ q.cons = 0
  <1>1. /\ n \in Nat /\ Blank \in Nat
        /\ roundup_pow_of_two(n + 1) \in Nat /\ roundup_pow_of_two(n + 1) >= n + 1
    BY SRQAssumption, RoundupAssumption DEF Blank
  <1> QED
    BY <1>1, InitEmpty

\* What kref_put does to the buffers.
LEMMA PutIs ==
  ASSUME NEW b \in Seq(Buffers), NEW n \in 1 .. Len(b), b[n].ref # 0
  PROVE  /\ put(b, n) \in Seq(Buffers) /\ Len(put(b, n)) = Len(b)
         /\ \A m \in 1 .. Len(b) : put(b, n)[m].q = b[m].q
         /\ \A m \in 1 .. Len(b) : m # n => put(b, n)[m] = b[m]
         /\ put(b, n)[n].ref = b[n].ref - 1
         /\ put(b, n)[n].freed = (b[n].ref = 1)
         /\ put(b, n)[n].pending = (b[n].pending /\ b[n].ref # 1)
  <1>1. Len(b) \in Nat /\ b \in [1 .. Len(b) -> Buffers] /\ b[n] \in Buffers
    OBVIOUS
  <1> DEFINE x == [q |-> b[n].q, ref |-> b[n].ref - 1, pending |-> b[n].pending /\ ~(b[n].ref = 1),
                   freed |-> b[n].ref = 1]
  <1>2. put(b, n) = [b EXCEPT ![n] = x]
    BY Zenon DEF put
  <1>3. x \in Buffers
    BY <1>1 DEF Buffers
  <1>4. /\ x.q = b[n].q /\ x.ref = b[n].ref - 1 /\ x.freed = (b[n].ref = 1)
        /\ x.pending = (b[n].pending /\ b[n].ref # 1)
    OBVIOUS
  <1> HIDE DEF x
  <1>5. put(b, n) \in Seq(Buffers) /\ Len(put(b, n)) = Len(b)
    BY <1>1, <1>2, <1>3
  <1>6. put(b, n)[n] = x /\ \A m \in 1 .. Len(b) : m # n => put(b, n)[m] = b[m]
    BY <1>1, <1>2
  <1> QED
    BY <1>4, <1>5, <1>6

LEMMA GetIs ==
  ASSUME NEW b \in Seq(Buffers), NEW n \in 1 .. Len(b)
  PROVE  /\ get(b, n) \in Seq(Buffers) /\ Len(get(b, n)) = Len(b)
         /\ \A m \in 1 .. Len(b) : m # n => get(b, n)[m] = b[m]
         /\ get(b, n)[n].q = b[n].q
         /\ get(b, n)[n].ref = b[n].ref + 1
         /\ get(b, n)[n].freed = b[n].freed
         /\ get(b, n)[n].pending = b[n].pending
  <1>1. Len(b) \in Nat /\ b \in [1 .. Len(b) -> Buffers] /\ b[n] \in Buffers
    OBVIOUS
  <1> DEFINE x == [b[n] EXCEPT !.ref = @ + 1]
  <1>2. get(b, n) = [b EXCEPT ![n] = x]
    BY <1>1 DEF get, Buffers
  <1>3. x \in Buffers
    BY <1>1 DEF Buffers
  <1>4. x.q = b[n].q /\ x.ref = b[n].ref + 1 /\ x.freed = b[n].freed /\ x.pending = b[n].pending
    BY <1>1 DEF Buffers
  <1> HIDE DEF x
  <1>5. get(b, n) \in Seq(Buffers) /\ Len(get(b, n)) = Len(b)
    BY <1>1, <1>2, <1>3
  <1>6. get(b, n)[n] = x /\ \A m \in 1 .. Len(b) : m # n => get(b, n)[m] = b[m]
    BY <1>1, <1>2
  <1> QED
    BY <1>4, <1>5, <1>6

\* Neither touches a ring.
LEMMA KrefKeepsRings ==
  ASSUME NEW b \in Seq(Buffers), NEW n \in 1 .. Len(b), NEW c,
         c = get(b, n) \/ (b[n].ref # 0 /\ c = put(b, n))
  PROVE  Len(c) = Len(b) /\ \A m \in 1 .. Len(b) : c[m].q = b[m].q
  <1>1. CASE c = get(b, n)
    <2>1. /\ Len(c) = Len(b) /\ c[n].q = b[n].q
          /\ \A m \in 1 .. Len(b) : m # n => c[m] = b[m]
      BY <1>1, GetIs
    <2> QED
      BY <2>1
  <1>2. CASE b[n].ref # 0 /\ c = put(b, n)
    BY <1>2, PutIs
  <1> QED
    BY <1>1, <1>2

\* A change of a buffer's ring.
LEMMA RingIs ==
  ASSUME NEW b \in Seq(Buffers), NEW n \in 1 .. Len(b), NEW r, IsQueue(r, Nat)
  PROVE  LET c == [b EXCEPT ![n].q = r]
         IN  /\ c \in Seq(Buffers) /\ Len(c) = Len(b)
             /\ \A m \in 1 .. Len(b) : m # n => c[m] = b[m]
             /\ c[n].q = r /\ c[n].ref = b[n].ref
             /\ c[n].freed = b[n].freed /\ c[n].pending = b[n].pending
  <1>1. Len(b) \in Nat /\ b \in [1 .. Len(b) -> Buffers] /\ b[n] \in Buffers /\ r \in Rings
    BY QueueIsRing
  <1> DEFINE x == [b[n] EXCEPT !.q = r]
             c == [b EXCEPT ![n].q = r]
  <1>2. c = [b EXCEPT ![n] = x]
    BY <1>1
  <1>3. x \in Buffers
    BY <1>1 DEF Buffers
  <1>4. x.q = r /\ x.ref = b[n].ref /\ x.freed = b[n].freed /\ x.pending = b[n].pending
    BY <1>1 DEF Buffers
  <1> HIDE DEF x
  <1>5. c \in Seq(Buffers) /\ Len(c) = Len(b)
    BY <1>1, <1>2, <1>3
  <1>6. c[n] = x /\ \A m \in 1 .. Len(b) : m # n => c[m] = b[m]
    BY <1>1, <1>2
  <1> QED
    BY <1>4, <1>5, <1>6

\* A buffer in use has a reference and is not freed.
LEMMA InUse ==
  ASSUME BufInv, NEW n \in 1 .. latest, Users(n) # 0
  PROVE  buf[n].ref # 0 /\ ~buf[n].freed
  BY DEF BufInv, BuffersCounted

-----------------------------------------------------------------------------
(* Types and locks *)

LEMMA RingTypes ==
  ASSUME BufTypes, NEW n \in 1 .. latest
  PROVE  /\ n \in Nat \ {0} /\ IsQueue(buf[n].q, Nat) /\ elem_at(buf[n].q, 0) \in Nat
         /\ buf[n] \in Buffers /\ latest \in Nat
  <1>1. buf \in Seq(Buffers) /\ IsQueue(buf[n].q, Nat)
    BY DEF BufTypes
  <1>2. elem_at(buf[n].q, 0) \in Nat
    <2>1. PICK q : q = buf[n].q
      OBVIOUS
    <2>2. /\ q.slots \in Nat \ {0} /\ q.cons \in 0 .. q.slots - 1
          /\ q.data \in [0 .. q.slots - 1 -> Nat]
      BY <1>1, <2>1 DEF IsQueue
    <2>3. masked(q, q.cons + 0) \in 0 .. q.slots - 1
      <3>1. q.cons + 0 \in Int
        BY <2>2
      <3>2. (q.cons + 0) % q.slots \in 0 .. q.slots - 1
        BY <2>2, <3>1, MaskRange, Zenon
      <3> QED
        BY <3>2 DEF masked
    <2> QED
      BY <2>1, <2>2, <2>3 DEF elem_at
  <1> QED
    BY <1>1, <1>2 DEF latest

LEMMA PlainStep ==
  ASSUME BufInv, [Next]_vars
  PROVE  PlainTypes'
  <1>1. PlainTypes /\ BufTypes /\ DOMAIN pc = Posters \cup Responders
    BY DEF BufInv, PlainTypes
  <1> USE DEF PlainTypes
  <1>2. ASSUME NEW p \in Posters, PostLock(p) \/ PostFull(p) \/ PostFill(p) PROVE PlainTypes'
    BY <1>1, <1>2 DEF PostLock, PostFull, PostFill, sent, alarm
  <1>3. ASSUME NEW p \in Posters, PostAdvance(p) PROVE PlainTypes'
    <2>1. posted' \in Seq(Nat)
      BY <1>1, <1>3 DEF PostAdvance
    <2> QED
      BY <1>1, <1>3, <2>1 DEF PostAdvance, alarm
  <1>4. ASSUME NEW c \in Responders, GetHead(c) PROVE PlainTypes'
    <2>1. elem_at(ring, 0) \in Nat
      BY <1>1, <1>4, RingTypes DEF GetHead, ring, BufTypes
    <2> QED
      BY <1>1, <1>4, <2>1 DEF GetHead, sent, alarm
  <1>5. ASSUME NEW c \in Responders, GetAdvance(c) PROVE PlainTypes'
    <2>1. taken' \in Seq(Nat)
      BY <1>1, <1>5 DEF GetAdvance
    <2> QED
      BY <1>1, <1>5, <2>1 DEF GetAdvance
  <1>6. ASSUME NEW c \in Responders, GetTest(c) PROVE PlainTypes'
    BY <1>1, <1>6 DEF GetTest, sent, alarm
  <1>7. ASSUME NEW c \in Responders, GetDisarm(c) PROVE PlainTypes'
    BY <1>1, <1>7 DEF GetDisarm, sent, alarm
  <1>13. ASSUME NEW c \in Responders, GetEvent(c) PROVE PlainTypes'
    BY <1>1, <1>13 DEF GetEvent, sent
  <1>8. ASSUME NEW l \in Limits, Arm(l) PROVE PlainTypes'
    BY <1>1, <1>8, SRQAssumption DEF Arm, sent
  <1>9. ASSUME NEW s \in ResizeTo, ResizeBegin(s) PROVE PlainTypes'
    <2>1. mod' \in [pc : {"idle", "destroyed"} \cup Modifying, size : Nat] /\ mod'.size \in ResizeTo
      BY <1>9, SRQAssumption DEF ResizeBegin, Modifying
    <2> QED
      BY <1>1, <1>9, <2>1 DEF ResizeBegin, sent, alarm
  <1>10. CASE ResizeInit \/ ResizeFinish \/ ResizeTooSmall \/ Munmap \/ MmapFind \/ Destroy
    <2>1. \E s \in {"finish", "cleanup", "munmap", "idle", "mmap", "remap", "destroyed"} :
             /\ mod' = [mod EXCEPT !.pc = s]
             /\ s = "finish" => mod.pc = "init"
      BY <1>10 DEF ResizeInit, ResizeFinish, ResizeTooSmall, Munmap, MmapFind, Destroy
    <2>2. /\ mod' \in [pc : {"idle", "destroyed"} \cup Modifying, size : Nat]
          /\ mod'.pc \in {"init", "finish"} => mod'.size \in ResizeTo
      BY <1>1, <2>1 DEF Modifying
    <2> QED
      BY <1>1, <1>10, <2>2 DEF ResizeInit, ResizeFinish, ResizeTooSmall, Munmap, MmapFind, Destroy, sent,
                                  alarm
  <1>11. CASE ResizeNoMemory \/ ResizeCleanup \/ MmapDone \/ MmapFails
    <2>1. mod' = [mod EXCEPT !.pc = "idle"] /\ lock' \in {Nobody, lock}
      BY <1>11 DEF ResizeNoMemory, ResizeCleanup, MmapDone, MmapFails, unlocked
    <2>2. /\ mod' \in [pc : {"idle", "destroyed"} \cup Modifying, size : Nat]
          /\ mod'.pc \in {"init", "finish"} => mod'.size \in ResizeTo
      BY <1>1, <2>1 DEF Modifying
    <2> QED
      BY <1>1, <1>11, <2>1, <2>2 DEF ResizeNoMemory, ResizeCleanup, MmapDone, MmapFails, sent, alarm
  <1>12. CASE Fork \/ ChildExit \/ DestroyUnmap \/ UNCHANGED vars
    BY <1>1, <1>12 DEF Fork, ChildExit, DestroyUnmap, vars, sent, alarm
  <1> QED
    BY <1>2, <1>3, <1>4, <1>5, <1>6, <1>7, <1>8, <1>9, <1>10, <1>11, <1>12, <1>13 DEF Next

LEMMA LockStep ==
  ASSUME BufInv, [Next]_vars
  PROVE  Locked'
  <1>1. PlainTypes /\ Locked /\ DOMAIN pc = Posters \cup Responders
    BY DEF BufInv, PlainTypes
  <1> USE DEF Locked
  <1>2. ASSUME NEW p \in Posters, PostLock(p) \/ PostFull(p) \/ PostFill(p) \/ PostAdvance(p)
        PROVE  Locked'
    <2>1. /\ UNCHANGED <<clock, kind, mod>>
          /\ \/ pc[p] = "idle" /\ lock = Nobody /\ lock' = p /\ pc' = [pc EXCEPT ![p] = "post"]
             \/ pc[p] # "idle" /\ lock' = Nobody /\ pc' = [pc EXCEPT ![p] = "idle"]
             \/ pc[p] = "post" /\ lock' = lock /\ pc' = [pc EXCEPT ![p] = "advance"]
      BY <1>2 DEF PostLock, PostFull, PostFill, PostAdvance
    <2>2. \A r \in Responders : pc'[r] = pc[r]
      BY <1>1, <2>1, Names
    <2>3. lock # Modifier /\ lock' # Modifier
      BY <1>1, <2>1, Names
    <2> QED
      BY <1>1, <2>1, <2>2, <2>3, Names
  <1>3. ASSUME NEW c \in Responders, GetHead(c) \/ GetAdvance(c) \/ GetTest(c) \/ GetDisarm(c) \/ GetEvent(c)
        PROVE  Locked'
    <2>1. /\ UNCHANGED <<lock, kind, mod>>
          /\ \/ pc[c] = "idle" /\ clock = Nobody /\ clock' = c /\ pc' = [pc EXCEPT ![c] = "advance"]
             \/ pc[c] \in {"advance", "limit"} /\ clock' = clock
                  /\ \E s \in {"limit", "disarm"} : pc' = [pc EXCEPT ![c] = s]
             \/ pc[c] \in {"limit", "disarm"} /\ clock' = Nobody
                  /\ \E s \in {"idle", "event"} : pc' = [pc EXCEPT ![c] = s]
             \/ pc[c] = "event" /\ clock' = clock /\ pc' = [pc EXCEPT ![c] = "idle"]
      BY <1>3 DEF GetHead, GetAdvance, GetTest, GetDisarm, GetEvent
    <2>2. \A p \in Posters : pc'[p] = pc[p]
      BY <1>1, <2>1, Names
    <2> QED
      BY <1>1, <2>1, <2>2, Names
  <1>4. ASSUME NEW s \in ResizeTo, ResizeBegin(s) PROVE Locked'
    <2>1. /\ UNCHANGED <<clock, kind, pc>> /\ mod'.pc = "init" /\ mod.pc = "idle"
          /\ kind = "user" => lock = Nobody
          /\ lock' = IF kind = "user" THEN Modifier ELSE lock
      BY <1>4 DEF ResizeBegin
    <2> QED
      BY <1>1, <2>1, Names DEF Modifying, PlainTypes
  <1>5. CASE ResizeInit \/ ResizeFinish \/ ResizeTooSmall \/ Munmap \/ MmapFind
    <2>1. /\ UNCHANGED <<clock, kind, pc, lock>> /\ mod.pc \in Modifying
          /\ \/ mod'.pc \in Modifying /\ (kind = "kernel" => mod'.pc \in {"finish", "cleanup"})
             \/ mod'.pc = "idle" /\ kind = "kernel"
      BY <1>1, <1>5 DEF ResizeInit, ResizeFinish, ResizeTooSmall, Munmap, MmapFind, Modifying, PlainTypes
    <2> QED
      BY <1>1, <2>1, Names DEF Modifying
  <1>6. CASE ResizeNoMemory \/ ResizeCleanup \/ MmapDone \/ MmapFails
    <2>1. /\ UNCHANGED <<clock, kind, pc>> /\ mod.pc \in Modifying /\ mod'.pc = "idle"
          /\ \/ lock' = IF kind = "user" THEN Nobody ELSE lock
             \/ lock' = Nobody /\ mod.pc = "remap"
      BY <1>1, <1>6 DEF ResizeNoMemory, ResizeCleanup, MmapDone, MmapFails, unlocked, Modifying, PlainTypes
    <2>2. kind = "user" => lock = Modifier
      BY <1>1, <2>1
    <2>3. lock' = IF kind = "user" THEN Nobody ELSE lock
      BY <1>1, <2>1 DEF PlainTypes
    <2> QED
      BY <1>1, <2>1, <2>2, <2>3, Names DEF Modifying
  <1>7. CASE Destroy
    <2>1. UNCHANGED <<clock, kind, pc, lock>> /\ mod.pc = "idle" /\ mod'.pc = "destroyed"
      BY <1>1, <1>7 DEF Destroy, PlainTypes
    <2> QED
      BY <1>1, <2>1 DEF Modifying
  <1>8. CASE (\E l \in Limits : Arm(l)) \/ Fork \/ ChildExit \/ DestroyUnmap \/ UNCHANGED vars
    <2>1. UNCHANGED <<clock, kind, pc, lock, mod>>
      BY <1>8 DEF Arm, Fork, ChildExit, DestroyUnmap, vars
    <2> QED
      BY <1>1, <2>1
  <1> QED
    BY <1>2, <1>3, <1>4, <1>5, <1>6, <1>7, <1>8 DEF Next

-----------------------------------------------------------------------------
(* References *)

\* What BuffersCounted says of one buffer.
Counted(b, n, u) ==
  /\ b[n].ref = u
  /\ b[n].freed <=> u = 0
  /\ b[n].pending => ~b[n].freed

LEMMA CountedIs == BuffersCounted <=> \A n \in 1 .. latest : Counted(buf, n, Users(n))
  BY DEF BuffersCounted, Counted

LEMMA PutCounted ==
  ASSUME NEW b \in Seq(Buffers), NEW n \in 1 .. Len(b), NEW u \in Nat \ {0}, Counted(b, n, u)
  PROVE  Counted(put(b, n), n, u - 1)
  <1>1. b[n].ref = u /\ (b[n].pending => ~b[n].freed)
    BY DEF Counted
  <1>2. /\ put(b, n)[n].ref = u - 1
        /\ put(b, n)[n].freed = (u = 1)
        /\ put(b, n)[n].pending = (b[n].pending /\ u # 1)
    BY <1>1, PutIs
  <1>3. u - 1 = 0 <=> u = 1
    OBVIOUS
  <1> QED
    BY <1>2, <1>3, Zenon DEF Counted

LEMMA GetCounted ==
  ASSUME NEW b \in Seq(Buffers), NEW n \in 1 .. Len(b), NEW u \in Nat \ {0}, Counted(b, n, u)
  PROVE  Counted(get(b, n), n, u + 1)
  <1>1. /\ get(b, n)[n].ref = u + 1 /\ get(b, n)[n].freed = b[n].freed
        /\ get(b, n)[n].pending = b[n].pending
    BY GetIs DEF Counted
  <1>2. u + 1 # 0 /\ u # 0
    OBVIOUS
  <1> QED
    BY <1>1, <1>2 DEF Counted

\* Nothing but b[n] matters.
LEMMA SameCounted ==
  ASSUME NEW b, NEW c, NEW n, NEW u, Counted(b, n, u),
         c[n].ref = b[n].ref, c[n].freed = b[n].freed, c[n].pending = b[n].pending
  PROVE  Counted(c, n, u)
  BY DEF Counted

Fresh == IF mod.pc \in {"finish", "cleanup"} THEN latest ELSE 0

LEMMA UsersAre ==
  ASSUME NEW n
  PROVE  /\ Users(n) = at(kq, n) + at(uq, n) + at(child, n) + at(Fresh, n)
         /\ Users(n)' = at(kq', n) + at(uq', n) + at(child', n) + at(Fresh', n)
         /\ \A m : at(m, n) \in {0, 1} /\ (at(m, n) = 1 <=> m = n)
  BY DEF Users, Fresh, at

\* Buffers b with us[n] references to b[n].
GoodBufs(b, us) ==
  /\ b \in Seq(Buffers) /\ us \in [1 .. Len(b) -> Nat]
  /\ \A n \in 1 .. Len(b) : IsQueue(b[n].q, Nat) /\ Counted(b, n, us[n])

LEMMA PutGood ==
  ASSUME NEW b, NEW us, GoodBufs(b, us), NEW n \in 1 .. Len(b), us[n] # 0
  PROVE  GoodBufs(put(b, n), [us EXCEPT ![n] = @ - 1]) /\ Len(put(b, n)) = Len(b)
  <1> DEFINE c == put(b, n)
             vs == [us EXCEPT ![n] = @ - 1]
  <1>1. /\ b \in Seq(Buffers) /\ us[n] \in Nat \ {0} /\ us \in [1 .. Len(b) -> Nat]
        /\ \A m \in 1 .. Len(b) : IsQueue(b[m].q, Nat) /\ Counted(b, m, us[m])
    BY DEF GoodBufs
  <1>2. b[n].ref # 0
    BY <1>1 DEF Counted
  <1>3. /\ c \in Seq(Buffers) /\ Len(c) = Len(b)
        /\ \A m \in 1 .. Len(b) : c[m].q = b[m].q
        /\ \A m \in 1 .. Len(b) : m # n => c[m] = b[m]
    BY <1>1, <1>2, PutIs
  <1>4. Counted(c, n, us[n] - 1)
    BY <1>1, PutCounted
  <1>5. vs \in [1 .. Len(b) -> Nat] /\ vs[n] = us[n] - 1 /\ \A m \in 1 .. Len(b) : m # n => vs[m] = us[m]
    BY <1>1
  <1> HIDE DEF c, vs
  <1>6. \A m \in 1 .. Len(b) : Counted(c, m, vs[m])
    <2> TAKE m \in 1 .. Len(b)
    <2>1. CASE m = n
      BY <1>4, <1>5, <2>1
    <2>2. CASE m # n
      BY <1>1, <1>3, <1>5, <2>2 DEF Counted
    <2> QED
      BY <2>1, <2>2
  <1>7. GoodBufs(c, vs)
    BY <1>1, <1>3, <1>5, <1>6 DEF GoodBufs
  <1> QED
    BY <1>3, <1>7 DEF c, vs

LEMMA GetGood ==
  ASSUME NEW b, NEW us, GoodBufs(b, us), NEW n \in 1 .. Len(b), us[n] # 0
  PROVE  GoodBufs(get(b, n), [us EXCEPT ![n] = @ + 1]) /\ Len(get(b, n)) = Len(b)
  <1> DEFINE c == get(b, n)
             vs == [us EXCEPT ![n] = @ + 1]
  <1>1. /\ b \in Seq(Buffers) /\ us[n] \in Nat \ {0} /\ us \in [1 .. Len(b) -> Nat]
        /\ \A m \in 1 .. Len(b) : IsQueue(b[m].q, Nat) /\ Counted(b, m, us[m])
    BY DEF GoodBufs
  <1>3. /\ c \in Seq(Buffers) /\ Len(c) = Len(b) /\ c[n].q = b[n].q
        /\ \A m \in 1 .. Len(b) : m # n => c[m] = b[m]
    BY <1>1, GetIs
  <1>4. Counted(c, n, us[n] + 1)
    BY <1>1, GetCounted
  <1>5. vs \in [1 .. Len(b) -> Nat] /\ vs[n] = us[n] + 1 /\ \A m \in 1 .. Len(b) : m # n => vs[m] = us[m]
    BY <1>1
  <1> HIDE DEF c, vs
  <1>6. \A m \in 1 .. Len(b) : Counted(c, m, vs[m]) /\ IsQueue(c[m].q, Nat)
    <2> TAKE m \in 1 .. Len(b)
    <2>1. CASE m = n
      BY <1>1, <1>3, <1>4, <1>5, <2>1
    <2>2. CASE m # n
      BY <1>1, <1>3, <1>5, <2>2 DEF Counted
    <2> QED
      BY <2>1, <2>2
  <1>7. GoodBufs(c, vs)
    BY <1>1, <1>3, <1>5, <1>6 DEF GoodBufs
  <1> QED
    BY <1>3, <1>7 DEF c, vs

LEMMA RingGood ==
  ASSUME NEW b, NEW us, GoodBufs(b, us), NEW n \in 1 .. Len(b), NEW r, IsQueue(r, Nat)
  PROVE  GoodBufs([b EXCEPT ![n].q = r], us) /\ Len([b EXCEPT ![n].q = r]) = Len(b)
  <1> DEFINE c == [b EXCEPT ![n].q = r]
  <1>1. /\ b \in Seq(Buffers) /\ us \in [1 .. Len(b) -> Nat]
        /\ \A m \in 1 .. Len(b) : IsQueue(b[m].q, Nat) /\ Counted(b, m, us[m])
    BY DEF GoodBufs
  <1>2. /\ c \in Seq(Buffers) /\ Len(c) = Len(b)
        /\ \A m \in 1 .. Len(b) : m # n => c[m] = b[m]
        /\ c[n].q = r /\ c[n].ref = b[n].ref
        /\ c[n].freed = b[n].freed /\ c[n].pending = b[n].pending
    BY <1>1, RingIs
  <1> HIDE DEF c
  <1>3. \A m \in 1 .. Len(b) : Counted(c, m, us[m]) /\ IsQueue(c[m].q, Nat)
    <2> TAKE m \in 1 .. Len(b)
    <2>1. CASE m = n
      BY <1>1, <1>2, <2>1 DEF Counted
    <2>2. CASE m # n
      BY <1>1, <1>2, <2>2 DEF Counted
    <2> QED
      BY <2>1, <2>2
  <1>4. GoodBufs(c, us)
    BY <1>1, <1>2, <1>3 DEF GoodBufs
  <1> QED
    BY <1>2, <1>4 DEF c

LEMMA AppendGood ==
  ASSUME NEW b, NEW us, GoodBufs(b, us), NEW x \in Buffers, IsQueue(x.q, Nat),
         x.ref = 1, ~x.freed
  PROVE  LET vs == [m \in 1 .. Len(b) + 1 |-> IF m = Len(b) + 1 THEN 1 ELSE us[m]]
         IN  GoodBufs(Append(b, x), vs) /\ Len(Append(b, x)) = Len(b) + 1
  <1> DEFINE c == Append(b, x)
             vs == [m \in 1 .. Len(b) + 1 |-> IF m = Len(b) + 1 THEN 1 ELSE us[m]]
  <1>1. /\ b \in Seq(Buffers) /\ us \in [1 .. Len(b) -> Nat]
        /\ \A m \in 1 .. Len(b) : IsQueue(b[m].q, Nat) /\ Counted(b, m, us[m])
    BY DEF GoodBufs
  <1>2. /\ c \in Seq(Buffers) /\ Len(c) = Len(b) + 1 /\ Len(b) \in Nat
        /\ c[Len(b) + 1] = x /\ \A m \in 1 .. Len(b) : c[m] = b[m]
    BY <1>1
  <1>3. /\ vs \in [1 .. Len(b) + 1 -> Nat] /\ vs[Len(b) + 1] = 1
        /\ \A m \in 1 .. Len(b) : vs[m] = us[m]
    BY <1>1, <1>2
  <1> HIDE DEF c, vs
  <1>4. \A m \in 1 .. Len(b) + 1 : Counted(c, m, vs[m]) /\ IsQueue(c[m].q, Nat)
    <2> TAKE m \in 1 .. Len(b) + 1
    <2>1. CASE m = Len(b) + 1
      BY <1>2, <1>3, <2>1 DEF Counted
    <2>2. CASE m # Len(b) + 1
      <3>1. m \in 1 .. Len(b)
        BY <1>2, <2>2
      <3> QED
        BY <1>1, <1>2, <1>3, <3>1 DEF Counted
    <2> QED
      BY <2>1, <2>2
  <1>5. GoodBufs(c, vs)
    BY <1>2, <1>3, <1>4 DEF GoodBufs
  <1> QED
    BY <1>2, <1>5 DEF c, vs

LEMMA GoodNow ==
  ASSUME BufInv
  PROVE  GoodBufs(buf, [n \in 1 .. Len(buf) |-> Users(n)])
  <1>1. BufTypes /\ \A n \in 1 .. latest : Counted(buf, n, Users(n))
    BY CountedIs DEF BufInv
  <1>2. \A n : Users(n) \in Nat
    BY DEF Users, at
  <1> QED
    BY <1>1, <1>2 DEF GoodBufs, BufTypes, latest

LEMMA GoodNext ==
  ASSUME NEW us, GoodBufs(buf', us), \A n \in 1 .. Len(buf') : us[n] = Users(n)',
         kq' \in 0 .. Len(buf'), uq' \in 0 .. Len(buf'), child' \in 0 .. Len(buf')
  PROVE  BufTypes' /\ BuffersCounted'
  <1>1. BufTypes'
    BY DEF GoodBufs, BufTypes, latest
  <1>2. BuffersCounted'
    BY DEF GoodBufs, Counted, BuffersCounted, latest
  <1> QED
    BY <1>1, <1>2

\* Steps that leave every buffer and every reference alone.
LEMMA SameBufs ==
  ASSUME BufInv, UNCHANGED <<buf, kq, uq, child, Fresh>>
  PROVE  BufTypes' /\ BuffersCounted'
  <1>1. BufTypes' /\ latest' = latest
    BY DEF BufInv, BufTypes, latest
  <1>2. \A n : Users(n)' = Users(n)
    BY UsersAre
  <1> QED
    BY <1>1, <1>2 DEF BufInv, BuffersCounted

\* Every step leaves the buffers sound and their references counted.
LEMMA BufStep ==
  ASSUME BufInv, [Next]_vars
  PROVE  BufTypes' /\ BuffersCounted'
  <1> DEFINE us == [n \in 1 .. Len(buf) |-> Users(n)]
  <1>1. BufTypes /\ PlainTypes /\ Placed /\ Locked
    BY DEF BufInv
  <1>2. GoodBufs(buf, us)
    BY GoodNow
  <1>3. /\ buf \in Seq(Buffers) /\ Len(buf) \in Nat /\ latest = Len(buf)
        /\ kq \in 0 .. Len(buf) /\ uq \in 0 .. Len(buf) /\ child \in 0 .. Len(buf)
        /\ \A n \in 1 .. Len(buf) : IsQueue(buf[n].q, Nat)
        /\ DOMAIN mod = {"pc", "size"}
    BY <1>1 DEF BufTypes, latest, PlainTypes
  <1>4. \A n \in 1 .. Len(buf) : us[n] = at(kq, n) + at(uq, n) + at(child, n) + at(Fresh, n)
    BY UsersAre
  <1>5. \A n : Users(n)' = at(kq', n) + at(uq', n) + at(child', n) + at(Fresh', n)
    BY UsersAre
  <1>6. \A n \in 1 .. Len(buf) : n \in {kq, uq, child, Fresh} => us[n] # 0
    BY <1>4 DEF at
  <1>n. us \in [1 .. Len(buf) -> Nat]
    BY <1>2 DEF GoodBufs
  <1> HIDE DEF us
  <1>7. ASSUME NEW n \in 1 .. Len(buf), NEW r, IsQueue(r, Nat), buf' = [buf EXCEPT ![n].q = r],
               UNCHANGED <<kq, uq, child, mod>>
        PROVE  BufTypes' /\ BuffersCounted'
    <2>1. GoodBufs(buf', us) /\ Len(buf') = Len(buf)
      BY <1>2, <1>7, RingGood
    <2>2. Fresh' = Fresh
      BY <1>7, <2>1 DEF Fresh, latest
    <2>3. \A m \in 1 .. Len(buf) : us[m] = Users(m)'
      BY <1>4, <1>5, <1>7, <2>2
    <2> QED
      BY <1>3, <1>7, <2>1, <2>3, GoodNext
  <1>8. ASSUME NEW n \in 1 .. Len(buf), us[n] # 0, buf' = put(buf, n), Fresh = 0, Fresh' = 0,
               \/ kq = n /\ kq' = 0 /\ UNCHANGED <<uq, child>>
               \/ uq = n /\ uq' = 0 /\ UNCHANGED <<kq, child>>
        PROVE  BufTypes' /\ BuffersCounted'
    <2> DEFINE vs == [us EXCEPT ![n] = @ - 1]
    <2>1. GoodBufs(buf', vs) /\ Len(buf') = Len(buf)
      BY <1>2, <1>8, PutGood
    <2>2. ASSUME NEW m \in 1 .. Len(buf) PROVE vs[m] = Users(m)'
      <3>1. vs[m] = IF m = n THEN us[m] - 1 ELSE us[m]
        BY <1>n
      <3>2. m # 0 /\ m \in Int
        OBVIOUS
      <3> HIDE DEF vs
      <3> QED
        BY <1>4, <1>5, <1>8, <3>1, <3>2 DEF at
    <2> HIDE DEF vs
    <2> QED
      BY <1>3, <1>8, <2>1, <2>2, GoodNext
  <1>9. ASSUME NEW p \in Posters, PostFill(p) \/ PostAdvance(p) PROVE BufTypes' /\ BuffersCounted'
    <2>1. PostTo \in 1 .. Len(buf) /\ IsQueue(buf[PostTo].q, Nat) /\ UNCHANGED <<kq, uq, child, mod>>
      <3>1. PostTo \in 0 .. Len(buf) /\ PostTo # 0
        BY <1>3, <1>9 DEF PostFill, PostAdvance, PostTo
      <3> QED
        BY <1>3, <1>9, <3>1 DEF PostFill, PostAdvance, user
    <2>2. CASE PostFill(p)
      <3> DEFINE r == fill_producer(buf[PostTo].q, Len(posted) + 1)
      <3>1. Len(posted) + 1 \in Nat
        BY <1>1 DEF PlainTypes
      <3>2. IsQueue(r, Nat)
        BY <2>1, <3>1, FillKeeps
      <3>3. buf' = [buf EXCEPT ![PostTo].q = r]
        BY <2>2 DEF PostFill
      <3> HIDE DEF r
      <3> QED
        BY <1>7, <2>1, <3>2, <3>3
    <2>3. CASE PostAdvance(p)
      <3> DEFINE r == advance_producer(buf[PostTo].q)
      <3>1. IsQueue(r, Nat)
        BY <2>1, AdvanceProducerTypes
      <3>2. buf' = [buf EXCEPT ![PostTo].q = r]
        BY <2>3 DEF PostAdvance
      <3> HIDE DEF r
      <3> QED
        BY <1>7, <2>1, <3>1, <3>2
    <2> QED
      BY <1>9, <2>2, <2>3
  <1>10. ASSUME NEW c \in Responders, GetAdvance(c) PROVE BufTypes' /\ BuffersCounted'
    <2> DEFINE r == advance_consumer(buf[kq].q)
    <2>1. kq \in 1 .. Len(buf) /\ IsQueue(buf[kq].q, Nat)
      BY <1>3, <1>10 DEF GetAdvance
    <2>2. IsQueue(r, Nat)
      BY <2>1, AdvanceConsumerDrops
    <2>3. buf' = [buf EXCEPT ![kq].q = r] /\ UNCHANGED <<kq, uq, child, mod>>
      BY <1>10 DEF GetAdvance, user
    <2> HIDE DEF r
    <2> QED
      BY <1>7, <2>1, <2>2, <2>3
  <1>11. CASE ResizeInit
    <2> DEFINE x == NewBuf(mod.size)
               vs == [m \in 1 .. Len(buf) + 1 |-> IF m = Len(buf) + 1 THEN 1 ELSE us[m]]
    <2>1. IsQueue(queue_init(mod.size, Blank), Nat)
      BY <1>1, <1>11, NewQueue DEF ResizeInit, PlainTypes
    <2>2. x \in Buffers /\ IsQueue(x.q, Nat) /\ x.ref = 1 /\ ~x.freed
      <3>1. (kind = "user") \in BOOLEAN /\ queue_init(mod.size, Blank) \in Rings
        BY <2>1, QueueIsRing
      <3> QED
        BY <2>1, <3>1 DEF NewBuf, Buffers
    <2>3. buf' = Append(buf, x) /\ UNCHANGED <<kq, uq, child>> /\ mod'.pc = "finish" /\ mod.pc = "init"
      BY <1>3, <1>11 DEF ResizeInit, user
    <2> HIDE DEF x
    <2>4. GoodBufs(buf', vs) /\ Len(buf') = Len(buf) + 1
      BY <1>2, <2>2, <2>3, AppendGood
    <2>5. Fresh = 0 /\ Fresh' = Len(buf) + 1
      BY <2>3, <2>4 DEF Fresh, latest
    <2>6. ASSUME NEW m \in 1 .. Len(buf) + 1 PROVE vs[m] = Users(m)'
      <3>1. vs[m] = IF m = Len(buf) + 1 THEN 1 ELSE us[m]
        OBVIOUS
      <3>2. m \in Nat \ {0} /\ (m # Len(buf) + 1 => m \in 1 .. Len(buf))
        BY <1>3
      <3>a. m \in 1 .. Len(buf) => us[m] = at(kq, m) + at(uq, m) + at(child, m) + at(Fresh, m)
        BY <1>4
      <3>b. Users(m)' = at(kq', m) + at(uq', m) + at(child', m) + at(Fresh', m)
        BY <1>5
      <3> HIDE DEF vs
      <3> QED
        BY <1>3, <2>3, <2>5, <3>1, <3>2, <3>a, <3>b DEF at
    <2> HIDE DEF vs
    <2>7. kq' \in 0 .. Len(buf') /\ uq' \in 0 .. Len(buf') /\ child' \in 0 .. Len(buf')
      BY <1>3, <2>3, <2>4
    <2> QED
      BY <2>4, <2>6, <2>7, GoodNext
  <1>12. CASE ResizeFinish
    <2> DEFINE r == resize_finish(ring, buf[latest].q)
               b == [buf EXCEPT ![latest].q = r]
               vs == [us EXCEPT ![kq] = @ - 1]
    <2>1. /\ mod.pc = "finish" /\ kq \in 1 .. Len(buf) /\ kq < Len(buf) /\ uq < Len(buf)
          /\ child < Len(buf) /\ latest \in 1 .. Len(buf) /\ buf[latest].q.cons = 0
          /\ Fresh = Len(buf)
      BY <1>1, <1>3, <1>12 DEF ResizeFinish, Placed, Modifying, Fresh
    <2>2. IsQueue(ring, Nat) /\ IsQueue(buf[latest].q, Nat) /\ ~resize_fails(ring, buf[latest].q)
      BY <1>3, <1>12, <2>1 DEF ResizeFinish, ring
    <2>3. IsQueue(r, Nat)
      BY <2>1, <2>2, ResizeMoves
    <2>4. /\ buf' = put(b, kq) /\ kq' = Len(buf) /\ UNCHANGED <<uq, child>>
          /\ mod'.pc \notin {"finish", "cleanup"}
      BY <1>3, <1>12 DEF ResizeFinish, user
    <2> HIDE DEF r
    <2>5. GoodBufs(b, us) /\ Len(b) = Len(buf)
      <3>1. PICK n \in 1 .. Len(buf) : n = latest
        BY <2>1
      <3>2. GoodBufs([buf EXCEPT ![n].q = r], us) /\ Len([buf EXCEPT ![n].q = r]) = Len(buf)
        BY <1>2, <2>3, RingGood
      <3> QED
        BY <3>1, <3>2
    <2> HIDE DEF b
    <2>6. us[kq] # 0
      BY <1>6, <2>1
    <2>7. GoodBufs(buf', vs) /\ Len(buf') = Len(buf)
      BY <2>1, <2>4, <2>5, <2>6, PutGood, ZenonT(60)
    <2>8. Fresh' = 0
      BY <2>4 DEF Fresh
    <2>9. ASSUME NEW m \in 1 .. Len(buf) PROVE vs[m] = Users(m)'
      <3>1. vs[m] = IF m = kq THEN us[m] - 1 ELSE us[m]
        BY <1>n
      <3>2. m \in Nat \ {0}
        OBVIOUS
      <3>a. us[m] = at(kq, m) + at(uq, m) + at(child, m) + at(Fresh, m)
        BY <1>4
      <3>b. Users(m)' = at(kq', m) + at(uq', m) + at(child', m) + at(Fresh', m)
        BY <1>5
      <3> HIDE DEF vs
      <3> QED
        BY <1>3, <2>1, <2>4, <2>8, <3>1, <3>2, <3>a, <3>b DEF at
    <2> HIDE DEF vs
    <2> QED
      BY <1>3, <2>4, <2>7, <2>9, GoodNext
  <1>13. CASE ResizeCleanup
    <2> DEFINE b == put(buf, latest)
               vs == [us EXCEPT ![latest] = @ - 1]
               ws == [vs EXCEPT ![kq] = @ - 1]
    <2>1. /\ mod.pc = "cleanup" /\ kq \in 1 .. Len(buf) /\ kq < Len(buf) /\ uq < Len(buf)
          /\ child < Len(buf) /\ latest \in 1 .. Len(buf) /\ Fresh = Len(buf)
      BY <1>1, <1>3, <1>13 DEF ResizeCleanup, Placed, Modifying, Fresh
    <2>2. buf' = put(b, kq) /\ kq' = 0 /\ UNCHANGED <<uq, child>> /\ mod'.pc \notin {"finish", "cleanup"}
      BY <1>3, <1>13 DEF ResizeCleanup, user
    <2>3. us[kq] # 0 /\ us[latest] # 0
      BY <1>3, <1>6, <2>1
    <2>4. GoodBufs(b, vs) /\ Len(b) = Len(buf)
      BY <1>2, <2>1, <2>3, PutGood
    <2>5. vs[kq] # 0 /\ \A m \in 1 .. Len(buf) : vs[m] = IF m = Len(buf) THEN us[m] - 1 ELSE us[m]
      BY <1>3, <1>n, <2>1, <2>3
    <2>e. vs \in [1 .. Len(buf) -> Nat]
      BY <2>4 DEF GoodBufs
    <2> HIDE DEF b, vs
    <2>6. GoodBufs(buf', ws) /\ Len(buf') = Len(buf)
      BY <2>1, <2>2, <2>4, <2>5, PutGood
    <2>8. Fresh' = 0
      BY <2>2 DEF Fresh
    <2>9. ASSUME NEW m \in 1 .. Len(buf) PROVE ws[m] = Users(m)'
      <3>1. ws[m] = IF m = kq THEN vs[m] - 1 ELSE vs[m]
        BY <2>e
      <3>2. m \in Nat \ {0}
        OBVIOUS
      <3>3. vs[m] = IF m = Len(buf) THEN us[m] - 1 ELSE us[m]
        BY <2>5
      <3>a. us[m] = at(kq, m) + at(uq, m) + at(child, m) + at(Fresh, m)
        BY <1>4
      <3>b. Users(m)' = at(kq', m) + at(uq', m) + at(child', m) + at(Fresh', m)
        BY <1>5
      <3> HIDE DEF ws
      <3> QED
        BY <1>3, <2>1, <2>2, <2>8, <3>1, <3>2, <3>3, <3>a, <3>b DEF at
    <2> HIDE DEF ws
    <2> QED
      BY <1>3, <2>2, <2>6, <2>9, GoodNext
  <1>14. CASE ResizeNoMemory \/ Destroy
    <2>1. /\ kq \in 1 .. Len(buf) /\ buf' = put(buf, kq) /\ kq' = 0 /\ UNCHANGED <<uq, child>>
          /\ mod.pc \notin {"finish", "cleanup"} /\ mod'.pc \notin {"finish", "cleanup"}
      BY <1>1, <1>3, <1>14 DEF ResizeNoMemory, Destroy, Placed, Modifying, user
    <2>2. Fresh = 0 /\ Fresh' = 0
      BY <2>1 DEF Fresh
    <2> QED
      BY <1>6, <1>8, <2>1, <2>2
  <1>15. CASE (Munmap /\ uq # 0) \/ DestroyUnmap
    <2>1. /\ uq \in 1 .. Len(buf) /\ buf' = put(buf, uq) /\ uq' = 0 /\ UNCHANGED <<kq, child>>
          /\ mod.pc \notin {"finish", "cleanup"} /\ mod'.pc \notin {"finish", "cleanup"}
      BY <1>3, <1>15 DEF Munmap, DestroyUnmap
    <2>2. Fresh = 0 /\ Fresh' = 0
      BY <2>1 DEF Fresh
    <2> QED
      BY <1>6, <1>8, <2>1, <2>2
  <1>16. CASE ChildExit
    <2> DEFINE vs == [us EXCEPT ![child] = @ - 1]
    <2>1. /\ child \in 1 .. Len(buf) /\ buf' = put(buf, child) /\ child' = 0
          /\ UNCHANGED <<kq, uq, mod>>
      BY <1>3, <1>16 DEF ChildExit
    <2>2. GoodBufs(buf', vs) /\ Len(buf') = Len(buf)
      BY <1>2, <1>6, <2>1, PutGood
    <2>3. Fresh' = Fresh
      BY <2>1, <2>2 DEF Fresh, latest
    <2>4. ASSUME NEW m \in 1 .. Len(buf) PROVE vs[m] = Users(m)'
      <3>1. vs[m] = IF m = child THEN us[m] - 1 ELSE us[m]
        BY <1>n
      <3>2. m \in Nat \ {0}
        OBVIOUS
      <3>3. at(Fresh, m) \in Nat
        BY DEF at
      <3>a. us[m] = at(kq, m) + at(uq, m) + at(child, m) + at(Fresh, m)
        BY <1>4
      <3>b. Users(m)' = at(kq', m) + at(uq', m) + at(child', m) + at(Fresh', m)
        BY <1>5
      <3> HIDE DEF vs
      <3> QED
        BY <1>3, <2>1, <2>3, <3>1, <3>2, <3>3, <3>a, <3>b DEF at
    <2> HIDE DEF vs
    <2> QED
      BY <1>3, <2>1, <2>2, <2>4, GoodNext
  <1>17. ASSUME NEW n \in 1 .. Len(buf), us[n] # 0, buf' = get(buf, n), UNCHANGED kq,
                \/ uq = 0 /\ uq' = n /\ UNCHANGED child /\ Fresh = 0 /\ Fresh' = 0
                \/ child = 0 /\ child' = n /\ UNCHANGED <<uq, mod>>
         PROVE  BufTypes' /\ BuffersCounted'
    <2> DEFINE vs == [us EXCEPT ![n] = @ + 1]
    <2>1. GoodBufs(buf', vs) /\ Len(buf') = Len(buf)
      BY <1>2, <1>17, GetGood
    <2>2. Fresh' = Fresh
      BY <1>17, <2>1 DEF Fresh, latest
    <2>3. ASSUME NEW m \in 1 .. Len(buf) PROVE vs[m] = Users(m)'
      <3>1. vs[m] = IF m = n THEN us[m] + 1 ELSE us[m]
        BY <1>n
      <3>2. m \in Nat \ {0}
        OBVIOUS
      <3>3. at(Fresh, m) \in Nat
        BY DEF at
      <3>a. us[m] = at(kq, m) + at(uq, m) + at(child, m) + at(Fresh, m)
        BY <1>4
      <3>b. Users(m)' = at(kq', m) + at(uq', m) + at(child', m) + at(Fresh', m)
        BY <1>5
      <3> HIDE DEF vs
      <3> QED
        BY <1>3, <1>17, <2>2, <3>1, <3>2, <3>3, <3>a, <3>b DEF at
    <2> HIDE DEF vs
    <2> QED
      BY <1>3, <1>17, <2>1, <2>3, GoodNext
  <1>18. CASE MmapDone
    <2>1. /\ latest \in 1 .. Len(buf) /\ kq = latest /\ uq = 0 /\ mod.pc \notin {"finish", "cleanup"} /\ mod'.pc \notin {"finish", "cleanup"}
          /\ buf' = get(buf, latest) /\ uq' = latest /\ UNCHANGED <<kq, child>>
      BY <1>1, <1>3, <1>18 DEF MmapDone, Placed, Modifying
    <2>2. Fresh = 0 /\ Fresh' = 0
      BY <2>1 DEF Fresh
    <2> QED
      BY <1>6, <1>17, <2>1, <2>2
  <1>19. CASE Fork
    <2>1. /\ uq \in 1 .. Len(buf) /\ child = 0 /\ buf' = get(buf, uq) /\ child' = uq
          /\ UNCHANGED <<kq, uq, mod>>
      BY <1>3, <1>19 DEF Fork
    <2> QED
      BY <1>6, <1>17, <2>1
  <1>20. CASE MmapFind
    <2> DEFINE x == [buf[latest] EXCEPT !.pending = FALSE]
    <2>1. /\ latest \in 1 .. Len(buf) /\ UNCHANGED <<kq, uq, child>>
          /\ mod.pc \notin {"finish", "cleanup"} /\ mod'.pc \notin {"finish", "cleanup"} /\ buf[latest] \in Buffers
          /\ buf' = [buf EXCEPT ![latest].pending = FALSE]
      BY <1>1, <1>3, <1>20 DEF MmapFind, Placed, Modifying, user
    <2>2. x \in Buffers /\ x.q = buf[latest].q /\ x.ref = buf[latest].ref
          /\ x.freed = buf[latest].freed /\ x.pending = FALSE
      BY <2>1 DEF Buffers
    <2>3. buf' = [buf EXCEPT ![latest] = x]
      BY <1>3, <2>1
    <2> HIDE DEF x
    <2>4. buf' \in Seq(Buffers) /\ Len(buf') = Len(buf)
      <3>1. PICK n \in 1 .. Len(buf) : n = latest
        BY <2>1
      <3>2. x \in Buffers /\ buf' = [buf EXCEPT ![n] = x]
        BY <2>2, <2>3, <3>1
      <3> QED
        BY <1>3, <3>2
    <2>5. \A m \in 1 .. Len(buf) : IsQueue(buf'[m].q, Nat) /\ Counted(buf', m, us[m])
      <3> TAKE m \in 1 .. Len(buf)
      <3>1. IsQueue(buf[m].q, Nat) /\ Counted(buf, m, us[m])
        BY <1>2 DEF GoodBufs
      <3>2. CASE m = latest
        BY <1>3, <2>1, <2>2, <2>3, <3>1, <3>2 DEF Counted
      <3>3. CASE m # latest
        BY <1>3, <2>1, <2>3, <3>1, <3>3 DEF Counted
      <3> QED
        BY <3>2, <3>3
    <2>6. GoodBufs(buf', us)
      BY <1>n, <2>4, <2>5 DEF GoodBufs
    <2>7. Fresh = 0 /\ Fresh' = 0
      BY <2>1 DEF Fresh
    <2>8. \A m \in 1 .. Len(buf) : us[m] = Users(m)'
      BY <1>4, <1>5, <2>1, <2>7
    <2> QED
      BY <1>3, <2>1, <2>4, <2>6, <2>8, GoodNext
  <1>21. ASSUME UNCHANGED <<buf, kq, uq, child>>,
                mod'.pc \in {"finish", "cleanup"} <=> mod.pc \in {"finish", "cleanup"}
         PROVE  BufTypes' /\ BuffersCounted'
    <2>1. Fresh' = Fresh
      BY <1>21 DEF Fresh, latest
    <2> QED
      BY <1>21, <2>1, SameBufs
  <1>22. CASE (Munmap /\ uq = 0) \/ MmapFails \/ ResizeTooSmall \/ \E s \in ResizeTo : ResizeBegin(s)
    BY <1>3, <1>21, <1>22 DEF Munmap, MmapFails, ResizeTooSmall, ResizeBegin, queue, user
  <1>23. CASE \/ \E p \in Posters : PostLock(p) \/ PostFull(p)
              \/ \E c \in Responders : GetHead(c) \/ GetTest(c) \/ GetDisarm(c) \/ GetEvent(c)
              \/ \E l \in Limits : Arm(l)
              \/ UNCHANGED vars
    <2>1. UNCHANGED <<buf, kq, uq, child, mod>>
      BY <1>23 DEF PostLock, PostFull, GetHead, GetTest, GetDisarm, GetEvent, Arm, vars, queue, user
    <2> QED
      BY <1>21, <2>1
  <1> QED
    BY <1>9, <1>10, <1>11, <1>12, <1>13, <1>14, <1>15, <1>16, <1>18, <1>19, <1>20, <1>22, <1>23
    DEF Next

LEMMA PlaceStep ==
  ASSUME BufInv, [Next]_vars
  PROVE  Placed'
  <1>1. PlainTypes /\ Placed /\ Locked
    BY DEF BufInv
  <1>2. /\ buf \in Seq(Buffers) /\ Len(buf) \in Nat /\ latest = Len(buf) /\ latest' = Len(buf')
        /\ kq \in 0 .. Len(buf) /\ uq \in 0 .. Len(buf) /\ child \in 0 .. Len(buf)
        /\ \A n \in 1 .. Len(buf) : IsQueue(buf[n].q, Nat)
    BY DEF BufInv, BufTypes, latest
  <1>3. /\ kind \in {"user", "kernel"} /\ DOMAIN mod = {"pc", "size"}
        /\ \A n \in {kq, uq, child} : n # 0 => n \in 1 .. Len(buf) /\ buf[n].ref # 0
    <2>1. ASSUME NEW n \in {kq, uq, child}, n # 0 PROVE n \in 1 .. Len(buf) /\ buf[n].ref # 0
      <3>1. n \in 1 .. Len(buf)
        BY <1>2, <2>1
      <3>2. at(kq, n) = 1 \/ at(uq, n) = 1 \/ at(child, n) = 1
        BY DEF at
      <3>3. Users(n) # 0
        BY <3>2, UsersAre DEF at
      <3> QED
        BY <1>2, <3>1, <3>3, InUse
    <2> QED
      BY <1>1, <2>1 DEF PlainTypes
  <1> USE DEF Placed
  <1>4. ASSUME UNCHANGED <<kind, kq, uq, mod>>, child' \in {child, uq, 0}, Len(buf') = Len(buf),
               mod.pc \in {"finish", "cleanup"} => buf'[Len(buf)].q = buf[Len(buf)].q
        PROVE  Placed'
    <2>1. mod.pc \in {"finish", "cleanup"} => child' < latest
      BY <1>1, <1>2, <1>4 DEF Modifying
    <2>2. kind = "kernel" => child' = 0
      BY <1>1, <1>4
    <2> QED
      BY <1>1, <1>2, <1>4, <2>1, <2>2
  <1>5. ASSUME NEW p \in Posters, PostFill(p) \/ PostAdvance(p) PROVE Placed'
    <2>1. PICK n \in 1 .. Len(buf) : n = PostTo
      <3>1. PostTo \in 0 .. Len(buf) /\ PostTo # 0
        BY <1>2, <1>5 DEF PostFill, PostAdvance, PostTo
      <3> QED
        BY <1>2, <3>1
    <2>2. UNCHANGED <<kind, kq, uq, child, mod>> /\ \E r : buf' = [buf EXCEPT ![n].q = r]
      <3>1. CASE PostFill(p)
        BY <2>1, <3>1 DEF PostFill, user
      <3>2. CASE PostAdvance(p)
        BY <2>1, <3>2 DEF PostAdvance, user
      <3> QED
        BY <1>5, <3>1, <3>2
    <2>3. Len(buf') = Len(buf) /\ \A m \in 1 .. Len(buf) : m # n => buf'[m] = buf[m]
      BY <1>2, <2>2
    <2>4. mod.pc \in {"finish", "cleanup"} => n < Len(buf)
      BY <1>1, <1>2, <2>1 DEF PostTo
    <2>5. mod.pc \in {"finish", "cleanup"} => buf'[Len(buf)].q = buf[Len(buf)].q
      BY <1>2, <2>3, <2>4
    <2> QED
      BY <1>4, <2>2, <2>3, <2>5
  <1>6. ASSUME NEW c \in Responders, GetAdvance(c) PROVE Placed'
    <2>1. PICK n \in 1 .. Len(buf) : n = kq
      BY <1>2, <1>6 DEF GetAdvance
    <2>2. UNCHANGED <<kind, kq, uq, child, mod>> /\ \E r : buf' = [buf EXCEPT ![n].q = r]
      BY <1>6, <2>1 DEF GetAdvance, user
    <2>3. Len(buf') = Len(buf) /\ \A m \in 1 .. Len(buf) : m # n => buf'[m] = buf[m]
      BY <1>2, <2>2
    <2>4. mod.pc \in {"finish", "cleanup"} => n < Len(buf)
      BY <1>1, <1>2, <2>1
    <2>5. mod.pc \in {"finish", "cleanup"} => buf'[Len(buf)].q = buf[Len(buf)].q
      BY <1>2, <2>3, <2>4
    <2> QED
      BY <1>4, <2>2, <2>3, <2>5
  <1>7. CASE Fork \/ ChildExit
    <2>1. /\ UNCHANGED <<kind, kq, uq, mod>> /\ child' \in {child, uq, 0}
          /\ \E n \in 1 .. Len(buf) : buf' = get(buf, n) \/ (buf[n].ref # 0 /\ buf' = put(buf, n))
      BY <1>3, <1>7 DEF Fork, ChildExit
    <2>2. Len(buf') = Len(buf) /\ \A m \in 1 .. Len(buf) : buf'[m].q = buf[m].q
      BY <1>2, <2>1, KrefKeepsRings
    <2>3. mod.pc \in {"finish", "cleanup"} => Len(buf) \in 1 .. Len(buf)
      BY <1>1, <1>2
    <2> QED
      BY <1>4, <2>1, <2>2, <2>3
  <1>8. CASE ResizeInit
    <2>1. /\ UNCHANGED <<kind, kq, uq, child>> /\ mod.pc = "init" /\ mod'.pc = "finish"
          /\ buf' = Append(buf, NewBuf(mod.size)) /\ mod.size \in ResizeTo
      BY <1>1, <1>3, <1>8 DEF ResizeInit, user, PlainTypes
    <2>2. Len(buf') = Len(buf) + 1 /\ buf'[Len(buf) + 1] = NewBuf(mod.size)
      BY <1>2, <2>1
    <2>3. NewBuf(mod.size).q.cons = 0
      BY <2>1, NewQueue DEF NewBuf
    <2>4. kq < Len(buf) + 1 /\ uq < Len(buf) + 1 /\ child < Len(buf) + 1
      BY <1>2
    <2>5. /\ kq # 0
          /\ kind = "kernel" => uq = 0 /\ child = 0
          /\ kq # 0 /\ uq # 0 => uq = kq
      BY <1>1, <2>1 DEF Modifying
    <2> QED
      BY <1>2, <2>1, <2>2, <2>3, <2>4, <2>5
  <1>9. CASE ResizeFinish
    <2>1. /\ UNCHANGED <<kind, uq, child>> /\ mod.pc = "finish" /\ kq # 0
          /\ mod'.pc = IF kind = "user" THEN "munmap" ELSE "idle"
          /\ kq' = Len(buf) /\ Len(buf) # 0
      BY <1>1, <1>2, <1>3, <1>9 DEF ResizeFinish, user, Modifying
    <2>2. Len(buf') = Len(buf)
      <3> DEFINE b == [buf EXCEPT ![latest].q = resize_finish(ring, buf[latest].q)]
      <3>1. buf' = put(b, kq) /\ Len(b) = Len(buf)
        BY <1>2, <1>9 DEF ResizeFinish
      <3> HIDE DEF b
      <3>2. Len(put(b, kq)) = Len(b)
        BY DEF put
      <3> QED
        BY <3>1, <3>2
    <2> QED
      BY <1>1, <1>2, <1>3, <2>1, <2>2
  <1>10. CASE ResizeNoMemory \/ ResizeCleanup \/ Destroy
    <2>1. UNCHANGED <<kind, uq, child>> /\ kq' = 0 /\ mod'.pc \in {"idle", "destroyed"}
      BY <1>3, <1>10 DEF ResizeNoMemory, ResizeCleanup, Destroy, user
    <2> QED
      BY <1>1, <2>1 DEF Modifying
  <1>11. CASE Munmap \/ MmapFind
    <2>1. /\ UNCHANGED <<kind, kq, child>> /\ mod.pc \in {"munmap", "mmap"}
          /\ uq' = 0 /\ mod'.pc \in {"mmap", "remap"}
      BY <1>1, <1>3, <1>11 DEF Munmap, MmapFind, user
    <2>2. Len(buf') = Len(buf)
      BY <1>2, <1>11 DEF Munmap, MmapFind, put
    <2> QED
      BY <1>1, <1>2, <2>1, <2>2 DEF Modifying
  <1>12. CASE MmapDone \/ MmapFails
    <2>1. /\ UNCHANGED <<kind, kq, child>> /\ mod.pc = "remap" /\ mod'.pc = "idle"
          /\ uq' \in {0, kq} /\ kind = "user"
      BY <1>1, <1>3, <1>12 DEF MmapDone, MmapFails, queue, user, Locked
    <2> QED
      BY <1>1, <2>1 DEF Modifying
  <1>13. CASE DestroyUnmap
    <2>1. UNCHANGED <<kind, kq, child, mod>> /\ mod.pc = "destroyed" /\ uq' = 0
      BY <1>13 DEF DestroyUnmap
    <2> QED
      BY <1>1, <2>1 DEF Modifying
  <1>14. ASSUME NEW s \in ResizeTo, ResizeBegin(s) PROVE Placed'
    <2>1. UNCHANGED <<kind, kq, uq, child, buf>> /\ mod.pc = "idle" /\ kq # 0 /\ mod'.pc = "init"
      BY <1>14 DEF ResizeBegin, queue, user
    <2> QED
      BY <1>1, <2>1 DEF Modifying
  <1>15. CASE \/ \E p \in Posters : PostLock(p) \/ PostFull(p)
              \/ \E c \in Responders : GetHead(c) \/ GetTest(c) \/ GetDisarm(c) \/ GetEvent(c)
              \/ \E l \in Limits : Arm(l)
              \/ UNCHANGED vars
    <2>1. UNCHANGED <<buf, kq, uq, child, mod, kind>>
      BY <1>15 DEF PostLock, PostFull, GetHead, GetTest, GetDisarm, GetEvent, Arm, vars, queue, user
    <2> QED
      BY <1>4, <2>1
  <1>16. CASE ResizeTooSmall
    <2>1. UNCHANGED <<kind, kq, uq, child, buf>> /\ mod.pc = "finish" /\ mod'.pc = "cleanup"
      BY <1>1, <1>3, <1>16 DEF ResizeTooSmall, queue, user
    <2> QED
      BY <1>1, <1>2, <2>1 DEF Modifying
  <1> QED
    BY <1>5, <1>6, <1>7, <1>8, <1>9, <1>10, <1>11, <1>12, <1>13, <1>14, <1>15, <1>16 DEF Next

LEMMA BufInit == Init => BufInv
  <1> SUFFICES ASSUME Init PROVE BufInv
    OBVIOUS
  <1> DEFINE x == [NewBuf(MaxWr) EXCEPT !.ref = IF kind = "user" THEN 2 ELSE 1, !.pending = FALSE]
  <1>1. IsQueue(queue_init(MaxWr, Blank), Nat) /\ queue_init(MaxWr, Blank) \in Rings
    BY NewQueue, QueueIsRing
  <1>2. /\ x \in Buffers /\ x.q = queue_init(MaxWr, Blank)
        /\ x.ref = (IF kind = "user" THEN 2 ELSE 1) /\ x.freed = FALSE /\ x.pending = FALSE
    BY <1>1 DEF NewBuf, Buffers
  <1>3. kind \in {"user", "kernel"} /\ buf = <<x>>
    BY SRQAssumption DEF Init
  <1> HIDE DEF x
  <1>4. buf \in Seq(Buffers) /\ Len(buf) = 1 /\ latest = 1 /\ buf[1] = x
    BY <1>2, <1>3 DEF latest
  <1>5. BufTypes
    BY <1>1, <1>2, <1>4 DEF BufTypes, Init
  <1>6. PlainTypes
    <2>1. <<>> \in Seq(Nat) /\ Blank \in Nat
      BY DEF Blank
    <2> QED
      BY <1>3, <2>1 DEF PlainTypes, Init
  <1>7. Locked
    BY <1>3, Names DEF Locked, Init, Modifying
  <1>8. Placed
    BY <1>3, <1>4 DEF Placed, Init, Modifying
  <1>9. BuffersCounted
    <2>1. kq = 1 /\ uq = (IF kind = "user" THEN 1 ELSE 0) /\ child = 0 /\ Fresh = 0
      BY DEF Init, Fresh
    <2>2. Users(1) = IF kind = "user" THEN 2 ELSE 1
      BY <1>3, <2>1, UsersAre DEF at
    <2> QED
      BY <1>2, <1>4, <2>2 DEF BuffersCounted
  <1> QED
    BY <1>5, <1>6, <1>7, <1>8, <1>9 DEF BufInv

LEMMA BufAlways == Spec => []BufInv
  <1>1. BufInv /\ [Next]_vars => BufInv'
    BY PlainStep, LockStep, BufStep, PlaceStep DEF BufInv
  <1> QED
    BY <1>1, BufInit, PTL DEF Spec

(* A buffer of an SRQ is freed exactly when the SRQ, the process's mapping   *)
(* and a child's mapping have all let go of it (rxe_queue_cleanup,           *)
(* rxe_vma_open, rxe_vma_close, rxe_mmap_release), through resizes that      *)
(* succeed or fail at any step, forks and destruction in any order.          *)
THEOREM BuffersExact == Spec => []BuffersCounted
  <1>1. BufInv => BuffersCounted
    BY DEF BufInv
  <1> QED
    BY <1>1, BufAlways, PTL

-----------------------------------------------------------------------------
(* The WQEs *)

\* The steps that leave the SRQ's ring as it is, if the SRQ still has one.
LEMMA RingKept ==
  ASSUME BufInv, [Next]_vars, kq' # 0,
         ~ \E p \in Posters : PostFill(p) \/ PostAdvance(p),
         ~ \E c \in Responders : GetAdvance(c),
         ~ ResizeFinish
  PROVE  kq # 0 /\ ring' = ring
  <1>1. Placed /\ buf \in Seq(Buffers) /\ Len(buf) \in Nat /\ latest = Len(buf)
        /\ kq \in 0 .. Len(buf) /\ uq \in 0 .. Len(buf) /\ child \in 0 .. Len(buf)
    BY DEF BufInv, BufTypes, latest
  <1>2. ASSUME NEW n \in {kq, uq, child}, n # 0 PROVE n \in 1 .. Len(buf) /\ buf[n].ref # 0
    <2>1. n \in 1 .. Len(buf)
      BY <1>1, <1>2
    <2>2. at(kq, n) = 1 \/ at(uq, n) = 1 \/ at(child, n) = 1
      BY DEF at
    <2>3. Users(n) # 0
      BY <2>2, UsersAre DEF at
    <2> QED
      BY <1>1, <2>1, <2>3, InUse
  <1>3. ASSUME kq' = kq, \A m \in 1 .. Len(buf) : buf'[m].q = buf[m].q
        PROVE  kq # 0 /\ ring' = ring
    <2>1. kq # 0 /\ kq \in 1 .. Len(buf)
      BY <1>1, <1>3
    <2> QED
      BY <1>3, <2>1 DEF ring
  <1>4. CASE Fork \/ ChildExit \/ DestroyUnmap \/ (Munmap /\ uq # 0)
    <2>1. /\ kq' = kq
          /\ \E n \in 1 .. Len(buf) : buf' = get(buf, n) \/ (buf[n].ref # 0 /\ buf' = put(buf, n))
      BY <1>2, <1>4 DEF Fork, ChildExit, DestroyUnmap, Munmap
    <2>2. \A m \in 1 .. Len(buf) : buf'[m].q = buf[m].q
      BY <1>1, <2>1, KrefKeepsRings
    <2> QED
      BY <1>3, <2>1, <2>2
  <1>5. CASE MmapDone
    <2>1. kq' = kq /\ \E n \in 1 .. Len(buf) : buf' = get(buf, n)
      BY <1>1, <1>2, <1>5 DEF MmapDone, Placed, Modifying
    <2>2. \A m \in 1 .. Len(buf) : buf'[m].q = buf[m].q
      BY <1>1, <2>1, KrefKeepsRings
    <2> QED
      BY <1>3, <2>1, <2>2
  <1>6. CASE MmapFind
    <2>1. kq' = kq /\ buf' = [buf EXCEPT ![latest].pending = FALSE]
      BY <1>6 DEF MmapFind
    <2>2. \A m \in 1 .. Len(buf) : buf'[m].q = buf[m].q
      BY <1>1, <2>1 DEF Buffers
    <2> QED
      BY <1>3, <2>1, <2>2
  <1>7. CASE ResizeInit
    <2>1. kq' = kq /\ buf' = Append(buf, NewBuf(mod.size))
      BY <1>7 DEF ResizeInit
    <2>2. \A m \in 1 .. Len(buf) : buf'[m] = buf[m]
      BY <1>1, <2>1
    <2> QED
      BY <1>3, <2>1, <2>2
  <1>8. CASE ResizeNoMemory \/ ResizeCleanup \/ Destroy
    BY <1>8 DEF ResizeNoMemory, ResizeCleanup, Destroy
  <1>9. CASE \/ \E p \in Posters : PostLock(p) \/ PostFull(p)
             \/ \E c \in Responders : GetHead(c) \/ GetTest(c) \/ GetDisarm(c) \/ GetEvent(c)
             \/ \E l \in Limits : Arm(l)
             \/ \E s \in ResizeTo : ResizeBegin(s)
             \/ (Munmap /\ uq = 0) \/ MmapFails \/ ResizeTooSmall \/ UNCHANGED vars
    <2>1. UNCHANGED <<buf, kq>>
      BY <1>9 DEF PostLock, PostFull, GetHead, GetTest, GetDisarm, GetEvent, Arm, ResizeBegin,
                  Munmap, MmapFails, ResizeTooSmall, vars, queue
    <2> QED
      BY <1>3, <2>1
  <1> QED
    BY <1>4, <1>5, <1>6, <1>7, <1>8, <1>9 DEF Next

\* A poster writes to the SRQ's ring, as long as it has one.
LEMMA PostEffect ==
  ASSUME BufInv, NEW p \in Posters, PostFill(p) \/ PostAdvance(p), kq # 0
  PROVE  /\ PostTo = kq /\ kq' = kq /\ IsQueue(ring, Nat) /\ lock = p
         /\ PostFill(p) => ring' = fill_producer(ring, Len(posted) + 1) /\ ~queue_full(ring)
         /\ PostAdvance(p) => ring' = advance_producer(ring)
  <1>1. /\ Placed /\ Locked /\ PlainTypes /\ buf \in Seq(Buffers)
        /\ kq \in 1 .. Len(buf) /\ \A n \in 1 .. Len(buf) : IsQueue(buf[n].q, Nat)
    <2>1. BufTypes /\ Placed /\ Locked /\ PlainTypes
      BY DEF BufInv
    <2> QED
      BY <2>1 DEF BufTypes, latest
  <1>2. PostTo # 0 /\ pc[p] # "idle" /\ kq' = kq
    BY DEF PostFill, PostAdvance
  <1>3. lock = p /\ lock # Modifier
    BY <1>1, <1>2, Names DEF Locked
  <1>4. PostTo = kq
    BY <1>1, <1>2, <1>3 DEF PostTo, Placed, Locked, Modifying, PlainTypes
  <1>5. IsQueue(ring, Nat)
    BY <1>1 DEF ring
  <1>6. ASSUME NEW r, buf' = [buf EXCEPT ![kq].q = r] PROVE ring' = r
    BY <1>1, <1>2, <1>6 DEF ring, Buffers
  <1>7. CASE PostFill(p)
    <2>1. buf' = [buf EXCEPT ![kq].q = fill_producer(ring, Len(posted) + 1)] /\ ~queue_full(ring)
      BY <1>4, <1>7 DEF PostFill, ring
    <2>2. pc[p] = "post"
      BY <1>7 DEF PostFill
    <2>3. ~PostAdvance(p)
      BY <2>2 DEF PostAdvance
    <2> QED
      BY <1>2, <1>3, <1>4, <1>5, <1>6, <2>1, <2>3
  <1>8. CASE PostAdvance(p)
    <2>1. buf' = [buf EXCEPT ![kq].q = advance_producer(ring)]
      BY <1>4, <1>8 DEF PostAdvance, ring
    <2>2. pc[p] = "advance"
      BY <1>8 DEF PostAdvance
    <2>3. ~PostFill(p)
      BY <2>2 DEF PostFill
    <2> QED
      BY <1>2, <1>3, <1>4, <1>5, <1>6, <2>1, <2>3
  <1> QED
    BY <1>7, <1>8

LEMMA TakeEffect ==
  ASSUME BufInv, NEW c \in Responders, GetAdvance(c)
  PROVE  kq # 0 /\ kq' = kq /\ IsQueue(ring, Nat) /\ ring' = advance_consumer(ring) /\ clock = c
  <1>1. /\ Locked /\ PlainTypes /\ buf \in Seq(Buffers) /\ kq # 0
        /\ kq \in 1 .. Len(buf) /\ \A n \in 1 .. Len(buf) : IsQueue(buf[n].q, Nat)
    <2>1. BufTypes /\ Locked /\ PlainTypes /\ kq # 0
      BY DEF BufInv, GetAdvance
    <2> QED
      BY <2>1 DEF BufTypes, latest
  <1>2. buf' = [buf EXCEPT ![kq].q = advance_consumer(ring)] /\ kq' = kq /\ pc[c] = "advance"
    BY DEF GetAdvance, ring
  <1>3. ring' = advance_consumer(ring)
    BY <1>1, <1>2 DEF ring, Buffers
  <1> QED
    BY <1>1, <1>2, <1>3 DEF ring, Locked

LEMMA ResizeEffect ==
  ASSUME BufInv, ResizeFinish
  PROVE  /\ kq # 0 /\ kq' # 0 /\ IsQueue(ring, Nat) /\ IsQueue(ring', Nat)
         /\ queue_count(ring') = queue_count(ring) /\ contents(ring') = contents(ring)
         /\ clock = Nobody /\ \A p \in Posters : lock # p
  <1>1. /\ Placed /\ Locked /\ PlainTypes /\ buf \in Seq(Buffers) /\ mod.pc = "finish" /\ latest = Len(buf)
        /\ kq \in 1 .. Len(buf) /\ kq # latest /\ latest \in 1 .. Len(buf)
        /\ \A n \in 1 .. Len(buf) : IsQueue(buf[n].q, Nat)
    <2>1. BufTypes /\ Placed /\ Locked /\ PlainTypes /\ mod.pc = "finish"
      BY DEF BufInv, ResizeFinish
    <2>2. kq # 0 /\ kq < latest
      BY <2>1 DEF Placed, Modifying
    <2> QED
      BY <2>1, <2>2 DEF BufTypes, latest
  <1> DEFINE r == resize_finish(ring, buf[latest].q)
             b == [buf EXCEPT ![latest].q = r]
  <1>2. IsQueue(ring, Nat) /\ IsQueue(buf[latest].q, Nat) /\ buf[latest].q.cons = 0
        /\ ~resize_fails(ring, buf[latest].q)
    BY <1>1 DEF ring, Placed, ResizeFinish
  <1>3. /\ IsQueue(r, Nat) /\ queue_count(r) = queue_count(ring)
        /\ \A i \in 0 .. queue_count(ring) - 1 : elem_at(r, i) = elem_at(ring, i)
    BY <1>2, ResizeMoves
  <1> HIDE DEF r
  <1>4. contents(r) = contents(ring)
    BY <1>2, <1>3, ContentsSame
  <1>5. buf' = put(b, kq) /\ kq' = latest
    BY DEF ResizeFinish, r
  <1>6. b \in Seq(Buffers) /\ Len(b) = Len(buf) /\ b[latest].q = r /\ b[kq] = buf[kq]
    <2>1. PICK n \in 1 .. Len(buf) : n = latest
      BY <1>1
    <2>2. LET c == [buf EXCEPT ![n].q = r]
          IN  c \in Seq(Buffers) /\ Len(c) = Len(buf) /\ c[n].q = r
              /\ \A m \in 1 .. Len(buf) : m # n => c[m] = buf[m]
      BY <1>1, <1>3, RingIs
    <2> QED
      BY <1>1, <2>1, <2>2
  <1>7. buf[kq].ref # 0
    <2>1. at(kq, kq) = 1
      BY DEF at
    <2>2. Users(kq) # 0
      BY <2>1, UsersAre DEF at
    <2> QED
      BY <1>1, <2>2, InUse
  <1> HIDE DEF b
  <1>8. buf'[latest].q = r
    BY <1>1, <1>5, <1>6, <1>7, PutIs
  <1>9. ring' = r
    BY <1>5, <1>8 DEF ring
  <1>10. clock = Nobody /\ \A p \in Posters : lock # p
    <2>1. clock = Nobody /\ (kind = "kernel" => lock = Nobody)
      BY DEF ResizeFinish
    <2>2. kind = "user" => lock = Modifier
      BY <1>1 DEF Locked, Modifying
    <2> QED
      BY <1>1, <2>1, <2>2, Names DEF PlainTypes
  <1> QED
    BY <1>1, <1>2, <1>3, <1>4, <1>5, <1>9, <1>10

LEMMA OneMore ==
  ASSUME NEW q, IsQueue(q, Nat), queue_count(q) < q.slots - 1
  PROVE  /\ queue_count(advance_producer(q)) = queue_count(q) + 1
         /\ \A i \in 0 .. queue_count(q) - 1 : elem_at(advance_producer(q), i) = elem_at(q, i)
         /\ elem_at(advance_producer(q), queue_count(q)) = q.data[q.prod]
  <1>1. queue_count(advance_producer(q)) = queue_count(q) + 1
    BY AdvanceProducerAdds
  <1>2. ASSUME NEW i \in 0 .. queue_count(q) - 1 PROVE elem_at(advance_producer(q), i) = elem_at(q, i)
    BY DEF elem_at, advance_producer, masked, IsQueue
  <1>3. elem_at(advance_producer(q), queue_count(q)) = q.data[q.prod]
    BY AdvanceProducerAdds
  <1> QED
    BY <1>1, <1>2, <1>3

\* Who holds what between two steps.
LEMMA InHandStep ==
  ASSUME BufInv, InHand, [Next]_vars
  PROVE  InHand'
  <1>1. PlainTypes /\ Locked /\ DOMAIN pc = Posters \cup Responders /\ DOMAIN copy = Responders
    BY DEF BufInv, PlainTypes
  <1>2. SUFFICES ASSUME kq' # 0
                 PROVE  /\ \A p \in Posters : pc'[p] = "advance" =>
                             /\ queue_count(ring') < ring'.slots - 1
                             /\ ring'.data[ring'.prod] = Len(posted') + 1
                        /\ \A c \in Responders : pc'[c] = "advance" =>
                             queue_count(ring') > 0 /\ copy'[c] = elem_at(ring', 0)
    BY DEF InHand
  <1> DEFINE Goal == /\ \A p \in Posters : pc'[p] = "advance" =>
                          /\ queue_count(ring') < ring'.slots - 1
                          /\ ring'.data[ring'.prod] = Len(posted') + 1
                     /\ \A c \in Responders : pc'[c] = "advance" =>
                          queue_count(ring') > 0 /\ copy'[c] = elem_at(ring', 0)
  <1>3. \A p \in Posters : pc[p] = "advance" => lock = p
    BY <1>1 DEF Locked
  <1>4. \A c \in Responders : pc[c] = "advance" => clock = c
    BY <1>1 DEF Locked
  <1>5. ASSUME NEW p \in Posters, PostFill(p) \/ PostAdvance(p) PROVE Goal
    <2>0. kq # 0
      BY <1>2, <1>5 DEF PostFill, PostAdvance
    <2>1. /\ PostTo = kq /\ kq' = kq /\ IsQueue(ring, Nat) /\ lock = p
          /\ PostFill(p) => ring' = fill_producer(ring, Len(posted) + 1) /\ ~queue_full(ring)
          /\ PostAdvance(p) => ring' = advance_producer(ring)
      BY <1>5, <2>0, PostEffect
    <2>2. UNCHANGED copy /\ (\A c \in Responders : pc'[c] = pc[c])
          /\ \A o \in Posters : o # p => pc'[o] # "advance"
      BY <1>1, <1>3, <1>5, <2>1, Names DEF PostFill, PostAdvance
    <2>3. \A c \in Responders : pc[c] = "advance" =>
            queue_count(ring) > 0 /\ copy[c] = elem_at(ring, 0)
      BY <2>0 DEF InHand
    <2>q. queue_count(ring) \in 0 .. ring.slots - 1 /\ ring.slots \in Nat \ {0}
      BY <2>1, CountIs, IndexTypes
    <2>4. CASE PostFill(p)
      <3>1. Len(posted) + 1 \in Nat
        BY <1>1 DEF PlainTypes
      <3>2. /\ ring'.slots = ring.slots /\ ring'.prod = ring.prod
            /\ ring'.data[ring.prod] = Len(posted) + 1
            /\ queue_count(ring') = queue_count(ring)
            /\ \A i \in 0 .. queue_count(ring) - 1 : elem_at(ring', i) = elem_at(ring, i)
        BY <2>1, <2>4, <3>1, FillKeeps
      <3>3. queue_count(ring) < ring.slots - 1
        BY <2>1, <2>4, <2>q, EmptyFull
      <3>4. UNCHANGED posted
        BY <2>4 DEF PostFill, sent
      <3>5. queue_count(ring) > 0 => elem_at(ring', 0) = elem_at(ring, 0)
        BY <2>q, <3>2
      <3> QED
        BY <2>2, <2>3, <3>2, <3>3, <3>4, <3>5
    <2>5. CASE PostAdvance(p)
      <3>1. queue_count(ring) < ring.slots - 1 /\ pc'[p] = "idle"
        BY <1>1, <2>0, <2>5 DEF InHand, PostAdvance
      <3>2. /\ queue_count(ring') = queue_count(ring) + 1
            /\ \A i \in 0 .. queue_count(ring) - 1 : elem_at(ring', i) = elem_at(ring, i)
        <4>1. ring' = advance_producer(ring)
          BY <2>1, <2>5
        <4>2. /\ queue_count(advance_producer(ring)) = queue_count(ring) + 1
              /\ \A i \in 0 .. queue_count(ring) - 1 :
                    elem_at(advance_producer(ring), i) = elem_at(ring, i)
          <5>1. IsQueue(ring, Nat) /\ queue_count(ring) < ring.slots - 1
            BY <2>1, <3>1
          <5> QED
            BY <5>1, OneMore
        <4> QED
          BY <4>1, <4>2
      <3>3. queue_count(ring) > 0 => elem_at(ring', 0) = elem_at(ring, 0) /\ queue_count(ring') > 0
        BY <2>q, <3>2
      <3> QED
        BY <2>2, <2>3, <3>1, <3>3
    <2> QED
      BY <1>5, <2>4, <2>5
  <1>6. ASSUME NEW c \in Responders, GetAdvance(c) PROVE Goal
    <2>1. kq # 0 /\ IsQueue(ring, Nat) /\ ring' = advance_consumer(ring) /\ clock = c
      BY <1>6, TakeEffect
    <2>2. /\ UNCHANGED posted /\ (\A p \in Posters : pc'[p] = pc[p])
          /\ \A o \in Responders : pc'[o] # "advance"
      BY <1>1, <1>4, <1>6, <2>1, Names DEF GetAdvance
    <2>3. /\ \A p \in Posters : pc[p] = "advance" =>
               queue_count(ring) < ring.slots - 1 /\ ring.data[ring.prod] = Len(posted) + 1
          /\ queue_count(ring) > 0
      BY <1>6, <2>1 DEF InHand, GetAdvance
    <2>4. /\ ring'.slots = ring.slots /\ ring'.prod = ring.prod /\ ring'.data = ring.data
          /\ queue_count(ring') = queue_count(ring) - 1
      BY <2>1, <2>3, AdvanceConsumerDrops
    <2>5. queue_count(ring) \in Int /\ ring.slots \in Int
      BY <2>1, CountIs, IndexTypes
    <2> QED
      BY <2>2, <2>3, <2>4, <2>5
  <1>7. ASSUME ResizeFinish PROVE Goal
    <2>1. clock = Nobody /\ \A p \in Posters : lock # p
      BY <1>7, ResizeEffect
    <2>2. UNCHANGED pc
      BY <1>7 DEF ResizeFinish
    <2>3. clock \notin Responders
      BY <2>1, Names
    <2> QED
      BY <1>3, <1>4, <2>1, <2>2, <2>3
  <1>8. ASSUME kq # 0, ring' = ring, UNCHANGED posted,
               \A p \in Posters : pc'[p] = "advance" => pc[p] = "advance",
               \A c \in Responders : pc'[c] = "advance" =>
                  \/ pc[c] = "advance" /\ copy'[c] = copy[c]
                  \/ ~queue_empty(ring) /\ copy'[c] = elem_at(ring, 0)
        PROVE  Goal
    <2>1. IsQueue(ring, Nat)
      BY <1>8 DEF BufInv, BufTypes, ring, latest
    <2>2. ~queue_empty(ring) => queue_count(ring) > 0
      BY <2>1, EmptyFull, CountIs, IndexTypes
    <2> QED
      BY <1>8, <2>2 DEF InHand
  <1>9. ASSUME ~ \E p \in Posters : PostFill(p) \/ PostAdvance(p),
               ~ \E c \in Responders : GetAdvance(c),
               ~ ResizeFinish
        PROVE  Goal
    <2>1. kq # 0 /\ ring' = ring
      BY <1>2, <1>9, RingKept
    <2>2. ASSUME NEW p \in Posters, PostLock(p) \/ PostFull(p) PROVE Goal
      <3>1. /\ UNCHANGED <<posted, copy>>
            /\ \A o \in Posters : pc'[o] = "advance" => pc[o] = "advance"
            /\ \A o \in Responders : pc'[o] = pc[o]
        BY <1>1, <2>2, Names DEF PostLock, PostFull, sent
      <3> QED
        BY <1>8, <2>1, <3>1
    <2>3. ASSUME NEW c \in Responders, GetTest(c) \/ GetDisarm(c) \/ GetEvent(c) PROVE Goal
      <3>1. /\ UNCHANGED <<posted, copy>>
            /\ \A o \in Posters : pc'[o] = pc[o]
            /\ \A o \in Responders : pc'[o] = "advance" => pc[o] = "advance"
        BY <1>1, <2>3, Names DEF GetTest, GetDisarm, GetEvent, sent
      <3> QED
        BY <1>8, <2>1, <3>1
    <2>4. ASSUME NEW c \in Responders, GetHead(c) PROVE Goal
      <3>1. /\ UNCHANGED posted /\ ~queue_empty(ring) /\ copy'[c] = elem_at(ring, 0)
            /\ \A o \in Posters : pc'[o] = pc[o]
            /\ \A o \in Responders : o # c => pc'[o] = pc[o] /\ copy'[o] = copy[o]
        BY <1>1, <2>4, Names DEF GetHead, sent
      <3> QED
        BY <1>8, <2>1, <3>1
    <2>5. ASSUME UNCHANGED <<posted, pc, copy>> PROVE Goal
      BY <1>8, <2>1, <2>5
    <2>6. ASSUME \/ \E l \in Limits : Arm(l)
                 \/ \E s \in ResizeTo : ResizeBegin(s)
                 \/ ResizeInit \/ ResizeNoMemory \/ ResizeTooSmall \/ ResizeCleanup
                 \/ Munmap \/ MmapFind \/ MmapDone \/ MmapFails
                 \/ Fork \/ ChildExit \/ Destroy \/ DestroyUnmap \/ UNCHANGED vars
          PROVE  Goal
      <3>1. UNCHANGED <<posted, pc, copy>>
        BY <2>6 DEF Arm, ResizeBegin, ResizeInit, ResizeNoMemory, ResizeTooSmall, ResizeCleanup, Munmap, MmapFind,
                    MmapDone, MmapFails, Fork, ChildExit, Destroy, DestroyUnmap, vars, sent
      <3> QED
        BY <2>5, <3>1
    <2> HIDE DEF Goal
    <2> QED
      BY <1>9, <2>2, <2>3, <2>4, <2>6 DEF Next
  <1> HIDE DEF Goal
  <1>10. Goal
    BY <1>5, <1>6, <1>7, <1>9
  <1> QED
    BY <1>10 DEF Goal

\* Moving the head of one sequence to the end of another.
LEMMA MoveHead ==
  ASSUME NEW S, NEW t \in Seq(S), NEW c \in Seq(S), c # <<>>
  PROVE  Append(t, Head(c)) \o Tail(c) = t \o c
  <1>1. Head(c) \in S /\ Tail(c) \in Seq(S) /\ <<Head(c)>> \in Seq(S)
    BY HeadTailProperties
  <1>2. c = <<Head(c)>> \o Tail(c)
    <2>1. /\ Len(c) \in Nat \ {0} /\ Head(c) = c[1] /\ Len(Tail(c)) = Len(c) - 1
          /\ \A i \in 1 .. Len(Tail(c)) : Tail(c)[i] = c[i + 1]
      BY HeadTailProperties, EmptySeq
    <2> DEFINE h == <<Head(c)>>
               d == h \o Tail(c)
    <2>2. h \in Seq(S) /\ Len(h) = 1 /\ h[1] = Head(c)
      BY <1>1
    <2> HIDE DEF h
    <2>3. /\ d \in Seq(S) /\ Len(d) = Len(h) + Len(Tail(c))
          /\ \A i \in 1 .. Len(h) + Len(Tail(c)) : d[i] =
                IF i <= Len(h) THEN h[i] ELSE Tail(c)[i - Len(h)]
      BY <1>1, <2>2, ConcatProperties, Zenon
    <2> HIDE DEF d
    <2>4. ASSUME NEW i \in 1 .. Len(c) PROVE c[i] = d[i]
      <3>1. CASE i = 1
        BY <2>1, <2>2, <2>3, <3>1
      <3>2. CASE i # 1
        <4>1. i - 1 \in 1 .. Len(Tail(c)) /\ (i - 1) + 1 = i
          BY <2>1, <3>2
        <4> QED
          BY <2>1, <2>2, <2>3, <3>2, <4>1
      <3> QED
        BY <3>1, <3>2
    <2>5. Len(d) = Len(c)
      BY <2>1, <2>2, <2>3
    <2>6. c = d
      BY <2>3, <2>4, <2>5, SeqEqual
    <2> QED
      BY <2>6 DEF d, h
  <1>3. Append(t, Head(c)) = t \o <<Head(c)>>
    BY <1>1, AppendIsConcat
  <1>4. (t \o <<Head(c)>>) \o Tail(c) = t \o (<<Head(c)>> \o Tail(c))
    BY <1>1, ConcatAssociative
  <1> QED
    BY <1>2, <1>3, <1>4, Zenon

LEMMA AppendAfter ==
  ASSUME NEW S, NEW t \in Seq(S), NEW c \in Seq(S), NEW e \in S
  PROVE  t \o Append(c, e) = Append(t \o c, e)
  <1>1. <<e>> \in Seq(S) /\ t \o c \in Seq(S)
    BY ConcatProperties
  <1>2. Append(c, e) = c \o <<e>> /\ Append(t \o c, e) = (t \o c) \o <<e>>
    BY <1>1, AppendIsConcat
  <1>3. (t \o c) \o <<e>> = t \o (c \o <<e>>)
    BY <1>1, ConcatAssociative
  <1> QED
    BY <1>2, <1>3, Zenon

LEMMA TakenStep ==
  ASSUME BufInv, InHand, EachTakenOnce, [Next]_vars
  PROVE  EachTakenOnce'
  <1>1. PlainTypes
    BY DEF BufInv
  <1>2. posted \in Seq(Nat) /\ taken \in Seq(Nat) /\ Len(posted) + 1 \in Nat
    BY <1>1 DEF PlainTypes
  <1> DEFINE Goal == posted' = taken' \o contents(ring')
  <1>3. SUFFICES ASSUME kq' # 0 PROVE Goal
    BY DEF EachTakenOnce
  <1>4. ASSUME NEW p \in Posters, PostFill(p) \/ PostAdvance(p) PROVE Goal
    <2>0. kq # 0
      BY <1>3, <1>4 DEF PostFill, PostAdvance
    <2>1. /\ IsQueue(ring, Nat)
          /\ PostFill(p) => ring' = fill_producer(ring, Len(posted) + 1)
          /\ PostAdvance(p) => ring' = advance_producer(ring)
      BY <1>4, <2>0, PostEffect
    <2>2. posted = taken \o contents(ring) /\ IsQueue(ring, Nat)
      BY <2>0, <2>1 DEF EachTakenOnce
    <2>3. CASE PostFill(p)
      <3>1. UNCHANGED <<posted, taken>>
        BY <2>3 DEF PostFill, sent
      <3> DEFINE r == fill_producer(ring, Len(posted) + 1)
      <3>2. /\ IsQueue(r, Nat) /\ queue_count(r) = queue_count(ring)
            /\ \A i \in 0 .. queue_count(ring) - 1 : elem_at(r, i) = elem_at(ring, i)
        BY <1>2, <2>2, FillKeeps
      <3>3. ring' = r
        BY <2>1, <2>3
      <3> HIDE DEF r
      <3>4. contents(r) = contents(ring)
        BY <2>2, <3>2, ContentsSame
      <3> QED
        BY <2>2, <3>1, <3>3, <3>4
    <2>4. CASE PostAdvance(p)
      <3>1. posted' = Append(posted, Len(posted) + 1) /\ taken' = taken
        BY <2>4 DEF PostAdvance
      <3> DEFINE r == advance_producer(ring)
      <3>2. queue_count(ring) < ring.slots - 1 /\ ring.data[ring.prod] = Len(posted) + 1
        BY <2>0, <2>4 DEF InHand, PostAdvance
      <3>3. /\ IsQueue(r, Nat) /\ queue_count(r) = queue_count(ring) + 1
            /\ \A i \in 0 .. queue_count(ring) - 1 : elem_at(r, i) = elem_at(ring, i)
            /\ elem_at(r, queue_count(ring)) = ring.data[ring.prod]
        BY <2>2, <3>2, AdvanceProducerAdds
      <3>4. ring' = r
        BY <2>1, <2>4
      <3> HIDE DEF r
      <3>5. contents(r) = Append(contents(ring), Len(posted) + 1) /\ contents(ring) \in Seq(Nat)
        <4>1. contents(r) = Append(contents(ring), elem_at(r, queue_count(ring)))
          BY <2>2, <3>3, ContentsAppend
        <4>2. contents(ring) \in Seq(Nat)
          BY <2>2, ContentsIs
        <4> QED
          BY <3>2, <3>3, <4>1, <4>2
      <3>6. taken \o Append(contents(ring), Len(posted) + 1)
              = Append(taken \o contents(ring), Len(posted) + 1)
        BY <1>2, <3>5, AppendAfter
      <3> QED
        BY <2>2, <3>1, <3>4, <3>5, <3>6
    <2> QED
      BY <1>4, <2>3, <2>4
  <1>5. ASSUME NEW c \in Responders, GetAdvance(c) PROVE Goal
    <2>1. kq # 0 /\ IsQueue(ring, Nat) /\ ring' = advance_consumer(ring)
      BY <1>5, TakeEffect
    <2>2. posted' = posted /\ taken' = Append(taken, copy[c])
      BY <1>5 DEF GetAdvance
    <2>3. queue_count(ring) > 0 /\ copy[c] = elem_at(ring, 0) /\ posted = taken \o contents(ring)
      BY <1>5, <2>1 DEF InHand, EachTakenOnce, GetAdvance
    <2> DEFINE r == advance_consumer(ring)
    <2>4. /\ IsQueue(r, Nat) /\ queue_count(r) = queue_count(ring) - 1
          /\ \A i \in 0 .. queue_count(ring) - 2 : elem_at(r, i) = elem_at(ring, i + 1)
      BY <2>1, <2>3, AdvanceConsumerDrops
    <2>5. ring' = r
      BY <2>1
    <2> HIDE DEF r
    <2>6. contents(ring) # <<>> /\ contents(r) = Tail(contents(ring))
      BY <2>1, <2>3, <2>4, ContentsTail
    <2>7. contents(ring) \in Seq(Nat) /\ Head(contents(ring)) = copy[c]
      <3>1. /\ contents(ring) \in Seq(Nat)
            /\ \A i \in 1 .. queue_count(ring) : contents(ring)[i] = elem_at(ring, i - 1)
        BY <2>1, ContentsIs
      <3>2. queue_count(ring) \in Int
        BY <2>1, CountIs, IndexTypes
      <3>3. 1 \in 1 .. queue_count(ring)
        BY <2>3, <3>2
      <3>4. Head(contents(ring)) = contents(ring)[1]
        BY <2>6, <3>1
      <3>5. contents(ring)[1] = elem_at(ring, 1 - 1)
        BY <3>1, <3>3
      <3> QED
        BY <2>3, <3>1, <3>4, <3>5
    <2>8. Append(taken, Head(contents(ring))) \o Tail(contents(ring)) = taken \o contents(ring)
      BY <1>2, <2>6, <2>7, MoveHead
    <2> QED
      BY <2>2, <2>3, <2>5, <2>6, <2>7, <2>8
  <1>6. ASSUME ResizeFinish PROVE Goal
    <2>1. kq # 0 /\ contents(ring') = contents(ring)
      BY <1>6, ResizeEffect
    <2>2. UNCHANGED <<posted, taken>>
      BY <1>6 DEF ResizeFinish, sent
    <2> QED
      BY <2>1, <2>2 DEF EachTakenOnce
  <1>7. ASSUME ~ \E p \in Posters : PostFill(p) \/ PostAdvance(p),
               ~ \E c \in Responders : GetAdvance(c),
               ~ ResizeFinish
        PROVE  Goal
    <2>1. kq # 0 /\ ring' = ring
      BY <1>3, <1>7, RingKept
    <2>2. UNCHANGED <<posted, taken>>
      BY <1>7 DEF Next, PostLock, PostFull, GetHead, GetTest, GetDisarm, GetEvent, Arm, ResizeBegin,
                  ResizeInit, ResizeNoMemory, ResizeTooSmall, ResizeCleanup, Munmap, MmapFind, MmapDone, MmapFails,
                  Fork, ChildExit, Destroy, DestroyUnmap, vars, sent
    <2> QED
      BY <2>1, <2>2 DEF EachTakenOnce
  <1> QED
    BY <1>4, <1>5, <1>6, <1>7

LEMMA WqeInit == Init => InHand /\ EachTakenOnce
  <1> SUFFICES ASSUME Init PROVE InHand /\ EachTakenOnce
    OBVIOUS
  <1>1. /\ \A t \in Posters \cup Responders : pc[t] # "advance"
        /\ posted = <<>> /\ taken = <<>> /\ kq = 1
    BY DEF Init
  <1>2. InHand
    BY <1>1 DEF InHand
  <1>3. ring = queue_init(MaxWr, Blank)
    BY DEF Init, ring, NewBuf
  <1>4. IsQueue(ring, Nat) /\ queue_count(ring) = 0
    <2>1. MaxWr \in Nat \ {0} /\ MaxWr \in ResizeTo \cup {MaxWr}
      BY SRQAssumption
    <2> QED
      BY <1>3, <2>1, NewQueue
  <1>5. contents(ring) \in Seq(Nat) /\ Len(contents(ring)) = 0
    BY <1>4, ContentsIs
  <1>6. contents(ring) = <<>>
    BY <1>5
  <1>7. <<>> \o <<>> = <<>>
    BY ConcatEmptySeq, EmptySeq
  <1>8. EachTakenOnce
    BY <1>1, <1>6, <1>7 DEF EachTakenOnce
  <1> QED
    BY <1>2, <1>8

LEMMA WqeAlways == Spec => [](BufInv /\ InHand /\ EachTakenOnce)
  <1>1. BufInv /\ InHand /\ EachTakenOnce /\ [Next]_vars => (InHand /\ EachTakenOnce)'
    BY InHandStep, TakenStep
  <1> QED
    BY <1>1, WqeInit, BufAlways, PTL DEF Spec

(* Every receive WQE posted is either still in the queue or was taken by one *)
(* responder, in the order of posting, for any number of posters and         *)
(* responders and any sequence of resizes (get_srq_wqe, rxe_post_srq_recv,   *)
(* rxe_queue_resize).                                                        *)
THEOREM TakenOnceInOrder == Spec => []EachTakenOnce
  BY WqeAlways, PTL

-----------------------------------------------------------------------------
(* The limit *)

LEMMA ArmedStep ==
  ASSUME BufInv, armed => limit # 0 \/ \E c \in Responders : pc[c] = "event", [Next]_vars
  PROVE  armed' => limit' # 0 \/ \E c \in Responders : pc'[c] = "event"
  <1>1. DOMAIN pc = Posters \cup Responders
    BY DEF BufInv, PlainTypes
  <1> DEFINE Goal == armed' => limit' # 0 \/ \E c \in Responders : pc'[c] = "event"
  <1>2. ASSUME UNCHANGED <<armed, limit>>,
               \A c \in Responders : pc[c] = "event" => pc'[c] = "event"
        PROVE  Goal
    BY <1>2
  <1>3. ASSUME NEW p \in Posters, PostLock(p) \/ PostFull(p) \/ PostFill(p) \/ PostAdvance(p)
        PROVE  Goal
    <2>1. UNCHANGED <<armed, limit>> /\ \A c \in Responders : pc'[c] = pc[c]
      BY <1>1, <1>3, Names DEF PostLock, PostFull, PostFill, PostAdvance, alarm
    <2> QED
      BY <1>2, <2>1
  <1>4. ASSUME NEW c \in Responders, GetHead(c) \/ GetAdvance(c) \/ GetTest(c) PROVE Goal
    <2>1. UNCHANGED <<armed, limit>>
      BY <1>4 DEF GetHead, GetAdvance, GetTest, alarm
    <2>2. pc[c] # "event" /\ \A o \in Responders : o # c => pc'[o] = pc[o]
      BY <1>1, <1>4 DEF GetHead, GetAdvance, GetTest
    <2> QED
      BY <1>2, <2>1, <2>2
  <1>5. ASSUME NEW c \in Responders, GetDisarm(c) \/ GetEvent(c) PROVE Goal
    BY <1>1, <1>5 DEF GetDisarm, GetEvent
  <1>6. ASSUME NEW l \in Limits, Arm(l) PROVE Goal
    BY <1>6 DEF Arm
  <1>7. ASSUME \/ \E s \in ResizeTo : ResizeBegin(s)
               \/ ResizeInit \/ ResizeFinish \/ ResizeNoMemory \/ ResizeTooSmall \/ ResizeCleanup
               \/ Munmap \/ MmapFind \/ MmapDone \/ MmapFails
               \/ Fork \/ ChildExit \/ Destroy \/ DestroyUnmap \/ UNCHANGED vars
        PROVE  Goal
    <2>1. UNCHANGED <<armed, limit, pc>>
      BY <1>7 DEF ResizeBegin, ResizeInit, ResizeFinish, ResizeNoMemory, ResizeTooSmall, ResizeCleanup, Munmap,
                  MmapFind, MmapDone, MmapFails, Fork, ChildExit, Destroy, DestroyUnmap, vars, alarm
    <2> QED
      BY <1>2, <2>1
  <1> HIDE DEF Goal
  <1>8. Goal
    BY <1>3, <1>4, <1>5, <1>6, <1>7 DEF Next
  <1> QED
    BY <1>8 DEF Goal

\* The consumer gives its event handler, or none, when it creates the SRQ.
LEMMA HandlerKept == [Next]_vars => handler' = handler
  BY DEF Next, PostLock, PostFull, PostFill, PostAdvance, GetHead, GetAdvance, GetTest, GetDisarm,
         GetEvent, Arm, ResizeBegin, ResizeInit, ResizeFinish, ResizeNoMemory, ResizeTooSmall,
         ResizeCleanup, Munmap, MmapFind, MmapDone, MmapFails, Fork, ChildExit, Destroy,
         DestroyUnmap, vars

Settled ==
  handler /\ kq # 0 /\ limit # 0 /\ tookSince /\ clock = Nobody => queue_count(ring) >= limit

LEMMA SettledStep ==
  ASSUME BufInv, InHand, Settled, [Next]_vars
  PROVE  Settled'
  <1>1. PlainTypes /\ Locked /\ limit \in Nat
    BY DEF BufInv, PlainTypes
  <1> DEFINE Goal == queue_count(ring') >= limit'
  <1>2. SUFFICES ASSUME handler, kq' # 0, limit' # 0, tookSince', clock' = Nobody PROVE Goal
    BY HandlerKept DEF Settled
  <1>3. ASSUME kq # 0, UNCHANGED <<limit, tookSince, clock>>,
               queue_count(ring') = queue_count(ring) \/ queue_count(ring') = queue_count(ring) + 1,
               IsQueue(ring, Nat)
        PROVE  Goal
    <2>1. queue_count(ring) \in Int
      BY <1>3, CountIs, IndexTypes
    <2>2. queue_count(ring) >= limit
      BY <1>2, <1>3 DEF Settled
    <2> QED
      BY <1>1, <1>3, <2>1, <2>2
  <1>4. ASSUME NEW p \in Posters, PostFill(p) \/ PostAdvance(p) PROVE Goal
    <2>0. kq # 0 /\ UNCHANGED <<limit, tookSince, clock>>
      BY <1>2, <1>4 DEF PostFill, PostAdvance, alarm
    <2>1. /\ IsQueue(ring, Nat)
          /\ PostFill(p) => ring' = fill_producer(ring, Len(posted) + 1)
          /\ PostAdvance(p) => ring' = advance_producer(ring)
      BY <1>4, <2>0, PostEffect
    <2>2. IsQueue(ring, Nat) /\ Len(posted) + 1 \in Nat
      BY <1>1, <2>1 DEF PlainTypes
    <2>3. ASSUME PostFill(p) PROVE queue_count(ring') = queue_count(ring)
      <3>1. queue_count(fill_producer(ring, Len(posted) + 1)) = queue_count(ring)
        BY <2>2, FillKeeps
      <3> QED
        BY <2>1, <2>3, <3>1
    <2>4. ASSUME PostAdvance(p) PROVE queue_count(ring') = queue_count(ring) + 1
      <3>1. queue_count(ring) < ring.slots - 1
        BY <2>0, <2>4 DEF InHand, PostAdvance
      <3>2. queue_count(advance_producer(ring)) = queue_count(ring) + 1
        BY <2>2, <3>1, AdvanceProducerAdds
      <3> QED
        BY <2>1, <2>4, <3>2
    <2> QED
      BY <1>3, <1>4, <2>0, <2>2, <2>3, <2>4
  <1>5. ASSUME NEW c \in Responders, GetAdvance(c) PROVE Goal
    <2>1. clock = c /\ clock' = clock
      BY <1>5, TakeEffect DEF GetAdvance
    <2> QED
      BY <1>2, <2>1, Names
  <1>6. ASSUME ResizeFinish PROVE Goal
    <2>1. kq # 0 /\ IsQueue(ring, Nat) /\ queue_count(ring') = queue_count(ring)
      BY <1>6, ResizeEffect
    <2>2. UNCHANGED <<limit, tookSince, clock>>
      BY <1>6 DEF ResizeFinish, alarm
    <2> QED
      BY <1>3, <2>1, <2>2
  <1>7. ASSUME ~ \E p \in Posters : PostFill(p) \/ PostAdvance(p),
               ~ \E c \in Responders : GetAdvance(c),
               ~ ResizeFinish
        PROVE  Goal
    <2>1. kq # 0 /\ ring' = ring
      BY <1>2, <1>7, RingKept
    <2>2. IsQueue(ring, Nat) /\ queue_count(ring) \in Int
      <3>1. IsQueue(ring, Nat)
        BY <2>1 DEF BufInv, BufTypes, ring, latest
      <3> QED
        BY <3>1, CountIs, IndexTypes
    <2>3. ASSUME NEW c \in Responders, GetHead(c) PROVE Goal
      BY <1>2, <2>3, Names DEF GetHead
    <2>4. ASSUME NEW c \in Responders, GetTest(c) PROVE Goal
      <3>1. clock = c /\ limit' = limit
        BY <1>1, <2>4 DEF Locked, GetTest
      <3>2. clock # Nobody
        BY <3>1, Names
      <3>3. ~below_limit
        BY <1>2, <2>4, <3>2 DEF GetTest
      <3> QED
        BY <1>1, <1>2, <2>1, <2>2, <3>1, <3>3 DEF below_limit
    <2>5. ASSUME NEW c \in Responders, GetDisarm(c) PROVE Goal
      BY <1>2, <2>5 DEF GetDisarm
    <2>6. ASSUME NEW l \in Limits, Arm(l) PROVE Goal
      BY <1>2, <2>6 DEF Arm
    <2>7. ASSUME \/ \E p \in Posters : PostLock(p) \/ PostFull(p)
                 \/ \E c \in Responders : GetEvent(c)
                 \/ \E s \in ResizeTo : ResizeBegin(s)
                 \/ ResizeInit \/ ResizeNoMemory \/ ResizeTooSmall \/ ResizeCleanup
                 \/ Munmap \/ MmapFind \/ MmapDone \/ MmapFails
                 \/ Fork \/ ChildExit \/ Destroy \/ DestroyUnmap \/ UNCHANGED vars
          PROVE  Goal
      <3>1. UNCHANGED <<limit, tookSince, clock>>
        BY <2>7 DEF PostLock, PostFull, GetEvent, ResizeBegin, ResizeInit, ResizeNoMemory,
                    ResizeTooSmall, ResizeCleanup, Munmap, MmapFind, MmapDone, MmapFails, Fork, ChildExit,
                    Destroy, DestroyUnmap, vars, alarm
      <3> QED
        BY <1>3, <2>1, <2>2, <3>1
    <2> HIDE DEF Goal
    <2> QED
      BY <1>7, <2>3, <2>4, <2>5, <2>6, <2>7 DEF Next
  <1> HIDE DEF Goal
  <1> QED
    BY <1>4, <1>5, <1>6, <1>7

(* get_srq_wqe and rxe_srq_from_attr share the limit without a common lock:  *)
(* an armed limit is not lost without its event, and if the SRQ has an event *)
(* handler, whenever no responder holds consumer_lock the queue is not below *)
(* a limit that a WQE was taken under.                                       *)
THEOREM LimitNotMissed == Spec => []LimitSignalled
  <1>1. LimitSignalled <=>
          /\ armed => limit # 0 \/ \E c \in Responders : pc[c] = "event"
          /\ Settled
    BY DEF LimitSignalled, Settled
  <1>2. Init => LimitSignalled
    BY DEF Init, LimitSignalled
  <1>3. BufInv /\ InHand /\ LimitSignalled /\ [Next]_vars => LimitSignalled'
    <2> SUFFICES ASSUME BufInv, InHand, LimitSignalled, [Next]_vars PROVE LimitSignalled'
      OBVIOUS
    <2>1. armed' => limit' # 0 \/ \E c \in Responders : pc'[c] = "event"
      BY <1>1, ArmedStep
    <2>2. Settled'
      BY <1>1, SettledStep
    <2> QED
      BY <2>1, <2>2 DEF LimitSignalled, Settled
  <1> QED
    BY <1>2, <1>3, WqeAlways, PTL DEF Spec
=============================================================================
