-------------------------------- MODULE RxeMem --------------------------------
(***************************************************************************)
(* Memory regions and the movement of a message's bytes through them:      *)
(* rxe_mr.c with its callers fill_packet and req_retry (rxe_req.c),        *)
(* check_rkey, send_data_in, write_data_in and process_atomic (rxe_resp.c) *)
(* and do_atomic (rxe_comp.c).                                             *)
(*                                                                         *)
(* One work request, a send or an RDMA write, is cut into packets of at    *)
(* most Mtu bytes.  The requester gathers each packet through the WQE's    *)
(* scatter/gather list (copy_data); the responder scatters it through the  *)
(* list of a receive WQE (copy_data again) or into the target region       *)
(* (rxe_mem_copy).  Packets get lost, the requester goes back to the first *)
(* unacknowledged one and rebuilds its position in the list with           *)
(* advance_dma_data, and regions are deregistered between any two packets. *)
(*                                                                         *)
(* Memory is a function from addresses to the byte each holds; a byte is   *)
(* named by the address it was at in the beginning.  A region is a record  *)
(* of its registered range and of the buffers that back it, in maps of     *)
(* BufPerMap.  page is 2^page_shift, so page = 1 stands for page_shift 0.  *)
(* An atomic is one packet without a payload; it changes Word bytes of the *)
(* target region and brings those it found back into the WQE's list.       *)
(* Reads use the same operators in the other direction and are left to     *)
(* RxeRC; inline data needs no region.                                     *)
(***************************************************************************)
EXTENDS Integers, Sequences, FiniteSets

LOCAL INSTANCE SequencesExt

CONSTANTS
  Mtu,         \* payload of a packet
  BufPerMap,   \* RXE_BUF_PER_MAP
  PageSize,    \* umem->page_size, and that of an FMR
  Word,        \* sizeof(u64), the operand of an atomic and its alignment
  AddrMod,     \* addresses are computed modulo AddrMod (2^64)
  Ram,         \* the addresses that exist
  Works        \* work requests: [op, mems, sge, recv, mr, va]

ASSUME MemAssumption ==
  /\ Mtu \in Nat \ {0} /\ BufPerMap \in Nat \ {0} /\ PageSize \in Nat \ {0}
  /\ Word \in Nat \ {0} /\ AddrMod \in Nat /\ \A a \in Ram : a \in 0..(AddrMod - 1)

VARIABLES
  wr,       \* the work request, with its regions
  valid,    \* regions in RXE_MEM_STATE_VALID (others: RXE_MEM_STATE_ZOMBIE)
  ram,      \* contents of memory
  dma,      \* wqe->dma of the requester: cur_sge, sge_offset, resid
  next,     \* req.psn - first_psn: number of the next packet to send
  acked,    \* comp.psn - first_psn
  status,   \* "run", "done", or the error that ended the work request
  net,      \* packets under way
  got,      \* resp.psn - first_psn: number of the packet expected
  rdma,     \* resp.wqe->dma
  target,   \* resp.va and resp.resid of a write
  held,     \* resp.mr is set: check_rkey has passed an atomic
  orig,     \* resp.atomic_orig, in the reply
  rstatus   \* "ok", or the error the responder found

req == <<dma, next, acked, status>>
resp == <<got, rdma, target, held, orig, rstatus>>
vars == <<wr, valid, ram, req, net, resp>>

min(a, b) == IF a < b THEN a ELSE b
Total(f) == FoldLeft(LAMBDA s, e : s + e, 0, f)
Length(sge) == Total([i \in DOMAIN sge |-> sge[i].length])

-----------------------------------------------------------------------------
(* Registration: the region records                                        *)

mem_init_dma(access) ==
  [type |-> "DMA", access |-> access, iova |-> 0, offset |-> 0, length |-> 0,
   page |-> 1, buf |-> <<>>]

(* The shift for buffers of one size is never set: min_t(int, ...) takes   *)
(* min_size's initial (size_t)(-1) for the int -1, which stays the least,  *)
(* so max_size == min_size is false and the buffers are found by walking.  *)
mem_init_phys(access, iova, buf) ==
  [type |-> "MR", access |-> access, iova |-> iova, offset |-> 0,
   length |-> Total([i \in DOMAIN buf |-> buf[i].size]), page |-> 1, buf |-> buf]

(* ib_umem_get pins whole pages; the region starts offset bytes into the   *)
(* first.                                                                  *)
mem_init_user(access, start, length, iova, pages) ==
  [type |-> "MR", access |-> access, iova |-> iova, offset |-> start % PageSize,
   length |-> length, page |-> PageSize,
   buf |-> [i \in DOMAIN pages |-> [addr |-> pages[i], size |-> PageSize]]]

mem_map_pages(access, pages, iova) ==
  [type |-> "FMR", access |-> access, iova |-> iova, offset |-> 0,
   length |-> Len(pages) * PageSize, page |-> PageSize,
   buf |-> [i \in DOMAIN pages |-> [addr |-> pages[i], size |-> PageSize]]]

-----------------------------------------------------------------------------
(* Address translation and copying                                         *)

\* Mutant: the end of the region is excluded.
mem_check_range_excl(mem, iova, length) ==
  mem.type = "DMA" \/ ( /\ iova >= mem.iova
                        /\ (iova + length) % AddrMod < mem.iova + mem.length )

mem_check_range(mem, iova, length) ==
  mem.type = "DMA" \/ ( /\ iova >= mem.iova
                        /\ (iova + length) % AddrMod <= mem.iova + mem.length )

Buf(mem, m, n) == mem.buf[m * BufPerMap + n + 1]

RECURSIVE walk(_, _, _, _)
walk(mem, m, n, offset) ==
  IF offset < Buf(mem, m, n).size
  THEN [m |-> m, n |-> n, offset |-> offset]
  ELSE IF n + 1 = BufPerMap
       THEN walk(mem, m + 1, 0, offset - Buf(mem, m, n).size)
       ELSE walk(mem, m, n + 1, offset - Buf(mem, m, n).size)

lookup_iova(mem, iova) ==
  LET offset == iova - mem.iova + mem.offset
  IN IF mem.page # 1
     THEN [m |-> (offset \div mem.page) \div BufPerMap,
           n |-> (offset \div mem.page) % BufPerMap, offset |-> offset % mem.page]
     ELSE walk(mem, 0, 0, offset)

NULL == -1

Bytes(addr, n) == [k \in 1..n |-> addr + k - 1]

RECURSIVE visit(_, _, _, _, _)
visit(mem, m, i, offset, length) ==
  IF length = 0 THEN <<>>
  ELSE LET bytes == min(Buf(mem, m, i).size - offset, length)
           rest == length - bytes
       IN Bytes(Buf(mem, m, i).addr + offset, bytes)
          \o IF i + 1 = BufPerMap THEN visit(mem, m + 1, 0, 0, rest)
                                  ELSE visit(mem, m, i + 1, 0, rest)

(* The addresses rxe_mem_copy reads or writes, in order; NULL in it for    *)
(* -EFAULT.                                                                *)
rxe_mem_copy(mem, iova, length) ==
  IF mem.type = "DMA" THEN Bytes(iova, length)
  ELSE IF ~mem_check_range(mem, iova, length) THEN <<NULL>>
  ELSE LET at == lookup_iova(mem, iova)
       IN visit(mem, at.m, at.n, at.offset, length)

(* A region is usable under a key if it is registered and allows what is   *)
(* asked; "ANY" (0 in the code) asks nothing.                             *)
lookup_mem(mr, access) ==
  mr \in valid /\ (access = "ANY" \/ access \in wr.mems[mr].access)

\* Mutant: the end of the buffer is not tested.
iova_to_vaddr_unbounded(mr, iova, length) ==
  LET mem == wr.mems[mr] IN
  IF mr \notin valid THEN NULL
  ELSE IF mem.buf = <<>> THEN iova
  ELSE IF ~mem_check_range(mem, iova, length) THEN NULL
  ELSE LET at == lookup_iova(mem, iova)
       IN Buf(mem, at.m, at.n).addr + at.offset

(* The address of length bytes that lie in one buffer (for atomics).       *)
iova_to_vaddr(mr, iova, length) ==
  LET mem == wr.mems[mr] IN
  IF mr \notin valid THEN NULL
  ELSE IF mem.buf = <<>> THEN iova
  ELSE IF ~mem_check_range(mem, iova, length) THEN NULL
  ELSE LET at == lookup_iova(mem, iova)
       IN IF at.offset + length > Buf(mem, at.m, at.n).size THEN NULL
          ELSE Buf(mem, at.m, at.n).addr + at.offset

-----------------------------------------------------------------------------
(* Moving along a scatter/gather list                                      *)

StartOf(sge) == [cur |-> 1, off |-> 0, resid |-> Length(sge)]

(* The loop of copy_data from entry cur, offset off, for left more bytes.  *)
RECURSIVE copy_loop(_, _, _, _, _)
copy_loop(sge, access, cur, off, left) ==
  IF left = 0 THEN [err |-> "ok", cur |-> cur, off |-> off, addr |-> <<>>]
  ELSE IF off >= sge[cur].length
  THEN IF cur = Len(sge)
       THEN [err |-> "ENOSPC", cur |-> cur + 1, off |-> 0, addr |-> <<>>]
       ELSE IF sge[cur + 1].length > 0 /\ ~lookup_mem(sge[cur + 1].mr, access)
       THEN [err |-> "EINVAL", cur |-> cur + 1, off |-> 0, addr |-> <<>>]
       ELSE copy_loop(sge, access, cur + 1, 0, left)
  ELSE LET bytes == min(left, sge[cur].length - off)
           addr == rxe_mem_copy(wr.mems[sge[cur].mr], sge[cur].addr + off, bytes)
           rest == copy_loop(sge, access, cur, off + bytes, left - bytes)
       IN IF addr = <<NULL>>
          THEN [err |-> "EFAULT", cur |-> cur, off |-> off, addr |-> <<>>]
          ELSE [rest EXCEPT !.addr = addr \o @]

(* On an error cur_sge keeps what the loop did, sge_offset and resid do    *)
(* not; bytes already copied stay copied.                                  *)
copy_data(sge, access, d, length) ==
  LET refused == [err |-> "EINVAL", dma |-> d, addr |-> <<>>]
      r == copy_loop(sge, access, d.cur, d.off, length)
  IN IF length = 0 THEN [err |-> "ok", dma |-> d, addr |-> <<>>]
     ELSE IF length > d.resid THEN refused
     ELSE IF d.off < sge[d.cur].length /\ ~lookup_mem(sge[d.cur].mr, access)
     THEN refused
     ELSE IF r.err # "ok"
     THEN [err |-> r.err, dma |-> [d EXCEPT !.cur = r.cur], addr |-> r.addr]
     ELSE [err |-> "ok", addr |-> r.addr,
           dma |-> [cur |-> r.cur, off |-> r.off, resid |-> d.resid - length]]

\* Mutant: the offset is not reset at the next entry.
RECURSIVE advance_keeps_offset(_, _, _)
advance_keeps_offset(sge, d, length) ==
  IF length = 0 THEN d
  ELSE LET end == d.off >= sge[d.cur].length
           cur == IF end THEN d.cur + 1 ELSE d.cur
           off == d.off
           bytes == min(length, sge[cur].length - off)
       IN IF end /\ d.cur = Len(sge) THEN [d EXCEPT !.cur = @ + 1]
          ELSE advance_keeps_offset(sge,
                 [cur |-> cur, off |-> off + bytes, resid |-> d.resid - bytes],
                 length - bytes)

RECURSIVE advance_dma_data(_, _, _)
advance_dma_data(sge, d, length) ==
  IF length = 0 THEN d
  ELSE LET end == d.off >= sge[d.cur].length
           cur == IF end THEN d.cur + 1 ELSE d.cur
           off == IF end THEN 0 ELSE d.off
           bytes == min(length, sge[cur].length - off)
       IN IF end /\ d.cur = Len(sge) THEN [d EXCEPT !.cur = @ + 1]
          ELSE advance_dma_data(sge,
                 [cur |-> cur, off |-> off + bytes, resid |-> d.resid - bytes],
                 length - bytes)

(* The position after npsn packets of the list, as a retry rebuilds it.    *)
RECURSIVE retry_first_write_send(_, _, _)
retry_first_write_send(sge, d, npsn) ==
  IF npsn = 0 THEN d
  ELSE retry_first_write_send(sge,
         advance_dma_data(sge, d, min(d.resid, Mtu)), npsn - 1)

-----------------------------------------------------------------------------
(* A message                                                               *)

NumPkt(w) == LET n == (Length(w.sge) + Mtu - 1) \div Mtu
             IN IF n = 0 THEN 1 ELSE n

Init ==
  /\ wr \in Works
  /\ valid = DOMAIN wr.mems
  /\ ram = [a \in Ram |-> a]
  /\ dma = StartOf(wr.sge) /\ next = 0 /\ acked = 0 /\ status = "run"
  /\ net = {}
  /\ got = 0 /\ rdma = StartOf(wr.recv)
  /\ target = [va |-> 0, resid |-> 0] /\ rstatus = "ok"
  /\ held = FALSE /\ orig = <<>>

(* fill_packet: a failed gather ends the work request.                     *)
Send ==
  LET payload == IF wr.op = "atomic" THEN 0 ELSE min(dma.resid, Mtu)
      c == copy_data(wr.sge, "ANY", dma, payload)
  IN /\ status = "run" /\ next < NumPkt(wr)
     /\ dma' = c.dma
     /\ IF c.err = "ok"
        THEN /\ net' = net \union {[n |-> next, data |-> [k \in 1..payload |-> ram[c.addr[k]]]]}
             /\ next' = next + 1
             /\ UNCHANGED status
        ELSE status' = "LOC_PROT_ERR" /\ UNCHANGED <<net, next>>
     /\ UNCHANGED <<wr, valid, ram, acked, resp>>

Lose(p) ==
  /\ net' = net \ {p}
  /\ UNCHANGED <<wr, valid, ram, req, resp>>

Store(addr, data) ==
  ram' = [a \in Ram |-> IF \E k \in DOMAIN addr : addr[k] = a
                        THEN data[CHOOSE k \in DOMAIN addr : addr[k] = a]
                        ELSE ram[a]]

(* send_data_in                                                            *)
RecvSend(p) ==
  LET c == copy_data(wr.recv, "LOCAL_WRITE", rdma, Len(p.data))
  IN /\ wr.op = "send" /\ rstatus = "ok" /\ p.n = got
     /\ net' = net \ {p}
     /\ Store(c.addr, p.data)
     /\ rdma' = c.dma
     /\ IF c.err = "ok"
        THEN got' = got + 1 /\ UNCHANGED rstatus
        ELSE /\ rstatus' = (IF c.err = "ENOSPC" THEN "LENGTH" ELSE "MALFORMED_WQE")
             /\ UNCHANGED got
     /\ UNCHANGED <<wr, valid, req, target, held, orig>>

(* check_rkey and write_data_in; the first packet carries the RETH.        *)
RecvWrite(p) ==
  LET t == IF p.n = 0 THEN [va |-> wr.va, resid |-> Length(wr.sge)] ELSE target
      n == Len(p.data)
      key_ok == /\ lookup_mem(wr.mr, "REMOTE_WRITE")
                /\ mem_check_range(wr.mems[wr.mr], t.va, t.resid)
      len_ok == n = min(t.resid, Mtu)
  IN /\ wr.op = "write" /\ rstatus = "ok" /\ p.n = got
     /\ net' = net \ {p}
     /\ IF key_ok /\ len_ok
        THEN /\ Store(rxe_mem_copy(wr.mems[wr.mr], t.va, n), p.data)
             /\ target' = [va |-> t.va + n, resid |-> t.resid - n]
             /\ got' = got + 1
             /\ UNCHANGED rstatus
        ELSE /\ rstatus' = (IF key_ok THEN "LENGTH" ELSE "RKEY_VIOLATION")
             /\ target' = t
             /\ UNCHANGED <<ram, got>>
     /\ UNCHANGED <<wr, valid, req, rdma, held, orig>>

(* check_rkey for an atomic; the region is held until it is executed.      *)
RecvAtomic(p) ==
  LET key_ok == /\ lookup_mem(wr.mr, "REMOTE_ATOMIC")
                /\ mem_check_range(wr.mems[wr.mr], wr.va, Word)
  IN /\ wr.op = "atomic" /\ rstatus = "ok" /\ ~held /\ p.n = got
     /\ net' = net \ {p}
     /\ held' = key_ok
     /\ rstatus' = IF key_ok THEN "ok" ELSE "RKEY_VIOLATION"
     /\ UNCHANGED <<wr, valid, ram, req, got, rdma, target, orig>>

Vaddr == iova_to_vaddr(wr.mr, wr.va, Word)
Misplaced == Vaddr = NULL \/ Vaddr % Word # 0

(* process_atomic: the word is read and changed.                           *)
ProcessAtomic ==
  /\ held /\ wr.mr \in valid /\ ~Misplaced
  /\ orig' = [k \in 1..Word |-> ram[Vaddr + k - 1]]
  /\ Store(Bytes(Vaddr, Word), [k \in 1..Word |-> AddrMod + k])
  /\ held' = FALSE /\ got' = got + 1
  /\ UNCHANGED <<wr, valid, req, net, rdma, target, rstatus>>

AtomicRefused ==
  /\ held /\ (wr.mr \notin valid \/ Misplaced)
  /\ rstatus' = IF wr.mr \in valid THEN "MISALIGNED_ATOMIC" ELSE "RKEY_VIOLATION"
  /\ held' = FALSE
  /\ UNCHANGED <<wr, valid, ram, req, net, got, rdma, target, orig>>

(* An acknowledgement of the first n packets arrives.                      *)
Ack(n) ==
  /\ wr.op # "atomic" /\ status = "run" /\ n > acked
  /\ acked' = n
  /\ status' = IF n = NumPkt(wr) THEN "done" ELSE "run"
  /\ UNCHANGED <<wr, valid, ram, dma, next, net, resp>>

(* do_atomic: the word found is copied into the list.  When that fails the *)
(* WQE is completed by COMPST_ERROR with its status as it is, not set and  *)
(* so IB_WC_SUCCESS.                                                       *)
AckAtomic ==
  LET c == copy_data(wr.sge, "LOCAL_WRITE", dma, Word)
  IN /\ wr.op = "atomic" /\ status = "run" /\ got = 1
     /\ Store(c.addr, orig)
     /\ dma' = c.dma
     /\ acked' = IF c.err = "ok" THEN 1 ELSE acked
     /\ status' = "done"
     /\ UNCHANGED <<wr, valid, next, net, resp>>

Nak ==
  /\ status = "run" /\ rstatus # "ok"
  /\ status' = rstatus
  /\ UNCHANGED <<wr, valid, ram, dma, next, acked, net, resp>>

(* req_retry for the WQE at the head of the queue.                         *)
Retry ==
  /\ status = "run" /\ next > acked
  /\ dma' = retry_first_write_send(wr.sge, StartOf(wr.sge), acked)
  /\ next' = acked
  /\ UNCHANGED <<wr, valid, ram, acked, status, net, resp>>

(* rxe_dereg_mr between two packets.                                       *)
Dereg(mr) ==
  /\ valid' = valid \ {mr}
  /\ UNCHANGED <<wr, ram, req, net, resp>>

Next ==
  \/ Send
  \/ \E p \in net : Lose(p)
  \/ \E p \in net : RecvSend(p)
  \/ \E p \in net : RecvWrite(p)
  \/ \E p \in net : RecvAtomic(p)
  \/ ProcessAtomic
  \/ AtomicRefused
  \/ \E n \in 1..got : Ack(n)
  \/ AckAtomic
  \/ Nak
  \/ Retry
  \/ \E mr \in valid : Dereg(mr)

Spec == Init /\ [][Next]_vars

-----------------------------------------------------------------------------
(* The reference: a region is the concatenation of its buffers, a list the *)
(* concatenation of its entries                                            *)

Linear(mem) ==
  SubSeq(FlattenSeq([i \in DOMAIN mem.buf |-> Bytes(mem.buf[i].addr, mem.buf[i].size)]),
         mem.offset + 1, mem.offset + mem.length)

InRange(mem, iova, length) ==
  mem.type = "DMA" \/ (iova >= mem.iova /\ iova + length <= mem.iova + mem.length)

RangeBytes(mem, iova, length) ==
  IF mem.type = "DMA" THEN Bytes(iova, length)
  ELSE SubSeq(Linear(mem), iova - mem.iova + 1, iova - mem.iova + length)

(* The bytes of a list, up to the first that is outside of its region.     *)
Inside(e) ==
  LET mem == wr.mems[e.mr]
      room == {n \in 1..e.length : InRange(mem, e.addr, n)}
  IN RangeBytes(mem, e.addr, Cardinality(room))

ListBytes(sge) ==
  LET bad == SelectInSeq(sge, LAMBDA e : Len(Inside(e)) < e.length)
      last == IF bad = 0 THEN Len(sge) ELSE bad
  IN FlattenSeq([i \in 1..last |-> Inside(sge[i])])

Source == ListBytes(wr.sge)
Target == <<[mr |-> wr.mr, addr |-> wr.va, length |-> Length(wr.sge)]>>
Dest == ListBytes(IF wr.op = "send" THEN wr.recv ELSE Target)

Placed == min(got * Mtu, Length(wr.sge))

(* What the responder has accepted is in place, byte for byte, and nothing *)
(* but the message has been written anywhere: through lists with empty     *)
(* entries, buffers of any size, regions that start inside a page, packets *)
(* that end inside an entry and a retry from any acknowledged packet.      *)
(* copy_data, rxe_mem_copy, lookup_iova and advance_dma_data together.     *)
DataIntact ==
  wr.op # "atomic" =>
    LET dest == Dest
        source == Source
    IN /\ \A j \in 1..Placed : ram[dest[j]] = source[j]
       /\ \A a \in Ram : ram[a] = a \/ \E j \in DOMAIN dest : a = dest[j] /\ ram[a] = source[j]

(* The bytes an atomic is about, by the reference, when its region has     *)
(* them; and whether an atomic can change them.                            *)
WordBytes == RangeBytes(wr.mems[wr.mr], wr.va, Word)

OneBuffer(mem, addrs) ==
  \/ mem.type = "DMA"
  \/ \E i \in DOMAIN mem.buf : \A k \in DOMAIN addrs :
       addrs[k] \in mem.buf[i].addr..(mem.buf[i].addr + mem.buf[i].size - 1)

Fits(e, access) ==
  LET mem == wr.mems[e.mr]
  IN InRange(mem, e.addr, e.length) /\ (access = "ANY" \/ access \in mem.access)

WordFits ==
  /\ Fits([mr |-> wr.mr, addr |-> wr.va, length |-> Word], "REMOTE_ATOMIC")
  /\ OneBuffer(wr.mems[wr.mr], WordBytes) /\ WordBytes[1] % Word = 0

ListFits(sge, access) ==
  \A i \in DOMAIN sge : sge[i].length > 0 => Fits(sge[i], access)

Acceptable ==
  /\ valid = DOMAIN wr.mems
  /\ ListFits(wr.sge, "ANY")
  /\ CASE wr.op = "send"   -> ListFits(wr.recv, "LOCAL_WRITE") /\ Length(wr.recv) >= Length(wr.sge)
       [] wr.op = "write"  -> Fits(Target[1], "REMOTE_WRITE")
       [] wr.op = "atomic" -> WordFits

(* A message whose list, receive list and target are within registered     *)
(* regions that allow the access, and long enough, is never refused, and   *)
(* one that completes was carried out whole by the responder:              *)
(* mem_check_range, lookup_mem, iova_to_vaddr and the error paths of       *)
(* copy_data, check_rkey, process_atomic and fill_packet.                  *)
OutcomeTrue ==
  /\ Acceptable => status \in {"run", "done"} /\ rstatus = "ok"
  /\ status = "done" => got = NumPkt(wr) /\ rstatus = "ok"

(* An atomic changes all of the aligned word at its address, in one buffer *)
(* of a region that allows it, or nothing at all, however the region is    *)
(* deregistered between check_rkey and process_atomic and however often    *)
(* the request is sent.  Nothing else is written but the word it found,    *)
(* into the WQE's list once it is completed, and that always when the list *)
(* is usable then.                                                         *)
AtomicInPlace ==
  wr.op = "atomic" =>
    LET word == WordBytes
        list == ListBytes(wr.sge)
    IN /\ got = 1 => WordFits /\ \A k \in 1..Word : ram[word[k]] = AddrMod + k
       /\ \A a \in Ram : ram[a] # a =>
            \/ got = 1 /\ \E k \in 1..Word : a = word[k]
            \/ status = "done" /\ \E k \in 1..Word : a = list[k] /\ ram[a] = word[k]
       /\ /\ status = "done" /\ valid = DOMAIN wr.mems
          /\ ListFits(wr.sge, "LOCAL_WRITE") /\ Length(wr.sge) = Word
          => \A k \in 1..Word : ram[list[k]] = word[k]

(* The stronger promise, which COMPST_ERROR's unset status breaks: a       *)
(* completed atomic has brought its word back.                             *)
AtomicReturned ==
  wr.op = "atomic" /\ status = "done" =>
    \A k \in 1..Word : ram[ListBytes(wr.sge)[k]] = WordBytes[k]
=============================================================================
