------------------------------- MODULE MCRxeMem -------------------------------
EXTENDS RxeMem, TLC

Addresses == 0..59

Local == {"LOCAL_WRITE"}
Remote == {"LOCAL_WRITE", "REMOTE_WRITE", "REMOTE_ATOMIC"}

(* Pages of 4 bytes that are not next to each other, three in two maps; a  *)
(* region that starts in the middle of a page; buffers of 3, 1 and 4 bytes *)
(* that are found by walking.                                              *)
Regions ==
  [user |-> mem_init_user(Local, 2, 9, 5, <<8, 0, 16>>),
   odd  |-> mem_init_phys({}, 3, <<[addr |-> 24, size |-> 3], [addr |-> 20, size |-> 1],
                                   [addr |-> 28, size |-> 4]>>),
   dma  |-> mem_init_dma(Local),
   pages |-> mem_map_pages(Remote, <<40, 36, 44>>, 7),
   sink |-> mem_init_phys(Remote, 2, <<[addr |-> 56, size |-> 2], [addr |-> 50, size |-> 5],
                                       [addr |-> 58, size |-> 2]>>)]

E(mr, addr, length) == [mr |-> mr, addr |-> addr, length |-> length]

Gather == {
  <<E("user", 5, 9)>>,
  <<E("odd", 4, 5), E("user", 9, 0), E("user", 8, 4)>>,
  <<E("dma", 33, 2), E("odd", 3, 8)>>,
  <<E("user", 7, 3), E("user", 10, 5)>>,
  <<E("odd", 5, 0)>> }

Scatter == {
  <<E("pages", 8, 9)>>,
  <<E("pages", 7, 3), E("sink", 4, 0), E("sink", 3, 7)>>,
  <<E("sink", 2, 4), E("odd", 3, 4)>>,
  <<E("pages", 18, 1), E("pages", 8, 4)>> }

Targets == {<<"pages", 7>>, <<"pages", 9>>, <<"sink", 2>>, <<"user", 5>>}

(* Words of atomics: aligned, not aligned, across two buffers, at the end  *)
(* of a region and beyond it, and in a region that does not allow them;    *)
(* and lists for what they find, the last of them not to be written to.    *)
Words == {<<"pages", 7>>, <<"pages", 8>>, <<"pages", 10>>, <<"pages", 11>>, <<"sink", 3>>,
          <<"sink", 4>>, <<"sink", 8>>, <<"sink", 9>>, <<"sink", 10>>, <<"odd", 4>>}
Results == {<<E("user", 5, 2)>>, <<E("user", 7, 1), E("odd", 3, 0), E("dma", 33, 1)>>,
            <<E("odd", 3, 2)>>}

(* A work request with the regions it names.                               *)
Work(op, g, s, mr, va) ==
  LET used == {g[i].mr : i \in DOMAIN g} \union {s[i].mr : i \in DOMAIN s}
              \union (IF op = "send" THEN {} ELSE {mr})
  IN [op |-> op, mems |-> [r \in used |-> Regions[r]], sge |-> g, recv |-> s,
      mr |-> mr, va |-> va]

Transfers ==
  {Work("send", g, s, "dma", 0) : g \in Gather, s \in Scatter}
  \union {Work("write", g, <<>>, t[1], t[2]) : g \in Gather, t \in Targets}
  \union {Work("atomic", r, <<>>, t[1], t[2]) : r \in Results, t \in Words}

(* To be tried by hand (see the README).                                   *)
Unreturned == {Work("atomic", <<E("odd", 3, 2)>>, <<>>, "pages", 7)}
=============================================================================
