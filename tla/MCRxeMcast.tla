----------------------------- MODULE MCRxeMcast -----------------------------
(* Instances of RxeMcast for TLC. *)
EXTENDS RxeMcast, TLC

CONSTANTS a, b, c, p, p2, p3, m, n, g1, g2

all    == [x \in Contexts |-> {m}]
two    == [x \in Contexts |-> IF x \in {a, b} THEN {m, n} ELSE {}]
single == [x \in Contexts |-> IF x = a THEN {m} ELSE {}]

\* p stays in both groups, which are therefore neither created nor released; one
\* context does everything there is to do; or two contexts create and release a
\* group each, out of the same memory and in the same tree.
Undisturbed ==
  {[on |-> all, stay |-> {<<p, m>>, <<p, n>>}, pkts |-> 1, forget |-> FALSE, fails |-> 0],
   [on |-> two, stay |-> {<<p, m>>, <<p, n>>}, pkts |-> 0, forget |-> TRUE, fails |-> 0],
   [on |-> single, stay |-> {}, pkts |-> 1, forget |-> TRUE, fails |-> 1],
   [on |-> (a :> {m} @@ b :> {n} @@ c :> {}), stay |-> {}, pkts |-> 1, forget |-> FALSE,
    fails |-> 0]}

\* Two contexts attach to the same new group.
FirstAttach == {[on |-> two, stay |-> {}, pkts |-> 0, forget |-> FALSE, fails |-> 0]}
\* A packet arrives while the last member detaches.
LastDetach  == {[on |-> two, stay |-> {}, pkts |-> 1, forget |-> FALSE, fails |-> 0]}
\* A packet arrives while an attached QP is being freed.
FreedMember == {[on |-> two, stay |-> {<<p, m>>}, pkts |-> 1, forget |-> TRUE, fails |-> 0]}
\* The interface refuses a new group while another one has a member.
AddFails    == {[on |-> (a :> {m, n} @@ b :> {} @@ c :> {}), stay |-> {<<p, m>>}, pkts |-> 0,
                 forget |-> FALSE, fails |-> 1]}
=============================================================================
