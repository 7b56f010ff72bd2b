----------------------------- MODULE MCDispatch -----------------------------
(***************************************************************************)
(* Instances of Dispatch for TLC: the configurations of the server groups, *)
(* and the symmetry of the heap cells, which no action tells apart.        *)
(***************************************************************************)
EXTENDS Dispatch, TLC

CONSTANTS s1, s2, t1, t2, t3

\* One server group: primary s1, backup s2.
OneGroup == [m \in Monitors |-> <<[prime |-> <<s1>>, back |-> <<s2>>]>>]

\* Two server groups (servers-primer "s1|s2", servers-backup "|s1"): the second
\* falls back on the primary of the first.
TwoGroups ==
  [m \in Monitors |-> << [prime |-> <<s1>>, back |-> <<>>],
                         [prime |-> <<s2>>, back |-> <<s1>>] >>]

\* One server group with one server (servers-backup "-").
OneServer == [m \in Monitors |-> <<[prime |-> <<s1>>, back |-> <<NoServer>>]>>]

\* One thread per server; two threads of s1 (thread-num 2) and one of s2.
OnePerServer == [t \in Threads |-> IF t = t1 THEN s1 ELSE s2]
TwoOfS1 == [t \in Threads |-> IF t = t3 THEN s2 ELSE s1]

\* The heap cells are alike, and so are the two threads of s1 under TwoOfS1.
HeapSymmetry == Permutations(Nodes) \cup Permutations(Copies)
ThreadSymmetry == HeapSymmetry \cup Permutations({t1, t2})

=============================================================================
