-------------------------- MODULE MCThreadsafeTree --------------------------
(* Two threads on trees that lead to each case of delete(): an empty tree, a *)
(* root and an inner node with no, one and two children, with a successor    *)
(* next to it and further down, with and without a right subtree.            *)
EXTENDS ThreadsafeTree, TLC
CONSTANTS a, b

N(k, l, r) == [key |-> k, value |-> a, left |-> l, right |-> r]

\* Node 0 is the root; nodes not listed are free.
Tree(f) == f @@ [n \in Nodes |-> NULL]

MCTrees == {
    Tree(0 :> [N(NULL, NULL, NULL) EXCEPT !.value = NULL]),
    Tree(0 :> N(2, 1, 2) @@ 1 :> N(1, NULL, NULL) @@ 2 :> N(3, NULL, NULL)),
    Tree(0 :> N(2, 1, 2) @@ 1 :> N(1, NULL, NULL) @@ 2 :> N(3, NULL, 3)
           @@ 3 :> N(4, NULL, NULL)),
    Tree(0 :> N(2, 1, 2) @@ 1 :> N(1, NULL, NULL) @@ 2 :> N(4, 3, NULL)
           @@ 3 :> N(3, NULL, NULL)),
    Tree(0 :> N(4, 1, NULL) @@ 1 :> N(2, 2, 3) @@ 2 :> N(1, NULL, NULL)
           @@ 3 :> N(3, NULL, NULL)),
    Tree(0 :> N(5, 1, NULL) @@ 1 :> N(2, 2, 3) @@ 2 :> N(1, NULL, NULL)
           @@ 3 :> N(4, 4, NULL) @@ 4 :> N(3, NULL, NULL)) }
=============================================================================
