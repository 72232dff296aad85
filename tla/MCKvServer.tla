----------------------------- MODULE MCKvServer -----------------------------
(* Two clients on different hosts, three keys for two slots, so that a set can  *)
(* find the store full.                                                      *)
EXTENDS KvServer, TLC
CONSTANTS p1, p2, p3, k1, k2, k3, v1, v2, c1, c2

\* Record addresses are interchangeable.
Symmetry == Permutations({p1, p2, p3})

MCAddrs == {[family |-> "AF_INET",  ip |-> 1, port |-> 1],
            [family |-> "AF_INET",  ip |-> 2, port |-> 1]}

MCAddrOf(c) == [family |-> "AF_INET", ip |-> IF c = c1 THEN 1 ELSE 2, port |-> 1]

MCRequests == {Request(OP.GET, k1, v1, 1, 0), Request(OP.SET, k1, v1, 1, 1),
               Request(OP.SET, k2, v2, 1, 1), Request(OP.DELETE, k1, v1, 1, 0),
               Request(OP.SET, k3, v2, 1, 0)}
=============================================================================
