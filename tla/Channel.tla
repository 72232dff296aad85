------------------------------- MODULE Channel -------------------------------
(***************************************************************************)
(* What a transfer promises: numbered blocks come out in the order they    *)
(* went in, each of them once, and no more than Capacity are under way.    *)
(* A new transfer starts from nothing.                                     *)
(***************************************************************************)
EXTENDS Naturals, Sequences

CONSTANT Capacity

VARIABLES sent,   \* how many blocks went in
          got     \* the blocks that came out

Init == sent = 0 /\ got = <<>>

Put   == sent - Len(got) < Capacity /\ sent' = sent + 1 /\ UNCHANGED got
Take  == Len(got) < sent /\ got' = Append(got, Len(got) + 1) /\ UNCHANGED sent
Reset == sent' = 0 /\ got' = <<>>

Spec == Init /\ [][Put \/ Take \/ Reset]_<<sent, got>>
=============================================================================
