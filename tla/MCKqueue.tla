------------------------------ MODULE MCKqueue ------------------------------
(* Two descriptors, with both filters; a wait reports up to three of the    *)
(* four, so that one descriptor may have both and the other one.            *)
EXTENDS Kqueue, TLC

Symmetry == Permutations(Fd) \cup Permutations(Data)
=============================================================================
