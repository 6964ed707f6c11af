------------------------------ MODULE MCWebHub ------------------------------
(* Instances of WebHub for TLC. *)
EXTENDS WebHub, TLC

CONSTANT u1

\* All connections are of one user.
MCUserOf == [c \in Conns |-> u1]

Symmetry == Permutations(Conns)
=============================================================================
