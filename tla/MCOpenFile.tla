----------------------------- MODULE MCOpenFile -----------------------------
(* OpenFile for TLC: the processes are interchangeable. *)
EXTENDS OpenFile, TLC

Symmetry == Permutations(Users)

\* The runs of the properties that assume ~raced stop where the condition ends.
NotRaced == ~raced
=============================================================================
