----------------------------- MODULE MCProcess -----------------------------
(***************************************************************************)
(* Process for TLC.                                                        *)
(***************************************************************************)
EXTENDS Process, TLC

\* Addresses, and threads, are interchangeable; liveness runs do not use this.
Symmetry == Permutations(Procs) \cup Permutations(Thrs)

\* The invariants about orderly states need no state beyond a disorderly one:
\* orderly never becomes TRUE again.
Orderly == orderly
=============================================================================
