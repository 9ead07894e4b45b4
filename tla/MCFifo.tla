------------------------------- MODULE MCFifo -------------------------------
(***************************************************************************)
(* Small instances of Fifo.                                                *)
(***************************************************************************)
EXTENDS Fifo, TLC

CONSTANTS p1, p2, p3, s1

TwoWorkers == {p1, p2}
ThreeWorkers == {p1, p2, p3}
OneSleeper == {s1}
None == {}

\* Workers are interchangeable: every action treats them alike.
Symmetry == Permutations(Workers)

=============================================================================
