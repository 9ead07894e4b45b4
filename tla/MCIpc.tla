-------------------------------- MODULE MCIpc --------------------------------
(***************************************************************************)
(* Small instances of Ipc.                                                 *)
(***************************************************************************)
EXTENDS Ipc, TLC

CONSTANTS p1, p2, p3, p4, s1

ThreeWorkers == {p1, p2, p3}
FourWorkers == {p1, p2, p3, p4}
OneSleeper == {s1}
None == {}

\* Workers are interchangeable: every action treats them alike.
Symmetry == Permutations(Workers)

=============================================================================
