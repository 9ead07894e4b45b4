---------------------------- MODULE MCDescriptors ----------------------------
(***************************************************************************)
(* Small instances of Descriptors.                                         *)
(***************************************************************************)
EXTENDS Descriptors

CONSTANTS init, c1

OneOther == {c1}
OneOfEach == [undefin |-> 1, fifo |-> 1]
==============================================================================
