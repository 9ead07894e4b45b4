------------------------------ MODULE MCProcess ------------------------------
(***************************************************************************)
(* Small instances of Process.                                             *)
(***************************************************************************)
EXTENDS Process
=============================================================================
