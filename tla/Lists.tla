--------------------------------- MODULE Lists ---------------------------------
(***************************************************************************)
(* The doubly linked lists of linked_list.c, as sequences.  An item is on  *)
(* one list at most, so that its links are those of its place there.       *)
(***************************************************************************)
EXTENDS Integers, Sequences

\* What List_detach of the items in gone, one after another, leaves of a list.
Without(list, gone) ==
  LET rest[i \in 0..Len(list)] ==
        IF i = 0 THEN <<>>
        ELSE IF list[i] \in gone THEN rest[i - 1] ELSE Append(rest[i - 1], list[i])
  IN rest[Len(list)]
================================================================================
