---------------------------- MODULE CircularBuffer ----------------------------
(***************************************************************************)
(* The copies of circular_buffer.c.  The buffer is a function from         *)
(* 0..size_max - 1, what is copied from or to it a sequence.  Both run in  *)
(* one piece, or in two if they reach the end of the buffer; the position  *)
(* is advanced by the caller's operator Advanced of Fifo.                  *)
(***************************************************************************)
EXTENDS Integers, Sequences

\* The size bytes the buffer holds from read_pos on, around its end: what the
\* fifo that owns it takes it to contain.
Content(buffer, size, size_max, read_pos) ==
  [i \in 1..size |-> buffer[(read_pos + i - 1) % size_max]]

\* memcpy from and to n bytes of the buffer that start at pos.
Copied(buffer, pos, n) == [i \in 1..n |-> buffer[pos + i - 1]]

Overwritten(buffer, pos, bytes) ==
  [i \in DOMAIN buffer |->
     IF i \in pos..(pos + Len(bytes) - 1) THEN bytes[i - pos + 1] ELSE buffer[i]]

Circular_buffer_read_NoSplit(src, to_read, size_max, read_pos) ==
  Copied([i \in 0..(2 * size_max) |-> IF i < size_max THEN src[i] ELSE src[size_max - 1]],
         read_pos, to_read)

Circular_buffer_read(src, to_read, size_max, read_pos) ==
  LET first_copy_length == size_max - read_pos
  IN IF read_pos + to_read <= size_max
     THEN Copied(src, read_pos, to_read)
     ELSE Copied(src, read_pos, first_copy_length)
            \o Copied(src, 0, to_read - first_copy_length)

Circular_buffer_write(src, dest, size_max, write_pos) ==
  LET first_copy_length == size_max - write_pos
  IN IF write_pos + Len(src) <= size_max
     THEN Overwritten(dest, write_pos, src)
     ELSE Overwritten(Overwritten(dest, write_pos, SubSeq(src, 1, first_copy_length)),
                      0, SubSeq(src, first_copy_length + 1, Len(src)))
================================================================================
