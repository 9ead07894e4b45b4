-------------------------------- MODULE Channel --------------------------------
(***************************************************************************)
(* What a pipe promises: a bounded queue of bytes.  Each writer's bytes    *)
(* enter it in order, and each byte leaves it once, in the order in which  *)
(* the bytes entered, to one of the readers.                               *)
(***************************************************************************)
EXTENDS Integers, Sequences

CONSTANTS
  Senders, Receivers,
  Capacity                 \* the bytes the channel holds at most, a natural number

VARIABLES
  content,                 \* the bytes in the channel
  accepted,                \* how many bytes of each sender have entered it
  delivered                \* the bytes each receiver has got

channelVars == <<content, accepted, delivered>>

\* The i-th byte of a sender.
Byte(s, i) == <<s, i>>

ChannelInit ==
  /\ content = <<>>
  /\ accepted = [s \in Senders |-> 0]
  /\ delivered = [r \in Receivers |-> <<>>]

Send(s, n) ==
  /\ Len(content) + n <= Capacity
  /\ content' = content \o [i \in 1..n |-> Byte(s, accepted[s] + i)]
  /\ accepted' = [accepted EXCEPT ![s] = @ + n]
  /\ UNCHANGED delivered

Receive(r, n) ==
  /\ n <= Len(content)
  /\ delivered' = [delivered EXCEPT ![r] = @ \o SubSeq(content, 1, n)]
  /\ content' = SubSeq(content, n + 1, Len(content))
  /\ UNCHANGED accepted

ChannelNext ==
  \E n \in 1..Capacity :
    \/ \E s \in Senders : Send(s, n)
    \/ \E r \in Receivers : Receive(r, n)

ChannelSpec == ChannelInit /\ [][ChannelNext]_channelVars
================================================================================
