----------------------------- MODULE StreamProofs -----------------------------
(***************************************************************************)
(* The copies of circular_buffer.c are those of a queue, and the kernel    *)
(* under the integration tests transfers bytes as the bounded queue of     *)
(* Channel does, for every number of writers and readers, every size of    *)
(* the buffer, of the packets and of the text.  Packets arrive whole, no   *)
(* child of a test that depends on no schedule gives up, and when such a   *)
(* test ends everything has arrived.                                       *)
(***************************************************************************)
EXTENDS Stream, SequenceTheorems, FiniteSetTheorems, TLAPS

-----------------------------------------------------------------------------
(* The circular buffer, for every size of it and every position: what is   *)
(* written stands behind what the buffer holds, what is read is what it    *)
(* has held longest.                                                       *)

\* Positions wrap around at most once.
LEMMA Wraps ==
  ASSUME NEW S \in Nat \ {0}, NEW x \in Nat, x < S + S
  PROVE  x % S = IF x < S THEN x ELSE x - S
<1>1. CASE x < S
  BY <1>1, SMTT(30)
<1>2. CASE x >= S
  <2>1. x - S \in 0..(S - 1)
    BY <1>2
  <2>. QED BY <1>2, <2>1, SMTT(30)
<1>. QED BY <1>1, <1>2

\* The buffers of S elements of V.
Buffer(S, V) == [0..(S - 1) -> V]

\* Where the i-th byte stands that a buffer of S bytes holds from pos on.
At(S, pos, i) == IF pos + i - 1 < S THEN pos + i - 1 ELSE pos + i - 1 - S

\* That place is in the buffer, and is what the remainder gives.
LEMMA AtPlace ==
  ASSUME NEW S \in Nat, NEW pos \in 0..(S - 1), NEW i \in 1..S
  PROVE  At(S, pos, i) \in 0..(S - 1) /\ (pos + i - 1) % S = At(S, pos, i)
<1>1. PICK x \in Nat : x = pos + i - 1 /\ x < S + S
  OBVIOUS
<1>2. x % S = IF x < S THEN x ELSE x - S
  <2>1. S \in Nat \ {0}
    OBVIOUS
  <2>. QED BY <1>1, <2>1, Wraps
<1>. QED BY <1>1, <1>2 DEF At

\* The advanced position, Advanced of Fifo.
LEMMA NextPlace ==
  ASSUME NEW S \in Nat, NEW pos \in 0..(S - 1), NEW n \in 0..S
  PROVE  /\ (pos + n) % S \in 0..(S - 1)
         /\ (pos + n) % S = pos + n \/ (pos + n) % S = pos + n - S
<1>1. PICK x \in Nat : x = pos + n /\ x < S + S
  OBVIOUS
<1>2. x % S = IF x < S THEN x ELSE x - S
  <2>1. S \in Nat \ {0}
    OBVIOUS
  <2>. QED BY <1>1, <2>1, Wraps
<1>. QED BY <1>1, <1>2

\* The content is a sequence, byte by byte.
LEMMA ContentAt ==
  ASSUME NEW S \in Nat, NEW V, NEW b \in Buffer(S, V),
         NEW pos \in 0..(S - 1), NEW held \in 0..S
  PROVE  /\ Content(b, held, S, pos) \in Seq(V)
         /\ Len(Content(b, held, S, pos)) = held
         /\ \A i \in 1..held : Content(b, held, S, pos)[i] = b[At(S, pos, i)]
<1>1. \A i \in 1..held : At(S, pos, i) \in 0..(S - 1) /\ (pos + i - 1) % S = At(S, pos, i)
  BY AtPlace
<1>2. Content(b, held, S, pos) = [i \in 1..held |-> b[At(S, pos, i)]]
  BY <1>1 DEF Content
<1>3. \A i \in 1..held : b[At(S, pos, i)] \in V
  BY <1>1 DEF Buffer
<1>4. held \in Nat
  OBVIOUS
<1>. DEFINE c == [i \in 1..held |-> b[At(S, pos, i)]]
<1>5. c \in [1..held -> V]
  BY <1>3
<1>6. \A i \in 1..held : c[i] = b[At(S, pos, i)]
  OBVIOUS
<1>. HIDE DEF c
<1>7. c \in Seq(V) /\ Len(c) = held
  BY <1>4, <1>5
<1>. QED BY <1>2, <1>6, <1>7 DEF c

\* A part of a sequence, element by element.
LEMMA PartAt ==
  ASSUME NEW V, NEW s \in Seq(V), NEW m \in 1..(Len(s) + 1), NEW n \in 0..Len(s), m <= n + 1
  PROVE  /\ SubSeq(s, m, n) \in Seq(V)
         /\ Len(SubSeq(s, m, n)) = n - m + 1
         /\ \A i \in 1..(n - m + 1) : SubSeq(s, m, n)[i] = s[m + i - 1]
<1>1. \A i \in m..n : s[i] \in V
  BY ElementOfSeq, LenProperties
<1>. QED BY <1>1, SubSeqProperties, LenProperties

\* One memcpy from the buffer.
LEMMA CopiedAt ==
  ASSUME NEW S \in Nat, NEW V, NEW b \in Buffer(S, V),
         NEW pos \in 0..(S - 1), NEW n \in Nat, pos + n <= S
  PROVE  /\ Copied(b, pos, n) \in Seq(V)
         /\ Len(Copied(b, pos, n)) = n
         /\ \A i \in 1..n : Copied(b, pos, n)[i] = b[pos + i - 1]
<1>1. \A i \in 1..n : b[pos + i - 1] \in V
  BY DEF Buffer
<1>2. Copied(b, pos, n) = [i \in 1..n |-> b[pos + i - 1]]
  BY DEF Copied
<1>. QED BY <1>1, <1>2, SMTT(30)

\* A read of at most size bytes returns the oldest ones, in order, whether it
\* copies them in one piece or in two (Circular_buffer_read).
THEOREM ReadTakesOldest ==
  ASSUME NEW S \in Nat, NEW V, NEW b \in Buffer(S, V),
         NEW pos \in 0..(S - 1), NEW held \in 0..S, NEW n \in 0..held
  PROVE  Circular_buffer_read(b, n, S, pos) = SubSeq(Content(b, held, S, pos), 1, n)
<1>0. /\ Content(b, held, S, pos) \in Seq(V)
      /\ Len(Content(b, held, S, pos)) = held
      /\ \A i \in 1..held : Content(b, held, S, pos)[i] = b[At(S, pos, i)]
  BY ContentAt
<1>. DEFINE read == Circular_buffer_read(b, n, S, pos)
            old == Content(b, held, S, pos)
<1>1. /\ old \in Seq(V) /\ Len(old) = held
      /\ \A i \in 1..held : old[i] = b[At(S, pos, i)]
  BY <1>0
<1>2. /\ SubSeq(old, 1, n) \in Seq(V) /\ Len(SubSeq(old, 1, n)) = n
      /\ \A i \in 1..n : SubSeq(old, 1, n)[i] = b[At(S, pos, i)]
  <2>. HIDE DEF old
  <2>1. /\ SubSeq(old, 1, n) \in Seq(V)
        /\ Len(SubSeq(old, 1, n)) = n - 1 + 1
        /\ \A i \in 1..(n - 1 + 1) : SubSeq(old, 1, n)[i] = old[1 + i - 1]
    <3>1. 1 \in 1..(Len(old) + 1) /\ n \in 0..Len(old) /\ 1 <= n + 1
      BY <1>1
    <3>. QED BY <1>1, <3>1, PartAt
  <2>. QED BY <1>1, <2>1
<1>3. read \in Seq(V) /\ Len(read) = n /\ \A i \in 1..n : read[i] = b[At(S, pos, i)]
  <2>1. CASE pos + n <= S
    <3>1. read = Copied(b, pos, n)
      BY <2>1 DEF Circular_buffer_read
    <3>2. \A i \in 1..n : At(S, pos, i) = pos + i - 1
      BY <2>1 DEF At
    <3>3. /\ Copied(b, pos, n) \in Seq(V)
          /\ Len(Copied(b, pos, n)) = n
          /\ \A i \in 1..n : Copied(b, pos, n)[i] = b[pos + i - 1]
      <4>1. n \in Nat /\ pos + n <= S
        BY <2>1
      <4>. QED BY <4>1, CopiedAt
    <3>. HIDE DEF read
    <3>. QED BY <3>1, <3>2, <3>3
  <2>2. CASE pos + n > S
    <3>. DEFINE m == S - pos
                one == Copied(b, pos, m)
                two == Copied(b, 0, n - m)
    <3>1. read = one \o two
      BY <2>2 DEF Circular_buffer_read
    <3>2. m \in Nat /\ pos + m <= S /\ n - m \in Nat /\ 0 + (n - m) <= S /\ 0 \in 0..(S - 1)
      BY <2>2
    <3>3. /\ one \in Seq(V) /\ Len(one) = m
          /\ \A i \in 1..m : one[i] = b[pos + i - 1]
      <4>. HIDE DEF m
      <4>1. /\ Copied(b, pos, m) \in Seq(V)
            /\ Len(Copied(b, pos, m)) = m
            /\ \A i \in 1..m : Copied(b, pos, m)[i] = b[pos + i - 1]
        BY <3>2, CopiedAt
      <4>. QED BY <4>1
    <3>4. /\ two \in Seq(V) /\ Len(two) = n - m
          /\ \A i \in 1..(n - m) : two[i] = b[0 + i - 1]
      <4>. HIDE DEF m
      <4>. QED BY <3>2, CopiedAt
    <3>5. /\ read \in Seq(V)
          /\ Len(read) = n
          /\ \A i \in 1..n : read[i] = IF i <= m THEN one[i] ELSE two[i - m]
      <4>. HIDE DEF read, one, two, m
      <4>1. /\ read \in Seq(V)
            /\ Len(read) = Len(one) + Len(two)
            /\ \A i \in 1..(Len(one) + Len(two)) :
                 read[i] = IF i <= Len(one) THEN one[i] ELSE two[i - Len(one)]
        BY <3>1, <3>3, <3>4, ConcatProperties
      <4>2. Len(one) + Len(two) = n
        BY <3>2, <3>3, <3>4
      <4>. QED BY <3>3, <4>1, <4>2
    <3>. HIDE DEF read, one, two
    <3>6. \A i \in 1..n : read[i] = b[At(S, pos, i)]
      <4>. TAKE i \in 1..n
      <4>1. CASE i <= m
        <5>1. i \in 1..m /\ At(S, pos, i) = pos + i - 1
          BY <4>1 DEF At
        <5>2. read[i] = one[i]
          BY <3>2, <3>5, <4>1
        <5>. QED BY <3>3, <5>1, <5>2
      <4>2. CASE i > m
        <5>1. i - m \in 1..(n - m) /\ At(S, pos, i) = 0 + (i - m) - 1
          BY <4>2 DEF At
        <5>2. read[i] = two[i - m]
          BY <3>2, <3>5, <4>2
        <5>. QED BY <3>4, <5>1, <5>2
      <4>. QED BY <4>1, <4>2
    <3>. QED BY <3>2, <3>5, <3>6
  <2>. QED BY <2>1, <2>2
<1>. HIDE DEF read
<1>4. \A i \in 1..Len(read) : read[i] = SubSeq(old, 1, n)[i]
  BY <1>2, <1>3
<1>5. read = SubSeq(old, 1, n)
  <2>. HIDE DEF old
  <2>. QED BY <1>2, <1>3, <1>4, SeqEqual
<1>. QED BY <1>5 DEF read

\* After it the buffer holds the rest from the advanced position on.
THEOREM ReadLeavesTheRest ==
  ASSUME NEW S \in Nat, NEW V, NEW b \in Buffer(S, V),
         NEW pos \in 0..(S - 1), NEW held \in 0..S, NEW n \in 0..held
  PROVE  Content(b, held - n, S, (pos + n) % S)
           = SubSeq(Content(b, held, S, pos), n + 1, held)
<1>0. /\ Content(b, held, S, pos) \in Seq(V)
      /\ Len(Content(b, held, S, pos)) = held
      /\ \A i \in 1..held : Content(b, held, S, pos)[i] = b[At(S, pos, i)]
  BY ContentAt
<1>. DEFINE old == Content(b, held, S, pos)
            next == (pos + n) % S
            rest == Content(b, held - n, S, next)
            tail == SubSeq(old, n + 1, held)
<1>1. /\ old \in Seq(V) /\ Len(old) = held
      /\ \A i \in 1..held : old[i] = b[At(S, pos, i)]
  BY <1>0
<1>2. next \in 0..(S - 1) /\ (next = pos + n \/ next = pos + n - S)
  <2>1. n \in 0..S
    OBVIOUS
  <2>. QED BY <2>1, NextPlace
<1>. HIDE DEF old, next
<1>3. /\ rest \in Seq(V) /\ Len(rest) = held - n
      /\ \A i \in 1..(held - n) : rest[i] = b[At(S, next, i)]
  <2>1. PICK left \in 0..S : left = held - n
    OBVIOUS
  <2>2. /\ Content(b, left, S, next) \in Seq(V) /\ Len(Content(b, left, S, next)) = left
        /\ \A i \in 1..left : Content(b, left, S, next)[i] = b[At(S, next, i)]
    BY <1>2, ContentAt
  <2>. QED BY <2>1, <2>2
<1>4. /\ tail \in Seq(V) /\ Len(tail) = held - (n + 1) + 1
      /\ \A i \in 1..(held - (n + 1) + 1) : tail[i] = old[n + 1 + i - 1]
  <2>1. n + 1 \in 1..(Len(old) + 1) /\ held \in 0..Len(old) /\ n + 1 <= held + 1
    BY <1>1
  <2>. QED BY <1>1, <2>1, PartAt
<1>. HIDE DEF rest, tail
<1>5. \A i \in 1..Len(rest) : rest[i] = tail[i]
  <2>. TAKE i \in 1..Len(rest)
  <2>1. i \in 1..(held - n) /\ i \in 1..(held - (n + 1) + 1) /\ n + 1 + i - 1 = n + i /\ n + i \in 1..held
    BY <1>3
  <2>2. At(S, next, i) = At(S, pos, n + i)
    BY <1>2, <2>1 DEF At
  <2>. QED BY <1>1, <1>3, <1>4, <2>1, <2>2
<1>6. rest = tail
  <2>1. Len(rest) = Len(tail)
    BY <1>3, <1>4
  <2>. QED BY <1>3, <1>4, <1>5, <2>1, SeqEqual
<1>. QED BY <1>6 DEF old, next, rest, tail

\* One memcpy to the buffer.
LEMMA OverwrittenAt ==
  ASSUME NEW S \in Nat, NEW V, NEW b \in Buffer(S, V),
         NEW w \in 0..(S - 1), NEW src \in Seq(V), w + Len(src) <= S
  PROVE  /\ Overwritten(b, w, src) \in Buffer(S, V)
         /\ \A j \in 0..(S - 1) : Overwritten(b, w, src)[j] =
              IF j \in w..(w + Len(src) - 1) THEN src[j - w + 1] ELSE b[j]
<1>1. PICK n \in Nat : n = Len(src)
  BY LenProperties
<1>2. \A i \in 1..n : src[i] \in V
  BY <1>1, ElementOfSeq
<1>3. \A j \in 0..(S - 1) : j \in w..(w + n - 1) => j - w + 1 \in 1..n
  OBVIOUS
<1>4. Overwritten(b, w, src) = [j \in 0..(S - 1) |->
         IF j \in w..(w + n - 1) THEN src[j - w + 1] ELSE b[j]]
  BY <1>1 DEF Overwritten, Buffer
<1>. QED BY <1>1, <1>2, <1>3, <1>4 DEF Buffer

\* Where each byte goes that Circular_buffer_write writes at w.
LEMMA WrittenAt ==
  ASSUME NEW S \in Nat, NEW V, NEW b \in Buffer(S, V),
         NEW w \in 0..(S - 1), NEW src \in Seq(V), NEW n \in Nat, n = Len(src), n <= S
  PROVE  /\ Circular_buffer_write(src, b, S, w) \in Buffer(S, V)
         /\ \A j \in 0..(S - 1) : Circular_buffer_write(src, b, S, w)[j] =
              IF j \in w..(w + n - 1) THEN src[j - w + 1]
              ELSE IF j + S \in w..(w + n - 1) THEN src[j + S - w + 1] ELSE b[j]
<1>. DEFINE after == Circular_buffer_write(src, b, S, w)
<1>1. CASE w + n <= S
  <2>1. after = Overwritten(b, w, src)
    BY <1>1 DEF Circular_buffer_write
  <2>2. \A j \in 0..(S - 1) : j + S \notin w..(w + n - 1)
    BY <1>1
  <2>. HIDE DEF after
  <2>3. /\ after \in Buffer(S, V)
        /\ \A j \in 0..(S - 1) :
             after[j] = IF j \in w..(w + n - 1) THEN src[j - w + 1] ELSE b[j]
    BY <1>1, <2>1, OverwrittenAt
  <2>. QED BY <2>2, <2>3 DEF after
<1>2. CASE w + n > S
  <2>. DEFINE m == S - w
              one == SubSeq(src, 1, m)
              two == SubSeq(src, m + 1, n)
              half == Overwritten(b, w, one)
  <2>1. m \in 1..n /\ w + m = S
    BY <1>2
  <2>2. after = Overwritten(half, 0, two)
    <3>1. ~(w + Len(src) <= S)
      BY <1>2
    <3>. QED BY <3>1 DEF Circular_buffer_write
  <2>. HIDE DEF m
  <2>3. one \in Seq(V) /\ Len(one) = m /\ \A i \in 1..m : one[i] = src[i]
    <3>1. 1 \in 1..(Len(src) + 1) /\ m \in 0..Len(src) /\ 1 <= m + 1
      BY <2>1
    <3>2. /\ one \in Seq(V) /\ Len(one) = m - 1 + 1
          /\ \A i \in 1..(m - 1 + 1) : one[i] = src[1 + i - 1]
      BY <3>1, PartAt
    <3>. HIDE DEF one
    <3>. QED BY <2>1, <3>2
  <2>4. two \in Seq(V) /\ Len(two) = n - m /\ \A i \in 1..(n - m) : two[i] = src[m + i]
    <3>1. m + 1 \in 1..(Len(src) + 1) /\ n \in 0..Len(src) /\ m + 1 <= n + 1
      BY <2>1
    <3>2. /\ two \in Seq(V) /\ Len(two) = n - (m + 1) + 1
          /\ \A i \in 1..(n - (m + 1) + 1) : two[i] = src[m + 1 + i - 1]
      BY <3>1, PartAt
    <3>. HIDE DEF two
    <3>. QED BY <2>1, <3>2
  <2>. HIDE DEF one, two, after
  <2>5. /\ half \in Buffer(S, V)
        /\ \A j \in 0..(S - 1) :
             half[j] = IF j \in w..(w + Len(one) - 1) THEN one[j - w + 1] ELSE b[j]
    <3>1. w + Len(one) <= S
      BY <2>1, <2>3
    <3>. QED BY <2>3, <3>1, OverwrittenAt
  <2>. HIDE DEF half
  <2>6. /\ after \in Buffer(S, V)
        /\ \A j \in 0..(S - 1) :
             after[j] = IF j \in 0..(0 + Len(two) - 1) THEN two[j - 0 + 1] ELSE half[j]
    <3>1. 0 + Len(two) <= S /\ 0 \in 0..(S - 1)
      BY <2>1, <2>4
    <3>. QED BY <2>2, <2>4, <2>5, <3>1, OverwrittenAt
  <2>7. ASSUME NEW j \in 0..(S - 1)
        PROVE  after[j] = IF j \in w..(w + n - 1) THEN src[j - w + 1]
                          ELSE IF j + S \in w..(w + n - 1) THEN src[j + S - w + 1] ELSE b[j]
    <3>1. CASE j <= n - m - 1
      <4>1. j \in 0..(0 + Len(two) - 1) /\ j - 0 + 1 = j + 1 /\ j + 1 \in 1..(n - m)
        BY <2>1, <2>4, <3>1
      <4>2. two[j + 1] = src[m + (j + 1)] /\ m + (j + 1) = j + S - w + 1
        BY <2>1, <2>4, <4>1
      <4>3. j \notin w..(w + n - 1) /\ j + S \in w..(w + n - 1)
        BY <2>1, <3>1
      <4>. QED BY <2>6, <4>1, <4>2, <4>3
    <3>2. CASE j > n - m - 1 /\ j >= w
      <4>1. /\ j \notin 0..(0 + Len(two) - 1)
            /\ j \in w..(w + Len(one) - 1) /\ j - w + 1 \in 1..m /\ j \in w..(w + n - 1)
        BY <2>1, <2>3, <2>4, <3>2
      <4>2. one[j - w + 1] = src[j - w + 1]
        BY <2>3, <4>1
      <4>. QED BY <2>5, <2>6, <4>1, <4>2
    <3>3. CASE j > n - m - 1 /\ j < w
      <4>1. /\ j \notin 0..(0 + Len(two) - 1) /\ j + S \notin w..(w + n - 1)
            /\ j \notin w..(w + Len(one) - 1) /\ j \notin w..(w + n - 1)
        BY <2>1, <2>3, <2>4, <3>3
      <4>. QED BY <2>5, <2>6, <4>1
    <3>. QED BY <2>1, <3>1, <3>2, <3>3
  <2>. QED BY <2>6, <2>7 DEF after
<1>. QED BY <1>1, <1>2

\* A write of bytes that fit puts them behind what the buffer holds, which it
\* leaves alone, whether it copies them in one piece or in two.
THEOREM WriteAppends ==
  ASSUME NEW S \in Nat, NEW V, NEW b \in Buffer(S, V),
         NEW pos \in 0..(S - 1), NEW held \in 0..S, NEW src \in Seq(V),
         held + Len(src) <= S
  PROVE  /\ Circular_buffer_write(src, b, S, (pos + held) % S) \in Buffer(S, V)
         /\ Content(Circular_buffer_write(src, b, S, (pos + held) % S), held + Len(src), S, pos)
              = Content(b, held, S, pos) \o src
<1>0. /\ Content(b, held, S, pos) \in Seq(V)
      /\ Len(Content(b, held, S, pos)) = held
      /\ \A i \in 1..held : Content(b, held, S, pos)[i] = b[At(S, pos, i)]
  BY ContentAt
<1>. DEFINE w == (pos + held) % S
            after == Circular_buffer_write(src, b, S, w)
            old == Content(b, held, S, pos)
<1>1. PICK n \in Nat : n = Len(src) /\ n <= S /\ held + n \in 0..S
  BY LenProperties
<1>. DEFINE new == Content(after, held + n, S, pos)
<1>2. /\ old \in Seq(V) /\ Len(old) = held
      /\ \A i \in 1..held : old[i] = b[At(S, pos, i)]
  BY <1>0
<1>3. w \in 0..(S - 1) /\ (w = pos + held \/ w = pos + held - S)
  BY NextPlace
<1>. HIDE DEF old, w
<1>4. /\ after \in Buffer(S, V)
      /\ \A j \in 0..(S - 1) :
           after[j] = IF j \in w..(w + n - 1) THEN src[j - w + 1]
                      ELSE IF j + S \in w..(w + n - 1) THEN src[j + S - w + 1] ELSE b[j]
  <2>1. n = Len(src) /\ n <= S
    BY <1>1
  <2>2. /\ Circular_buffer_write(src, b, S, w) \in Buffer(S, V)
        /\ \A j \in 0..(S - 1) : Circular_buffer_write(src, b, S, w)[j] =
             IF j \in w..(w + n - 1) THEN src[j - w + 1]
             ELSE IF j + S \in w..(w + n - 1) THEN src[j + S - w + 1] ELSE b[j]
    BY <1>3, <2>1, WrittenAt
  <2>. QED BY <2>2
<1>. HIDE DEF after
<1>5. /\ new \in Seq(V) /\ Len(new) = held + n
      /\ \A i \in 1..(held + n) : new[i] = after[At(S, pos, i)]
  <2>1. /\ Content(after, held + n, S, pos) \in Seq(V)
        /\ Len(Content(after, held + n, S, pos)) = held + n
        /\ \A i \in 1..(held + n) : Content(after, held + n, S, pos)[i] = after[At(S, pos, i)]
    <3>1. after \in Buffer(S, V)
      BY <1>4
    <3>2. held + n \in 0..S
      BY <1>1
    <3>. HIDE DEF new
    <3>. QED BY <3>1, <3>2, ContentAt
  <2>. QED BY <2>1
<1>6. /\ old \o src \in Seq(V) /\ Len(old \o src) = held + n
      /\ \A i \in 1..(held + n) : (old \o src)[i] = IF i <= held THEN old[i] ELSE src[i - held]
  BY <1>1, <1>2, ConcatProperties
<1>. HIDE DEF new
<1>7. ASSUME NEW i \in 1..(held + n)
      PROVE  new[i] = (old \o src)[i]
  <2>1. i \in 1..S
    BY <1>1
  <2>2. At(S, pos, i) \in 0..(S - 1)
    BY <2>1, AtPlace
  <2>3. PICK a \in 0..(S - 1) : a = At(S, pos, i) /\ (a = pos + i - 1 \/ a = pos + i - 1 - S)
    BY <2>2 DEF At
  <2>4. held + n <= S
    BY <1>1
  <2>0. /\ S \in Nat /\ n \in Nat /\ held \in Nat /\ pos \in Nat /\ pos < S
        /\ i \in Nat /\ 1 <= i /\ i <= held + n /\ a \in Nat /\ a < S /\ w \in Nat
    BY <1>1, <1>3
  <2>5. /\ i <= held => a \notin w..(w + n - 1) /\ a + S \notin w..(w + n - 1)
        /\ i > held => \/ a \in w..(w + n - 1) /\ a - w + 1 = i - held
                       \/ /\ a \notin w..(w + n - 1)
                          /\ a + S \in w..(w + n - 1) /\ a + S - w + 1 = i - held
    <3>1. CASE w = pos + held /\ a = pos + i - 1
      BY <2>0, <2>4, <3>1, SMTT(30)
    <3>2. CASE w = pos + held /\ a = pos + i - 1 - S
      BY <2>0, <2>4, <3>2, SMTT(30)
    <3>3. CASE w = pos + held - S /\ a = pos + i - 1
      BY <2>0, <2>4, <3>3, SMTT(30)
    <3>4. CASE w = pos + held - S /\ a = pos + i - 1 - S
      BY <2>0, <2>4, <3>4, SMTT(30)
    <3>. QED BY <1>3, <2>3, <3>1, <3>2, <3>3, <3>4
  <2>6. after[a] = IF i <= held THEN b[a] ELSE src[i - held]
    BY <1>4, <2>5
  <2>7. i <= held => i \in 1..held
    OBVIOUS
  <2>. QED BY <1>2, <1>5, <1>6, <2>3, <2>6, <2>7
<1>8. new = old \o src
  <2>1. \A i \in 1..Len(new) : new[i] = (old \o src)[i]
    BY <1>5, <1>7
  <2>2. Len(new) = Len(old \o src)
    BY <1>5, <1>6
  <2>. QED BY <1>5, <1>6, <2>1, <2>2, SeqEqual
<1>. QED BY <1>1, <1>4, <1>8 DEF new, after, old, w

-----------------------------------------------------------------------------
(* The invariant of the refinement.                                        *)

\* What stands in the buffer: nothing yet, or a byte of a writer.
Cells == {<<>>} \cup (ToSet(Writers) \X Nat)

StreamCalls ==
  [op : {"none", "read", "write", "RDONLY", "WRONLY"}, count : Int, done : Int, nonblock : BOOLEAN]

\* The buffer between its positions holds size bytes, and never more than it has room for.
BufferOK ==
  /\ size \in 0..SizeMax /\ read_pos \in 0..(SizeMax - 1)
  /\ write_pos = (read_pos + size) % SizeMax
  /\ buffer \in Buffer(SizeMax, Cells)

TransfersOK ==
  /\ test \in Tests
  /\ call \in [Procs -> StreamCalls]
  /\ sent \in [ToSet(Writers) -> Nat]
  /\ got \in [ToSet(Readers) -> Seq(Cells)]

BytesInv == BufferOK /\ TransfersOK

Held == Content(buffer, size, SizeMax, read_pos)

-----------------------------------------------------------------------------
(* The tests.                                                              *)

\* What the assumptions say of the constants.
LEMMA StreamConstants ==
  /\ SizeMax \in Nat \ {0}
  /\ Workers \subseteq Procs /\ ToSet(Writers) \subseteq Workers /\ ToSet(Readers) \subseteq Workers
  /\ PacketSize \in 1..SizeMax /\ TextLen \in Nat
BY StreamAssumption, FifoAssumption, SizeAssumption DEF Procs

\* The children of a test are some of the writers and of the readers.
LEMMA TestChildren ==
  ASSUME NEW t \in Tests
  PROVE  /\ ToSet(t.writers) \subseteq ToSet(Writers)
         /\ ToSet(t.readers) \subseteq ToSet(Readers)
         /\ t.medium \in {"pipe", "fifo"} /\ t.data \in {"text", "packets"}
<1>1. ToSet(One(Writers)) \subseteq ToSet(Writers) /\ ToSet(One(Readers)) \subseteq ToSet(Readers)
  <2>1. ASSUME NEW s \in Seq(Workers), s # <<>> PROVE ToSet(One(s)) \subseteq ToSet(s)
    <3>1. One(s) = <<s[1]>> /\ 1 \in DOMAIN s
      BY <2>1, EmptySeq, LenProperties DEF One
    <3>. QED BY <3>1 DEF ToSet
  <2>. QED BY <2>1, StreamAssumption
<1>2. t \in {test_itest_pipe1_init, test_itest_pipe2_init, test_itest_pipe3_init,
             test_itest_pipe4_init, test_itest_fifo1_init, test_itest_fifo2_init,
             test_itest_fifo3_init}
  BY TestsAssumption
<1>3. /\ t.writers \in {Writers, One(Writers)} /\ t.readers \in {Readers, One(Readers)}
      /\ t.medium \in {"pipe", "fifo"} /\ t.data \in {"text", "packets"}
  BY <1>2 DEF Test, test_itest_pipe1_init, test_itest_pipe2_init, test_itest_pipe3_init,
              test_itest_pipe4_init, test_itest_fifo1_init, test_itest_fifo2_init,
              test_itest_fifo3_init
<1>. QED BY <1>1, <1>3

-----------------------------------------------------------------------------
(* Steps.                                                                  *)

\* Two moves of a position are one.
LEMMA PlacesAdd ==
  ASSUME NEW S \in Nat \ {0}, NEW pos \in 0..(S - 1), NEW m \in 0..S, NEW n \in 0..S, m + n <= S
  PROVE  (((pos + m) % S) + n) % S = (pos + (m + n)) % S
<1>1. PICK x \in Nat : x = pos + m /\ x < S + S
  OBVIOUS
<1>2. x % S = IF x < S THEN x ELSE x - S
  BY <1>1, Wraps
<1>3. PICK y \in Nat : y = pos + m + n /\ y < S + S /\ y = pos + (m + n) /\ y = x + n
  BY <1>1
<1>4. y % S = IF y < S THEN y ELSE y - S
  BY <1>3, Wraps
<1>5. PICK z \in Nat : z = (x % S) + n /\ z < S + S /\ (z = y \/ z = y - S)
  <2>1. PICK v \in Int : v = x % S /\ v = IF x < S THEN x ELSE x - S
    BY <1>1, <1>2
  <2>2. v + n \in Nat /\ v + n < S + S /\ (v + n = y \/ v + n = y - S)
    BY <1>1, <1>3, <2>1
  <2>. QED BY <2>1, <2>2
<1>6. z % S = IF z < S THEN z ELSE z - S
  BY <1>5, Wraps
<1>7. z % S = y % S
  BY <1>1, <1>2, <1>3, <1>4, <1>5, <1>6
<1>. QED BY <1>1, <1>3, <1>5, <1>7

\* Nothing of the transfers changes but the calls.
Quiet ==
  /\ UNCHANGED <<size, read_pos, write_pos, buffer, test, sent, got>>
  /\ call' \in [Procs -> StreamCalls]

\* Such a step keeps the invariant and is no step of the channel.
LEMMA QuietKeeps ==
  ASSUME BytesInv, Quiet
  PROVE  BytesInv' /\ Held' = Held /\ UNCHANGED <<sent, got>>
BY DEF BytesInv, BufferOK, TransfersOK, Quiet, Held, Content

\* Names for the positions and the sizes of a copy; for a write, with the rest
\* of what it needs, so that one fact is all its lemma asks for.
ReadTo(S, pos, held, n, from, next, left) ==
  n \in 0..held /\ from = n + 1 /\ next = (pos + n) % S /\ left = held - n
WrittenFrom(S, V, b, pos, held, src, next, left, after) ==
  /\ S \in Nat /\ b \in Buffer(S, V) /\ pos \in 0..(S - 1) /\ held \in 0..S /\ src \in Seq(V)
  /\ held + Len(src) <= S /\ next = (pos + held) % S /\ left = held + Len(src)
  /\ after = Circular_buffer_write(src, b, S, next)

\* ReadLeavesTheRest, in these names.
LEMMA ReadMoves ==
  ASSUME NEW S \in Nat, NEW V, NEW b \in Buffer(S, V), NEW pos \in 0..(S - 1), NEW held \in 0..S,
         NEW n, NEW from, NEW next, NEW left, ReadTo(S, pos, held, n, from, next, left)
  PROVE  Content(b, left, S, next) = SubSeq(Content(b, held, S, pos), from, held)
<1>1. n \in 0..held /\ from = n + 1 /\ next = (pos + n) % S /\ left = held - n
  BY DEF ReadTo
<1>. QED BY <1>1, ReadLeavesTheRest

\* WriteAppends, in these names.
LEMMA WriteMoves ==
  ASSUME NEW S, NEW V, NEW b, NEW pos, NEW held, NEW src, NEW next, NEW left, NEW after,
         WrittenFrom(S, V, b, pos, held, src, next, left, after)
  PROVE  after \in Buffer(S, V) /\ Content(after, left, S, pos) = Content(b, held, S, pos) \o src
BY WriteAppends DEF WrittenFrom

\* The buffer's own numbers put into it.
LEMMA BufferGrows ==
  ASSUME BytesInv, NEW n, NEW new, new \in Seq(Cells), Len(new) = n, size + n <= SizeMax,
         buffer' = Circular_buffer_write(new, buffer, SizeMax, write_pos)
  PROVE  /\ buffer' \in Buffer(SizeMax, Cells)
         /\ Content(buffer', size + n, SizeMax, read_pos)
              = Content(buffer, size, SizeMax, read_pos) \o new
<1>1. /\ buffer \in Buffer(SizeMax, Cells) /\ read_pos \in 0..(SizeMax - 1) /\ size \in 0..SizeMax
      /\ write_pos = (read_pos + size) % SizeMax /\ SizeMax \in Nat
  BY StreamConstants DEF BytesInv, BufferOK
<1>2. WrittenFrom(SizeMax, Cells, buffer, read_pos, size, new, write_pos, size + n, buffer')
  BY <1>1 DEF WrittenFrom
<1>. QED BY <1>2, WriteMoves

\* The numbers of a call.
LEMMA CallFacts ==
  /\ Idle \in StreamCalls
  /\ \A p \in Procs : call \in [Procs -> StreamCalls] =>
       /\ Left(p) \in Int
       /\ \A n \in Int : [call[p] EXCEPT !.done = @ + n] \in StreamCalls
<1>1. Idle \in StreamCalls
  BY DEF Idle, StreamCalls
<1>2. ASSUME NEW c \in StreamCalls
      PROVE  /\ c.count \in Int /\ c.done \in Int
             /\ \A n \in Int : [c EXCEPT !.done = @ + n] \in StreamCalls
  BY DEF StreamCalls
<1>3. ASSUME NEW p \in Procs, call \in [Procs -> StreamCalls]
      PROVE  /\ Left(p) \in Int
             /\ \A n \in Int : [call[p] EXCEPT !.done = @ + n] \in StreamCalls
  <2>1. call[p] \in StreamCalls
    BY <1>3
  <2>2. call[p].count \in Int /\ call[p].done \in Int
    BY <1>2, <2>1
  <2>3. \A n \in Int : [call[p] EXCEPT !.done = @ + n] \in StreamCalls
    BY <1>2, <2>1
  <2>. QED BY <2>2, <2>3 DEF Left
<1>. QED BY <1>1, <1>3

\* What Ipc_write does to the calls and to the size.
LEMMA IpcWriteStep ==
  ASSUME BytesInv, NEW p \in Procs, Ipc_write(p)
  PROVE  /\ call' \in [Procs -> StreamCalls]
         /\ \E n \in 0..(SizeMax - size) : size' = size + n
<1>. USE DEF BytesInv, BufferOK, TransfersOK
<1>0. /\ Left(p) \in Int /\ Idle \in StreamCalls
      /\ \A n \in Int : [call[p] EXCEPT !.done = @ + n] \in StreamCalls
  BY CallFacts
<1>1. CASE Answer(p, Free = 0) \/ Ipc_lock_writer(p)
  <2>1. size' = size /\ (call' = call \/ Return(p))
    BY <1>1 DEF Answer, Ipc_lock_writer, Crash
  <2>2. call' \in [Procs -> StreamCalls]
    BY <1>0, <2>1 DEF Return
  <2>3. 0 \in 0..(SizeMax - size) /\ size' = size + 0
    BY <2>1, StreamConstants
  <2>. QED BY <2>2, <2>3
<1>2. CASE Left(p) > 0 /\ WriteBytes(p)
  <2>. DEFINE n == Writable(p)
  <2>1. size' = size + n /\ n \in 0..(SizeMax - size) /\ Written(p, n)
    BY <1>0, <1>2, StreamConstants DEF WriteBytes, Writable, Free
  <2>. HIDE DEF n
  <2>2. call' \in [Procs -> StreamCalls]
    <3>1. CASE Return(p)
      BY <1>0, <3>1 DEF Return
    <3>2. CASE call' = [call EXCEPT ![p].done = @ + n]
      BY <1>0, <2>1, <3>2
    <3>. QED BY <2>1, <3>1, <3>2 DEF Written
  <2>. QED BY <2>1, <2>2
<1>. QED BY <1>1, <1>2 DEF Ipc_write

\* What Ipc_read does to them.
LEMMA IpcReadStep ==
  ASSUME BytesInv, NEW p \in Procs, Ipc_read(p)
  PROVE  /\ call' \in [Procs -> StreamCalls]
         /\ \E n \in 0..size : size' = size - n
<1>. USE DEF BytesInv, BufferOK, TransfersOK
<1>0. /\ Left(p) \in Int /\ Idle \in StreamCalls
      /\ \A n \in Int : [call[p] EXCEPT !.done = @ + n] \in StreamCalls
  BY CallFacts
<1>1. CASE Answer(p, size = 0) \/ Ipc_lock_reader(p)
  <2>1. size' = size /\ (call' = call \/ Return(p))
    BY <1>1 DEF Answer, Ipc_lock_reader, Crash
  <2>2. call' \in [Procs -> StreamCalls]
    BY <1>0, <2>1 DEF Return
  <2>3. 0 \in 0..size /\ size' = size - 0
    BY <2>1, StreamConstants
  <2>. QED BY <2>2, <2>3
<1>2. CASE Left(p) > 0 /\ ReadBytes(p)
  <2>. DEFINE n == IF size < Left(p) THEN size ELSE Left(p)
  <2>1. size' = size - n /\ n \in 0..size /\ Return(p)
    BY <1>0, <1>2, StreamConstants DEF ReadBytes
  <2>. QED BY <1>0, <2>1 DEF Return
<1>. QED BY <1>1, <1>2 DEF Ipc_read

\* Bytes that are written stand behind those in the buffer.
LEMMA WriteIsSend ==
  ASSUME BytesInv, NEW p \in ToSet(Writers), Fifo_write(p),
         LET n == size' - size
             new == [i \in 1..n |-> <<p, sent[p] + i>>]
         IN /\ sent' = [sent EXCEPT ![p] = @ + n]
            /\ buffer' = Circular_buffer_write(new, buffer, SizeMax, write_pos),
         UNCHANGED <<test, got>>
  PROVE  /\ BytesInv'
         /\ \E n \in 0..SizeMax :
              /\ Len(Held) + n <= SizeMax
              /\ Held' = Held \o [i \in 1..n |-> <<p, sent[p] + i>>]
              /\ sent' = [sent EXCEPT ![p] = @ + n]
              /\ n = size' - size
<1>. USE StreamConstants
<1>1. p \in Procs /\ sent[p] \in Nat
  BY DEF BytesInv, TransfersOK
<1>2. /\ call' \in [Procs -> StreamCalls] /\ read_pos' = read_pos
      /\ \E n \in 0..(SizeMax - size) : size' = size + n
      /\ write_pos' = (write_pos + (size' - size)) % SizeMax
  <2>1. CASE readers_number = 0
    <3>1. size' = size /\ write_pos' = write_pos /\ read_pos' = read_pos /\ Return(p)
      BY <2>1 DEF Fifo_write
    <3>2. write_pos \in 0..(SizeMax - 1)
      BY NextPlace DEF BytesInv, BufferOK
    <3>3. (write_pos + 0) % SizeMax = write_pos
      BY <3>2, Wraps
    <3>4. call' \in [Procs -> StreamCalls]
      BY <3>1, CallFacts DEF Return, BytesInv, TransfersOK
    <3>. QED BY <3>1, <3>3, <3>4 DEF BytesInv, BufferOK
  <2>2. CASE readers_number # 0
    <3>1. Ipc_write(p) /\ write_pos' = Advanced(write_pos, size' - size) /\ read_pos' = read_pos
      BY <2>2 DEF Fifo_write
    <3>2. /\ call' \in [Procs -> StreamCalls]
          /\ \E n \in 0..(SizeMax - size) : size' = size + n
      BY <1>1, <3>1, IpcWriteStep
    <3>. QED BY <3>1, <3>2 DEF Advanced
  <2>. QED BY <2>1, <2>2
<1>3. PICK n \in 0..(SizeMax - size) : size' = size + n
  BY <1>2
<1>4. size \in 0..SizeMax /\ n \in 0..SizeMax /\ size' - size = n /\ size' \in 0..SizeMax
  BY <1>3 DEF BytesInv, BufferOK
<1>. DEFINE new == [i \in 1..n |-> <<p, sent[p] + i>>]
<1>5. sent' = [sent EXCEPT ![p] = @ + n] /\ buffer' = Circular_buffer_write(new, buffer, SizeMax, write_pos)
  BY <1>4
<1>6. new \in Seq(Cells) /\ Len(new) = n
  BY <1>1, <1>4 DEF Cells
<1>. HIDE DEF new
<1>7. /\ buffer' \in Buffer(SizeMax, Cells)
      /\ Content(buffer', size + n, SizeMax, read_pos) = Content(buffer, size, SizeMax, read_pos) \o new
  <2>1. size + n <= SizeMax
    BY <1>3, <1>4
  <2>. QED BY <1>5, <1>6, <2>1, BufferGrows
<1>8. write_pos' = (read_pos' + size') % SizeMax
  <2>1. write_pos' = (((read_pos + size) % SizeMax) + n) % SizeMax
    BY <1>2, <1>4 DEF BytesInv, BufferOK
  <2>2. read_pos \in 0..(SizeMax - 1) /\ size + n <= SizeMax
    BY <1>3, <1>4 DEF BytesInv, BufferOK
  <2>3. (((read_pos + size) % SizeMax) + n) % SizeMax = (read_pos + (size + n)) % SizeMax
    BY <1>4, <2>2, PlacesAdd
  <2>. QED BY <1>2, <1>3, <2>1, <2>3
<1>9. sent' \in [ToSet(Writers) -> Nat]
  BY <1>1, <1>4, <1>5 DEF BytesInv, TransfersOK
<1>10. BytesInv'
  BY <1>2, <1>4, <1>7, <1>8, <1>9 DEF BytesInv, BufferOK, TransfersOK
<1>11. Held' = Held \o new
  BY <1>2, <1>3, <1>7 DEF Held
<1>12. Len(Held) = size
  BY ContentAt DEF Held, BytesInv, BufferOK
<1>13. Len(Held) + n <= SizeMax
  BY <1>3, <1>4, <1>12
<1>. QED BY <1>4, <1>5, <1>10, <1>11, <1>13 DEF new

\* Bytes that are read are the oldest, and leave the others.
LEMMA ReadIsReceive ==
  ASSUME BytesInv, NEW p \in ToSet(Readers), Fifo_read(p),
         got' = [got EXCEPT ![p] = @ \o Circular_buffer_read(buffer, size - size', SizeMax, read_pos)],
         UNCHANGED <<test, sent, buffer>>
  PROVE  /\ BytesInv'
         /\ \E n \in 0..SizeMax :
              /\ n <= Len(Held)
              /\ got' = [got EXCEPT ![p] = @ \o SubSeq(Held, 1, n)]
              /\ Held' = SubSeq(Held, n + 1, Len(Held))
              /\ n = size - size'
<1>. USE StreamConstants
<1>1. p \in Procs /\ got[p] \in Seq(Cells)
  BY DEF BytesInv, TransfersOK
<1>2. /\ call' \in [Procs -> StreamCalls] /\ write_pos' = write_pos
      /\ \E n \in 0..size : size' = size - n
      /\ read_pos' = (read_pos + (size - size')) % SizeMax
  <2>1. CASE size = 0 /\ writers_number = 0
    <3>1. size' = size /\ write_pos' = write_pos /\ read_pos' = read_pos /\ Return(p)
      BY <2>1 DEF Fifo_read
    <3>2. (read_pos + 0) % SizeMax = read_pos
      BY Wraps DEF BytesInv, BufferOK
    <3>3. call' \in [Procs -> StreamCalls]
      BY <3>1, CallFacts DEF Return, BytesInv, TransfersOK
    <3>. QED BY <3>1, <3>2, <3>3 DEF BytesInv, BufferOK
  <2>2. CASE ~(size = 0 /\ writers_number = 0)
    <3>1. Ipc_read(p) /\ read_pos' = Advanced(read_pos, size - size') /\ write_pos' = write_pos
      BY <2>2 DEF Fifo_read
    <3>2. /\ call' \in [Procs -> StreamCalls]
          /\ \E n \in 0..size : size' = size - n
      BY <1>1, <3>1, IpcReadStep
    <3>. QED BY <3>1, <3>2 DEF Advanced
  <2>. QED BY <2>1, <2>2
<1>3. PICK n \in 0..size : size' = size - n
  BY <1>2
<1>4. /\ size \in 0..SizeMax /\ n \in 0..SizeMax /\ size - size' = n /\ size' \in 0..SizeMax
      /\ read_pos' = (read_pos + n) % SizeMax /\ read_pos \in 0..(SizeMax - 1)
      /\ buffer \in Buffer(SizeMax, Cells)
  BY <1>2, <1>3 DEF BytesInv, BufferOK
<1>5. /\ Held \in Seq(Cells) /\ Len(Held) = size
  BY <1>4, ContentAt DEF Held
<1>6. Circular_buffer_read(buffer, n, SizeMax, read_pos) = SubSeq(Held, 1, n)
  BY <1>3, <1>4, ReadTakesOldest DEF Held
<1>7. Held' = SubSeq(Held, n + 1, Len(Held))
  <2>1. ReadTo(SizeMax, read_pos, size, n, n + 1, read_pos', size')
    BY <1>3, <1>4 DEF ReadTo
  <2>2. Content(buffer, size', SizeMax, read_pos')
          = SubSeq(Content(buffer, size, SizeMax, read_pos), n + 1, size)
    <3>1. SizeMax \in Nat /\ size \in 0..SizeMax /\ read_pos \in 0..(SizeMax - 1)
          /\ buffer \in Buffer(SizeMax, Cells)
      BY <1>4
    <3>2. PICK from, next, left : from = n + 1 /\ next = read_pos' /\ left = size'
      OBVIOUS
    <3>3. ReadTo(SizeMax, read_pos, size, n, from, next, left)
      BY <2>1, <3>2
    <3>4. Content(buffer, left, SizeMax, next)
            = SubSeq(Content(buffer, size, SizeMax, read_pos), from, size)
      BY <3>1, <3>3, ReadMoves
    <3>. QED BY <3>2, <3>4
  <2>. QED BY <1>5, <2>2 DEF Held
<1>8. got' = [got EXCEPT ![p] = @ \o SubSeq(Held, 1, n)]
  BY <1>4, <1>6
<1>9. got' \in [ToSet(Readers) -> Seq(Cells)]
  <2>1. SubSeq(Held, 1, n) \in Seq(Cells)
    BY <1>3, <1>4, <1>5, PartAt
  <2>2. got[p] \o SubSeq(Held, 1, n) \in Seq(Cells)
    BY <1>1, <2>1, ConcatProperties
  <2>. QED BY <1>8, <2>2 DEF BytesInv, TransfersOK
<1>10. read_pos' \in 0..(SizeMax - 1) /\ write_pos' = (read_pos' + size') % SizeMax
  <2>1. read_pos' \in 0..(SizeMax - 1)
    BY <1>4, NextPlace
  <2>2. write_pos' = (read_pos + size) % SizeMax
    BY <1>2 DEF BytesInv, BufferOK
  <2>3. (read_pos + size) % SizeMax = (((read_pos + n) % SizeMax) + (size - n)) % SizeMax
    <3>1. PICK m \in 0..SizeMax : m = size - n /\ n + m <= SizeMax /\ n + m = size
      BY <1>3, <1>4
    <3>2. (((read_pos + n) % SizeMax) + m) % SizeMax = (read_pos + (n + m)) % SizeMax
      BY <1>4, <3>1, PlacesAdd
    <3>. QED BY <3>1, <3>2
  <2>. QED BY <1>3, <1>4, <2>1, <2>2, <2>3
<1>11. BytesInv'
  BY <1>2, <1>4, <1>9, <1>10 DEF BytesInv, BufferOK, TransfersOK
<1>12. n <= Len(Held) /\ n = size - size'
  BY <1>3, <1>4, <1>5
<1>. QED BY <1>4, <1>7, <1>8, <1>11, <1>12

\* What init does, and the timer, transfers nothing.
LEMMA ParentQuiet ==
  ASSUME BytesInv, Parent \/ \E elapsed \in SUBSET ToSet(asleep) : StreamSchedule(elapsed)
  PROVE  Quiet
<1>0. call \in [Procs -> StreamCalls]
  BY DEF BytesInv, TransfersOK
<1>. USE DEF UnchangedIpc, UnchangedFifo, Quiet, progVars
<1>1. CASE \E elapsed \in SUBSET ToSet(asleep) : StreamSchedule(elapsed)
  BY <1>0, <1>1 DEF StreamSchedule
<1>2. CASE SpawnNext
  BY <1>0, <1>2 DEF SpawnNext, Spawn
<1>3. CASE \E where, mode, next : Close(Init_pcb, where, mode, next)
  BY <1>0, <1>3 DEF Close, Resource_close
<1>4. CASE WaitNext
  BY <1>0, <1>4 DEF WaitNext
<1>5. CASE EndTest
  BY <1>0, <1>5 DEF EndTest
<1>. QED BY <1>1, <1>2, <1>3, <1>4, <1>5 DEF Parent

\* Nor do the closes, the opens, the sleep and the exit of a child, or the beginning
\* of a transfer.
LEMMA ChildQuiet ==
  ASSUME BytesInv, NEW p \in Procs
  PROVE  /\ \A where, mode, next : Close(p, where, mode, next) => Quiet
         /\ \A mode \in {"RDONLY", "WRONLY"} : \A next : Opening(p, mode, next) => Quiet
         /\ Sleep(p) => Quiet
         /\ Exit(p) => Quiet
         /\ \A op \in {"read", "write"}, count \in Int : Begins(p, op, count) => Quiet
<1>0. call \in [Procs -> StreamCalls] /\ Idle \in StreamCalls
  BY CallFacts DEF BytesInv, TransfersOK
<1>. USE DEF UnchangedIpc, UnchangedFifo, Quiet, progVars
<1>1. ASSUME NEW where, NEW mode, NEW next, Close(p, where, mode, next) PROVE Quiet
  BY <1>0, <1>1 DEF Close, Resource_close
<1>2. ASSUME NEW mode \in {"RDONLY", "WRONLY"}, NEW next, Opening(p, mode, next) PROVE Quiet
  <2>1. UNCHANGED <<size, read_pos, write_pos, buffer, test, sent, got>>
    BY <1>2 DEF Opening, Resource_open, OpenFails, OpenReader, OpenWriter, Opened, Crash
  <2>2. CASE call' = call \/ call' = [call EXCEPT ![p] = Idle]
    BY <1>0, <2>1, <2>2
  <2>3. CASE call' = [call EXCEPT ![p] = [op |-> mode, count |-> 0, done |-> 0, nonblock |-> FALSE]]
    <3>1. [op |-> mode, count |-> 0, done |-> 0, nonblock |-> FALSE] \in StreamCalls
      BY DEF StreamCalls
    <3>. QED BY <1>0, <2>1, <2>3, <3>1
  <2>. QED BY <1>2, <2>2, <2>3
       DEF Opening, Resource_open, OpenFails, OpenReader, OpenWriter, Opened, Crash, Return
<1>3. ASSUME Sleep(p) PROVE Quiet
  BY <1>0, <1>3 DEF Sleep
<1>4. ASSUME Exit(p) PROVE Quiet
  BY <1>0, <1>4 DEF Exit
<1>5. ASSUME NEW op \in {"read", "write"}, NEW count \in Int, Begins(p, op, count) PROVE Quiet
  <2>1. [op |-> op, count |-> count, done |-> 0, nonblock |-> FALSE] \in StreamCalls
    BY DEF StreamCalls
  <2>. QED BY <1>0, <1>5, <2>1 DEF Begins
<1>. QED BY <1>1, <1>2, <1>3, <1>4, <1>5

\* What a child may do: something of its program, as a writer or as a reader.
LEMMA ChildDoes ==
  ASSUME BytesInv, NEW p \in Workers, Child(p)
  PROVE  \/ \E where, mode, next : Close(p, where, mode, next)
         \/ \E mode \in {"RDONLY", "WRONLY"} : \E next : Opening(p, mode, next)
         \/ Sleep(p) \/ Exit(p)
         \/ p \in ToSet(Writers) /\ Write(p)
         \/ p \in ToSet(Readers) /\ Read(p)
<1>1. ToSet(test.writers) \subseteq ToSet(Writers) /\ ToSet(test.readers) \subseteq ToSet(Readers)
  BY TestChildren DEF BytesInv, TransfersOK
<1>2. \/ /\ p \in ToSet(test.writers)
         /\ \/ test_itest_pipe_text_writer(p) \/ test_itest_pipe_packet_writer(p)
            \/ test_itest_fifo_text_writer(p) \/ test_itest_fifo_packet_writer(p)
      \/ /\ p \in ToSet(test.readers)
         /\ \/ test_itest_pipe_text_reader(p) \/ test_itest_pipe_packet_reader(p)
            \/ test_itest_fifo_text_reader(p) \/ test_itest_fifo_packet_reader(p)
  BY DEF Child
<1>. QED BY <1>1, <1>2 DEF test_itest_pipe_text_writer, test_itest_pipe_packet_writer,
            test_itest_fifo_text_writer, test_itest_fifo_packet_writer, test_itest_pipe_text_reader,
            test_itest_pipe_packet_reader, test_itest_fifo_text_reader, test_itest_fifo_packet_reader

\* A step keeps the invariant and is a step of the channel, or none.
LEMMA StreamStep ==
  ASSUME BytesInv, [StreamNext]_streamVars
  PROVE  BytesInv' /\ [Bytes!ChannelNext]_(Bytes!channelVars)
<1>1. CASE Quiet
  BY <1>1, QuietKeeps DEF Bytes!channelVars, Held
<1>2. ASSUME NEW p \in ToSet(Writers), Write(p) PROVE BytesInv' /\ [Bytes!ChannelNext]_(Bytes!channelVars)
  <2>1. CASE Begins(p, "write", Chunk)
    <3>1. Chunk \in Int
      BY StreamConstants DEF Chunk
    <3>. QED BY <1>1, <2>1, <3>1, StreamConstants, ChildQuiet
  <2>2. CASE ~Begins(p, "write", Chunk)
    <3>1. /\ BytesInv'
          /\ \E n \in 0..SizeMax :
               /\ Len(Held) + n <= SizeMax
               /\ Held' = Held \o [i \in 1..n |-> <<p, sent[p] + i>>]
               /\ sent' = [sent EXCEPT ![p] = @ + n]
      BY <1>2, <2>2, WriteIsSend DEF Write
    <3>2. got' = got
      BY <1>2, <2>2 DEF Write
    <3>3. PICK n \in 0..SizeMax :
            /\ Len(Held) + n <= SizeMax
            /\ Held' = Held \o [i \in 1..n |-> <<p, sent[p] + i>>]
            /\ sent' = [sent EXCEPT ![p] = @ + n]
      BY <3>1
    <3>4. CASE n = 0
      <4>1. Held \in Seq(Cells)
        BY StreamConstants, ContentAt DEF Held, BytesInv, BufferOK
      <4>2. Held' = Held
        BY <3>3, <3>4, <4>1, ConcatProperties
      <4>3. sent' = sent
        BY <3>3, <3>4 DEF BytesInv, TransfersOK
      <4>. QED BY <3>1, <3>2, <4>2, <4>3 DEF Bytes!channelVars, Held
    <3>5. CASE n # 0
      <4>1. Bytes!Send(p, n)
        BY <3>2, <3>3 DEF Bytes!Send, Bytes!Byte, Held
      <4>2. n \in 1..SizeMax
        BY <3>5, StreamConstants
      <4>. QED BY <3>1, <4>1, <4>2 DEF Bytes!ChannelNext
    <3>. QED BY <3>4, <3>5
  <2>. QED BY <2>1, <2>2
<1>3. ASSUME NEW p \in ToSet(Readers), Read(p) PROVE BytesInv' /\ [Bytes!ChannelNext]_(Bytes!channelVars)
  <2>1. CASE Begins(p, "read", Wanted(p))
    <3>1. Wanted(p) \in Int
      <4>1. Len(got[p]) \in Nat
        BY LenProperties DEF BytesInv, TransfersOK
      <4>. QED BY <4>1, StreamConstants DEF Wanted
    <3>. QED BY <1>1, <2>1, <3>1, StreamConstants, ChildQuiet
  <2>2. CASE ~Begins(p, "read", Wanted(p))
    <3>1. /\ BytesInv'
          /\ \E n \in 0..SizeMax :
               /\ n <= Len(Held)
               /\ got' = [got EXCEPT ![p] = @ \o SubSeq(Held, 1, n)]
               /\ Held' = SubSeq(Held, n + 1, Len(Held))
      BY <1>3, <2>2, ReadIsReceive DEF Read
    <3>2. sent' = sent
      BY <1>3, <2>2 DEF Read
    <3>3. PICK n \in 0..SizeMax :
               /\ n <= Len(Held)
               /\ got' = [got EXCEPT ![p] = @ \o SubSeq(Held, 1, n)]
               /\ Held' = SubSeq(Held, n + 1, Len(Held))
      BY <3>1
    <3>4. CASE n = 0
      <4>1. Held \in Seq(Cells) /\ got[p] \in Seq(Cells) /\ got \in [ToSet(Readers) -> Seq(Cells)]
        BY StreamConstants, ContentAt DEF Held, BytesInv, BufferOK, TransfersOK
      <4>2. SubSeq(Held, 0 + 1, Len(Held)) = Held /\ SubSeq(Held, 1, 0) = <<>>
        BY <4>1, SubSeqProperties, LenProperties
      <4>3. got[p] \o <<>> = got[p]
        BY <4>1, ConcatProperties
      <4>4. Held' = Held /\ got' = got
        BY <3>3, <3>4, <4>1, <4>2, <4>3
      <4>. QED BY <3>1, <3>2, <4>4 DEF Bytes!channelVars, Held
    <3>5. CASE n # 0
      <4>1. Bytes!Receive(p, n)
        BY <3>2, <3>3 DEF Bytes!Receive, Held
      <4>2. n \in 1..SizeMax
        BY <3>5, StreamConstants
      <4>. QED BY <3>1, <4>1, <4>2 DEF Bytes!ChannelNext
    <3>. QED BY <3>4, <3>5
  <2>. QED BY <2>1, <2>2
<1>4. CASE UNCHANGED streamVars
  <2>1. Quiet
    BY <1>4 DEF streamVars, fifoVars, vars, progVars, Quiet, BytesInv, TransfersOK
  <2>. QED BY <1>1, <2>1
<1>5. CASE Parent \/ \E elapsed \in SUBSET ToSet(asleep) : StreamSchedule(elapsed)
  BY <1>1, <1>5, ParentQuiet
<1>6. ASSUME NEW p \in Workers, Child(p) PROVE BytesInv' /\ [Bytes!ChannelNext]_(Bytes!channelVars)
  <2>1. p \in Procs
    BY StreamConstants
  <2>2. \/ \E where, mode, next : Close(p, where, mode, next)
        \/ \E mode \in {"RDONLY", "WRONLY"} : \E next : Opening(p, mode, next)
        \/ Sleep(p) \/ Exit(p)
        \/ p \in ToSet(Writers) /\ Write(p)
        \/ p \in ToSet(Readers) /\ Read(p)
    BY <1>6, ChildDoes
  <2>3. CASE \E where, mode, next : Close(p, where, mode, next)
    BY <1>1, <2>1, <2>3, ChildQuiet
  <2>4. CASE \E mode \in {"RDONLY", "WRONLY"} : \E next : Opening(p, mode, next)
    <3>1. PICK mode \in {"RDONLY", "WRONLY"} : \E next : Opening(p, mode, next)
      BY <2>4
    <3>2. PICK next : Opening(p, mode, next)
      BY <3>1
    <3>3. \A m \in {"RDONLY", "WRONLY"} : \A n : Opening(p, m, n) => Quiet
      BY <2>1, ChildQuiet
    <3>4. Quiet
      BY <3>2, <3>3
    <3>. QED BY <1>1, <3>4
  <2>5. CASE Sleep(p) \/ Exit(p)
    BY <1>1, <2>1, <2>5, ChildQuiet
  <2>. QED BY <1>2, <1>3, <2>2, <2>3, <2>4, <2>5
<1>. QED BY <1>4, <1>5, <1>6 DEF StreamNext

\* A run begins with an empty buffer, as the channel does.
LEMMA StreamStart ==
  ASSUME StreamInit
  PROVE  BytesInv /\ Bytes!ChannelInit
<1>1. BufferOK
  <2>1. (0 + 0) % SizeMax = 0
    BY StreamConstants, Wraps
  <2>. QED BY <2>1, StreamConstants DEF StreamInit, BufferOK, Buffer, Cells
<1>2. TransfersOK
  <2>1. call = [p \in Procs |-> Idle] /\ test \in Tests
        /\ sent = [w \in ToSet(Writers) |-> 0] /\ got = [r \in ToSet(Readers) |-> <<>>]
    BY DEF StreamInit
  <2>. QED BY <2>1, CallFacts DEF TransfersOK
<1>3. Bytes!ChannelInit
  <2>1. size = 0 /\ sent = [w \in ToSet(Writers) |-> 0] /\ got = [r \in ToSet(Readers) |-> <<>>]
    BY DEF StreamInit
  <2>2. Content(buffer, size, SizeMax, read_pos) = <<>>
    BY <2>1 DEF Content
  <2>. QED BY <2>1, <2>2 DEF Bytes!ChannelInit
<1>. QED BY <1>1, <1>2, <1>3 DEF BytesInv

\* The buffer always holds size bytes between its positions.
THEOREM StreamInvariant == StreamSpec => []BytesInv
<1>1. BytesInv /\ [StreamNext]_streamVars => BytesInv'
  BY StreamStep
<1>. QED BY <1>1, StreamStart, PTL DEF StreamSpec

\* Every run of the tests is a run of the channel: every byte that is read is the
\* oldest written that nobody has read yet (IsChannel).
THEOREM StreamIsChannel == StreamSpec => IsChannel
<1>1. BytesInv /\ [StreamNext]_streamVars => [Bytes!ChannelNext]_(Bytes!channelVars)
  BY StreamStep
<1>2. StreamInit => Bytes!ChannelInit
  BY StreamStart
<1>. QED BY <1>1, <1>2, StreamInvariant, PTL DEF StreamSpec, IsChannel, Bytes!ChannelSpec

-----------------------------------------------------------------------------
(* Packets: arithmetic of remainders, and sequences of whole packets.      *)

\* A remainder is what a quotient leaves.
LEMMA Quotient ==
  ASSUME NEW P \in Nat, P > 0, NEW a \in Nat
  PROVE  a % P \in 0..(P - 1) /\ \E q \in Nat : a = (P * q) + (a % P)
<1>1. a % P \in 0..(P - 1) /\ a \div P \in Nat
  BY SMTT(30)
<1>2. a = (P * (a \div P)) + (a % P)
  BY SMTT(30)
<1>. QED BY <1>1, <1>2

\* And the only such.
LEMMA RemainderIs ==
  ASSUME NEW P \in Nat, P > 0, NEW a \in Nat, NEW q \in Nat, NEW r \in 0..(P - 1), a = (P * q) + r
  PROVE  a % P = r
<1>2. PICK k \in Nat : a = (P * k) + (a % P)
  BY Quotient
<1>3. PICK s \in 0..(P - 1) : s = a % P
  BY Quotient
<1>4. (P * k) + s = (P * q) + r
  BY <1>2, <1>3
<1>5. ASSUME NEW x \in Nat, NEW y \in Nat, x > y PROVE P * x >= (P * y) + P
  <2>1. PICK d \in Nat : x = y + d /\ d >= 1
    BY <1>5
  <2>2. P * x = (P * y) + (P * d) /\ P * d >= P /\ P * y \in Nat /\ P * d \in Nat
    BY <2>1, SMTT(30)
  <2>. QED BY <2>2
<1>6. P * k \in Nat /\ P * q \in Nat
  OBVIOUS
<1>7. ~(k > q) /\ ~(q > k)
  <2>1. ASSUME k > q PROVE FALSE
    <3>1. P * k >= (P * q) + P
      BY <1>5, <2>1
    <3>. HIDE <1>5
    <3>. QED BY <1>4, <1>6, <3>1
  <2>2. ASSUME q > k PROVE FALSE
    <3>1. P * q >= (P * k) + P
      BY <1>5, <2>2
    <3>. QED BY <1>4, <1>6, <3>1
  <2>. QED BY <2>1, <2>2
<1>8. k = q
  BY <1>7
<1>. QED BY <1>3, <1>4, <1>6, <1>8

\* Multiples of P may be left out of a remainder.
LEMMA Shift ==
  ASSUME NEW P \in Nat, P > 0, NEW a \in Nat, NEW b \in Nat, a % P = 0
  PROVE  (a + b) % P = b % P
<1>1. PICK k \in Nat : a = P * k
  BY Quotient
<1>2. PICK q \in Nat : b = (P * q) + (b % P)
  BY Quotient
<1>3. PICK r \in 0..(P - 1) : r = b % P
  BY Quotient
<1>4. PICK m \in Nat : m = k + q
  OBVIOUS
<1>5. P * m = (P * k) + (P * q)
  BY <1>4, SMTT(30)
<1>6. PICK c \in Nat : c = a + b
  OBVIOUS
<1>7. c = (P * m) + r
  BY <1>1, <1>2, <1>3, <1>5, <1>6
<1>8. c % P = r
  BY <1>7, RemainderIs
<1>. QED BY <1>3, <1>6, <1>8

\* 0 and P are multiples, and a multiple that is not 0 is P at least.
LEMMA Multiples ==
  ASSUME NEW P \in Nat, P > 0
  PROVE  /\ 0 % P = 0 /\ P % P = 0
         /\ \A a \in Nat : a % P = 0 /\ a > 0 => a >= P /\ (a - P) % P = 0
<1>1. 0 % P = 0 /\ P % P = 0
  <2>1. 0 = (P * 0) + 0 /\ P = (P * 1) + 0 /\ 0 \in 0..(P - 1)
    OBVIOUS
  <2>. QED BY <2>1, RemainderIs
<1>2. ASSUME NEW a \in Nat, a % P = 0, a > 0 PROVE a >= P /\ (a - P) % P = 0
  <2>1. PICK k \in Nat : a = P * k
    BY <1>2, Quotient
  <2>2. k # 0
    BY <1>2, <2>1
  <2>3. PICK j \in Nat : k = j + 1
    BY <2>2
  <2>4. a = (P * j) + P /\ P * j \in Nat
    BY <2>1, <2>3, SMTT(30)
  <2>5. PICK c \in Nat : c = a - P /\ c = (P * j) + 0 /\ a >= P /\ 0 \in 0..(P - 1)
    BY <2>4
  <2>6. c % P = 0
    BY <2>5, RemainderIs
  <2>. QED BY <2>5, <2>6
<1>. QED BY <1>1, <1>2

\* s is a sequence of whole packets of P bytes: pairs of a writer and a number, which
\* go on by one within a packet.
Packets(P, s) ==
  /\ Len(s) % P = 0
  /\ \A i \in 1..Len(s) :
       /\ s[i][2] % P = i % P
       /\ i % P # 1 % P => s[i] = <<s[i - 1][1], s[i - 1][2] + 1>>

\* Packets behind packets.
LEMMA PacketsJoin ==
  ASSUME NEW P \in Nat, P > 0, NEW V, NEW s \in Seq(V), NEW t \in Seq(V),
         Packets(P, s), Packets(P, t)
  PROVE  s \o t \in Seq(V) /\ Packets(P, s \o t)
<1>1. PICK u : u = s \o t
  OBVIOUS
<1>2. PICK m \in Nat, n \in Nat : m = Len(s) /\ n = Len(t)
  BY LenProperties
<1>3. /\ u \in Seq(V) /\ Len(u) = m + n
      /\ \A i \in 1..m : u[i] = s[i]
      /\ \A i \in (m + 1)..(m + n) : u[i] = t[i - m]
  <2>1. /\ u \in Seq(V) /\ Len(u) = m + n
        /\ \A i \in 1..(m + n) : u[i] = IF i <= m THEN s[i] ELSE t[i - m]
    BY <1>1, <1>2, ConcatProperties
  <2>2. \A i \in 1..m : i \in 1..(m + n) /\ i <= m
    BY <1>2
  <2>3. \A i \in (m + 1)..(m + n) : i \in 1..(m + n) /\ ~(i <= m)
    BY <1>2
  <2>. QED BY <2>1, <2>2, <2>3
<1>4. (m + n) % P = 0
  BY <1>2, Shift DEF Packets
<1>5. ASSUME NEW i \in 1..(m + n)
      PROVE  /\ u[i][2] % P = i % P
             /\ i % P # 1 % P => u[i] = <<u[i - 1][1], u[i - 1][2] + 1>>
  <2>1. CASE i <= m
    <3>1. s[i][2] % P = i % P /\ (i % P # 1 % P => s[i] = <<s[i - 1][1], s[i - 1][2] + 1>>)
      BY <1>2, <2>1 DEF Packets
    <3>2. i # 1 => i - 1 \in 1..m
      BY <1>2, <2>1
    <3>. QED BY <1>3, <2>1, <3>1, <3>2
  <2>2. CASE i > m
    <3>0. i \in Nat /\ i <= m + n /\ m \in Nat /\ n \in Nat /\ i > m
      BY <1>2, <2>2
    <3>1. PICK j \in 1..n : j = i - m /\ i = m + j
      BY <3>0
    <3>2. t[j][2] % P = j % P /\ (j % P # 1 % P => t[j] = <<t[j - 1][1], t[j - 1][2] + 1>>)
      BY <1>2 DEF Packets
    <3>3. i % P = j % P
      <4>0. j \in Nat /\ m % P = 0
        BY <1>2, <3>1 DEF Packets
      <4>1. (m + j) % P = j % P
        BY <4>0, Shift
      <4>. QED BY <3>1, <4>1
    <3>4. u[i] = t[j] /\ (j # 1 => u[i - 1] = t[j - 1])
      <4>1. i \in (m + 1)..(m + n) /\ (j # 1 => i - 1 \in (m + 1)..(m + n) /\ i - 1 - m = j - 1)
        BY <1>2, <2>2, <3>1
      <4>. QED BY <1>3, <3>1, <4>1
    <3>. QED BY <3>2, <3>3, <3>4
  <2>. QED BY <1>2, <2>1, <2>2
<1>6. Packets(P, u)
  BY <1>3, <1>4, <1>5 DEF Packets
<1>. QED BY <1>1, <1>3, <1>6

\* What is cut off or left behind whole packets is whole packets.
LEMMA PacketsFrom ==
  ASSUME NEW P \in Nat, P > 0, NEW V, NEW s \in Seq(V), Packets(P, s),
         NEW t \in Seq(V), NEW a \in Nat, a % P = 0, Len(t) % P = 0, a + Len(t) <= Len(s),
         \A i \in 1..Len(t) : t[i] = s[a + i]
  PROVE  Packets(P, t)
<1>2. PICK m \in Nat, n \in Nat : m = Len(s) /\ n = Len(t)
  BY LenProperties
<1>5. ASSUME NEW i \in 1..n
      PROVE  /\ t[i][2] % P = i % P
             /\ i % P # 1 % P => t[i] = <<t[i - 1][1], t[i - 1][2] + 1>>
  <2>1. PICK j \in 1..m : j = a + i /\ (i # 1 => j - 1 = a + (i - 1))
    BY <1>2
  <2>2. s[j][2] % P = j % P /\ (j % P # 1 % P => s[j] = <<s[j - 1][1], s[j - 1][2] + 1>>)
    BY <1>2 DEF Packets
  <2>3. j % P = i % P
    <3>0. i \in Nat
      BY <1>2
    <3>1. (a + i) % P = i % P
      BY <3>0, Shift
    <3>. QED BY <2>1, <3>1
  <2>4. t[i] = s[j] /\ (i # 1 => t[i - 1] = s[j - 1])
    <3>1. i # 1 => i - 1 \in 1..n
      BY <1>2
    <3>. QED BY <1>2, <2>1, <3>1
  <2>. QED BY <2>2, <2>3, <2>4
<1>. QED BY <1>2, <1>5 DEF Packets

\* A packet of writer w that has sent m bytes before.
LEMMA OnePacket ==
  ASSUME NEW P \in Nat, P > 0, NEW w, NEW m \in Nat, m % P = 0,
         NEW t, t = [i \in 1..P |-> <<w, m + i>>]
  PROVE  t \in Seq({w} \X Nat) /\ Packets(P, t)
<1>1. t \in Seq({w} \X Nat) /\ Len(t) = P
  OBVIOUS
<1>2. P % P = 0
  BY Multiples
<1>3. ASSUME NEW i \in 1..P
      PROVE  /\ t[i][2] % P = i % P
             /\ i % P # 1 % P => t[i] = <<t[i - 1][1], t[i - 1][2] + 1>>
  <2>1. (m + i) % P = i % P
    <3>1. i \in Nat
      OBVIOUS
    <3>. QED BY <3>1, Shift
  <2>2. t[i] = <<w, m + i>>
    OBVIOUS
  <2>3. i # 1 => t[i - 1] = <<w, m + (i - 1)>>
    OBVIOUS
  <2>4. i # 1 => (m + (i - 1)) + 1 = m + i
    OBVIOUS
  <2>. QED BY <2>1, <2>2, <2>3, <2>4
<1>. QED BY <1>1, <1>2, <1>3 DEF Packets

-----------------------------------------------------------------------------
(* The invariant of the programs.                                          *)

\* Where init, a writer and a reader can be.
ParentPlaces == {"spawn", "close reader", "close writer", "wait", "waiting", "done"}
WriterPlaces == {"unborn", "setup", "write", "sleep", "close", "exit", "zombie", "gone", "failed"}
ReaderPlaces == {"unborn", "setup", "read", "sleep", "close", "exit", "zombie", "gone", "failed"}

\* Where the processes are in their programs.
PlacesOK ==
  /\ at \in [Workers -> ParentPlaces \cup WriterPlaces \cup ReaderPlaces]
  /\ at[Init_pcb] \in ParentPlaces
  /\ test.medium = "fifo" => at[Init_pcb] \notin {"close reader", "close writer"}
  /\ \A p \in ToSet(test.writers) : at[p] \in WriterPlaces
  /\ \A p \in ToSet(test.readers) : at[p] \in ReaderPlaces
  /\ \A p \in Workers \ {Init_pcb} : p \notin ToSet(Children) => at[p] = "unborn"

\* Init spawns the children in order, and waits for no more than there are.
SpawnOK ==
  /\ step \in 0..Len(Children)
  /\ at[Init_pcb] \in {"spawn", "waiting"} => step < Len(Children)
  /\ \A i \in 1..Len(Children) :
       at[Children[i]] = "unborn" <=> at[Init_pcb] = "spawn" /\ i > step

\* A call is that of the place its process is at.
CallsAt ==
  \A p \in Procs :
    /\ call[p].nonblock = FALSE
    /\ \/ call[p] = Idle
       \/ /\ call[p].op = "write" /\ p \in ToSet(test.writers) /\ at[p] = "write"
          /\ call[p].count = Chunk /\ (test.data = "packets" => call[p].done = 0)
       \/ /\ call[p].op = "read" /\ p \in ToSet(test.readers) /\ at[p] = "read"
          /\ (test.data = "packets" => call[p].count = PacketSize /\ call[p].done = 0)
       \/ /\ call[p].op \in {"RDONLY", "WRONLY"} /\ p \in ToSet(Children) /\ at[p] = "setup"
          /\ test.medium = "fifo"

\* The mode of a child's transfers, and the modes of the descriptors that a process
\* has at a place of its program.
ModeOf(p) == IF p \in ToSet(test.writers) THEN "WRONLY" ELSE "RDONLY"

HasAt(p, place) ==
  IF place \in {"spawn", "close reader", "setup"}
  THEN IF test.medium = "pipe" THEN {"RDONLY", "WRONLY"} ELSE {}
  ELSE IF place = "close writer" THEN {"WRONLY"}
  ELSE IF place \in {"write", "read", "sleep", "close", "failed"} THEN {ModeOf(p)}
  ELSE {}

FdOf(mode) ==
  IF test.medium = "pipe" THEN IF mode = "RDONLY" THEN 1 ELSE 2 ELSE CHOOSE fd \in 1..MaxFds : TRUE

End(p, mode) == [pcb |-> p, fd |-> FdOf(mode), mode |-> mode, nonblock |-> FALSE]

\* The descriptors are those the programs have at their places.
OwnOK ==
  /\ descriptors = UNION {{End(p, m) : m \in HasAt(p, at[p])} : p \in Workers}
  /\ fifo \in IF test.medium = "pipe" THEN {"unlinked", "absent"} ELSE {"linked"}

\* The counters of a pipe.
PipeCounts ==
  test.medium = "pipe" =>
    /\ readers_number = Cardinality(Open("RDONLY"))
    /\ writers_number = Cardinality(Open("WRONLY"))

\* A reader of packets from a pipe that has seen its end is right.
EndOfFile ==
  test.medium = "pipe" /\ test.data = "packets" =>
    \A r \in ToSet(test.readers) :
      at[r] \in {"close", "exit", "zombie", "gone"} => Open("WRONLY") = {}

\* Whole packets were written, are in the buffer, and were read.
PacketsOK ==
  test.data = "packets" =>
    /\ \A w \in ToSet(Writers) : sent[w] % PacketSize = 0
    /\ Packets(PacketSize, Held)
    /\ \A r \in ToSet(Readers) : Packets(PacketSize, got[r])

\* No child of a reliable test gives up.
NobodyFailed == Reliable => \A p \in Workers : at[p] # "failed"

ProgramInv ==
  /\ PlacesOK /\ SpawnOK /\ CallsAt
  /\ OwnOK /\ PipeCounts /\ EndOfFile
  /\ PacketsOK /\ NobodyFailed

-----------------------------------------------------------------------------
(* The tests and their children.                                           *)

\* One list after another.
LEMMA Joined ==
  ASSUME NEW S, NEW s \in Seq(S), NEW t \in Seq(S)
  PROVE  /\ s \o t \in Seq(S) /\ Len(s \o t) = Len(s) + Len(t)
         /\ ToSet(s \o t) = ToSet(s) \cup ToSet(t)
         /\ IsInjective(s \o t) <=> /\ IsInjective(s) /\ IsInjective(t)
                                    /\ ToSet(s) \cap ToSet(t) = {}
<1>1. PICK u : u = s \o t
  OBVIOUS
<1>2. PICK m \in Nat, n \in Nat : m = Len(s) /\ n = Len(t)
  BY LenProperties
<1>3. /\ u \in Seq(S) /\ Len(u) = m + n
      /\ \A i \in 1..(m + n) : u[i] = IF i <= m THEN s[i] ELSE t[i - m]
  BY <1>1, <1>2, ConcatProperties
<1>4. DOMAIN s = 1..m /\ DOMAIN t = 1..n /\ DOMAIN u = 1..(m + n)
  BY <1>2, <1>3, LenProperties
<1>5. /\ \A i \in 1..m : i \in 1..(m + n) /\ u[i] = s[i]
      /\ \A i \in 1..n : m + i \in 1..(m + n) /\ u[m + i] = t[i] /\ m + i # 0 /\ ~(m + i <= m)
  <2>1. \A i \in 1..m : i \in 1..(m + n) /\ i <= m
    BY <1>2
  <2>2. \A i \in 1..n : m + i \in 1..(m + n) /\ ~(m + i <= m) /\ m + i - m = i
    BY <1>2
  <2>. QED BY <1>3, <2>1, <2>2
<1>6. \A i \in 1..(m + n) : i \in 1..m \/ \E j \in 1..n : i = m + j
  <2>. TAKE i \in 1..(m + n)
  <2>1. CASE i <= m
    BY <1>2, <2>1
  <2>2. CASE ~(i <= m)
    <3>1. i - m \in 1..n /\ i = m + (i - m)
      BY <1>2, <2>2
    <3>. QED BY <3>1
  <2>. QED BY <2>1, <2>2
<1>7. ToSet(u) = ToSet(s) \cup ToSet(t)
  <2>1. \A x : x \in ToSet(u) <=> \E i \in 1..(m + n) : x = u[i]
    BY <1>4 DEF ToSet
  <2>2. \A x : /\ x \in ToSet(s) <=> \E i \in 1..m : x = s[i]
               /\ x \in ToSet(t) <=> \E i \in 1..n : x = t[i]
    BY <1>4 DEF ToSet
  <2>3. ASSUME NEW x, x \in ToSet(u) PROVE x \in ToSet(s) \/ x \in ToSet(t)
    <3>1. PICK i \in 1..(m + n) : x = u[i]
      BY <2>1, <2>3
    <3>2. CASE i \in 1..m
      BY <1>5, <2>2, <3>1, <3>2
    <3>3. CASE \E j \in 1..n : i = m + j
      BY <1>5, <2>2, <3>1, <3>3
    <3>. QED BY <1>6, <3>2, <3>3
  <2>4. ASSUME NEW x, x \in ToSet(s) \/ x \in ToSet(t) PROVE x \in ToSet(u)
    <3>1. CASE x \in ToSet(s)
      <4>1. PICK i \in 1..m : x = s[i]
        BY <2>2, <3>1
      <4>2. i \in 1..(m + n) /\ x = u[i]
        BY <1>5, <4>1
      <4>. QED BY <2>1, <4>2
    <3>2. CASE x \in ToSet(t)
      <4>1. PICK i \in 1..n : x = t[i]
        BY <2>2, <3>2
      <4>2. m + i \in 1..(m + n) /\ x = u[m + i]
        BY <1>5, <4>1
      <4>. QED BY <2>1, <4>2
    <3>. QED BY <2>4, <3>1, <3>2
  <2>. QED BY <2>3, <2>4
<1>8. IsInjective(u) => IsInjective(s) /\ IsInjective(t) /\ ToSet(s) \cap ToSet(t) = {}
  <2>. SUFFICES ASSUME IsInjective(u)
                PROVE IsInjective(s) /\ IsInjective(t) /\ ToSet(s) \cap ToSet(t) = {}
    OBVIOUS
  <2>1. \A i, j \in 1..(m + n) : u[i] = u[j] => i = j
    BY <1>4 DEF IsInjective
  <2>2. IsInjective(s)
    BY <1>4, <1>5, <2>1 DEF IsInjective
  <2>3. IsInjective(t)
    <3>1. \A i, j \in 1..n : t[i] = t[j] => m + i = m + j
      BY <1>5, <2>1
    <3>2. \A i, j \in 1..n : m + i = m + j => i = j
      BY <1>2
    <3>. QED BY <1>4, <3>1, <3>2 DEF IsInjective
  <2>4. \A i \in 1..m : \A j \in 1..n : s[i] # t[j]
    <3>1. \A i \in 1..m : \A j \in 1..n : i # m + j
      BY <1>2
    <3>. QED BY <1>5, <2>1, <3>1
  <2>5. ToSet(s) \cap ToSet(t) = {}
    BY <1>4, <2>4 DEF ToSet
  <2>. QED BY <2>2, <2>3, <2>5
<1>9. IsInjective(s) /\ IsInjective(t) /\ ToSet(s) \cap ToSet(t) = {} => IsInjective(u)
  <2>. SUFFICES ASSUME IsInjective(s), IsInjective(t), ToSet(s) \cap ToSet(t) = {},
                       NEW i \in 1..(m + n), NEW j \in 1..(m + n), u[i] = u[j]
                PROVE  i = j
    BY <1>4 DEF IsInjective
  <2>1. \A a \in 1..m : \A b \in 1..n : s[a] # t[b]
    BY <1>4 DEF ToSet
  <2>2. /\ \A a, b \in 1..m : s[a] = s[b] => a = b
        /\ \A a, b \in 1..n : t[a] = t[b] => a = b
    BY <1>4 DEF IsInjective
  <2>3. CASE i \in 1..m
    <3>1. u[i] = s[i]
      BY <1>5, <2>3
    <3>2. CASE j \in 1..m
      BY <1>5, <2>2, <2>3, <3>1, <3>2
    <3>3. CASE \E b \in 1..n : j = m + b
      BY <1>5, <2>1, <2>3, <3>1, <3>3
    <3>. QED BY <1>6, <3>2, <3>3
  <2>4. CASE \E a \in 1..n : i = m + a
    <3>1. PICK a \in 1..n : i = m + a /\ u[i] = t[a]
      BY <1>5, <2>4
    <3>2. CASE j \in 1..m
      BY <1>5, <2>1, <3>1, <3>2
    <3>3. CASE \E b \in 1..n : j = m + b
      <4>1. PICK b \in 1..n : j = m + b /\ u[j] = t[b]
        BY <1>5, <3>3
      <4>2. a = b
        BY <2>2, <3>1, <4>1
      <4>. QED BY <3>1, <4>1, <4>2
    <3>. QED BY <1>6, <3>2, <3>3
  <2>. QED BY <1>6, <2>3, <2>4
<1>. QED BY <1>1, <1>2, <1>3, <1>7, <1>8, <1>9

\* The children of a test are different processes, none of them init.
LEMMA TestFacts ==
  ASSUME NEW t \in Tests
  PROVE  /\ t.writers \in Seq(Workers) /\ t.readers \in Seq(Workers)
         /\ t.writers # <<>> /\ t.readers # <<>>
         /\ IsInjective(t.writers \o t.readers)
         /\ ToSet(t.writers) \cap ToSet(t.readers) = {}
         /\ Init_pcb \notin ToSet(t.writers) /\ Init_pcb \notin ToSet(t.readers)
<1>1. /\ Writers \in Seq(Workers) /\ Readers \in Seq(Workers) /\ Writers # <<>> /\ Readers # <<>>
      /\ IsInjective(Writers) /\ IsInjective(Readers) /\ ToSet(Writers) \cap ToSet(Readers) = {}
      /\ Init_pcb \notin ToSet(Writers) /\ Init_pcb \notin ToSet(Readers)
  <2>1. Writers \in Seq(Workers) /\ Readers \in Seq(Workers) /\ Writers # <<>> /\ Readers # <<>>
        /\ IsInjective(Writers \o Readers) /\ Init_pcb \notin ToSet(Writers \o Readers)
    BY StreamAssumption
  <2>. QED BY <2>1, Joined
<1>2. ASSUME NEW s \in Seq(Workers), s # <<>>
      PROVE  One(s) \in Seq(Workers) /\ One(s) # <<>> /\ IsInjective(One(s)) /\ ToSet(One(s)) \subseteq ToSet(s)
  <2>1. One(s) = <<s[1]>> /\ 1 \in DOMAIN s /\ s[1] \in Workers
    BY <1>2, EmptySeq, LenProperties, ElementOfSeq DEF One
  <2>. QED BY <2>1 DEF ToSet, IsInjective
<1>3. t \in {test_itest_pipe1_init, test_itest_pipe2_init, test_itest_pipe3_init,
             test_itest_pipe4_init, test_itest_fifo1_init, test_itest_fifo2_init,
             test_itest_fifo3_init}
  BY TestsAssumption
<1>4. t.writers \in {Writers, One(Writers)} /\ t.readers \in {Readers, One(Readers)}
  BY <1>3 DEF Test, test_itest_pipe1_init, test_itest_pipe2_init, test_itest_pipe3_init,
              test_itest_pipe4_init, test_itest_fifo1_init, test_itest_fifo2_init,
              test_itest_fifo3_init
<1>5. /\ t.writers \in Seq(Workers) /\ t.writers # <<>> /\ IsInjective(t.writers)
      /\ ToSet(t.writers) \subseteq ToSet(Writers)
  BY <1>1, <1>2, <1>4
<1>6. /\ t.readers \in Seq(Workers) /\ t.readers # <<>> /\ IsInjective(t.readers)
      /\ ToSet(t.readers) \subseteq ToSet(Readers)
  BY <1>1, <1>2, <1>4
<1>7. ToSet(t.writers) \cap ToSet(t.readers) = {}
  BY <1>1, <1>5, <1>6
<1>8. IsInjective(t.writers \o t.readers)
  BY <1>5, <1>6, <1>7, Joined
<1>. QED BY <1>1, <1>5, <1>6, <1>7, <1>8

\* And so are those of this run's test.
LEMMA ChildrenFacts ==
  ASSUME test \in Tests
  PROVE  /\ Children \in Seq(Workers) /\ Len(Children) \in Nat /\ Len(Children) > 1
         /\ ToSet(Children) = ToSet(test.writers) \cup ToSet(test.readers)
         /\ \A i \in 1..Len(Children) : Children[i] \in ToSet(Children) /\ Children[i] \in Workers
         /\ \A i, j \in 1..Len(Children) : Children[i] = Children[j] => i = j
         /\ \A p \in ToSet(Children) : \E i \in 1..Len(Children) : p = Children[i]
         /\ ToSet(test.writers) \cap ToSet(test.readers) = {}
         /\ Init_pcb \notin ToSet(Children) /\ ToSet(Children) \subseteq Workers
         /\ Init_pcb \in Workers /\ ToSet(test.readers) # {} /\ Workers \subseteq Procs
<1>. DEFINE c == Children
<1>1. /\ test.writers \in Seq(Workers) /\ test.readers \in Seq(Workers)
      /\ test.writers # <<>> /\ test.readers # <<>> /\ IsInjective(test.writers \o test.readers)
      /\ ToSet(test.writers) \cap ToSet(test.readers) = {}
      /\ Init_pcb \notin ToSet(test.writers) /\ Init_pcb \notin ToSet(test.readers)
  BY TestFacts
<1>2. /\ c \in Seq(Workers) /\ Len(c) = Len(test.writers) + Len(test.readers) /\ IsInjective(c)
      /\ ToSet(c) = ToSet(test.writers) \cup ToSet(test.readers)
  BY <1>1, Joined DEF Children
<1>3. Len(test.writers) > 0 /\ Len(test.readers) > 0 /\ Len(test.writers) \in Nat /\ Len(test.readers) \in Nat
  BY <1>1, EmptySeq, LenProperties
<1>. HIDE DEF c
<1>4. DOMAIN c = 1..Len(c) /\ \A i \in 1..Len(c) : c[i] \in Workers
  BY <1>2, LenProperties, ElementOfSeq
<1>5. /\ \A i \in 1..Len(c) : c[i] \in ToSet(c)
      /\ \A p \in ToSet(c) : \E i \in 1..Len(c) : p = c[i]
      /\ \A i, j \in 1..Len(c) : c[i] = c[j] => i = j
      /\ ToSet(c) \subseteq Workers
  BY <1>2, <1>4 DEF ToSet, IsInjective
<1>6. ToSet(test.readers) # {}
  <2>1. 1 \in DOMAIN test.readers
    BY <1>1, <1>3, LenProperties
  <2>. QED BY <2>1 DEF ToSet
<1>7. Len(c) \in Nat /\ Len(c) > 1
  <2>1. PICK m \in Nat, n \in Nat : m = Len(test.writers) /\ n = Len(test.readers)
    BY <1>3
  <2>2. Len(c) = m + n /\ m > 0 /\ n > 0
    BY <1>2, <1>3, <2>1
  <2>. QED BY <2>2
<1>8. Init_pcb \in Workers /\ Workers \subseteq Procs
  BY StreamAssumption DEF Procs
<1>. QED BY <1>1, <1>2, <1>4, <1>5, <1>6, <1>7, <1>8 DEF c

-----------------------------------------------------------------------------
(* The places in the programs.                                             *)

\* Where a child may be once it is born.
BornPlaces(p) == (IF p \in ToSet(test.writers) THEN WriterPlaces ELSE ReaderPlaces) \ {"unborn"}

\* A child goes on in its program.
LEMMA ChildMoves ==
  ASSUME test \in Tests, PlacesOK, SpawnOK,
         NEW p \in ToSet(Children), at[p] # "unborn", NEW to \in BornPlaces(p),
         at' = [at EXCEPT ![p] = to], UNCHANGED <<step, test>>
  PROVE  PlacesOK' /\ SpawnOK'
<1>1. /\ p \in Workers /\ p # Init_pcb /\ Init_pcb \in Workers /\ to # "unborn"
      /\ to \in WriterPlaces \cup ReaderPlaces
      /\ ToSet(test.writers) \cap ToSet(test.readers) = {}
      /\ ToSet(Children) = ToSet(test.writers) \cup ToSet(test.readers)
      /\ p \in ToSet(test.writers) => to \in WriterPlaces
      /\ p \in ToSet(test.readers) => to \in ReaderPlaces
      /\ \A i \in 1..Len(Children) : Children[i] \in Workers
      /\ ToSet(Children) \subseteq Workers
  BY ChildrenFacts DEF BornPlaces
<1>2. Children' = Children
  BY DEF Children
<1>3. /\ at' \in [Workers -> ParentPlaces \cup WriterPlaces \cup ReaderPlaces]
      /\ at'[p] = to /\ \A q \in Workers : q # p => at'[q] = at[q]
  BY <1>1 DEF PlacesOK
<1>4. PlacesOK'
  BY <1>1, <1>2, <1>3 DEF PlacesOK
<1>5. \A i \in 1..Len(Children) : at'[Children[i]] = "unborn" <=> at[Children[i]] = "unborn"
  BY <1>1, <1>3
<1>6. at'[Init_pcb] = at[Init_pcb]
  BY <1>1, <1>3
<1>. QED BY <1>2, <1>4, <1>5, <1>6 DEF SpawnOK

\* Init goes on after the last spawn.
LEMMA ParentMoves ==
  ASSUME test \in Tests, PlacesOK, SpawnOK, at[Init_pcb] # "spawn",
         NEW to \in {"close writer", "wait", "waiting", "done"},
         to = "close writer" => test.medium = "pipe",
         to = "waiting" => step < Len(Children),
         at' = [at EXCEPT ![Init_pcb] = to], UNCHANGED <<step, test>>
  PROVE  PlacesOK' /\ SpawnOK'
<1>1. /\ Init_pcb \in Workers /\ Init_pcb \notin ToSet(Children)
      /\ ToSet(Children) = ToSet(test.writers) \cup ToSet(test.readers)
      /\ \A i \in 1..Len(Children) : Children[i] \in Workers /\ Children[i] \in ToSet(Children)
      /\ ToSet(Children) \subseteq Workers /\ to \in ParentPlaces
  BY ChildrenFacts DEF ParentPlaces
<1>2. Children' = Children
  BY DEF Children
<1>3. /\ at' \in [Workers -> ParentPlaces \cup WriterPlaces \cup ReaderPlaces]
      /\ at'[Init_pcb] = to /\ \A q \in Workers : q # Init_pcb => at'[q] = at[q]
  BY <1>1 DEF PlacesOK
<1>4. PlacesOK'
  <2>1. \A q \in ToSet(Children) : q \in Workers /\ at'[q] = at[q]
    BY <1>1, <1>3
  <2>2. test.medium = "fifo" => to \notin {"close reader", "close writer"}
    OBVIOUS
  <2>3. /\ \A q \in ToSet(test.writers) : at'[q] \in WriterPlaces
        /\ \A q \in ToSet(test.readers) : at'[q] \in ReaderPlaces
    BY <1>1, <2>1 DEF PlacesOK
  <2>4. \A q \in Workers \ {Init_pcb} : q \notin ToSet(Children) => at'[q] = "unborn"
    BY <1>3 DEF PlacesOK
  <2>. QED BY <1>1, <1>2, <1>3, <2>2, <2>3, <2>4 DEF PlacesOK
<1>5. \A i \in 1..Len(Children) : at'[Children[i]] = at[Children[i]]
  <2>1. \A i \in 1..Len(Children) : Children[i] \in Workers /\ Children[i] # Init_pcb
    BY <1>1
  <2>. QED BY <1>3, <2>1
<1>. QED BY <1>2, <1>3, <1>4, <1>5 DEF SpawnOK

\* Init meets the end of the next child.
LEMMA ParentCollects ==
  ASSUME test \in Tests, PlacesOK, SpawnOK, at[Init_pcb] \in {"wait", "waiting"},
         step < Len(Children), at[Children[step + 1]] # "unborn",
         at' = [at EXCEPT ![Children[step + 1]] = "gone", ![Init_pcb] = "wait"],
         step' = step + 1, UNCHANGED test
  PROVE  PlacesOK' /\ SpawnOK'
<1>0. step \in Nat /\ Len(Children) \in Nat /\ step + 1 \in 1..Len(Children)
  BY ChildrenFacts DEF SpawnOK
<1>. DEFINE p == Children[step + 1]
<1>1. /\ Init_pcb \in Workers /\ Init_pcb \notin ToSet(Children)
      /\ ToSet(Children) = ToSet(test.writers) \cup ToSet(test.readers)
      /\ \A i \in 1..Len(Children) : Children[i] \in Workers /\ Children[i] \in ToSet(Children)
      /\ p \in Workers /\ p \in ToSet(Children)
      /\ ToSet(Children) \subseteq Workers
  BY <1>0, ChildrenFacts
<1>2. Children' = Children
  BY DEF Children
<1>. HIDE DEF p
<1>3. /\ at' \in [Workers -> ParentPlaces \cup WriterPlaces \cup ReaderPlaces]
      /\ at'[p] = "gone" /\ at'[Init_pcb] = "wait"
      /\ \A q \in Workers : q # Init_pcb /\ q # p => at'[q] = at[q]
  <2>1. at' = [at EXCEPT ![p] = "gone", ![Init_pcb] = "wait"]
    BY DEF p
  <2>2. "gone" \in WriterPlaces /\ "wait" \in ParentPlaces /\ p # Init_pcb
    BY <1>1 DEF WriterPlaces, ParentPlaces
  <2>3. at \in [Workers -> ParentPlaces \cup WriterPlaces \cup ReaderPlaces]
    BY DEF PlacesOK
  <2>. QED BY <1>1, <2>1, <2>2, <2>3
<1>4. PlacesOK'
  <2>1. "gone" \in WriterPlaces /\ "gone" \in ReaderPlaces /\ "wait" \in ParentPlaces
    BY DEF WriterPlaces, ReaderPlaces, ParentPlaces
  <2>2. \A q \in ToSet(Children) : q \in Workers /\ (q # p => at'[q] = at[q])
    BY <1>1, <1>3
  <2>3. /\ \A q \in ToSet(test.writers) : at'[q] \in WriterPlaces
        /\ \A q \in ToSet(test.readers) : at'[q] \in ReaderPlaces
    BY <1>1, <1>3, <2>1, <2>2 DEF PlacesOK
  <2>4. \A q \in Workers \ {Init_pcb} : q \notin ToSet(Children) => at'[q] = "unborn"
    BY <1>1, <1>3 DEF PlacesOK
  <2>. QED BY <1>1, <1>2, <1>3, <2>1, <2>3, <2>4 DEF PlacesOK
<1>5. \A i \in 1..Len(Children) : at'[Children[i]] = "unborn" <=> at[Children[i]] = "unborn"
  <2>1. at[p] # "unborn" /\ at'[p] # "unborn"
    BY <1>3 DEF p
  <2>. QED BY <1>1, <1>3, <2>1
<1>6. step' \in 0..Len(Children)
  BY <1>0
<1>7. at[Init_pcb] # "spawn"
  OBVIOUS
<1>. QED BY <1>2, <1>3, <1>4, <1>5, <1>6, <1>7 DEF SpawnOK

\* Init spawns the next child, which stands at the beginning of its program.
LEMMA SpawnMoves ==
  ASSUME test \in Tests, PlacesOK, SpawnOK, SpawnNext
  PROVE  /\ PlacesOK' /\ SpawnOK'
         /\ step + 1 \in 1..Len(Children) /\ Children[step + 1] \in ToSet(Children)
         /\ Children[step + 1] \in Workers /\ Children[step + 1] # Init_pcb
         /\ at[Children[step + 1]] = "unborn" /\ at'[Children[step + 1]] = "setup"
         /\ at[Init_pcb] = "spawn"
         /\ at'[Init_pcb] \in IF test.medium = "pipe" THEN {"spawn", "close reader"} ELSE {"spawn", "wait"}
         /\ \A q \in Workers : q # Init_pcb /\ q # Children[step + 1] => at'[q] = at[q]
<1>. DEFINE child == Children[step + 1]
            last == step + 1 = Len(Children)
            next == IF ~last THEN "spawn" ELSE IF test.medium = "pipe" THEN "close reader" ELSE "wait"
<1>0. at[Init_pcb] = "spawn" /\ step < Len(Children) /\ step \in Nat /\ Len(Children) \in Nat
  <2>1. at[Init_pcb] = "spawn"
    BY DEF SpawnNext, Runs
  <2>. QED BY <2>1, ChildrenFacts DEF SpawnOK
<1>1. /\ step' = IF last THEN 0 ELSE step + 1
      /\ at' = [at EXCEPT ![child] = "setup", ![Init_pcb] = next] /\ test' = test
  BY DEF SpawnNext
<1>2. step + 1 \in 1..Len(Children)
  BY <1>0
<1>3. /\ Init_pcb \in Workers /\ Init_pcb \notin ToSet(Children)
      /\ ToSet(Children) = ToSet(test.writers) \cup ToSet(test.readers)
      /\ \A i \in 1..Len(Children) : Children[i] \in Workers /\ Children[i] \in ToSet(Children)
      /\ \A i, j \in 1..Len(Children) : Children[i] = Children[j] => i = j
      /\ child \in Workers /\ child \in ToSet(Children) /\ child # Init_pcb
      /\ ToSet(Children) \subseteq Workers
      /\ at[child] = "unborn"
  <2>1. step + 1 > step
    BY <1>0
  <2>. QED BY <1>0, <1>2, <2>1, ChildrenFacts DEF SpawnOK
<1>4. Children' = Children
  BY <1>1 DEF Children
<1>5. next \in ParentPlaces /\ (test.medium = "fifo" => next \notin {"close reader", "close writer"})
      /\ next \in (IF test.medium = "pipe" THEN {"spawn", "close reader"} ELSE {"spawn", "wait"})
      /\ next # "waiting"
  <2>1. test.medium = "fifo" => test.medium # "pipe"
    OBVIOUS
  <2>. QED BY <2>1 DEF ParentPlaces
<1>. HIDE DEF next
<1>6. /\ at' \in [Workers -> ParentPlaces \cup WriterPlaces \cup ReaderPlaces]
      /\ at'[child] = "setup" /\ at'[Init_pcb] = next
      /\ \A q \in Workers : q # Init_pcb /\ q # child => at'[q] = at[q]
  <2>2. "setup" \in WriterPlaces
    BY DEF WriterPlaces
  <2>. HIDE DEF child
  <2>. QED BY <1>1, <1>3, <1>5, <2>2 DEF PlacesOK
<1>7. PlacesOK'
  <2>1. "setup" \in WriterPlaces /\ "setup" \in ReaderPlaces
    BY DEF WriterPlaces, ReaderPlaces
  <2>. HIDE DEF child
  <2>2. \A q \in ToSet(Children) : q \in Workers /\ (q # child => at'[q] = at[q])
    BY <1>3, <1>6
  <2>3. /\ \A q \in ToSet(test.writers) : at'[q] \in WriterPlaces
        /\ \A q \in ToSet(test.readers) : at'[q] \in ReaderPlaces
    BY <1>3, <1>6, <2>1, <2>2 DEF PlacesOK
  <2>4. \A q \in Workers \ {Init_pcb} : q \notin ToSet(Children) => at'[q] = "unborn"
    BY <1>3, <1>6 DEF PlacesOK
  <2>. QED BY <1>1, <1>3, <1>4, <1>5, <1>6, <2>3, <2>4 DEF PlacesOK
<1>8. SpawnOK'
  <2>1. step' \in 0..Len(Children) /\ (next = "spawn" => step' < Len(Children) /\ step' = step + 1)
    <3>1. next = "spawn" => ~last
      BY DEF next
    <3>2. ~last => step + 1 < Len(Children)
      BY <1>0, <1>2
    <3>3. 0 \in 0..Len(Children) /\ (~last => step + 1 \in 0..Len(Children))
      BY <1>0, <1>2
    <3>. HIDE DEF last
    <3>. QED BY <1>1, <3>1, <3>2, <3>3
  <2>2. ASSUME NEW i \in 1..Len(Children)
        PROVE  at'[Children[i]] = "unborn" <=> next = "spawn" /\ i > step'
    <3>1. at[Children[i]] = "unborn" <=> i > step
      BY <1>0 DEF SpawnOK
    <3>2. i # step + 1 => at'[Children[i]] = at[Children[i]]
      BY <1>2, <1>3, <1>6
    <3>3. at'[child] # "unborn"
      BY <1>6
    <3>4. CASE i = step + 1
      BY <1>0, <2>1, <3>3, <3>4
    <3>5. CASE i # step + 1 /\ next = "spawn"
      BY <1>0, <2>1, <3>1, <3>2, <3>5
    <3>6. CASE i # step + 1 /\ next # "spawn"
      <4>1. i <= step
        BY <1>0, <3>6 DEF next
      <4>. QED BY <1>0, <3>1, <3>2, <3>6, <4>1
    <3>. QED BY <3>4, <3>5, <3>6
  <2>. QED BY <1>4, <1>5, <1>6, <2>1, <2>2 DEF SpawnOK
<1>. QED BY <1>0, <1>2, <1>3, <1>5, <1>6, <1>7, <1>8

-----------------------------------------------------------------------------
(* What the children do.                                                   *)

\* The two closes and the open of a child, at its places.
ChildCloses(p, where, mode, next) ==
  /\ Close(p, where, mode, next)
  /\ \/ /\ where = "setup" /\ test.medium = "pipe"
        /\ \/ p \in ToSet(test.writers) /\ mode = "RDONLY" /\ next = "write"
           \/ p \in ToSet(test.readers) /\ mode = "WRONLY" /\ next = "read"
     \/ where = "close" /\ mode = ModeOf(p) /\ next = "exit"

ChildOpens(p, mode, next) ==
  /\ Opening(p, mode, next) /\ test.medium = "fifo" /\ mode = ModeOf(p)
  /\ \/ p \in ToSet(test.writers) /\ next = "write"
     \/ p \in ToSet(test.readers) /\ next = "read"

\* What each step of a child is.
LEMMA ChildSteps ==
  ASSUME test \in Tests, NEW p \in Workers, Child(p)
  PROVE  /\ p = running /\ p \in ToSet(Children)
         /\ \/ \E where, mode, next : ChildCloses(p, where, mode, next)
            \/ \E mode, next : ChildOpens(p, mode, next)
            \/ Sleep(p) /\ test.data = "packets"
            \/ Exit(p)
            \/ p \in ToSet(test.writers) /\ Write(p)
            \/ p \in ToSet(test.readers) /\ Read(p)
<1>1. ToSet(test.writers) \cap ToSet(test.readers) = {}
  BY ChildrenFacts
<1>. DEFINE W == p \in ToSet(test.writers)
            R == p \in ToSet(test.readers)
            Done == \/ \E where, mode, next : ChildCloses(p, where, mode, next)
                    \/ \E mode, next : ChildOpens(p, mode, next)
                    \/ Sleep(p) /\ test.data = "packets"
                    \/ Exit(p)
                    \/ W /\ Write(p)
                    \/ R /\ Read(p)
<1>2. W => ModeOf(p) = "WRONLY"
  BY DEF ModeOf
<1>3. R => ModeOf(p) = "RDONLY"
  BY <1>1 DEF ModeOf
<1>4. /\ W /\ test.medium = "pipe" /\ Close(p, "setup", "RDONLY", "write") => Done
      /\ R /\ test.medium = "pipe" /\ Close(p, "setup", "WRONLY", "read") => Done
      /\ W /\ Close(p, "close", "WRONLY", "exit") => Done
      /\ R /\ Close(p, "close", "RDONLY", "exit") => Done
  <2>1. /\ W /\ test.medium = "pipe" /\ Close(p, "setup", "RDONLY", "write")
             => ChildCloses(p, "setup", "RDONLY", "write")
        /\ R /\ test.medium = "pipe" /\ Close(p, "setup", "WRONLY", "read")
             => ChildCloses(p, "setup", "WRONLY", "read")
        /\ W /\ Close(p, "close", "WRONLY", "exit") => ChildCloses(p, "close", "WRONLY", "exit")
        /\ R /\ Close(p, "close", "RDONLY", "exit") => ChildCloses(p, "close", "RDONLY", "exit")
    BY <1>2, <1>3 DEF ChildCloses
  <2>2. (\E where, mode, next : ChildCloses(p, where, mode, next)) => Done
    OBVIOUS
  <2>. HIDE DEF Done
  <2>. QED BY <2>1, <2>2
<1>5. /\ W /\ test.medium = "fifo" /\ Opening(p, "WRONLY", "write") => Done
      /\ R /\ test.medium = "fifo" /\ Opening(p, "RDONLY", "read") => Done
  <2>1. /\ W /\ test.medium = "fifo" /\ Opening(p, "WRONLY", "write") => ChildOpens(p, "WRONLY", "write")
        /\ R /\ test.medium = "fifo" /\ Opening(p, "RDONLY", "read") => ChildOpens(p, "RDONLY", "read")
    BY <1>2, <1>3 DEF ChildOpens
  <2>2. (\E mode, next : ChildOpens(p, mode, next)) => Done
    OBVIOUS
  <2>. HIDE DEF Done
  <2>. QED BY <2>1, <2>2
<1>6. /\ W /\ Write(p) => Done
      /\ R /\ Read(p) => Done
      /\ Sleep(p) /\ test.data = "packets" => Done
      /\ Exit(p) => Done
  OBVIOUS
<1>. HIDE DEF Done, W, R
<1>. DEFINE Pipe == test.medium = "pipe"
            Named == test.medium = "fifo"
            Packs == test.data = "packets"
            WP == test_itest_pipe_text_writer(p) \/ (Packs /\ test_itest_pipe_packet_writer(p))
            RP == test_itest_pipe_text_reader(p) \/ (Packs /\ test_itest_pipe_packet_reader(p))
            WF == test_itest_fifo_text_writer(p) \/ (Packs /\ test_itest_fifo_packet_writer(p))
            RF == test_itest_fifo_text_reader(p) \/ (Packs /\ test_itest_fifo_packet_reader(p))
<1>7. (W /\ Pipe /\ WP) \/ (R /\ Pipe /\ RP) \/ (W /\ Named /\ WF) \/ (R /\ Named /\ RF)
  BY DEF Child, W, R
<1>8. Done
  <2>1. W /\ Pipe /\ WP => Done
    BY <1>4, <1>6 DEF test_itest_pipe_text_writer, test_itest_pipe_packet_writer
  <2>2. R /\ Pipe /\ RP => Done
    BY <1>4, <1>6 DEF test_itest_pipe_text_reader, test_itest_pipe_packet_reader
  <2>3. W /\ Named /\ WF => Done
    BY <1>4, <1>5, <1>6 DEF test_itest_fifo_text_writer, test_itest_fifo_packet_writer
  <2>4. R /\ Named /\ RF => Done
    BY <1>4, <1>5, <1>6 DEF test_itest_fifo_text_reader, test_itest_fifo_packet_reader
  <2>. HIDE DEF Pipe, Named, WP, RP, WF, RF
  <2>. QED BY <1>7, <2>1, <2>2, <2>3, <2>4
<1>9. p = running /\ p \in ToSet(Children)
  BY DEF Child
<1>. QED BY <1>8, <1>9 DEF Done, W, R

\* The call of a process that issues another, and the place of one that does not.
LEMMA CallPlaces ==
  ASSUME test \in Tests, CallsAt, NEW p \in Procs
  PROVE  /\ call[p].op = "none" <=> call[p] = Idle
         /\ call[p].op = "write" => p \in ToSet(test.writers) /\ at[p] = "write" /\ call[p].count = Chunk
         /\ call[p].op = "read" => p \in ToSet(test.readers) /\ at[p] = "read"
         /\ test.data = "packets" /\ call[p].op \in {"read", "write"} => Left(p) = PacketSize
         /\ call[p].op \in {"RDONLY", "WRONLY"} => at[p] = "setup"
         /\ ~call[p].nonblock
<1>1. PacketSize \in Nat /\ (test.data = "packets" => Chunk = PacketSize)
  <2>1. test.data = "packets" => test.data # "text"
    OBVIOUS
  <2>. QED BY <2>1, StreamConstants DEF Chunk
<1>2. test.data = "packets" /\ call[p].op \in {"read", "write"} => call[p].count = PacketSize /\ call[p].done = 0
  BY <1>1 DEF CallsAt, Idle
<1>3. PacketSize - 0 = PacketSize
  BY <1>1
<1>. QED BY <1>2, <1>3 DEF CallsAt, Idle, Left

\* Ipc_write of a blocking writer: it waits, or writes and ends or goes on.
LEMMA IpcWrites ==
  ASSUME NEW p \in Procs, ~call[p].nonblock, Ipc_write(p)
  PROVE  \/ Left(p) = 0 /\ Return(p) /\ size' = size
         \/ Left(p) > 0 /\ call' = call /\ size' = size
         \/ Left(p) > 0 /\ ~MustWait(p) /\ size' = size + Writable(p) /\ Written(p, Writable(p))
BY DEF Ipc_write, Answer, Ipc_lock_writer, Crash, WriteBytes

\* Ipc_read of a blocking reader: it waits, or reads and ends.
LEMMA IpcReads ==
  ASSUME NEW p \in Procs, ~call[p].nonblock, Ipc_read(p)
  PROVE  \/ Left(p) = 0 /\ Return(p) /\ size' = size
         \/ Left(p) > 0 /\ call' = call /\ size' = size
         \/ /\ Left(p) > 0 /\ size > 0 /\ Return(p)
            /\ size' = size - IF size < Left(p) THEN size ELSE Left(p)
BY DEF Ipc_read, Answer, Ipc_lock_reader, Crash, ReadBytes

-----------------------------------------------------------------------------
(* Transfers and their ends.                                               *)

\* What a write does to the place and the call of its process: it waits or goes on, or
\* ends; a packet is written whole or not at all.
WriteEffect(p) ==
  /\ test.data = "packets" => size' - size \in {0, PacketSize}
  /\ \/ call' = call /\ at' = at /\ size' = size
     \/ /\ test.data = "text" /\ at' = at /\ size' - size < Left(p)
        /\ \E n \in Int : n = size' - size /\ call' = [call EXCEPT ![p].done = @ + n]
     \/ /\ Return(p)
        /\ \E to \in {"write", "sleep", "close", "failed"} :
             /\ Goes(p, to)
             /\ to = "failed" => test.data = "packets" /\ readers_number = 0
             /\ \/ size' - size = Left(p) /\ to = AfterChunk(p, sent'[p])
                \/ size' = size /\ readers_number = 0

\* A write of a child has that effect.
LEMMA WriteEnds ==
  ASSUME BytesInv, ProgramInv, NEW p \in ToSet(test.writers), NEW n, n = size' - size, Fifo_write(p),
         IF call'[p] # Idle THEN UNCHANGED at
         ELSE Goes(p, IF n = Left(p) THEN AfterChunk(p, sent'[p])
                      ELSE IF test.data = "text" THEN "close" ELSE "failed")
  PROVE  WriteEffect(p)
<1>1. /\ test \in Tests /\ call \in [Procs -> StreamCalls] /\ size \in 0..SizeMax
      /\ SizeMax \in Nat /\ PacketSize \in 1..SizeMax /\ CallsAt
  BY StreamConstants DEF BytesInv, TransfersOK, BufferOK, ProgramInv
<1>2. p \in Procs /\ p \notin ToSet(test.readers) /\ test.data \in {"text", "packets"}
  BY <1>1, ChildrenFacts, TestChildren
<1>3. /\ call[p].op = "write" /\ ~call[p].nonblock
      /\ test.data = "packets" => Left(p) = PacketSize
  BY <1>1, <1>2, CallPlaces DEF Fifo_write
<1>4. call[p] # Idle /\ Left(p) \in Int
  BY <1>1, <1>2, <1>3, CallFacts DEF Idle
<1>5. AfterChunk(p, sent'[p]) \in {"write", "sleep", "close"}
  BY <1>2 DEF AfterChunk, LoopHead
<1>6. Return(p) => call'[p] = Idle
  BY <1>1, <1>2 DEF Return
<1>7. ASSUME Return(p), n = Left(p) \/ (size' = size /\ readers_number = 0)
      PROVE  \E to \in {"write", "sleep", "close", "failed"} :
               /\ Goes(p, to)
               /\ to = "failed" => test.data = "packets" /\ readers_number = 0
               /\ \/ size' - size = Left(p) /\ to = AfterChunk(p, sent'[p])
                  \/ size' = size /\ readers_number = 0
  <2>1. PICK to : /\ Goes(p, to)
                  /\ to = IF n = Left(p) THEN AfterChunk(p, sent'[p])
                          ELSE IF test.data = "text" THEN "close" ELSE "failed"
    BY <1>6, <1>7
  <2>2. to \in {"write", "sleep", "close"} \/ (to = "failed" /\ test.data # "text" /\ n # Left(p))
    BY <1>5, <2>1
  <2>. QED BY <1>2, <1>7, <2>1, <2>2
<1>8. CASE call' = call /\ size' = size
  <2>1. at' = at
    BY <1>4, <1>8
  <2>. QED BY <1>1, <1>8, <2>1 DEF WriteEffect
<1>9. CASE readers_number = 0
  <2>1. Return(p) /\ size' = size
    BY <1>9 DEF Fifo_write
  <2>. QED BY <1>1, <1>7, <1>9, <2>1 DEF WriteEffect
<1>10. CASE readers_number # 0
  <2>1. Ipc_write(p)
    BY <1>10 DEF Fifo_write
  <2>2. \/ Left(p) = 0 /\ Return(p) /\ size' = size
        \/ Left(p) > 0 /\ call' = call /\ size' = size
        \/ Left(p) > 0 /\ ~MustWait(p) /\ size' = size + Writable(p) /\ Written(p, Writable(p))
    BY <1>2, <1>3, <2>1, IpcWrites
  <2>3. CASE Left(p) = 0 /\ Return(p) /\ size' = size
    <3>1. test.data = "text" /\ n = Left(p)
      BY <1>1, <1>2, <1>3, <2>3
    <3>. QED BY <1>1, <1>2, <1>7, <2>3, <3>1 DEF WriteEffect
  <2>4. CASE Left(p) > 0 /\ ~MustWait(p) /\ size' = size + Writable(p) /\ Written(p, Writable(p))
    <3>1. Writable(p) \in Int /\ Writable(p) = size' - size
      BY <1>1, <1>4, <2>4 DEF Writable, Free
    <3>2. CASE Writable(p) = Left(p)
      <4>1. Return(p) /\ n = Left(p)
        BY <2>4, <3>1, <3>2 DEF Written
      <4>2. test.data = "packets" => size' - size = PacketSize
        BY <1>3, <3>1, <3>2
      <4>. QED BY <1>7, <4>1, <4>2 DEF WriteEffect
    <3>3. CASE Writable(p) # Left(p)
      <4>1. call' = [call EXCEPT ![p].done = @ + Writable(p)]
        BY <2>4, <3>3 DEF Written
      <4>2. test.data = "text"
        <5>1. test.data = "packets" => Free >= Left(p)
          BY <1>1, <1>3, <2>4 DEF MustWait, Free
        <5>. QED BY <1>2, <3>3, <5>1 DEF Writable
      <4>3. call'[p].op = "write" /\ call'[p] # Idle
        <5>1. call'[p] = [call[p] EXCEPT !.done = @ + Writable(p)]
          BY <1>1, <1>2, <4>1
        <5>2. call[p] \in StreamCalls
          BY <1>1, <1>2
        <5>3. call'[p].op = "write"
          BY <1>3, <5>1, <5>2 DEF StreamCalls
        <5>. QED BY <5>3 DEF Idle
      <4>4. at' = at
        BY <4>3
      <4>5. Writable(p) < Left(p)
        BY <1>1, <1>4, <3>3 DEF Writable, Free
      <4>6. PICK k \in Int : k = Writable(p) /\ k = size' - size
        BY <3>1
      <4>7. call' = [call EXCEPT ![p].done = @ + k]
        BY <4>1, <4>6
      <4>. QED BY <1>2, <4>2, <4>4, <4>5, <4>6, <4>7 DEF WriteEffect
    <3>. QED BY <3>2, <3>3
  <2>. QED BY <1>8, <2>2, <2>3, <2>4
<1>. QED BY <1>9, <1>10

\* And of a read: it ends at the end of file, or with what there is; a packet is read
\* whole if the buffer holds whole packets.
ReadEffect(p) ==
  /\ test.data = "packets" => size - size' \in {0, PacketSize}
  /\ \/ call' = call /\ at' = at /\ size' = size
     \/ /\ Return(p)
        /\ \E to \in {"read", "sleep", "close"} :
             /\ Goes(p, to)
             /\ to = "close" => size' = size /\ ((size = 0 /\ writers_number = 0) \/ Left(p) = 0)
             /\ test.data = "packets" /\ to = "close" => writers_number = 0
             /\ test.data = "text" => to # "sleep"

\* The n bytes that are read are a packet.
WholePacket(n, new) == n = PacketSize /\ \A i \in 1..n : new[i][2] % PacketSize = i % PacketSize

\* A read of a child has that effect, as the buffer holds whole packets.
LEMMA ReadEnds ==
  ASSUME BytesInv, ProgramInv, NEW p \in ToSet(test.readers), NEW n, n = size - size', Fifo_read(p),
         NEW new, new = Circular_buffer_read(buffer, n, SizeMax, read_pos),
         IF call'[p] # Idle THEN UNCHANGED at
         ELSE Goes(p, IF n = 0 THEN "close"
                      ELSE IF test.data = "text" \/ WholePacket(n, new) THEN AfterChunk(p, Len(got'[p]))
                      ELSE "failed")
  PROVE  ReadEffect(p)
<1>1. /\ test \in Tests /\ call \in [Procs -> StreamCalls] /\ size \in 0..SizeMax
      /\ SizeMax \in Nat /\ PacketSize \in 1..SizeMax /\ CallsAt /\ PacketsOK
      /\ read_pos \in 0..(SizeMax - 1) /\ buffer \in Buffer(SizeMax, Cells)
  BY StreamConstants DEF BytesInv, TransfersOK, BufferOK, ProgramInv
<1>2. p \in Procs /\ p \notin ToSet(test.writers) /\ test.data \in {"text", "packets"}
  BY <1>1, ChildrenFacts, TestChildren
<1>3. /\ call[p].op = "read" /\ ~call[p].nonblock
      /\ test.data = "packets" => Left(p) = PacketSize
  BY <1>1, <1>2, CallPlaces DEF Fifo_read
<1>4. call[p] # Idle /\ Left(p) \in Int
  BY <1>1, <1>2, <1>3, CallFacts DEF Idle
<1>5. /\ AfterChunk(p, Len(got'[p])) \in {"read", "sleep"}
      /\ test.data = "text" => AfterChunk(p, Len(got'[p])) # "sleep"
  BY DEF AfterChunk, LoopHead
<1>6. Return(p) => call'[p] = Idle
  BY <1>1, <1>2 DEF Return
<1>7. CASE call' = call /\ size' = size
  <2>1. at' = at
    BY <1>4, <1>7
  <2>. QED BY <1>1, <1>7, <2>1 DEF ReadEffect
<1>8. CASE /\ Return(p) /\ size' = size
           /\ (size = 0 /\ writers_number = 0) \/ (Left(p) = 0 /\ test.data = "text")
  <2>1. n = 0
    BY <1>1, <1>8
  <2>2. Goes(p, "close")
    BY <1>6, <1>8, <2>1
  <2>. QED BY <1>1, <1>2, <1>8, <2>2 DEF ReadEffect
<1>9. CASE Left(p) > 0 /\ size > 0 /\ Return(p) /\ size' = size - IF size < Left(p) THEN size ELSE Left(p)
  <2>1. n = IF size < Left(p) THEN size ELSE Left(p)
    BY <1>1, <1>4, <1>9
  <2>2. n \in 1..size
    BY <1>1, <1>4, <1>9, <2>1
  <2>3. ASSUME test.data = "packets" PROVE n = PacketSize /\ WholePacket(n, new)
    <3>1. Packets(PacketSize, Held) /\ Len(Held) = size
      BY <1>1, <2>3, ContentAt DEF PacketsOK, Held
    <3>2. PacketSize \in Nat /\ PacketSize > 0 /\ size \in Nat /\ size % PacketSize = 0
      BY <1>1, <3>1 DEF Packets
    <3>3. size >= PacketSize
      BY <1>9, <3>2, Multiples
    <3>4. n = PacketSize
      BY <1>1, <1>3, <2>1, <2>3, <3>3
    <3>5. new = SubSeq(Held, 1, n) /\ Held \in Seq(Cells)
      <4>1. n \in 0..size
        BY <1>1, <2>2
      <4>. QED BY <1>1, <4>1, ContentAt, ReadTakesOldest DEF Held
    <3>6. \A i \in 1..n : new[i] = Held[i] /\ i \in 1..Len(Held)
      <4>1. \A i \in 1..n : i \in 1..Len(Held)
        BY <1>1, <2>2, <3>1
      <4>2. n \in 0..Len(Held)
        BY <1>1, <2>2, <3>1
      <4>. QED BY <3>5, <4>1, <4>2
    <3>7. \A i \in 1..n : new[i][2] % PacketSize = i % PacketSize
      BY <3>1, <3>6 DEF Packets
    <3>. QED BY <3>4, <3>7 DEF WholePacket
  <2>4. PICK to : Goes(p, to) /\ to = IF n = 0 THEN "close"
                      ELSE IF test.data = "text" \/ WholePacket(n, new) THEN AfterChunk(p, Len(got'[p]))
                      ELSE "failed"
    BY <1>6, <1>9
  <2>5. to \in {"read", "sleep"} /\ (test.data = "text" => to # "sleep")
    BY <1>2, <1>5, <2>2, <2>3, <2>4
  <2>. QED BY <1>9, <2>3, <2>4, <2>5 DEF ReadEffect
<1>10. CASE size = 0 /\ writers_number = 0
  BY <1>8, <1>10 DEF Fifo_read
<1>11. CASE ~(size = 0 /\ writers_number = 0)
  <2>1. Ipc_read(p)
    BY <1>11 DEF Fifo_read
  <2>2. \/ Left(p) = 0 /\ Return(p) /\ size' = size
        \/ Left(p) > 0 /\ call' = call /\ size' = size
        \/ /\ Left(p) > 0 /\ size > 0 /\ Return(p)
           /\ size' = size - IF size < Left(p) THEN size ELSE Left(p)
    BY <1>2, <1>3, <2>1, IpcReads
  <2>3. Left(p) = 0 => test.data = "text"
    BY <1>1, <1>2, <1>3
  <2>. QED BY <1>7, <1>8, <1>9, <2>2, <2>3
<1>. QED BY <1>10, <1>11

-----------------------------------------------------------------------------
(* What steps of one kind keep.                                            *)

Ended == {"close", "exit", "zombie", "gone"}

\* The processes that move are in no call.
LEMMA CallsKeep ==
  ASSUME test \in Tests, CallsAt, UNCHANGED <<test, call>>,
         \A q \in Workers : at'[q] = at[q] \/ call[q] = Idle
  PROVE  CallsAt'
<1>1. ToSet(test.writers) \subseteq Workers /\ ToSet(test.readers) \subseteq Workers /\ ToSet(Children) \subseteq Workers
  BY ChildrenFacts
<1>2. Children' = Children /\ Chunk' = Chunk
  BY DEF Children, Chunk
<1>3. ASSUME NEW q \in Procs, call[q] # Idle PROVE q \in Workers /\ at'[q] = at[q]
  BY <1>1, <1>3 DEF CallsAt
<1>. QED BY <1>2, <1>3 DEF CallsAt

\* The call of a process ends.
LEMMA CallEnds ==
  ASSUME test \in Tests, CallsAt, call \in [Procs -> StreamCalls], UNCHANGED test, NEW p \in Procs,
         Return(p), \A q \in Workers : q # p => at'[q] = at[q]
  PROVE  CallsAt'
<1>1. ToSet(test.writers) \subseteq Workers /\ ToSet(test.readers) \subseteq Workers /\ ToSet(Children) \subseteq Workers
  BY ChildrenFacts
<1>2. Children' = Children /\ Chunk' = Chunk
  BY DEF Children, Chunk
<1>3. call'[p] = Idle /\ \A q \in Procs : q # p => call'[q] = call[q]
  BY DEF Return
<1>4. ASSUME NEW q \in Procs, q # p, call[q] # Idle PROVE q \in Workers /\ at'[q] = at[q]
  BY <1>1, <1>4 DEF CallsAt
<1>5. Idle.nonblock = FALSE
  BY DEF Idle
<1>. QED BY <1>2, <1>3, <1>4, <1>5 DEF CallsAt

\* A call begins or goes on.
LEMMA CallBegins ==
  ASSUME test \in Tests, CallsAt, call \in [Procs -> StreamCalls], UNCHANGED <<test, at>>,
         NEW p \in Procs, NEW c, call' = [call EXCEPT ![p] = c], c.nonblock = FALSE,
         \/ /\ c.op = "write" /\ p \in ToSet(test.writers) /\ at[p] = "write"
            /\ c.count = Chunk /\ (test.data = "packets" => c.done = 0)
         \/ /\ c.op = "read" /\ p \in ToSet(test.readers) /\ at[p] = "read"
            /\ (test.data = "packets" => c.count = PacketSize /\ c.done = 0)
         \/ /\ c.op \in {"RDONLY", "WRONLY"} /\ p \in ToSet(Children) /\ at[p] = "setup"
            /\ test.medium = "fifo"
  PROVE  CallsAt'
<1>2. Children' = Children /\ Chunk' = Chunk
  BY DEF Children, Chunk
<1>3. call'[p] = c /\ \A q \in Procs : q # p => call'[q] = call[q]
  OBVIOUS
<1>. QED BY <1>2, <1>3 DEF CallsAt

\* The descriptors stay, and everybody is where he has the same.
LEMMA SameDescriptors ==
  ASSUME test \in Tests, OwnOK, UNCHANGED <<test, descriptors, fifo>>,
         \A q \in Workers : HasAt(q, at'[q]) = HasAt(q, at[q])
  PROVE  OwnOK'
<1>1. \A q \in Workers : HasAt(q, at[q])' = HasAt(q, at[q])
  BY DEF HasAt, ModeOf
<1>2. \A q, m : End(q, m)' = End(q, m)
  BY DEF End, FdOf
<1>3. (UNION {{End(p, m) : m \in HasAt(p, at[p])} : p \in Workers})'
        = UNION {{End(p, m) : m \in HasAt(p, at[p])} : p \in Workers}
  <2>1. ASSUME NEW d
        PROVE  d \in (UNION {{End(p, m) : m \in HasAt(p, at[p])} : p \in Workers})'
                 <=> d \in UNION {{End(p, m) : m \in HasAt(p, at[p])} : p \in Workers}
    BY <1>1, <1>2
  <2>. QED BY <2>1
<1>. QED BY <1>3 DEF OwnOK

\* Nobody moves.
LEMMA NobodyMoves ==
  ASSUME test \in Tests, ProgramInv, CallsAt', PacketsOK',
         UNCHANGED <<at, step, test, descriptors, fifo, readers_number, writers_number>>
  PROVE  ProgramInv'
<1>1. Children' = Children
  BY DEF Children
<1>2. PlacesOK' /\ SpawnOK'
  BY <1>1 DEF ProgramInv, PlacesOK, SpawnOK
<1>3. OwnOK'
  BY SameDescriptors DEF ProgramInv
<1>4. PipeCounts' /\ EndOfFile' /\ NobodyFailed'
  BY DEF ProgramInv, PipeCounts, EndOfFile, NobodyFailed, Open, Reliable
<1>. QED BY <1>2, <1>3, <1>4 DEF ProgramInv

\* A child goes on and keeps its descriptors.
LEMMA ChildGoesOn ==
  ASSUME test \in Tests, ProgramInv, CallsAt', PacketsOK', NEW p \in ToSet(Children), at[p] # "unborn",
         NEW to \in BornPlaces(p), Goes(p, to),
         UNCHANGED <<step, test, descriptors, fifo, readers_number, writers_number>>,
         HasAt(p, to) = HasAt(p, at[p]), Reliable => to # "failed",
         p \in ToSet(test.readers) /\ to \in Ended /\ test.medium = "pipe" /\ test.data = "packets"
           => at[p] \in Ended \/ Open("WRONLY") = {}
  PROVE  ProgramInv'
<1>1. /\ p \in Workers /\ at'[p] = to /\ \A q \in Workers : q # p => at'[q] = at[q]
      /\ ToSet(test.readers) \subseteq Workers
  BY ChildrenFacts DEF Goes, ProgramInv, PlacesOK
<1>2. PlacesOK' /\ SpawnOK'
  BY ChildMoves DEF Goes, ProgramInv
<1>3. OwnOK'
  BY <1>1, SameDescriptors DEF ProgramInv
<1>4. PipeCounts'
  BY DEF ProgramInv, PipeCounts, Open
<1>5. EndOfFile'
  <2>1. ASSUME test.medium = "pipe", test.data = "packets", NEW r \in ToSet(test.readers), at'[r] \in Ended
        PROVE  Open("WRONLY") = {}
    BY <1>1, <2>1 DEF ProgramInv, EndOfFile, Ended
  <2>. QED BY <2>1 DEF EndOfFile, Ended, Open
<1>6. NobodyFailed'
  BY <1>1 DEF ProgramInv, NobodyFailed, Reliable
<1>. QED BY <1>2, <1>3, <1>4, <1>5, <1>6 DEF ProgramInv

\* Init goes on, or meets the end of a child, after the last spawn and close.
LEMMA ParentGoesOn ==
  ASSUME test \in Tests, ProgramInv, PacketsOK', PlacesOK', SpawnOK', CallsAt',
         UNCHANGED <<test, descriptors, fifo, readers_number, writers_number>>,
         at[Init_pcb] \in {"wait", "waiting"}, at'[Init_pcb] \in {"wait", "waiting", "done"},
         \A q \in Workers : q = Init_pcb \/ at'[q] = at[q] \/ (at[q] \in {"exit", "zombie"} /\ at'[q] \in {"zombie", "gone"})
  PROVE  ProgramInv'
<1>1. /\ Init_pcb \in Workers /\ Init_pcb \notin ToSet(Children) /\ ToSet(test.readers) \subseteq ToSet(Children)
      /\ ToSet(Children) \subseteq Workers
  BY ChildrenFacts
<1>2. \A q \in Workers : HasAt(q, at'[q]) = HasAt(q, at[q])
  <2>. TAKE q \in Workers
  <2>1. CASE at'[q] = at[q]
    BY <2>1
  <2>2. CASE q = Init_pcb
    BY <2>2 DEF HasAt
  <2>3. CASE at[q] \in {"exit", "zombie"} /\ at'[q] \in {"zombie", "gone"}
    BY <2>3 DEF HasAt
  <2>. QED BY <2>1, <2>2, <2>3
<1>3. OwnOK'
  BY <1>2, SameDescriptors DEF ProgramInv
<1>4. PipeCounts'
  BY DEF ProgramInv, PipeCounts, Open
<1>5. EndOfFile'
  <2>1. ASSUME test.medium = "pipe", test.data = "packets", NEW r \in ToSet(test.readers), at'[r] \in Ended
        PROVE  Open("WRONLY") = {}
    <3>1. at[r] \in Ended
      BY <1>1, <2>1 DEF Ended
    <3>. QED BY <2>1, <3>1 DEF ProgramInv, EndOfFile, Ended
  <2>. QED BY <2>1 DEF EndOfFile, Ended, Open
<1>6. NobodyFailed'
  BY <1>1 DEF ProgramInv, NobodyFailed, Reliable
<1>. QED BY <1>3, <1>4, <1>5, <1>6 DEF ProgramInv

-----------------------------------------------------------------------------
(* Descriptors and their counters.                                         *)

Modes == {"RDONLY", "WRONLY"}

\* A process has one descriptor of a mode at most.
LEMMA OwnFacts ==
  ASSUME OwnOK
  PROVE  /\ \A d : d \in descriptors <=> \E p \in Workers : \E m \in HasAt(p, at[p]) : d = End(p, m)
         /\ \A p, m : End(p, m).pcb = p /\ End(p, m).mode = m
         /\ \A m : \A d : d \in Open(m) <=> \E p \in Workers : m \in HasAt(p, at[p]) /\ d = End(p, m)
         /\ \A m : IsFiniteSet(Open(m)) /\ Cardinality(Open(m)) \in Nat
<1>1. \A d : d \in descriptors <=> \E p \in Workers : \E m \in HasAt(p, at[p]) : d = End(p, m)
  BY DEF OwnOK
<1>2. \A p, m : End(p, m).pcb = p /\ End(p, m).mode = m
  BY DEF End
<1>3. \A m : \A d : d \in Open(m) <=> \E p \in Workers : m \in HasAt(p, at[p]) /\ d = End(p, m)
  BY <1>1, <1>2 DEF Open
<1>4. ASSUME NEW m PROVE IsFiniteSet(Open(m)) /\ Cardinality(Open(m)) \in Nat
  <2>. DEFINE f == [d \in Open(m) |-> d.pcb]
  <2>1. f \in Injection(Open(m), Workers)
    <3>1. \A d \in Open(m) : d.pcb \in Workers /\ d = End(d.pcb, m)
      BY <1>2, <1>3
    <3>2. f \in [Open(m) -> Workers]
      BY <3>1
    <3>3. \A d, e \in Open(m) : f[d] = f[e] => d = e
      BY <3>1
    <3>. QED BY <3>2, <3>3 DEF Injection, IsInjective
  <2>2. IsFiniteSet(Workers)
    BY ProcsAssumption, FS_Subset DEF Procs
  <2>3. IsFiniteSet(Open(m))
    BY <2>1, <2>2, FS_Injection
  <2>. QED BY <2>3, FS_CardinalityType
<1>. QED BY <1>1, <1>2, <1>3, <1>4

\* What a close does.
LEMMA CloseEffect ==
  ASSUME OwnOK, NEW p \in Workers, NEW where, NEW mode \in Modes, NEW next, Close(p, where, mode, next)
  PROVE  /\ at[p] = where /\ call[p] = Idle /\ Goes(p, next) /\ mode \in HasAt(p, where)
         /\ descriptors' = descriptors \ {End(p, mode)}
         /\ fifo' = fifo \/ (fifo = "unlinked" /\ fifo' = "absent")
         /\ readers_number' = IF mode = "RDONLY" THEN readers_number - 1 ELSE readers_number
         /\ writers_number' = IF mode = "WRONLY" THEN writers_number - 1 ELSE writers_number
         /\ UNCHANGED <<test, step, call, size, buffer, read_pos, sent, got>>
<1>1. /\ at[p] = where /\ call[p] = Idle /\ Goes(p, next) /\ Resource_close(p)
      /\ \A d \in descriptors \ descriptors' : d.mode = mode
      /\ UNCHANGED <<test, step, call, size, buffer, read_pos, sent, got>>
  BY DEF Close, Runs, Issues, Resource_close
<1>2. PICK d \in descriptors : /\ d.pcb = p /\ descriptors' = descriptors \ {d}
                               /\ CloseReader(d) \/ CloseWriter(d)
  BY <1>1 DEF Resource_close
<1>3. d.mode = mode /\ d = End(p, mode) /\ mode \in HasAt(p, at[p])
  BY <1>1, <1>2, OwnFacts
<1>4. /\ readers_number' = IF mode = "RDONLY" THEN readers_number - 1 ELSE readers_number
      /\ writers_number' = IF mode = "WRONLY" THEN writers_number - 1 ELSE writers_number
  BY <1>2, <1>3 DEF CloseReader, CloseWriter
<1>5. fifo' = fifo \/ (fifo = "unlinked" /\ fifo' = "absent")
  BY <1>1 DEF Resource_close, Resource_destroy
<1>. QED BY <1>1, <1>2, <1>3, <1>4, <1>5

\* A close keeps what is known of descriptors and counters.
LEMMA CloseKeepsOwn ==
  ASSUME ProgramInv, test \in Tests, NEW p \in Workers, NEW where, NEW mode \in Modes, NEW next,
         Close(p, where, mode, next), HasAt(p, next) = HasAt(p, where) \ {mode}
  PROVE  OwnOK' /\ PipeCounts'
<1>0. OwnOK /\ PipeCounts /\ at \in [Workers -> ParentPlaces \cup WriterPlaces \cup ReaderPlaces]
  BY DEF ProgramInv, PlacesOK
<1>1. /\ at[p] = where /\ call[p] = Idle /\ Goes(p, next) /\ mode \in HasAt(p, where)
      /\ descriptors' = descriptors \ {End(p, mode)}
      /\ fifo' = fifo \/ (fifo = "unlinked" /\ fifo' = "absent")
      /\ readers_number' = IF mode = "RDONLY" THEN readers_number - 1 ELSE readers_number
      /\ writers_number' = IF mode = "WRONLY" THEN writers_number - 1 ELSE writers_number
      /\ test' = test
  BY <1>0, CloseEffect
<1>2. /\ \A d : d \in descriptors <=> \E q \in Workers : \E m \in HasAt(q, at[q]) : d = End(q, m)
      /\ \A q, m : End(q, m).pcb = q /\ End(q, m).mode = m
      /\ \A m : \A d : d \in Open(m) <=> \E q \in Workers : m \in HasAt(q, at[q]) /\ d = End(q, m)
      /\ \A m : IsFiniteSet(Open(m)) /\ Cardinality(Open(m)) \in Nat
  BY <1>0, OwnFacts
<1>3. /\ \A q, m : End(q, m)' = End(q, m)
      /\ \A q \in Workers : HasAt(q, at[q])' = HasAt(q, at'[q])
  <2>1. test' = test
    BY <1>1
  <2>2. \A q, m : End(q, m)' = End(q, m)
    BY <2>1 DEF End, FdOf
  <2>3. \A q \in Workers : HasAt(q, at[q])' = HasAt(q, at'[q])
    BY <2>1 DEF HasAt, ModeOf
  <2>. QED BY <2>2, <2>3
<1>4. at'[p] = next /\ \A q \in Workers : q # p => at'[q] = at[q]
  BY <1>0, <1>1 DEF Goes
<1>5. OwnOK'
  <2>1. \A d : d \in descriptors' <=> \E q \in Workers : \E m \in HasAt(q, at'[q]) : d = End(q, m)
    <3>. TAKE d
    <3>1. ASSUME d \in descriptors' PROVE \E q \in Workers : \E m \in HasAt(q, at'[q]) : d = End(q, m)
      <4>1. PICK q \in Workers : \E m \in HasAt(q, at[q]) : d = End(q, m)
        BY <1>1, <1>2, <3>1
      <4>2. PICK m \in HasAt(q, at[q]) : d = End(q, m)
        BY <4>1
      <4>3. m \in HasAt(q, at'[q])
        BY <1>1, <1>4, <3>1, <4>2
      <4>. QED BY <4>2, <4>3
    <3>2. ASSUME NEW q \in Workers, NEW m \in HasAt(q, at'[q]), d = End(q, m) PROVE d \in descriptors'
      <4>1. m \in HasAt(q, at[q]) /\ ~(q = p /\ m = mode)
        BY <1>1, <1>4, <3>2
      <4>2. d \in descriptors
        BY <1>2, <3>2, <4>1
      <4>3. d # End(p, mode)
        BY <1>2, <3>2, <4>1
      <4>. QED BY <1>1, <4>2, <4>3
    <3>. QED BY <3>1, <3>2
  <2>2. (UNION {{End(q, m) : m \in HasAt(q, at[q])} : q \in Workers})'
          = UNION {{End(q, m) : m \in HasAt(q, at'[q])} : q \in Workers}
    BY <1>3
  <2>3. descriptors' = UNION {{End(q, m) : m \in HasAt(q, at'[q])} : q \in Workers}
    BY <2>1
  <2>4. fifo' \in IF test.medium = "pipe" THEN {"unlinked", "absent"} ELSE {"linked"}
    BY <1>0, <1>1 DEF OwnOK
  <2>. QED BY <1>1, <2>2, <2>3, <2>4 DEF OwnOK
<1>6. PipeCounts'
  <2>. SUFFICES ASSUME test.medium = "pipe"
                PROVE  /\ readers_number' = Cardinality(Open("RDONLY")')
                       /\ writers_number' = Cardinality(Open("WRONLY")')
    BY <1>1 DEF PipeCounts
  <2>1. \A m : m # mode => Open(m)' = Open(m)
    BY <1>1, <1>2 DEF Open
  <2>2. Open(mode)' = Open(mode) \ {End(p, mode)} /\ End(p, mode) \in Open(mode)
    BY <1>1, <1>2 DEF Open
  <2>3. Cardinality(Open(mode)') = Cardinality(Open(mode)) - 1
    BY <1>2, <2>2, FS_RemoveElement
  <2>4. /\ readers_number = Cardinality(Open("RDONLY"))
        /\ writers_number = Cardinality(Open("WRONLY"))
    BY <1>0 DEF PipeCounts
  <2>. QED BY <1>1, <2>1, <2>3, <2>4 DEF Modes
<1>. QED BY <1>5, <1>6

\* Nothing is transferred.
LEMMA PacketsKeep ==
  ASSUME PacketsOK, UNCHANGED <<test, size, buffer, read_pos, sent, got>>
  PROVE  PacketsOK'
<1>1. Held' = Held
  BY DEF Held, Content
<1>. QED BY <1>1 DEF PacketsOK

\* End of file stays where it was reached, and no close reaches it.
LEMMA CloseKeepsEnd ==
  ASSUME ProgramInv, test \in Tests, UNCHANGED test, descriptors' \subseteq descriptors, NEW p \in Workers,
         \A q \in Workers : q # p => at'[q] = at[q], at'[p] \in Ended => at[p] \in Ended \/ p = Init_pcb,
         at'[p] # "failed"
  PROVE  EndOfFile' /\ NobodyFailed'
<1>1. Open("WRONLY") = {} => Open("WRONLY")' = {}
  BY DEF Open
<1>2. ASSUME NEW r \in ToSet(test.readers), at'[r] \in Ended PROVE at[r] \in Ended
  <2>1. r \in Workers /\ r # Init_pcb
    BY ChildrenFacts
  <2>. QED BY <1>2, <2>1
<1>3. EndOfFile'
  BY <1>1, <1>2 DEF ProgramInv, EndOfFile, Ended
<1>4. NobodyFailed'
  BY DEF ProgramInv, NobodyFailed, Reliable
<1>. QED BY <1>3, <1>4

\* A child closes the end it does not use, or the one it used.
LEMMA ChildCloseKeeps ==
  ASSUME BytesInv, ProgramInv, NEW p \in ToSet(Children),
         NEW where, NEW mode, NEW next, ChildCloses(p, where, mode, next)
  PROVE  ProgramInv'
<1>1. /\ test \in Tests /\ p \in Workers /\ p # Init_pcb /\ OwnOK
      /\ ToSet(Children) = ToSet(test.writers) \cup ToSet(test.readers)
      /\ ToSet(test.writers) \cap ToSet(test.readers) = {}
      /\ at \in [Workers -> ParentPlaces \cup WriterPlaces \cup ReaderPlaces]
  BY ChildrenFacts DEF BytesInv, TransfersOK, ProgramInv, PlacesOK
<1>2. /\ Close(p, where, mode, next)
      /\ \/ /\ where = "setup" /\ test.medium = "pipe"
            /\ \/ p \in ToSet(test.writers) /\ mode = "RDONLY" /\ next = "write"
               \/ p \in ToSet(test.readers) /\ mode = "WRONLY" /\ next = "read"
         \/ where = "close" /\ mode = ModeOf(p) /\ next = "exit"
  BY DEF ChildCloses
<1>3. mode \in Modes /\ next \in BornPlaces(p) /\ next # "failed"
  BY <1>1, <1>2 DEF Modes, ModeOf, BornPlaces, WriterPlaces, ReaderPlaces
<1>4. HasAt(p, next) = HasAt(p, where) \ {mode}
  <2>1. ModeOf(p) = IF p \in ToSet(test.writers) THEN "WRONLY" ELSE "RDONLY"
    BY DEF ModeOf
  <2>2. CASE where = "setup"
    BY <1>1, <1>2, <2>1, <2>2 DEF HasAt
  <2>3. CASE where = "close"
    BY <1>2, <2>3 DEF HasAt
  <2>. QED BY <1>2, <2>2, <2>3
<1>5. /\ at[p] = where /\ call[p] = Idle /\ Goes(p, next)
      /\ descriptors' = descriptors \ {End(p, mode)}
      /\ UNCHANGED <<test, step, call, size, buffer, read_pos, sent, got>>
  BY <1>1, <1>2, <1>3, CloseEffect
<1>6. at'[p] = next /\ \A q \in Workers : q # p => at'[q] = at[q]
  BY <1>1, <1>5 DEF Goes
<1>7. PlacesOK' /\ SpawnOK'
  <2>1. at[p] # "unborn"
    BY <1>2, <1>5
  <2>. QED BY <1>1, <1>3, <1>5, <2>1, ChildMoves DEF Goes, ProgramInv
<1>8. CallsAt'
  BY <1>1, <1>5, <1>6, CallsKeep DEF ProgramInv
<1>9. OwnOK' /\ PipeCounts'
  BY <1>1, <1>2, <1>3, <1>4, CloseKeepsOwn
<1>10. PacketsOK'
  BY <1>5, PacketsKeep DEF ProgramInv
<1>11. EndOfFile' /\ NobodyFailed'
  <2>1. next \in Ended => at[p] \in Ended
    BY <1>2, <1>5 DEF Ended
  <2>. QED BY <1>1, <1>3, <1>5, <1>6, <2>1, CloseKeepsEnd
<1>. QED BY <1>7, <1>8, <1>9, <1>10, <1>11 DEF ProgramInv

\* Init closes its ends of the pipe after the last spawn.
LEMMA ParentCloseKeeps ==
  ASSUME BytesInv, ProgramInv, NEW where, NEW mode, NEW next, Close(Init_pcb, where, mode, next),
         \/ where = "close reader" /\ mode = "RDONLY" /\ next = "close writer"
         \/ where = "close writer" /\ mode = "WRONLY" /\ next = "wait"
  PROVE  ProgramInv'
<1>1. /\ test \in Tests /\ Init_pcb \in Workers /\ OwnOK /\ mode \in Modes
      /\ at \in [Workers -> ParentPlaces \cup WriterPlaces \cup ReaderPlaces]
  BY ChildrenFacts DEF BytesInv, TransfersOK, ProgramInv, PlacesOK, Modes
<1>2. /\ at[Init_pcb] = where /\ call[Init_pcb] = Idle /\ Goes(Init_pcb, next)
      /\ descriptors' = descriptors \ {End(Init_pcb, mode)}
      /\ UNCHANGED <<test, step, call, size, buffer, read_pos, sent, got>>
  BY <1>1, CloseEffect
<1>3. test.medium = "pipe"
  <2>1. test.medium \in {"pipe", "fifo"}
    BY <1>1, TestChildren
  <2>. QED BY <1>2, <2>1 DEF ProgramInv, PlacesOK
<1>4. HasAt(Init_pcb, next) = HasAt(Init_pcb, where) \ {mode}
  BY <1>3 DEF HasAt
<1>5. at'[Init_pcb] = next /\ \A q \in Workers : q # Init_pcb => at'[q] = at[q]
  BY <1>1, <1>2 DEF Goes
<1>6. PlacesOK' /\ SpawnOK'
  <2>1. next \in {"close writer", "wait", "waiting", "done"} /\ next # "waiting"
    OBVIOUS
  <2>2. at[Init_pcb] # "spawn"
    BY <1>2
  <2>. QED BY <1>1, <1>2, <1>3, <2>1, <2>2, ParentMoves DEF Goes, ProgramInv
<1>7. CallsAt'
  BY <1>1, <1>2, <1>5, CallsKeep DEF ProgramInv
<1>8. OwnOK' /\ PipeCounts'
  BY <1>1, <1>4, CloseKeepsOwn
<1>9. PacketsOK'
  BY <1>2, PacketsKeep DEF ProgramInv
<1>10. EndOfFile' /\ NobodyFailed'
  BY <1>1, <1>2, <1>5, CloseKeepsEnd
<1>. QED BY <1>6, <1>7, <1>8, <1>9, <1>10 DEF ProgramInv

\* A child is born with the descriptors of init.
LEMMA SpawnKeeps ==
  ASSUME BytesInv, ProgramInv, SpawnNext
  PROVE  ProgramInv'
<1>1. test \in Tests /\ Init_pcb \in Workers /\ test.medium \in {"pipe", "fifo"} /\ OwnOK
  BY ChildrenFacts, TestChildren DEF BytesInv, TransfersOK, ProgramInv
<1>2. PICK child : child = Children[step + 1]
  OBVIOUS
<1>3. /\ PlacesOK' /\ SpawnOK' /\ child \in Workers /\ child # Init_pcb
      /\ at[child] = "unborn" /\ at'[child] = "setup" /\ at[Init_pcb] = "spawn"
      /\ at'[Init_pcb] \in IF test.medium = "pipe" THEN {"spawn", "close reader"} ELSE {"spawn", "wait"}
      /\ \A q \in Workers : q # Init_pcb /\ q # child => at'[q] = at[q]
  BY <1>1, <1>2, SpawnMoves DEF ProgramInv
<1>4. /\ Spawn(child) /\ UNCHANGED <<test, sent, got>>
  BY <1>2 DEF SpawnNext
<1>5. /\ descriptors' = descriptors \cup Cloned(child)
      /\ readers_number' = readers_number + Onclone(child, "RDONLY")
      /\ writers_number' = writers_number + Onclone(child, "WRONLY")
      /\ UNCHANGED <<test, fifo, call, size, buffer, read_pos, sent, got>>
  BY <1>4 DEF Spawn, UnchangedIpc
<1>6. /\ \A d : d \in descriptors <=> \E q \in Workers : \E m \in HasAt(q, at[q]) : d = End(q, m)
      /\ \A q, m : End(q, m).pcb = q /\ End(q, m).mode = m
      /\ \A m : \A d : d \in Open(m) <=> \E q \in Workers : m \in HasAt(q, at[q]) /\ d = End(q, m)
      /\ \A m : IsFiniteSet(Open(m)) /\ Cardinality(Open(m)) \in Nat
  BY <1>1, OwnFacts
<1>. DEFINE B == HasAt(Init_pcb, "spawn")
<1>7. /\ B = IF test.medium = "pipe" THEN Modes ELSE {}
      /\ HasAt(child, "setup") = B /\ HasAt(child, "unborn") = {}
      /\ HasAt(Init_pcb, at'[Init_pcb]) = B
  <2>1. /\ B = IF test.medium = "pipe" THEN Modes ELSE {}
        /\ HasAt(child, "setup") = B /\ HasAt(child, "unborn") = {}
    BY DEF HasAt, Modes
  <2>2. HasAt(Init_pcb, at'[Init_pcb]) = B
    BY <1>3 DEF HasAt
  <2>. QED BY <2>1, <2>2
<1>. HIDE DEF B
<1>8. Cloned(child) = {End(child, m) : m \in B}
  <2>1. \A m : [End(Init_pcb, m) EXCEPT !.pcb = child] = End(child, m)
    <3>. TAKE m
    <3>1. PICK fd, flag : fd = FdOf(m) /\ flag = FALSE
      OBVIOUS
    <3>2. /\ End(Init_pcb, m) = [pcb |-> Init_pcb, fd |-> fd, mode |-> m, nonblock |-> flag]
          /\ End(child, m) = [pcb |-> child, fd |-> fd, mode |-> m, nonblock |-> flag]
      BY <3>1 DEF End
    <3>3. [[pcb |-> Init_pcb, fd |-> fd, mode |-> m, nonblock |-> flag] EXCEPT !.pcb = child]
            = [pcb |-> child, fd |-> fd, mode |-> m, nonblock |-> flag]
      OBVIOUS
    <3>. QED BY <3>2, <3>3
  <2>2. \A d : d \in descriptors /\ d.pcb = Init_pcb <=> \E m \in B : d = End(Init_pcb, m)
    <3>1. HasAt(Init_pcb, at[Init_pcb]) = B
      BY <1>3 DEF B
    <3>2. ASSUME NEW d \in descriptors, d.pcb = Init_pcb PROVE \E m \in B : d = End(Init_pcb, m)
      <4>1. PICK q \in Workers : \E m \in HasAt(q, at[q]) : d = End(q, m)
        BY <1>6
      <4>2. q = Init_pcb
        BY <1>6, <3>2, <4>1
      <4>. QED BY <3>1, <4>1, <4>2
    <3>3. ASSUME NEW m \in B PROVE End(Init_pcb, m) \in descriptors /\ End(Init_pcb, m).pcb = Init_pcb
      BY <1>1, <1>6, <3>1
    <3>. QED BY <3>2, <3>3
  <2>3. Cloned(child) = {[d EXCEPT !.pcb = child] : d \in {End(Init_pcb, m) : m \in B}}
    <3>1. {d \in descriptors : d.pcb = Init_pcb} = {End(Init_pcb, m) : m \in B}
      BY <2>2
    <3>. QED BY <3>1 DEF Cloned
  <2>. QED BY <2>1, <2>3
<1>9. /\ \A q, m : End(q, m)' = End(q, m)
      /\ \A q \in Workers : HasAt(q, at[q])' = HasAt(q, at'[q])
  <2>1. test' = test
    BY <1>5
  <2>2. \A q, m : End(q, m)' = End(q, m)
    BY <2>1 DEF End, FdOf
  <2>3. \A q \in Workers : HasAt(q, at[q])' = HasAt(q, at'[q])
    BY <2>1 DEF HasAt, ModeOf
  <2>. QED BY <2>2, <2>3
<1>10. OwnOK'
  <2>1. \A q \in Workers : q # child => HasAt(q, at'[q]) = HasAt(q, at[q])
    BY <1>3, <1>7 DEF B
  <2>2. \A d : d \in descriptors' <=> \E q \in Workers : \E m \in HasAt(q, at'[q]) : d = End(q, m)
    <3>. TAKE d
    <3>1. ASSUME d \in descriptors PROVE \E q \in Workers : \E m \in HasAt(q, at'[q]) : d = End(q, m)
      <4>1. PICK q \in Workers : \E m \in HasAt(q, at[q]) : d = End(q, m)
        BY <1>6, <3>1
      <4>2. q # child
        BY <1>3, <1>7, <4>1
      <4>. QED BY <2>1, <4>1, <4>2
    <3>2. ASSUME d \in Cloned(child) PROVE \E q \in Workers : \E m \in HasAt(q, at'[q]) : d = End(q, m)
      <4>1. PICK m \in HasAt(child, at'[child]) : d = End(child, m)
        BY <1>3, <1>7, <1>8, <3>2
      <4>. QED BY <1>3, <4>1
    <3>3. ASSUME NEW q \in Workers, NEW m \in HasAt(q, at'[q]), d = End(q, m)
          PROVE  d \in descriptors \/ d \in Cloned(child)
      <4>1. CASE q = child
        BY <1>3, <1>7, <1>8, <3>3, <4>1
      <4>2. CASE q # child
        BY <1>6, <2>1, <3>3, <4>2
      <4>. QED BY <4>1, <4>2
    <3>. QED BY <1>5, <3>1, <3>2, <3>3
  <2>3. (UNION {{End(q, m) : m \in HasAt(q, at[q])} : q \in Workers})'
          = UNION {{End(q, m) : m \in HasAt(q, at'[q])} : q \in Workers}
    BY <1>9
  <2>4. descriptors' = UNION {{End(q, m) : m \in HasAt(q, at'[q])} : q \in Workers}
    BY <2>2
  <2>5. fifo' \in IF test.medium = "pipe" THEN {"unlinked", "absent"} ELSE {"linked"}
    BY <1>1, <1>5 DEF OwnOK
  <2>. QED BY <1>5, <2>3, <2>4, <2>5 DEF OwnOK
<1>11. PipeCounts'
  <2>. SUFFICES ASSUME test.medium = "pipe"
                PROVE  /\ readers_number' = Cardinality(Open("RDONLY")')
                       /\ writers_number' = Cardinality(Open("WRONLY")')
    BY <1>5 DEF PipeCounts
  <2>1. ASSUME NEW m \in Modes
        PROVE  Onclone(child, m) = 1 /\ Cardinality(Open(m)') = Cardinality(Open(m)) + 1
    <3>1. {d \in Cloned(child) : d.mode = m} = {End(child, m)}
      BY <1>6, <1>7, <1>8
    <3>2. Onclone(child, m) = 1
      BY <3>1, FS_Singleton DEF Onclone
    <3>3. Open(m)' = Open(m) \cup {End(child, m)}
      BY <1>5, <3>1 DEF Open
    <3>4. End(child, m) \notin Open(m)
      <4>1. ASSUME NEW q \in Workers, m \in HasAt(q, at[q]), End(child, m) = End(q, m) PROVE FALSE
        <5>1. q = child
          BY <1>6, <4>1
        <5>. QED BY <1>3, <1>7, <4>1, <5>1
      <4>. QED BY <1>6, <4>1
    <3>. QED BY <1>6, <3>2, <3>3, <3>4, FS_AddElement
  <2>2. /\ readers_number = Cardinality(Open("RDONLY"))
        /\ writers_number = Cardinality(Open("WRONLY"))
    BY DEF ProgramInv, PipeCounts
  <2>. QED BY <1>5, <2>1, <2>2 DEF Modes
<1>12. EndOfFile'
  <2>1. ASSUME test.medium = "pipe", test.data = "packets", NEW r \in ToSet(test.readers), at'[r] \in Ended
        PROVE  FALSE
    <3>1. r \in Workers /\ r # Init_pcb
      BY <1>1, ChildrenFacts
    <3>2. at[r] \in Ended
      BY <1>3, <2>1, <3>1 DEF Ended
    <3>3. End(Init_pcb, "WRONLY") \in Open("WRONLY")
      BY <1>1, <1>3, <1>6, <1>7, <2>1 DEF Modes, B
    <3>. QED BY <2>1, <3>2, <3>3 DEF ProgramInv, EndOfFile, Ended
  <2>. QED BY <1>5, <2>1 DEF EndOfFile, Ended
<1>13. CallsAt'
  <2>1. call[child] = Idle /\ call[Init_pcb] = Idle
    <3>1. child \in Procs /\ Init_pcb \in Procs /\ Init_pcb \notin ToSet(test.writers)
          /\ Init_pcb \notin ToSet(test.readers) /\ Init_pcb \notin ToSet(Children)
      BY <1>1, <1>3, ChildrenFacts
    <3>. QED BY <1>3, <3>1 DEF ProgramInv, CallsAt
  <2>. QED BY <1>1, <1>3, <1>5, <2>1, CallsKeep DEF ProgramInv
<1>14. PacketsOK'
  BY <1>5, PacketsKeep DEF ProgramInv
<1>15. NobodyFailed'
  <2>1. ASSUME Reliable, NEW q \in Workers PROVE at'[q] # "failed"
    BY <1>3, <2>1 DEF ProgramInv, NobodyFailed
  <2>. QED BY <1>5, <2>1 DEF NobodyFailed, Reliable
<1>. QED BY <1>3, <1>10, <1>11, <1>12, <1>13, <1>14, <1>15 DEF ProgramInv

\* A fifo has room for the descriptor of a child that opens it.
LEMMA RoomToOpen ==
  ASSUME OwnOK, test.medium = "fifo", NEW p \in Workers, at[p] = "setup"
  PROVE  /\ fifo = "linked" /\ FreeFds(p) = 1..MaxFds /\ FreeFds(p) # {}
         /\ Cardinality(descriptors) \in Nat /\ Cardinality(descriptors) < MaxDescriptors
<1>1. /\ \A d : d \in descriptors <=> \E q \in Workers : \E m \in HasAt(q, at[q]) : d = End(q, m)
      /\ \A q, m : End(q, m).pcb = q /\ End(q, m).mode = m
  BY OwnFacts
<1>2. HasAt(p, at[p]) = {} /\ \A q \in Workers : \A m, n \in HasAt(q, at[q]) : m = n
  BY DEF HasAt
<1>3. \A d \in descriptors : d.pcb \in Workers \ {p}
  BY <1>1, <1>2
<1>4. \A d, e \in descriptors : d.pcb = e.pcb => d = e
  <2>. SUFFICES ASSUME NEW d \in descriptors, NEW e \in descriptors, d.pcb = e.pcb PROVE d = e
    OBVIOUS
  <2>1. PICK q \in Workers : \E m \in HasAt(q, at[q]) : d = End(q, m)
    BY <1>1
  <2>2. PICK r \in Workers : \E m \in HasAt(r, at[r]) : e = End(r, m)
    BY <1>1
  <2>3. q = r
    BY <1>1, <2>1, <2>2
  <2>. QED BY <1>2, <2>1, <2>2, <2>3
<1>5. MaxFds \in Nat /\ MaxFds > 1 /\ MaxDescriptors \in Nat /\ MaxDescriptors >= 2 * Cardinality(Workers)
  BY FifoAssumption, StreamAssumption
<1>6. FreeFds(p) = 1..MaxFds /\ 1 \in 1..MaxFds
  BY <1>3, <1>5 DEF FreeFds
<1>7. Cardinality(descriptors) \in Nat /\ Cardinality(descriptors) < MaxDescriptors
  <2>. DEFINE others == Workers \ {p}
              f == [d \in descriptors |-> d.pcb]
  <2>1. IsFiniteSet(Workers) /\ Cardinality(Workers) \in Nat
    BY ProcsAssumption, FS_Subset, FS_CardinalityType DEF Procs
  <2>2. IsFiniteSet(others) /\ Cardinality(others) = Cardinality(Workers) - 1
    BY <2>1, FS_RemoveElement
  <2>3. f \in Injection(descriptors, others)
    <3>1. f \in [descriptors -> others]
      BY <1>3
    <3>2. \A d, e \in descriptors : f[d] = f[e] => d = e
      BY <1>4
    <3>. QED BY <3>1, <3>2 DEF Injection, IsInjective
  <2>4. IsFiniteSet(descriptors) /\ Cardinality(descriptors) <= Cardinality(others)
    BY <2>2, <2>3, FS_Injection
  <2>5. Cardinality(descriptors) \in Nat
    BY <2>4, FS_CardinalityType
  <2>6. PICK n \in Nat, k \in Nat : n = Cardinality(descriptors) /\ k = Cardinality(Workers)
    BY <2>1, <2>5
  <2>7. n <= k - 1 /\ MaxDescriptors >= 2 * k
    BY <1>5, <2>2, <2>4, <2>6
  <2>8. n < MaxDescriptors
    BY <1>5, <2>6, <2>7
  <2>. QED BY <2>6, <2>8
<1>8. fifo = "linked"
  BY DEF OwnOK
<1>. QED BY <1>6, <1>7, <1>8

\* What the open of a child does: it waits, or the child has its descriptor.
LEMMA OpenEffect ==
  ASSUME BytesInv, ProgramInv, NEW p \in Workers, NEW mode \in Modes, NEW next,
         test.medium = "fifo", mode = ModeOf(p), In(p, mode), Opening(p, mode, next)
  PROVE  \/ /\ UNCHANGED <<at, step, test, call, descriptors, fifo, readers_number, writers_number>>
         \/ /\ at[p] = "setup" /\ Goes(p, next) /\ Return(p)
            /\ descriptors' = descriptors \cup {End(p, mode)}
            /\ UNCHANGED <<step, test, fifo>>
<1>1. /\ test \in Tests /\ p \in Procs /\ call \in [Procs -> StreamCalls] /\ CallsAt /\ OwnOK
  BY StreamConstants DEF BytesInv, TransfersOK, ProgramInv
<1>2. call[p].op = mode /\ call[p] # Idle /\ at[p] = "setup" /\ ~call[p].nonblock
  BY <1>1, CallPlaces DEF In, Modes, Idle
<1>3. /\ fifo = "linked" /\ FreeFds(p) = 1..MaxFds /\ FreeFds(p) # {}
      /\ Cardinality(descriptors) \in Nat /\ Cardinality(descriptors) < MaxDescriptors
  BY <1>1, <1>2, RoomToOpen
<1>4. /\ Resource_open(p) /\ UNCHANGED <<step, test>>
      /\ IF call'[p] # Idle THEN UNCHANGED at
         ELSE Goes(p, IF \E d \in descriptors' : d.pcb = p THEN next ELSE "failed")
  <2>1. ~(Runs(p, "setup"))
    BY <1>2 DEF Runs, Issues
  <2>. QED BY <2>1 DEF Opening
<1>5. MaxDescriptors \in Nat
  BY FifoAssumption
<1>6. OpenReader(p) \/ OpenWriter(p)
  <2>1. ~OpenFails(p)
    BY <1>2, <1>3, <1>5 DEF OpenFails, Modes
  <2>. QED BY <1>4, <2>1 DEF Resource_open
<1>7. CASE call' = call
  <2>1. at' = at
    BY <1>2, <1>4, <1>7
  <2>2. ~Return(p)
    BY <1>1, <1>2, <1>7 DEF Return
  <2>3. UNCHANGED <<descriptors, fifo, readers_number, writers_number>>
    BY <1>6, <2>2 DEF OpenReader, OpenWriter, Opened, openers
  <2>. QED BY <1>4, <1>7, <2>1, <2>3
<1>8. ASSUME NEW queue, Opened(p, queue)
      PROVE  /\ Goes(p, next) /\ Return(p) /\ descriptors' = descriptors \cup {End(p, mode)} /\ fifo' = fifo
  <2>1. Return(p) /\ Descriptor_mk(p) /\ fifo' = fifo
    BY <1>8 DEF Opened
  <2>2. call'[p] = Idle
    BY <1>1, <2>1 DEF Return
  <2>3. descriptors' = descriptors \cup {End(p, mode)}
    <3>1. call[p].nonblock = FALSE
      BY <1>1 DEF CallsAt
    <3>2. (CHOOSE fd \in FreeFds(p) : TRUE) = FdOf(mode)
      BY <1>3 DEF FdOf
    <3>. QED BY <1>2, <2>1, <3>1, <3>2 DEF Descriptor_mk, End
  <2>4. End(p, mode) \in descriptors' /\ End(p, mode).pcb = p
    BY <2>3 DEF End
  <2>. QED BY <1>4, <2>1, <2>2, <2>3, <2>4
<1>9. call' = call \/ \E queue : Opened(p, queue)
  BY <1>2, <1>6 DEF OpenReader, OpenWriter, Crash
<1>. QED BY <1>2, <1>4, <1>7, <1>8, <1>9

\* A child that opens has its descriptor when it goes on.
LEMMA ChildOpenKeeps ==
  ASSUME BytesInv, ProgramInv, NEW p \in ToSet(Children), NEW mode, NEW next, ChildOpens(p, mode, next)
  PROVE  ProgramInv'
<1>1. /\ test \in Tests /\ p \in Workers /\ p \in Procs /\ p # Init_pcb /\ OwnOK
      /\ ToSet(Children) = ToSet(test.writers) \cup ToSet(test.readers)
      /\ ToSet(test.writers) \cap ToSet(test.readers) = {}
      /\ at \in [Workers -> ParentPlaces \cup WriterPlaces \cup ReaderPlaces]
      /\ call \in [Procs -> StreamCalls]
  BY ChildrenFacts, StreamConstants DEF BytesInv, TransfersOK, ProgramInv, PlacesOK
<1>2. /\ Opening(p, mode, next) /\ test.medium = "fifo" /\ mode = ModeOf(p) /\ mode \in Modes
      /\ next \in BornPlaces(p) /\ next \in {"write", "read"}
  BY <1>1 DEF ChildOpens, ModeOf, Modes, BornPlaces, WriterPlaces, ReaderPlaces
<1>3. UNCHANGED <<size, buffer, read_pos, test, sent, got>>
  BY <1>1, <1>2, ChildQuiet DEF Modes, Quiet
<1>4. PacketsOK'
  BY <1>3, PacketsKeep DEF ProgramInv
<1>5. CASE Runs(p, "setup") /\ ~In(p, mode)
  <2>1. /\ at[p] = "setup"
        /\ call' = [call EXCEPT ![p] = [op |-> mode, count |-> 0, done |-> 0, nonblock |-> FALSE]]
        /\ UNCHANGED <<at, step, test, descriptors, fifo, readers_number, writers_number>>
    BY <1>2, <1>5 DEF Opening, Runs, UnchangedFifo, openers, progVars
  <2>2. PICK c : c = [op |-> mode, count |-> 0, done |-> 0, nonblock |-> FALSE]
    OBVIOUS
  <2>3. c.op \in {"RDONLY", "WRONLY"} /\ c.nonblock = FALSE
    BY <1>2, <2>2 DEF Modes
  <2>4. CallsAt'
    BY <1>1, <1>2, <2>1, <2>2, <2>3, CallBegins DEF ProgramInv
  <2>. QED BY <1>1, <1>4, <2>1, <2>4, NobodyMoves
<1>6. CASE In(p, mode)
  <2>1. CASE UNCHANGED <<at, step, test, call, descriptors, fifo, readers_number, writers_number>>
    <3>1. CallsAt'
      BY <1>1, <2>1, CallsKeep DEF ProgramInv
    <3>. QED BY <1>1, <1>4, <2>1, <3>1, NobodyMoves
  <2>2. CASE /\ at[p] = "setup" /\ Goes(p, next) /\ Return(p)
             /\ descriptors' = descriptors \cup {End(p, mode)}
             /\ UNCHANGED <<step, test, fifo>>
    <3>1. at'[p] = next /\ \A q \in Workers : q # p => at'[q] = at[q]
      BY <1>1, <2>2 DEF Goes
    <3>2. PlacesOK' /\ SpawnOK'
      <4>1. at[p] # "unborn"
        BY <2>2
      <4>. QED BY <1>1, <1>2, <2>2, <4>1, ChildMoves DEF Goes, ProgramInv
    <3>3. CallsAt'
      BY <1>1, <2>2, <3>1, CallEnds DEF ProgramInv
    <3>4. /\ \A d : d \in descriptors <=> \E q \in Workers : \E m \in HasAt(q, at[q]) : d = End(q, m)
          /\ \A q, m : End(q, m).pcb = q /\ End(q, m).mode = m
      BY <1>1, OwnFacts
    <3>5. /\ \A q, m : End(q, m)' = End(q, m)
          /\ \A q \in Workers : HasAt(q, at[q])' = HasAt(q, at'[q])
      <4>1. test' = test
        BY <2>2
      <4>2. \A q, m : End(q, m)' = End(q, m)
        BY <4>1 DEF End, FdOf
      <4>3. \A q \in Workers : HasAt(q, at[q])' = HasAt(q, at'[q])
        BY <4>1 DEF HasAt, ModeOf
      <4>. QED BY <4>2, <4>3
    <3>6. HasAt(p, at[p]) = {} /\ HasAt(p, at'[p]) = {mode}
      BY <1>2, <2>2, <3>1 DEF HasAt
    <3>7. OwnOK'
      <4>1. \A d : d \in descriptors' <=> \E q \in Workers : \E m \in HasAt(q, at'[q]) : d = End(q, m)
        <5>. TAKE d
        <5>1. ASSUME d \in descriptors PROVE \E q \in Workers : \E m \in HasAt(q, at'[q]) : d = End(q, m)
          <6>1. PICK q \in Workers : \E m \in HasAt(q, at[q]) : d = End(q, m)
            BY <3>4, <5>1
          <6>2. q # p
            BY <3>6, <6>1
          <6>. QED BY <3>1, <6>1, <6>2
        <5>2. ASSUME d = End(p, mode) PROVE \E q \in Workers : \E m \in HasAt(q, at'[q]) : d = End(q, m)
          BY <1>1, <3>6, <5>2
        <5>3. ASSUME NEW q \in Workers, NEW m \in HasAt(q, at'[q]), d = End(q, m)
              PROVE  d \in descriptors \/ d = End(p, mode)
          <6>1. CASE q = p
            BY <3>6, <5>3, <6>1
          <6>2. CASE q # p
            BY <3>1, <3>4, <5>3, <6>2
          <6>. QED BY <6>1, <6>2
        <5>. QED BY <2>2, <5>1, <5>2, <5>3
      <4>2. (UNION {{End(q, m) : m \in HasAt(q, at[q])} : q \in Workers})'
              = UNION {{End(q, m) : m \in HasAt(q, at'[q])} : q \in Workers}
        BY <3>5
      <4>3. descriptors' = UNION {{End(q, m) : m \in HasAt(q, at'[q])} : q \in Workers}
        BY <4>1
      <4>4. fifo' \in IF test.medium = "pipe" THEN {"unlinked", "absent"} ELSE {"linked"}
        BY <1>1, <2>2 DEF OwnOK
      <4>. QED BY <2>2, <4>2, <4>3, <4>4 DEF OwnOK
    <3>8. PipeCounts' /\ EndOfFile'
      BY <1>2, <2>2 DEF PipeCounts, EndOfFile
    <3>9. NobodyFailed'
      BY <1>2, <2>2, <3>1 DEF ProgramInv, NobodyFailed, Reliable
    <3>. QED BY <1>4, <3>2, <3>3, <3>7, <3>8, <3>9 DEF ProgramInv
  <2>. QED BY <1>1, <1>2, <1>6, <2>1, <2>2, OpenEffect
<1>. QED BY <1>2, <1>5, <1>6 DEF Opening

\* A packet test's child that sleeps comes back to the head of its loop.
LEMMA SleepKeeps ==
  ASSUME BytesInv, ProgramInv, NEW p \in ToSet(Children), Sleep(p)
  PROVE  ProgramInv'
<1>1. /\ test \in Tests /\ p \in Workers
      /\ ToSet(Children) = ToSet(test.writers) \cup ToSet(test.readers)
      /\ ToSet(test.writers) \cap ToSet(test.readers) = {}
      /\ at \in [Workers -> ParentPlaces \cup WriterPlaces \cup ReaderPlaces]
  BY ChildrenFacts DEF BytesInv, TransfersOK, ProgramInv, PlacesOK
<1>2. PICK to : to = LoopHead(p, sent[p] = Total)
  OBVIOUS
<1>3. /\ at[p] = "sleep" /\ call[p] = Idle /\ Goes(p, to)
      /\ UNCHANGED <<test, step, call, size, buffer, read_pos, sent, got, descriptors, fifo,
                     readers_number, writers_number>>
  BY <1>2 DEF Sleep, Runs, Issues, UnchangedFifo, UnchangedIpc, openers
<1>4. /\ p \in ToSet(test.readers) => to = "read"
      /\ p \notin ToSet(test.readers) => to \in {"close", "write"}
  BY <1>2 DEF LoopHead
<1>5. to \in BornPlaces(p) /\ to # "failed" /\ HasAt(p, to) = HasAt(p, at[p])
  BY <1>1, <1>3, <1>4 DEF BornPlaces, WriterPlaces, ReaderPlaces, HasAt
<1>6. PacketsOK'
  BY <1>3, PacketsKeep DEF ProgramInv
<1>7. CallsAt'
  <2>1. \A q \in Workers : at'[q] = at[q] \/ call[q] = Idle
    BY <1>1, <1>3 DEF Goes
  <2>. QED BY <1>1, <1>3, <2>1, CallsKeep DEF ProgramInv
<1>8. ~(p \in ToSet(test.readers) /\ to \in Ended)
  BY <1>4 DEF Ended
<1>9. at[p] # "unborn"
  BY <1>3
<1>. QED BY <1>1, <1>3, <1>5, <1>6, <1>7, <1>8, <1>9, ChildGoesOn

\* A child ends; init, if it waits for it, goes on.
LEMMA ExitKeeps ==
  ASSUME BytesInv, ProgramInv, NEW p \in ToSet(Children), Exit(p)
  PROVE  ProgramInv'
<1>1. /\ test \in Tests /\ p \in Workers /\ p # Init_pcb /\ Init_pcb \in Workers /\ Init_pcb \in Procs
      /\ ToSet(Children) = ToSet(test.writers) \cup ToSet(test.readers)
      /\ Init_pcb \notin ToSet(Children)
      /\ at \in [Workers -> ParentPlaces \cup WriterPlaces \cup ReaderPlaces]
      /\ PlacesOK /\ SpawnOK /\ CallsAt
  BY ChildrenFacts DEF BytesInv, TransfersOK, ProgramInv, PlacesOK
<1>2. /\ at[p] = "exit" /\ call[p] = Idle
      /\ UNCHANGED <<test, call, size, buffer, read_pos, sent, got, descriptors, fifo,
                     readers_number, writers_number>>
  BY DEF Exit, Runs, Issues, UnchangedFifo, UnchangedIpc, openers
<1>3. PacketsOK'
  BY <1>2, PacketsKeep DEF ProgramInv
<1>4. CASE Goes(p, "zombie") /\ step' = step
  <2>1. "zombie" \in BornPlaces(p) /\ HasAt(p, "zombie") = HasAt(p, at[p]) /\ at[p] \in Ended
    BY <1>2 DEF BornPlaces, WriterPlaces, ReaderPlaces, HasAt, Ended
  <2>2. CallsAt'
    <3>1. \A q \in Workers : at'[q] = at[q] \/ call[q] = Idle
      BY <1>1, <1>2, <1>4 DEF Goes
    <3>. QED BY <1>1, <1>2, <3>1, CallsKeep
  <2>3. at[p] # "unborn"
    BY <1>2
  <2>4. PICK to : to = "zombie"
    OBVIOUS
  <2>. QED BY <1>1, <1>2, <1>3, <1>4, <2>1, <2>2, <2>3, <2>4, ChildGoesOn
<1>5. CASE /\ at[Init_pcb] = "waiting" /\ Children[step + 1] = p
           /\ at' = [at EXCEPT ![p] = "gone", ![Init_pcb] = "wait"] /\ step' = step + 1
  <2>1. step < Len(Children)
    BY <1>1, <1>5 DEF SpawnOK
  <2>2. /\ at[Init_pcb] \in {"wait", "waiting"} /\ at[Children[step + 1]] # "unborn" /\ test' = test
        /\ at' = [at EXCEPT ![Children[step + 1]] = "gone", ![Init_pcb] = "wait"]
    BY <1>2, <1>5
  <2>3. PlacesOK' /\ SpawnOK'
    BY <1>1, <1>5, <2>1, <2>2, ParentCollects
  <2>4. /\ at'[p] = "gone" /\ at'[Init_pcb] = "wait"
        /\ \A q \in Workers : q # p /\ q # Init_pcb => at'[q] = at[q]
    BY <1>1, <1>5
  <2>5. call[Init_pcb] = Idle
    BY <1>1 DEF CallsAt
  <2>6. CallsAt'
    <3>1. \A q \in Workers : at'[q] = at[q] \/ call[q] = Idle
      BY <1>2, <2>4, <2>5
    <3>. QED BY <1>1, <1>2, <3>1, CallsKeep
  <2>7. \A q \in Workers : q = Init_pcb \/ at'[q] = at[q] \/ (at[q] \in {"exit", "zombie"} /\ at'[q] \in {"zombie", "gone"})
    BY <1>2, <2>4
  <2>8. at'[Init_pcb] \in {"wait", "waiting", "done"}
    BY <2>4
  <2>. QED BY <1>1, <1>2, <1>3, <2>2, <2>3, <2>6, <2>7, <2>8, ParentGoesOn
<1>. QED BY <1>4, <1>5 DEF Exit

\* Init waits for its children, and the test ends.
LEMMA WaitKeeps ==
  ASSUME BytesInv, ProgramInv, WaitNext \/ EndTest
  PROVE  ProgramInv'
<1>1. /\ test \in Tests /\ Init_pcb \in Workers /\ Init_pcb \in Procs /\ Init_pcb \notin ToSet(Children)
      /\ ToSet(Children) = ToSet(test.writers) \cup ToSet(test.readers)
      /\ \A i \in 1..Len(Children) : Children[i] \in Workers /\ Children[i] # Init_pcb
      /\ at \in [Workers -> ParentPlaces \cup WriterPlaces \cup ReaderPlaces]
      /\ PlacesOK /\ SpawnOK /\ CallsAt /\ Len(Children) \in Nat
  BY ChildrenFacts DEF BytesInv, TransfersOK, ProgramInv, PlacesOK
<1>2. /\ at[Init_pcb] = "wait" /\ call[Init_pcb] = Idle
      /\ UNCHANGED <<test, call, size, buffer, read_pos, sent, got, descriptors, fifo,
                     readers_number, writers_number>>
  BY DEF WaitNext, EndTest, Runs, Issues, UnchangedFifo, UnchangedIpc, openers
<1>3. PacketsOK'
  BY <1>2, PacketsKeep DEF ProgramInv
<1>4. CASE \E to \in {"waiting", "done"} : /\ Goes(Init_pcb, to) /\ step' = step
                                           /\ to = "waiting" => step < Len(Children)
  <2>1. PICK to \in {"waiting", "done"} : /\ Goes(Init_pcb, to) /\ step' = step
                                          /\ to = "waiting" => step < Len(Children)
    BY <1>4
  <2>2. at'[Init_pcb] = to /\ \A q \in Workers : q # Init_pcb => at'[q] = at[q]
    BY <1>1, <2>1 DEF Goes
  <2>3. PlacesOK' /\ SpawnOK'
    <3>1. at[Init_pcb] # "spawn" /\ to \in {"close writer", "wait", "waiting", "done"} /\ to # "close writer"
      BY <1>2
    <3>2. at' = [at EXCEPT ![Init_pcb] = to]
      BY <2>1 DEF Goes
    <3>. QED BY <1>1, <1>2, <2>1, <3>1, <3>2, ParentMoves
  <2>4. CallsAt'
    BY <1>1, <1>2, <2>2, CallsKeep
  <2>. QED BY <1>1, <1>2, <1>3, <2>2, <2>3, <2>4, ParentGoesOn
<1>5. CASE /\ step < Len(Children) /\ at[Children[step + 1]] = "zombie"
           /\ Goes(Children[step + 1], "gone") /\ step' = step + 1
  <2>0. step \in Nat /\ step + 1 \in 1..Len(Children)
    BY <1>1, <1>5 DEF SpawnOK
  <2>1. PICK p \in Workers : p = Children[step + 1] /\ p # Init_pcb
    BY <1>1, <2>0
  <2>2. /\ at'[p] = "gone" /\ \A q \in Workers : q # p => at'[q] = at[q]
    BY <1>1, <1>5, <2>1 DEF Goes
  <2>3. PlacesOK' /\ SpawnOK'
    <3>1. at' = [at EXCEPT ![Children[step + 1]] = "gone", ![Init_pcb] = "wait"]
      <4>1. at' = [at EXCEPT ![p] = "gone"]
        BY <1>5, <2>1 DEF Goes
      <4>2. [at EXCEPT ![p] = "gone", ![Init_pcb] = "wait"] = [at EXCEPT ![p] = "gone"]
        BY <1>1, <1>2, <2>1
      <4>. QED BY <2>1, <4>1, <4>2
    <3>2. at[Children[step + 1]] # "unborn" /\ at[Init_pcb] \in {"wait", "waiting"}
      BY <1>2, <1>5
    <3>. QED BY <1>1, <1>2, <1>5, <3>1, <3>2, ParentCollects
  <2>4. CallsAt'
    <3>1. call[p] = Idle
      BY <1>1, <1>5, <2>1, StreamConstants DEF CallsAt
    <3>. QED BY <1>1, <1>2, <2>2, <3>1, CallsKeep
  <2>5. \A q \in Workers : q = Init_pcb \/ at'[q] = at[q] \/ (at[q] \in {"exit", "zombie"} /\ at'[q] \in {"zombie", "gone"})
    BY <1>5, <2>1, <2>2
  <2>6. at'[Init_pcb] \in {"wait", "waiting", "done"} /\ at[Init_pcb] \in {"wait", "waiting"}
    BY <1>1, <1>2, <2>1, <2>2
  <2>. QED BY <1>1, <1>2, <1>3, <2>3, <2>4, <2>5, <2>6, ParentGoesOn
<1>. QED BY <1>4, <1>5 DEF WaitNext, EndTest

\* The timer moves nobody in its program.
LEMMA ScheduleKeeps ==
  ASSUME BytesInv, ProgramInv,
         (\E elapsed \in SUBSET ToSet(asleep) : StreamSchedule(elapsed)) \/ UNCHANGED streamVars
  PROVE  ProgramInv'
<1>1. test \in Tests
  BY DEF BytesInv, TransfersOK
<1>2. UNCHANGED <<at, step, test, call, size, buffer, read_pos, sent, got, descriptors, fifo,
                  readers_number, writers_number>>
  <2>1. ASSUME NEW elapsed, StreamSchedule(elapsed)
        PROVE  UNCHANGED <<at, step, test, call, size, buffer, read_pos, sent, got, descriptors, fifo,
                           readers_number, writers_number>>
    BY <2>1 DEF StreamSchedule, UnchangedFifo, UnchangedIpc, openers, progVars
  <2>2. CASE UNCHANGED streamVars
    BY <2>2 DEF streamVars, fifoVars, vars, progVars, openers
  <2>. QED BY <2>1, <2>2
<1>3. PacketsOK'
  BY <1>2, PacketsKeep DEF ProgramInv
<1>4. CallsAt'
  BY <1>1, <1>2, CallsKeep DEF ProgramInv
<1>. QED BY <1>1, <1>2, <1>3, <1>4, NobodyMoves

\* While a reader of a pipe has neither seen its end nor failed, some process can read
\* it: that reader, or init if it is not born yet.
LEMMA ReaderOfPipe ==
  ASSUME test \in Tests, ProgramInv, test.medium = "pipe", NEW r \in ToSet(test.readers),
         at[r] \notin Ended, at[r] # "failed"
  PROVE  readers_number # 0
<1>1. /\ OwnOK /\ Init_pcb \in Workers /\ r \in Workers /\ r \in ToSet(Children)
      /\ ModeOf(r) = "RDONLY"
  BY ChildrenFacts DEF ProgramInv, ModeOf
<1>2. at[r] \in {"unborn", "setup", "read", "sleep"}
  BY DEF ProgramInv, PlacesOK, ReaderPlaces, Ended
<1>3. \E q \in Workers : "RDONLY" \in HasAt(q, at[q])
  <2>1. CASE at[r] = "unborn"
    <3>1. at[Init_pcb] = "spawn"
      <4>1. PICK i \in 1..Len(Children) : r = Children[i]
        BY <1>1, ChildrenFacts
      <4>. QED BY <2>1, <4>1 DEF ProgramInv, SpawnOK
    <3>2. "RDONLY" \in HasAt(Init_pcb, at[Init_pcb])
      BY <3>1 DEF HasAt
    <3>. QED BY <1>1, <3>2
  <2>2. CASE at[r] # "unborn"
    BY <1>1, <1>2, <2>2 DEF HasAt
  <2>. QED BY <2>1, <2>2
<1>4. Open("RDONLY") # {} /\ IsFiniteSet(Open("RDONLY"))
  <2>1. PICK q \in Workers : "RDONLY" \in HasAt(q, at[q])
    BY <1>3
  <2>2. \A d : d \in Open("RDONLY") <=> \E u \in Workers : "RDONLY" \in HasAt(u, at[u]) /\ d = End(u, "RDONLY")
    BY <1>1, OwnFacts
  <2>3. End(q, "RDONLY") \in Open("RDONLY")
    BY <2>1, <2>2
  <2>4. IsFiniteSet(Open("RDONLY"))
    BY <1>1, OwnFacts
  <2>. QED BY <2>3, <2>4
<1>. QED BY <1>4, FS_EmptySet DEF ProgramInv, PipeCounts

\* While a writer of packets writes to a pipe, no reader has seen its end.
LEMMA ReaderThereToWrite ==
  ASSUME test \in Tests, ProgramInv, test.medium = "pipe", test.data = "packets",
         NEW p \in ToSet(test.writers), at[p] = "write"
  PROVE  readers_number # 0
<1>1. OwnOK /\ p \in Workers
  BY ChildrenFacts DEF ProgramInv
<1>2. PICK r \in ToSet(test.readers) : r \in Workers
  BY ChildrenFacts
<1>3. End(p, "WRONLY") \in Open("WRONLY")
  <2>1. "WRONLY" \in HasAt(p, at[p])
    BY DEF HasAt, ModeOf
  <2>. QED BY <1>1, <2>1, OwnFacts
<1>4. at[r] \notin Ended
  BY <1>3 DEF ProgramInv, EndOfFile, Ended
<1>5. at[r] # "failed"
  BY <1>2 DEF ProgramInv, NobodyFailed, Reliable
<1>. QED BY <1>4, <1>5, ReaderOfPipe

\* A packet that is written follows whole packets.
LEMMA WriteKeepsPackets ==
  ASSUME BytesInv, PacketsOK, NEW p \in ToSet(Writers), UNCHANGED <<test, got>>, NEW n \in Nat,
         Held' = Held \o [i \in 1..n |-> <<p, sent[p] + i>>],
         sent' = [sent EXCEPT ![p] = @ + n],
         test.data = "packets" => n \in {0, PacketSize}
  PROVE  PacketsOK'
<1>1. /\ PacketSize \in Nat /\ PacketSize > 0 /\ Held \in Seq(Cells)
      /\ sent \in [ToSet(Writers) -> Nat] /\ sent[p] \in Nat
  BY StreamConstants, ContentAt DEF BytesInv, BufferOK, TransfersOK, Held
<1>. SUFFICES ASSUME test.data = "packets"
              PROVE  /\ \A w \in ToSet(Writers) : sent'[w] % PacketSize = 0
                     /\ Packets(PacketSize, Held')
                     /\ \A r \in ToSet(Readers) : Packets(PacketSize, got'[r])
  BY DEF PacketsOK
<1>2. /\ \A w \in ToSet(Writers) : sent[w] % PacketSize = 0
      /\ Packets(PacketSize, Held)
      /\ \A r \in ToSet(Readers) : Packets(PacketSize, got'[r])
  BY DEF PacketsOK
<1>3. CASE n = 0
  <2>1. Held' = Held
    BY <1>1, <1>3, ConcatProperties
  <2>2. sent' = sent
    BY <1>1, <1>3
  <2>. QED BY <1>2, <2>1, <2>2
<1>4. CASE n = PacketSize
  <2>. DEFINE new == [i \in 1..PacketSize |-> <<p, sent[p] + i>>]
  <2>1. /\ Packets(PacketSize, new) /\ new \in Seq({p} \X Nat)
    BY <1>1, <1>2, OnePacket
  <2>2. new \in Seq(Cells)
    BY <1>1 DEF Cells
  <2>3. Held' = Held \o new
    BY <1>4
  <2>. HIDE DEF new
  <2>4. Packets(PacketSize, Held')
    BY <1>1, <1>2, <2>1, <2>2, <2>3, PacketsJoin
  <2>5. (sent[p] + PacketSize) % PacketSize = 0
    <3>1. PICK m \in Nat : m = sent[p] /\ m % PacketSize = 0
      BY <1>1, <1>2
    <3>2. (m + PacketSize) % PacketSize = PacketSize % PacketSize
      BY <1>1, <3>1, Shift
    <3>. QED BY <1>1, <3>1, <3>2, Multiples
  <2>6. \A w \in ToSet(Writers) : sent'[w] % PacketSize = 0
    BY <1>1, <1>2, <1>4, <2>5
  <2>. QED BY <1>2, <2>4, <2>6
<1>. QED BY <1>3, <1>4

\* A packet that is read is whole, and leaves whole ones.
LEMMA ReadKeepsPackets ==
  ASSUME BytesInv, PacketsOK, NEW p \in ToSet(Readers), UNCHANGED <<test, sent>>, NEW n \in Nat,
         n <= Len(Held), got' = [got EXCEPT ![p] = @ \o SubSeq(Held, 1, n)],
         Held' = SubSeq(Held, n + 1, Len(Held)),
         test.data = "packets" => n \in {0, PacketSize}
  PROVE  PacketsOK'
<1>1. /\ PacketSize \in Nat /\ PacketSize > 0 /\ Held \in Seq(Cells)
      /\ got \in [ToSet(Readers) -> Seq(Cells)] /\ got[p] \in Seq(Cells)
  BY StreamConstants, ContentAt DEF BytesInv, BufferOK, TransfersOK, Held
<1>. SUFFICES ASSUME test.data = "packets"
              PROVE  /\ \A w \in ToSet(Writers) : sent[w] % PacketSize = 0
                     /\ Packets(PacketSize, Held')
                     /\ \A r \in ToSet(Readers) : Packets(PacketSize, got'[r])
  BY DEF PacketsOK
<1>2. /\ \A w \in ToSet(Writers) : sent[w] % PacketSize = 0
      /\ Packets(PacketSize, Held)
      /\ \A r \in ToSet(Readers) : Packets(PacketSize, got[r])
  BY DEF PacketsOK
<1>3. PICK held, len : len \in Nat /\ held = Held /\ len = Len(Held) /\ held \in Seq(Cells) /\ len = Len(held)
  BY <1>1, LenProperties
<1>4. /\ n % PacketSize = 0 /\ len % PacketSize = 0 /\ n <= len /\ 0 % PacketSize = 0
      /\ (len - n) % PacketSize = 0 /\ len - n \in Nat
  <2>1. len % PacketSize = 0 /\ n <= len /\ n \in {0, PacketSize}
    BY <1>2, <1>3 DEF Packets
  <2>2. 0 % PacketSize = 0 /\ PacketSize % PacketSize = 0
    BY <1>1, Multiples
  <2>3. n % PacketSize = 0
    BY <2>1, <2>2
  <2>4. (len - n) % PacketSize = 0
    <3>1. CASE n = 0
      <4>1. len - n = len
        BY <1>3, <3>1
      <4>. QED BY <2>1, <4>1
    <3>2. CASE n = PacketSize
      <4>1. len > 0
        BY <1>1, <1>3, <2>1, <3>2
      <4>. QED BY <1>1, <1>3, <2>1, <3>2, <4>1, Multiples
    <3>. QED BY <2>1, <3>1, <3>2
  <2>. QED BY <1>3, <2>1, <2>2, <2>3, <2>4
<1>5. PICK first, rest : first = SubSeq(held, 1, n) /\ rest = SubSeq(held, n + 1, len)
  OBVIOUS
<1>6. first \in Seq(Cells) /\ Len(first) = n /\ \A i \in 1..n : first[i] = held[0 + i]
  <2>1. n \in 0..Len(held)
    BY <1>3, <1>4
  <2>2. SubSeq(held, 1, n) \in Seq(Cells) /\ Len(SubSeq(held, 1, n)) = n - 1 + 1
        /\ \A i \in 1..(n - 1 + 1) : SubSeq(held, 1, n)[i] = held[1 + i - 1]
    <3>1. 1 \in 1..(Len(held) + 1) /\ 1 <= n + 1
      BY <1>3
    <3>. QED BY <1>3, <2>1, <3>1, PartAt
  <2>3. n - 1 + 1 = n /\ \A i \in 1..n : 1 + i - 1 = 0 + i
    OBVIOUS
  <2>. QED BY <1>5, <2>2, <2>3
<1>7. rest \in Seq(Cells) /\ Len(rest) = len - n /\ \A i \in 1..(len - n) : rest[i] = held[n + i]
  <2>1. PICK m \in Nat : m = n + 1
    OBVIOUS
  <2>2. m \in 1..(Len(held) + 1) /\ m <= len + 1 /\ len \in 0..Len(held)
    BY <1>3, <1>4, <2>1
  <2>3. SubSeq(held, m, len) \in Seq(Cells) /\ Len(SubSeq(held, m, len)) = len - m + 1
        /\ \A i \in 1..(len - m + 1) : SubSeq(held, m, len)[i] = held[m + i - 1]
    BY <1>3, <2>2, PartAt
  <2>4. len - m + 1 = len - n /\ \A i \in 1..(len - n) : m + i - 1 = n + i
    BY <1>3, <2>1
  <2>. QED BY <1>5, <2>1, <2>3, <2>4
<1>8. Packets(PacketSize, first) /\ Packets(PacketSize, rest)
  <2>1. Packets(PacketSize, first)
    <3>1. PICK a \in Nat : a = 0
      OBVIOUS
    <3>2. Len(first) % PacketSize = 0 /\ a + Len(first) <= Len(held)
          /\ \A i \in 1..Len(first) : first[i] = held[a + i]
      BY <1>3, <1>4, <1>6, <3>1
    <3>3. a % PacketSize = 0
      BY <1>4, <3>1
    <3>. QED BY <1>1, <1>2, <1>3, <1>6, <3>2, <3>3, PacketsFrom
  <2>2. Packets(PacketSize, rest)
    <3>1. Len(rest) % PacketSize = 0 /\ n + Len(rest) <= Len(held)
          /\ \A i \in 1..Len(rest) : rest[i] = held[n + i]
      BY <1>3, <1>4, <1>7
    <3>. QED BY <1>1, <1>2, <1>3, <1>4, <1>7, <3>1, PacketsFrom
  <2>. QED BY <2>1, <2>2
<1>9. Packets(PacketSize, Held')
  BY <1>3, <1>5, <1>8
<1>10. Packets(PacketSize, got[p] \o first)
  BY <1>1, <1>2, <1>6, <1>8, PacketsJoin
<1>11. \A r \in ToSet(Readers) : got'[r] = IF r = p THEN got[p] \o first ELSE got[r]
  BY <1>1, <1>3, <1>5
<1>. QED BY <1>2, <1>9, <1>10, <1>11

\* What a write does that is no beginning of one.
LEMMA WriteTransfers ==
  ASSUME BytesInv, ProgramInv, NEW p \in ToSet(test.writers), Write(p), ~Begins(p, "write", Chunk)
  PROVE  /\ WriteEffect(p) /\ Fifo_write(p)
         /\ call[p].op = "write" /\ at[p] = "write" /\ ~Stopped
         /\ UNCHANGED <<test, step, got, descriptors, fifo, openers>>
         /\ \E k \in 0..SizeMax :
              /\ Held' = Held \o [i \in 1..k |-> <<p, sent[p] + i>>]
              /\ sent' = [sent EXCEPT ![p] = @ + k] /\ k = size' - size
         /\ size \in Nat /\ \E n \in Nat : size' = size + n
<1>1. /\ test \in Tests /\ p \in Workers /\ p \in Procs /\ p \in ToSet(Writers) /\ CallsAt
  BY ChildrenFacts, TestChildren, StreamConstants DEF BytesInv, TransfersOK, ProgramInv
<1>2. PICK n : n = size' - size
  OBVIOUS
<1>3. /\ Fifo_write(p) /\ UNCHANGED <<test, step, got>> /\ In(p, "write")
      /\ LET k == size' - size
             new == [i \in 1..k |-> <<p, sent[p] + i>>]
         IN /\ sent' = [sent EXCEPT ![p] = @ + k]
            /\ buffer' = Circular_buffer_write(new, buffer, SizeMax, write_pos)
      /\ IF call'[p] # Idle THEN UNCHANGED at
         ELSE Goes(p, IF n = Left(p) THEN AfterChunk(p, sent'[p])
                      ELSE IF test.data = "text" THEN "close" ELSE "failed")
  BY <1>2 DEF Write
<1>4. WriteEffect(p)
  BY <1>2, <1>3, WriteEnds
<1>5. call[p].op = "write" /\ at[p] = "write" /\ ~Stopped
  BY <1>1, <1>3, CallPlaces DEF In
<1>6. UNCHANGED <<descriptors, fifo, openers>>
  BY <1>3 DEF Fifo_write
<1>7. \E k \in 0..SizeMax :
        /\ Held' = Held \o [i \in 1..k |-> <<p, sent[p] + i>>]
        /\ sent' = [sent EXCEPT ![p] = @ + k] /\ k = size' - size
  BY <1>1, <1>3, WriteIsSend
<1>8. size \in Nat /\ SizeMax \in Nat
  BY StreamConstants DEF BytesInv, BufferOK
<1>9. \E m \in Nat : size' = size + m
  <2>1. CASE readers_number = 0
    <3>1. size' = size + 0
      BY <1>3, <1>8, <2>1 DEF Fifo_write
    <3>. QED BY <3>1
  <2>2. CASE readers_number # 0
    <3>1. \E m \in 0..(SizeMax - size) : size' = size + m
      BY <1>1, <1>3, <2>2, IpcWriteStep DEF Fifo_write
    <3>. QED BY <1>8, <3>1
  <2>. QED BY <2>1, <2>2
<1>. QED BY <1>3, <1>4, <1>5, <1>6, <1>7, <1>8, <1>9

\* What a read does that is no beginning of one.
LEMMA ReadTransfers ==
  ASSUME BytesInv, ProgramInv, NEW p \in ToSet(test.readers), Read(p), ~Begins(p, "read", Wanted(p))
  PROVE  /\ ReadEffect(p) /\ Fifo_read(p)
         /\ call[p].op = "read" /\ at[p] = "read" /\ ~Stopped
         /\ UNCHANGED <<test, step, sent, descriptors, fifo, openers>>
         /\ \E k \in 0..SizeMax :
              /\ k <= Len(Held)
              /\ got' = [got EXCEPT ![p] = @ \o SubSeq(Held, 1, k)]
              /\ Held' = SubSeq(Held, k + 1, Len(Held)) /\ k = size - size'
         /\ size \in Nat /\ \E m \in 0..size : size' = size - m
<1>1. /\ test \in Tests /\ p \in Workers /\ p \in Procs /\ p \in ToSet(Readers) /\ CallsAt
  BY ChildrenFacts, TestChildren, StreamConstants DEF BytesInv, TransfersOK, ProgramInv
<1>2. PICK n, new : n = size - size' /\ new = Circular_buffer_read(buffer, n, SizeMax, read_pos)
  OBVIOUS
<1>3. /\ Fifo_read(p) /\ UNCHANGED <<test, step, sent, buffer>> /\ In(p, "read")
      /\ got' = [got EXCEPT ![p] = @ \o Circular_buffer_read(buffer, size - size', SizeMax, read_pos)]
  BY DEF Read
<1>4. IF call'[p] # Idle THEN UNCHANGED at
      ELSE Goes(p, IF n = 0 THEN "close"
                   ELSE IF test.data = "text" \/ WholePacket(n, new) THEN AfterChunk(p, Len(got'[p]))
                   ELSE "failed")
  BY <1>2 DEF Read, WholePacket
<1>5. ReadEffect(p)
  BY <1>2, <1>3, <1>4, ReadEnds
<1>6. call[p].op = "read" /\ at[p] = "read" /\ ~Stopped
  BY <1>1, <1>3, CallPlaces DEF In
<1>7. UNCHANGED <<descriptors, fifo, openers>>
  BY <1>3 DEF Fifo_read
<1>8. \E k \in 0..SizeMax :
        /\ k <= Len(Held)
        /\ got' = [got EXCEPT ![p] = @ \o SubSeq(Held, 1, k)]
        /\ Held' = SubSeq(Held, k + 1, Len(Held)) /\ k = size - size'
  BY <1>1, <1>3, ReadIsReceive
<1>9. size \in Nat
  BY StreamConstants DEF BytesInv, BufferOK
<1>10. \E m \in 0..size : size' = size - m
  <2>1. CASE size = 0 /\ writers_number = 0
    <3>1. size' = size - 0
      BY <1>3, <1>9, <2>1 DEF Fifo_read
    <3>. QED BY <1>9, <3>1
  <2>2. CASE ~(size = 0 /\ writers_number = 0)
    BY <1>1, <1>3, <2>2, IpcReadStep DEF Fifo_read
  <2>. QED BY <2>1, <2>2
<1>. QED BY <1>3, <1>5, <1>6, <1>7, <1>8, <1>9, <1>10

\* A writer begins a write, or the write transfers, waits or ends.
LEMMA WriteKeeps ==
  ASSUME BytesInv, ProgramInv, NEW p \in ToSet(test.writers), Write(p)
  PROVE  ProgramInv'
<1>1. /\ test \in Tests /\ p \in Workers /\ p \in Procs /\ p \in ToSet(Children) /\ p \in ToSet(Writers)
      /\ p \notin ToSet(test.readers) /\ test.medium \in {"pipe", "fifo"} /\ test.data \in {"text", "packets"}
      /\ at \in [Workers -> ParentPlaces \cup WriterPlaces \cup ReaderPlaces]
      /\ call \in [Procs -> StreamCalls] /\ CallsAt /\ PacketsOK
  BY ChildrenFacts, TestChildren, StreamConstants DEF BytesInv, TransfersOK, ProgramInv, PlacesOK
<1>2. CASE Begins(p, "write", Chunk)
  <2>1. /\ at[p] = "write"
        /\ call' = [call EXCEPT ![p] = [op |-> "write", count |-> Chunk, done |-> 0, nonblock |-> FALSE]]
        /\ UNCHANGED <<at, step, test, size, buffer, read_pos, sent, got, descriptors, fifo,
                       readers_number, writers_number>>
    BY <1>2 DEF Begins, Runs, UnchangedFifo, openers, progVars
  <2>2. PICK c : c = [op |-> "write", count |-> Chunk, done |-> 0, nonblock |-> FALSE]
    OBVIOUS
  <2>3. c.op = "write" /\ c.nonblock = FALSE /\ c.count = Chunk /\ c.done = 0
    BY <2>2
  <2>4. CallsAt'
    BY <1>1, <2>1, <2>2, <2>3, CallBegins
  <2>5. PacketsOK'
    BY <1>1, <2>1, PacketsKeep
  <2>. QED BY <1>1, <2>1, <2>4, <2>5, NobodyMoves
<1>3. CASE ~Begins(p, "write", Chunk)
  <2>1. UNCHANGED <<test, step, got>> /\ call[p].op = "write" /\ at[p] = "write"
    BY <1>3, WriteTransfers
  <2>2. WriteEffect(p)
    BY <1>3, WriteTransfers
  <2>3. UNCHANGED <<descriptors, fifo, readers_number, writers_number>>
    BY <1>3, WriteTransfers DEF openers
  <2>4. PacketsOK'
    <3>1. PICK k \in 0..SizeMax : /\ Held' = Held \o [i \in 1..k |-> <<p, sent[p] + i>>]
                                  /\ sent' = [sent EXCEPT ![p] = @ + k] /\ k = size' - size
      BY <1>3, WriteTransfers
    <3>2. k \in Nat /\ (test.data = "packets" => k \in {0, PacketSize})
      BY <2>2, <3>1, StreamConstants DEF WriteEffect
    <3>. QED BY <1>1, <2>1, <3>1, <3>2, WriteKeepsPackets
  <2>5. call[p].op = "write" /\ at[p] = "write" /\ call[p].count = Chunk /\ call[p].nonblock = FALSE
    BY <1>1, <2>1, CallPlaces DEF CallsAt
  <2>6. CASE call' = call /\ at' = at
    <3>1. CallsAt'
      BY <1>1, <2>1, <2>6, CallsKeep
    <3>. QED BY <1>1, <2>1, <2>3, <2>4, <2>6, <3>1, NobodyMoves
  <2>7. CASE test.data = "text" /\ at' = at /\ \E k \in Int : call' = [call EXCEPT ![p].done = @ + k]
    <3>1. PICK k \in Int : call' = [call EXCEPT ![p].done = @ + k]
      BY <2>7
    <3>2. PICK c : c = [call[p] EXCEPT !.done = @ + k]
      OBVIOUS
    <3>3. call' = [call EXCEPT ![p] = c]
      BY <3>1, <3>2
    <3>4. c.op = "write" /\ c.nonblock = FALSE /\ c.count = Chunk
      <4>1. call[p] \in StreamCalls
        BY <1>1
      <4>. QED BY <2>5, <3>2, <4>1 DEF StreamCalls
    <3>5. CallsAt'
      <4>1. ~(test.data = "packets")
        BY <2>7
      <4>. QED BY <1>1, <2>1, <2>5, <2>7, <3>3, <3>4, <4>1, CallBegins
    <3>. QED BY <1>1, <2>1, <2>3, <2>4, <2>7, <3>5, NobodyMoves
  <2>8. ASSUME Return(p), NEW to \in {"write", "sleep", "close", "failed"}, Goes(p, to),
               to = "failed" => test.data = "packets" /\ readers_number = 0
        PROVE  ProgramInv'
    <3>1. \A q \in Workers : q # p => at'[q] = at[q]
      BY <1>1, <2>8 DEF Goes
    <3>2. CallsAt'
      BY <1>1, <2>1, <2>8, <3>1, CallEnds
    <3>3. to \in BornPlaces(p)
      BY DEF BornPlaces, WriterPlaces
    <3>4. HasAt(p, to) = HasAt(p, at[p]) /\ at[p] # "unborn"
      BY <2>5 DEF HasAt
    <3>5. Reliable => to # "failed"
      BY <1>1, <2>5, <2>8, ReaderThereToWrite DEF Reliable
    <3>. QED BY <1>1, <2>1, <2>3, <2>4, <2>8, <3>2, <3>3, <3>4, <3>5, ChildGoesOn
  <2>. QED BY <2>2, <2>6, <2>7, <2>8 DEF WriteEffect
<1>. QED BY <1>2, <1>3

\* And a reader a read.
LEMMA ReadKeeps ==
  ASSUME BytesInv, ProgramInv, NEW p \in ToSet(test.readers), Read(p)
  PROVE  ProgramInv'
<1>1. /\ test \in Tests /\ p \in Workers /\ p \in Procs /\ p \in ToSet(Children) /\ p \in ToSet(Readers)
      /\ p \notin ToSet(test.writers) /\ test.data \in {"text", "packets"}
      /\ at \in [Workers -> ParentPlaces \cup WriterPlaces \cup ReaderPlaces]
      /\ call \in [Procs -> StreamCalls] /\ CallsAt /\ PacketsOK /\ OwnOK
  BY ChildrenFacts, TestChildren, StreamConstants DEF BytesInv, TransfersOK, ProgramInv, PlacesOK
<1>2. CASE Begins(p, "read", Wanted(p))
  <2>1. /\ at[p] = "read"
        /\ call' = [call EXCEPT ![p] = [op |-> "read", count |-> Wanted(p), done |-> 0, nonblock |-> FALSE]]
        /\ UNCHANGED <<at, step, test, size, buffer, read_pos, sent, got, descriptors, fifo,
                       readers_number, writers_number>>
    BY <1>2 DEF Begins, Runs, UnchangedFifo, openers, progVars
  <2>2. PICK c : c = [op |-> "read", count |-> Wanted(p), done |-> 0, nonblock |-> FALSE]
    OBVIOUS
  <2>3. /\ c.op = "read" /\ c.nonblock = FALSE /\ c.count = Wanted(p) /\ c.done = 0
        /\ test.data = "packets" => Wanted(p) = PacketSize
    BY <2>2 DEF Wanted
  <2>4. CallsAt'
    BY <1>1, <2>1, <2>2, <2>3, CallBegins
  <2>5. PacketsOK'
    BY <1>1, <2>1, PacketsKeep
  <2>. QED BY <1>1, <2>1, <2>4, <2>5, NobodyMoves
<1>3. CASE ~Begins(p, "read", Wanted(p))
  <2>1. UNCHANGED <<test, step, sent>> /\ call[p].op = "read" /\ at[p] = "read"
    BY <1>3, ReadTransfers
  <2>2. ReadEffect(p)
    BY <1>3, ReadTransfers
  <2>3. UNCHANGED <<descriptors, fifo, readers_number, writers_number>>
    BY <1>3, ReadTransfers DEF openers
  <2>4. PacketsOK'
    <3>1. PICK k \in 0..SizeMax : /\ k <= Len(Held)
                                  /\ got' = [got EXCEPT ![p] = @ \o SubSeq(Held, 1, k)]
                                  /\ Held' = SubSeq(Held, k + 1, Len(Held)) /\ k = size - size'
      BY <1>3, ReadTransfers
    <3>2. k \in Nat /\ (test.data = "packets" => k \in {0, PacketSize})
      BY <2>2, <3>1, StreamConstants DEF ReadEffect
    <3>. QED BY <1>1, <2>1, <3>1, <3>2, ReadKeepsPackets
  <2>5. CASE call' = call /\ at' = at
    <3>1. CallsAt'
      BY <1>1, <2>1, <2>5, CallsKeep
    <3>. QED BY <1>1, <2>1, <2>3, <2>4, <2>5, <3>1, NobodyMoves
  <2>6. ASSUME Return(p), NEW to \in {"read", "sleep", "close"}, Goes(p, to),
                test.data = "packets" /\ to = "close" => writers_number = 0
         PROVE  ProgramInv'
    <3>1. \A q \in Workers : q # p => at'[q] = at[q]
      BY <1>1, <2>6 DEF Goes
    <3>2. CallsAt'
      BY <1>1, <2>1, <2>6, <3>1, CallEnds
    <3>3. to \in BornPlaces(p) /\ to # "failed"
      BY <1>1 DEF BornPlaces, ReaderPlaces
    <3>4. HasAt(p, to) = HasAt(p, at[p]) /\ at[p] # "unborn"
      BY <2>1 DEF HasAt
    <3>5. ASSUME to \in Ended, test.medium = "pipe", test.data = "packets" PROVE Open("WRONLY") = {}
      <4>1. writers_number = 0
        BY <2>6, <3>5 DEF Ended
      <4>2. Cardinality(Open("WRONLY")) = 0
        BY <3>5, <4>1 DEF ProgramInv, PipeCounts
      <4>3. IsFiniteSet(Open("WRONLY"))
        BY <1>1, OwnFacts
      <4>. QED BY <4>2, <4>3, FS_EmptySet
    <3>. QED BY <1>1, <2>1, <2>3, <2>4, <2>6, <3>2, <3>3, <3>4, <3>5, ChildGoesOn
  <2>. QED BY <2>2, <2>5, <2>6 DEF ReadEffect
<1>. QED BY <1>2, <1>3

\* Every step keeps the invariant of the programs.
LEMMA ProgramStep ==
  ASSUME BytesInv, ProgramInv, [StreamNext]_streamVars
  PROVE  ProgramInv'
<1>1. CASE (\E elapsed \in SUBSET ToSet(asleep) : StreamSchedule(elapsed)) \/ UNCHANGED streamVars
  BY <1>1, ScheduleKeeps
<1>2. CASE Parent
  <2>1. CASE SpawnNext
    BY <2>1, SpawnKeeps
  <2>2. CASE Close(Init_pcb, "close reader", "RDONLY", "close writer")
    BY <2>2, ParentCloseKeeps
  <2>3. CASE Close(Init_pcb, "close writer", "WRONLY", "wait")
    BY <2>3, ParentCloseKeeps
  <2>4. CASE WaitNext \/ EndTest
    BY <2>4, WaitKeeps
  <2>. QED BY <1>2, <2>1, <2>2, <2>3, <2>4 DEF Parent
<1>3. ASSUME NEW p \in Workers, Child(p) PROVE ProgramInv'
  <2>1. /\ p \in ToSet(Children)
        /\ \/ \E where, mode, next : ChildCloses(p, where, mode, next)
           \/ \E mode, next : ChildOpens(p, mode, next)
           \/ Sleep(p) \/ Exit(p)
           \/ p \in ToSet(test.writers) /\ Write(p)
           \/ p \in ToSet(test.readers) /\ Read(p)
    BY <1>3, ChildSteps DEF BytesInv, TransfersOK
  <2>. QED BY <2>1, ChildCloseKeeps, ChildOpenKeeps, SleepKeeps, ExitKeeps, WriteKeeps, ReadKeeps
<1>. QED BY <1>1, <1>2, <1>3 DEF StreamNext

\* A run begins with init about to spawn, with both ends of the pipe if there is one.
LEMMA ProgramStart ==
  ASSUME StreamInit
  PROVE  ProgramInv
<1>1. test \in Tests
  BY DEF StreamInit
<1>2. /\ Init_pcb \in Workers /\ Init_pcb \notin ToSet(Children) /\ ToSet(Children) \subseteq Workers
      /\ ToSet(Children) = ToSet(test.writers) \cup ToSet(test.readers)
      /\ Len(Children) \in Nat /\ Len(Children) > 1
      /\ \A i \in 1..Len(Children) : Children[i] \in Workers /\ Children[i] \in ToSet(Children)
      /\ test.medium \in {"pipe", "fifo"}
  BY <1>1, ChildrenFacts, TestChildren
<1>3. /\ at = [p \in Workers |-> IF p = Init_pcb THEN "spawn" ELSE "unborn"]
      /\ step = 0 /\ call = [p \in Procs |-> Idle]
      /\ fifo = (IF test.medium = "pipe" THEN "unlinked" ELSE "linked")
      /\ descriptors = (IF test.medium = "pipe" THEN PipeEnds(Init_pcb) ELSE {})
      /\ readers_number = Cardinality(Open("RDONLY"))
      /\ writers_number = Cardinality(Open("WRONLY"))
      /\ sent = [w \in ToSet(Writers) |-> 0] /\ got = [r \in ToSet(Readers) |-> <<>>] /\ size = 0
  BY DEF StreamInit
<1>4. at[Init_pcb] = "spawn" /\ \A q \in Workers : q # Init_pcb => at[q] = "unborn"
  BY <1>2, <1>3
<1>5. PlacesOK
  <2>1. "spawn" \in ParentPlaces /\ "unborn" \in WriterPlaces /\ "unborn" \in ReaderPlaces
    BY DEF ParentPlaces, WriterPlaces, ReaderPlaces
  <2>2. \A q \in ToSet(Children) : at[q] = "unborn"
    BY <1>2, <1>4
  <2>3. at \in [Workers -> ParentPlaces \cup WriterPlaces \cup ReaderPlaces]
    BY <1>3, <2>1
  <2>. QED BY <1>2, <1>4, <2>1, <2>2, <2>3 DEF PlacesOK
<1>6. SpawnOK
  <2>1. \A i \in 1..Len(Children) : at[Children[i]] = "unborn" /\ i > step
    BY <1>2, <1>3, <1>4
  <2>. QED BY <1>2, <1>3, <1>4, <2>1 DEF SpawnOK
<1>7. CallsAt
  BY <1>3 DEF CallsAt, Idle
<1>8. OwnOK
  <2>1. HasAt(Init_pcb, at[Init_pcb]) = IF test.medium = "pipe" THEN Modes ELSE {}
    BY <1>4 DEF HasAt, Modes
  <2>2. \A q \in Workers : q # Init_pcb => HasAt(q, at[q]) = {}
    BY <1>4 DEF HasAt
  <2>3. UNION {{End(p, m) : m \in HasAt(p, at[p])} : p \in Workers}
          = {End(Init_pcb, m) : m \in HasAt(Init_pcb, at[Init_pcb])}
    <3>1. ASSUME NEW d
          PROVE  d \in UNION {{End(p, m) : m \in HasAt(p, at[p])} : p \in Workers}
                   <=> d \in {End(Init_pcb, m) : m \in HasAt(Init_pcb, at[Init_pcb])}
      BY <1>2, <2>2
    <3>. QED BY <3>1
  <2>4. test.medium = "pipe" => PipeEnds(Init_pcb) = {End(Init_pcb, m) : m \in Modes}
    <3>. SUFFICES ASSUME test.medium = "pipe" PROVE PipeEnds(Init_pcb) = {End(Init_pcb, m) : m \in Modes}
      OBVIOUS
    <3>0. PICK flag : flag = FALSE
      OBVIOUS
    <3>1. /\ End(Init_pcb, "RDONLY") = [pcb |-> Init_pcb, fd |-> 1, mode |-> "RDONLY", nonblock |-> flag]
          /\ End(Init_pcb, "WRONLY") = [pcb |-> Init_pcb, fd |-> 2, mode |-> "WRONLY", nonblock |-> flag]
      BY <3>0 DEF End, FdOf
    <3>2. PipeEnds(Init_pcb) = {[pcb |-> Init_pcb, fd |-> 1, mode |-> "RDONLY", nonblock |-> flag],
                                [pcb |-> Init_pcb, fd |-> 2, mode |-> "WRONLY", nonblock |-> flag]}
      <4>1. ASSUME NEW fd, NEW mode
            PROVE  [pcb: {Init_pcb}, fd: {fd}, mode: {mode}, nonblock: {flag}]
                     = {[pcb |-> Init_pcb, fd |-> fd, mode |-> mode, nonblock |-> flag]}
        <5>1. ASSUME NEW d \in [pcb: {Init_pcb}, fd: {fd}, mode: {mode}, nonblock: {flag}]
              PROVE  d = [pcb |-> Init_pcb, fd |-> fd, mode |-> mode, nonblock |-> flag]
          OBVIOUS
        <5>2. [pcb |-> Init_pcb, fd |-> fd, mode |-> mode, nonblock |-> flag]
                \in [pcb: {Init_pcb}, fd: {fd}, mode: {mode}, nonblock: {flag}]
          OBVIOUS
        <5>. QED BY <5>1, <5>2
      <4>2. PipeEnds(Init_pcb) = [pcb: {Init_pcb}, fd: {1}, mode: {"RDONLY"}, nonblock: {flag}]
                                   \cup [pcb: {Init_pcb}, fd: {2}, mode: {"WRONLY"}, nonblock: {flag}]
        BY <3>0 DEF PipeEnds
      <4>. QED BY <4>1, <4>2
    <3>3. {End(Init_pcb, m) : m \in Modes} = {End(Init_pcb, "RDONLY"), End(Init_pcb, "WRONLY")}
      BY DEF Modes
    <3>. QED BY <3>1, <3>2, <3>3
  <2>5. descriptors = {End(Init_pcb, m) : m \in HasAt(Init_pcb, at[Init_pcb])}
    <3>1. CASE test.medium = "pipe"
      BY <1>3, <2>1, <2>4, <3>1
    <3>2. CASE test.medium # "pipe"
      BY <1>3, <2>1, <3>2
    <3>. QED BY <3>1, <3>2
  <2>6. fifo \in IF test.medium = "pipe" THEN {"unlinked", "absent"} ELSE {"linked"}
    BY <1>3
  <2>. QED BY <2>3, <2>5, <2>6 DEF OwnOK
<1>9. PipeCounts
  BY <1>3 DEF PipeCounts
<1>10. EndOfFile
  BY <1>2, <1>4 DEF EndOfFile
<1>11. PacketsOK
  <2>1. PacketSize \in Nat /\ PacketSize > 0
    BY StreamConstants
  <2>2. 0 % PacketSize = 0
    BY <2>1, Multiples
  <2>3. Packets(PacketSize, <<>>)
    BY <2>2 DEF Packets
  <2>4. Held = <<>>
    BY <1>3 DEF Held, Content
  <2>. QED BY <1>3, <2>2, <2>3, <2>4 DEF PacketsOK
<1>12. NobodyFailed
  BY <1>2, <1>4 DEF NobodyFailed
<1>. QED BY <1>5, <1>6, <1>7, <1>8, <1>9, <1>10, <1>11, <1>12 DEF ProgramInv

\* Packets arrive whole, whoever writes and reads them in between, and no child of a
\* reliable test gives up (PacketsWhole).
THEOREM PacketsArriveWhole == StreamSpec => []PacketsWhole
<1>1. BytesInv /\ ProgramInv /\ [StreamNext]_streamVars => ProgramInv'
  BY ProgramStep
<1>2. BytesInv /\ ProgramInv => PacketsWhole
  <2>. SUFFICES ASSUME BytesInv, ProgramInv PROVE PacketsWhole
    OBVIOUS
  <2>1. Reliable => \A p \in Workers : at[p] # "failed"
    BY DEF ProgramInv, NobodyFailed
  <2>2. ASSUME test.data = "packets", NEW r \in ToSet(test.readers), NEW i \in DOMAIN got[r],
               i % PacketSize # 1 % PacketSize
        PROVE  got[r][i] = <<got[r][i - 1][1], got[r][i - 1][2] + 1>>
    <3>1. r \in ToSet(Readers)
      BY TestChildren DEF BytesInv, TransfersOK
    <3>2. got[r] \in Seq(Cells) /\ i \in 1..Len(got[r])
      BY <3>1, LenProperties DEF BytesInv, TransfersOK
    <3>. QED BY <2>2, <3>1, <3>2 DEF ProgramInv, PacketsOK, Packets
  <2>. QED BY <2>1, <2>2 DEF PacketsWhole
<1>. QED BY <1>1, <1>2, ProgramStart, StreamInvariant, PTL DEF StreamSpec

-----------------------------------------------------------------------------
(* The invariant of what arrives.                                          *)

\* The bytes that were sent are those that were read and those in the buffer.
Conserved ==
  /\ (UNION {ToSet(got[r]) : r \in ToSet(Readers)}) \cup ToSet(Held)
       = UNION {{w} \X (1..sent[w]) : w \in ToSet(Writers)}
  /\ \A w \in ToSet(Writers) \ ToSet(test.writers) : sent[w] = 0

\* How far the one writer and the one reader of a text are.
TextOK ==
  test.data = "text" =>
    /\ \A w \in ToSet(test.writers) :
         /\ at[w] \in {"unborn", "setup"} \/ (at[w] = "write" /\ call[w] = Idle) => sent[w] = 0
         /\ call[w].op = "write" => call[w].done = sent[w] /\ sent[w] < TextLen
         /\ \A r \in ToSet(test.readers) : sent[w] = Len(got[r]) + size
    /\ \A r \in ToSet(test.readers) :
         call[r].op = "read" => call[r].count = TextLen - Len(got[r]) /\ call[r].done = 0
    /\ \A p \in ToSet(Children) : at[p] # "sleep"

\* A writer that leaves its loop has sent all.
SentAll == Reliable => \A w \in ToSet(test.writers) : at[w] \in Ended => sent[w] = Total

\* A reader that leaves its loop leaves nothing in the buffer, and nobody writes any more.
Drained ==
  Reliable =>
    \A r \in ToSet(test.readers) :
      at[r] \in Ended => size = 0 /\ \A w \in ToSet(test.writers) : at[w] \in Ended

\* A process whose open has succeeded or will, as it was counted when it was woken.
WasMet(p) == p \in syscall_intermediate_data \/ at[p] \notin {"unborn", "setup"}

\* How many descriptors of its side a counter has at least.
CountedIn(number, p) ==
  /\ number \in Int
  /\ ~WasMet(p) => number = 0
  /\ WasMet(p) /\ at[p] \notin {"exit", "zombie", "gone"} => number > 0

\* The one writer and the one reader of a text meet in open, and are counted until they close.
Meeting ==
  test.medium = "fifo" /\ test.data = "text" =>
    /\ waiting_list_open_writer \in Seq(ToSet(test.writers))
    /\ waiting_list_open_reader \in Seq(ToSet(test.readers))
    /\ \A w \in ToSet(test.writers) : CountedIn(writers_number, w)
    /\ \A r \in ToSet(test.readers) : CountedIn(readers_number, r)
    /\ \A w \in ToSet(test.writers) : \A r \in ToSet(test.readers) : WasMet(w) <=> WasMet(r)

\* Init has met the end of the children it waited for.
Collected ==
  /\ at[Init_pcb] # "spawn" => \A i \in 1..step : at[Children[i]] = "gone"
  /\ at[Init_pcb] = "done" => step = Len(Children) /\ ~panic

\* The last close frees a pipe.
FreedAtLast == test.medium = "pipe" /\ descriptors = {} => fifo = "absent" \/ panic

DeliveryInv ==
  /\ Conserved /\ TextOK /\ SentAll /\ Drained
  /\ Meeting /\ Collected /\ FreedAtLast

\* The items of a sequence are those of its two parts, wherever it is cut.
LEMMA ToSetSplit ==
  ASSUME NEW S, NEW s \in Seq(S), NEW n \in 0..Len(s)
  PROVE  /\ SubSeq(s, 1, n) \in Seq(S) /\ SubSeq(s, n + 1, Len(s)) \in Seq(S)
         /\ ToSet(s) = ToSet(SubSeq(s, 1, n)) \cup ToSet(SubSeq(s, n + 1, Len(s)))
<1>. DEFINE t == SubSeq(s, 1, n)
            u == SubSeq(s, n + 1, Len(s))
<1>1. Len(s) \in Nat /\ DOMAIN s = 1..Len(s) /\ n \in Nat /\ n <= Len(s) /\ \A i \in 1..Len(s) : s[i] \in S
  BY LenProperties
<1>2. t = [i \in 1..n |-> s[i]] /\ t \in Seq(S)
  BY <1>1
<1>3. u = [i \in 1..(Len(s) - n) |-> s[n + i]] /\ u \in Seq(S)
  BY <1>1
<1>4. DOMAIN t = 1..n /\ DOMAIN u = 1..(Len(s) - n)
  BY <1>2, <1>3
<1>5. ToSet(t) \subseteq ToSet(s)
  BY <1>1, <1>2, <1>4 DEF ToSet
<1>6. ToSet(u) \subseteq ToSet(s)
  BY <1>1, <1>3, <1>4 DEF ToSet
<1>7. ToSet(s) \subseteq ToSet(t) \cup ToSet(u)
  <2>1. ASSUME NEW i \in 1..Len(s) PROVE s[i] \in ToSet(t) \cup ToSet(u)
    <3>1. CASE i <= n
      BY <1>1, <1>2, <1>4, <3>1 DEF ToSet
    <3>2. CASE i > n
      <4>1. PICK j \in 1..(Len(s) - n) : i = n + j
        <5>1. i - n \in 1..(Len(s) - n) /\ i = n + (i - n)
          BY <1>1, <3>2
        <5>. QED BY <5>1
      <4>. QED BY <1>3, <1>4, <4>1 DEF ToSet
    <3>. QED BY <1>1, <3>1, <3>2
  <2>. QED BY <1>1, <2>1 DEF ToSet
<1>. QED BY <1>2, <1>3, <1>5, <1>6, <1>7 DEF t, u

-----------------------------------------------------------------------------
(* What arrives: the tests, and the channel.                               *)

\* A text has one writer, which writes it at once, and one reader.
LEMMA TextTests ==
  ASSUME test \in Tests, test.data = "text"
  PROVE  /\ \A v, w \in ToSet(test.writers) : v = w
         /\ \A q, r \in ToSet(test.readers) : q = r
         /\ Chunk = TextLen /\ Total = TextLen /\ TextLen \in Nat /\ TextLen > 0
<1>1. test \in {test_itest_pipe1_init, test_itest_pipe2_init, test_itest_pipe3_init,
                test_itest_pipe4_init, test_itest_fifo1_init, test_itest_fifo2_init,
                test_itest_fifo3_init}
  BY TestsAssumption
<1>2. test.writers = One(Writers) /\ test.readers = One(Readers) /\ test.to_send = 1
  BY <1>1 DEF Test, test_itest_pipe1_init, test_itest_pipe2_init, test_itest_pipe3_init,
              test_itest_pipe4_init, test_itest_fifo1_init, test_itest_fifo2_init,
              test_itest_fifo3_init
<1>3. ASSUME NEW s PROVE \A x, y \in ToSet(One(s)) : x = y
  BY DEF One, ToSet
<1>4. TextLen \in Nat /\ TextLen > 0
  BY StreamAssumption, StreamConstants
<1>5. Chunk = TextLen
  BY DEF Chunk
<1>6. Total = TextLen
  BY <1>2, <1>4, <1>5 DEF Total
<1>. QED BY <1>2, <1>3, <1>4, <1>5, <1>6

\* A message of the channel keeps the sum of what was sent.
LEMMA ChannelConserves ==
  ASSUME BytesInv, [Bytes!ChannelNext]_(Bytes!channelVars),
         (UNION {ToSet(got[r]) : r \in ToSet(Readers)}) \cup ToSet(Held)
           = UNION {{w} \X (1..sent[w]) : w \in ToSet(Writers)}
  PROVE  (UNION {ToSet(got'[r]) : r \in ToSet(Readers)}) \cup ToSet(Held')
           = UNION {{w} \X (1..sent'[w]) : w \in ToSet(Writers)}
<1>. DEFINE WasRead == UNION {ToSet(got[r]) : r \in ToSet(Readers)}
            WasSent == UNION {{w} \X (1..sent[w]) : w \in ToSet(Writers)}
            ReadNow == UNION {ToSet(got'[r]) : r \in ToSet(Readers)}
            SentNow == UNION {{w} \X (1..sent'[w]) : w \in ToSet(Writers)}
<1>1. /\ Held \in Seq(Cells) /\ SizeMax \in Nat
      /\ sent \in [ToSet(Writers) -> Nat] /\ got \in [ToSet(Readers) -> Seq(Cells)]
  BY ContentAt, StreamConstants DEF Held, BytesInv, BufferOK, TransfersOK
<1>0. WasRead \cup ToSet(Held) = WasSent
  OBVIOUS
<1>2. ASSUME UNCHANGED Bytes!channelVars PROVE ReadNow \cup ToSet(Held') = SentNow
  <2>1. Held' = Held /\ sent' = sent /\ got' = got
    BY <1>2 DEF Bytes!channelVars, Held
  <2>. QED BY <2>1
<1>3. ASSUME NEW n \in 1..SizeMax, NEW s \in ToSet(Writers), Bytes!Send(s, n)
      PROVE  ReadNow \cup ToSet(Held') = SentNow
  <2>. DEFINE new == [i \in 1..n |-> <<s, sent[s] + i>>]
  <2>1. Held' = Held \o new /\ sent' = [sent EXCEPT ![s] = @ + n] /\ got' = got
    BY <1>3 DEF Bytes!Send, Bytes!Byte, Held
  <2>2. n \in Nat /\ sent[s] \in Nat /\ new \in Seq(Cells)
    <3>1. n \in Nat /\ sent[s] \in Nat
      BY <1>1
    <3>2. \A i \in 1..n : <<s, sent[s] + i>> \in Cells
      BY <3>1 DEF Cells
    <3>. QED BY <3>1, <3>2
  <2>3. ToSet(new) = {s} \X ((sent[s] + 1)..(sent[s] + n))
    <3>1. ASSUME NEW i \in 1..n PROVE new[i] \in {s} \X ((sent[s] + 1)..(sent[s] + n))
      BY <2>2
    <3>2. ASSUME NEW j \in (sent[s] + 1)..(sent[s] + n) PROVE \E i \in 1..n : new[i] = <<s, j>>
      <4>1. PICK i \in 1..n : j = sent[s] + i
        <5>1. j - sent[s] \in 1..n /\ j = sent[s] + (j - sent[s])
          BY <2>2
        <5>. QED BY <5>1
      <4>. QED BY <4>1
    <3>3. DOMAIN new = 1..n
      OBVIOUS
    <3>4. ASSUME NEW c PROVE c \in ToSet(new) <=> c \in {s} \X ((sent[s] + 1)..(sent[s] + n))
      <4>1. ToSet(new) = {new[i] : i \in 1..n}
        BY <3>3 DEF ToSet
      <4>. HIDE DEF new
      <4>2. CASE c \in ToSet(new)
        BY <3>1, <4>1, <4>2
      <4>3. CASE c \in {s} \X ((sent[s] + 1)..(sent[s] + n))
        BY <3>2, <4>1, <4>3
      <4>. QED BY <4>2, <4>3
    <3>. QED BY <3>4
  <2>. HIDE DEF new
  <2>4. ToSet(Held') = ToSet(Held) \cup ToSet(new)
    BY <1>1, <2>1, <2>2, Joined
  <2>5. 1..(sent[s] + n) = (1..sent[s]) \cup ((sent[s] + 1)..(sent[s] + n))
    BY <2>2
  <2>6. sent'[s] = sent[s] + n /\ \A w \in ToSet(Writers) : w # s => sent'[w] = sent[w]
    BY <1>1, <2>1
  <2>7. SentNow = WasSent \cup ToSet(new)
    <3>1. ASSUME NEW w \in ToSet(Writers), w # s PROVE {w} \X (1..sent'[w]) = {w} \X (1..sent[w])
      BY <2>6, <3>1
    <3>2. {s} \X (1..sent'[s]) = ({s} \X (1..sent[s])) \cup ToSet(new)
      BY <2>3, <2>5, <2>6
    <3>. QED BY <3>1, <3>2
  <2>8. ReadNow = WasRead
    BY <2>1
  <2>. HIDE DEF WasRead, WasSent, ReadNow, SentNow
  <2>. QED BY <1>0, <2>4, <2>7, <2>8
<1>4. ASSUME NEW n \in 1..SizeMax, NEW q \in ToSet(Readers), Bytes!Receive(q, n)
      PROVE  ReadNow \cup ToSet(Held') = SentNow
  <2>. DEFINE new == SubSeq(Held, 1, n)
              rest == SubSeq(Held, n + 1, Len(Held))
  <2>1. /\ Held' = rest /\ sent' = sent /\ got' = [got EXCEPT ![q] = @ \o new]
        /\ n <= Len(Held)
    BY <1>4 DEF Bytes!Receive, Held
  <2>2. n \in Nat /\ n \in 0..Len(Held) /\ Len(Held) \in Nat
    BY <1>1, <2>1, LenProperties
  <2>3. new \in Seq(Cells) /\ ToSet(Held) = ToSet(new) \cup ToSet(rest)
    BY <1>1, <2>2, ToSetSplit
  <2>. HIDE DEF new, rest
  <2>4. ToSet(got[q] \o new) = ToSet(got[q]) \cup ToSet(new)
    BY <1>1, <2>3, Joined
  <2>5. got'[q] = got[q] \o new /\ \A r \in ToSet(Readers) : r # q => got'[r] = got[r]
    BY <1>1, <2>1
  <2>6. ReadNow = WasRead \cup ToSet(new)
    <3>1. \A r \in ToSet(Readers) : r # q => ToSet(got'[r]) = ToSet(got[r])
      BY <2>5
    <3>2. ToSet(got'[q]) = ToSet(got[q]) \cup ToSet(new)
      BY <2>4, <2>5
    <3>. QED BY <3>1, <3>2
  <2>7. SentNow = WasSent
    BY <2>1
  <2>. HIDE DEF WasRead, WasSent, ReadNow, SentNow
  <2>. QED BY <1>0, <2>1, <2>3, <2>6, <2>7
<1>5. ReadNow \cup ToSet(Held') = SentNow
  <2>1. \/ UNCHANGED Bytes!channelVars
        \/ \E n \in 1..SizeMax : 
             (\E s \in ToSet(Writers) : Bytes!Send(s, n)) \/ \E q \in ToSet(Readers) : Bytes!Receive(q, n)
    BY DEF Bytes!ChannelNext
  <2>. HIDE DEF WasRead, WasSent, ReadNow, SentNow
  <2>. QED BY <1>2, <1>3, <1>4, <2>1
<1>. QED BY <1>5

-----------------------------------------------------------------------------
(* What arrives: steps that transfer nothing.                              *)

\* Where a child goes that transfers nothing, and its call.
GoesOn(p) ==
  \/ at'[p] = at[p]
  \/ at[p] = "unborn" /\ at'[p] = "setup"
  \/ at[p] = "setup" /\ at'[p] \in {"write", "read"}
  \/ at[p] = "close" /\ at'[p] = "exit"
  \/ at[p] = "exit" /\ at'[p] \in {"zombie", "gone"}
  \/ at[p] = "zombie" /\ at'[p] = "gone"
  \/ test.data = "packets" /\ at[p] = "sleep" /\ at'[p] = LoopHead(p, sent[p] = Total)

CallStays(p) == call'[p] = call[p] \/ (at[p] = "setup" /\ call'[p].op \notin {"read", "write"})

\* Such a step keeps what is known of the transfers.
LEMMA QuietDelivers ==
  ASSUME BytesInv, Conserved, TextOK, SentAll, Drained, Quiet,
         \A p \in ToSet(Children) : GoesOn(p) /\ CallStays(p)
  PROVE  Conserved' /\ TextOK' /\ SentAll' /\ Drained'
<1>1. /\ test \in Tests /\ test' = test /\ sent' = sent /\ got' = got /\ size' = size /\ Held' = Held
      /\ ToSet(Children) = ToSet(test.writers) \cup ToSet(test.readers)
      /\ ToSet(test.writers) \cap ToSet(test.readers) = {} /\ Children' = Children
  BY ChildrenFacts, QuietKeeps DEF BytesInv, TransfersOK, Quiet, Children
<1>2. Conserved'
  BY <1>1 DEF Conserved
<1>3. Chunk' = Chunk /\ Total' = Total /\ (Reliable' <=> Reliable)
  BY <1>1 DEF Chunk, Total, Reliable
<1>4. TextOK'
  <2>. SUFFICES ASSUME test.data = "text" PROVE TextOK'
    BY <1>1 DEF TextOK
  <2>1. ASSUME NEW w \in ToSet(test.writers)
        PROVE  /\ at'[w] \in {"unborn", "setup"} \/ (at'[w] = "write" /\ call'[w] = Idle) => sent[w] = 0
               /\ call'[w].op = "write" => call'[w].done = sent[w] /\ sent[w] < TextLen
               /\ \A r \in ToSet(test.readers) : sent[w] = Len(got[r]) + size
    <3>1. GoesOn(w) /\ CallStays(w)
      BY <1>1
    <3>2. /\ at[w] \in {"unborn", "setup"} \/ (at[w] = "write" /\ call[w] = Idle) => sent[w] = 0
          /\ call[w].op = "write" => call[w].done = sent[w] /\ sent[w] < TextLen
          /\ \A r \in ToSet(test.readers) : sent[w] = Len(got[r]) + size
      BY DEF TextOK
    <3>3. test.data # "packets"
      OBVIOUS
    <3>4. call'[w].op = "write" => call'[w] = call[w]
      BY <3>1 DEF CallStays
    <3>5. at'[w] \in {"unborn", "setup"} => at[w] \in {"unborn", "setup"}
      BY <3>1, <3>3 DEF GoesOn
    <3>6. at'[w] = "write" => at[w] = "setup" \/ (at[w] = "write" /\ call'[w] = call[w])
      BY <3>1, <3>3 DEF GoesOn, CallStays
    <3>. QED BY <3>2, <3>4, <3>5, <3>6
  <2>2. ASSUME NEW r \in ToSet(test.readers), call'[r].op = "read"
        PROVE  call'[r].count = TextLen - Len(got[r]) /\ call'[r].done = 0
    <3>1. call'[r] = call[r]
      BY <1>1, <2>2 DEF CallStays
    <3>. QED BY <2>2, <3>1 DEF TextOK
  <2>3. ASSUME NEW p \in ToSet(Children) PROVE at'[p] # "sleep"
    <3>1. at[p] # "sleep" /\ GoesOn(p) /\ test.data # "packets"
      BY DEF TextOK
    <3>. QED BY <3>1 DEF GoesOn
  <2>. QED BY <1>1, <2>1, <2>2, <2>3 DEF TextOK
<1>5. ASSUME NEW p \in ToSet(Children), at'[p] \in Ended
      PROVE  at[p] \in Ended \/ (p \in ToSet(test.writers) /\ sent[p] = Total)
  <2>1. GoesOn(p)
    BY <1>5
  <2>2. CASE at'[p] = LoopHead(p, sent[p] = Total)
    BY <1>1, <1>5, <2>2 DEF LoopHead, Ended
  <2>. QED BY <1>5, <2>1, <2>2 DEF GoesOn, Ended
<1>6. ASSUME NEW p \in ToSet(Children), at[p] \in Ended PROVE at'[p] \in Ended
  <2>1. GoesOn(p)
    BY <1>6
  <2>. QED BY <1>6, <2>1 DEF GoesOn, Ended
<1>7. SentAll'
  <2>1. ASSUME Reliable, NEW w \in ToSet(test.writers), at'[w] \in Ended PROVE sent[w] = Total
    <3>1. at[w] \in Ended \/ sent[w] = Total
      BY <1>1, <1>5, <2>1
    <3>. QED BY <2>1, <3>1 DEF SentAll
  <2>. QED BY <1>1, <1>3, <2>1 DEF SentAll
<1>8. Drained'
  <2>1. ASSUME Reliable, NEW r \in ToSet(test.readers), at'[r] \in Ended
        PROVE  size = 0 /\ \A w \in ToSet(test.writers) : at'[w] \in Ended
    <3>1. at[r] \in Ended
      BY <1>1, <1>5, <2>1
    <3>2. size = 0 /\ \A w \in ToSet(test.writers) : at[w] \in Ended
      BY <2>1, <3>1 DEF Drained
    <3>. QED BY <1>1, <1>6, <3>2
  <2>. QED BY <1>1, <1>3, <2>1 DEF Drained
<1>. QED BY <1>2, <1>4, <1>7, <1>8

-----------------------------------------------------------------------------
(* What arrives: the ends of children, and the last close.                 *)

\* While a child moves, init is not done.
LEMMA ChildLeavesCollected ==
  ASSUME test \in Tests, SpawnOK, Collected, UNCHANGED <<test, step>>,
         NEW p \in ToSet(Children), at[p] # "gone", \A q \in Workers : q # p => at'[q] = at[q]
  PROVE  Collected' /\ at[Init_pcb] # "done"
<1>1. /\ Children' = Children /\ Init_pcb \in Workers /\ Init_pcb # p
      /\ \E i \in 1..Len(Children) : p = Children[i]
      /\ \A i \in 1..Len(Children) : Children[i] \in Workers
      /\ step \in 0..Len(Children) /\ Len(Children) \in Nat
  BY ChildrenFacts DEF SpawnOK, Children
<1>2. at[Init_pcb] # "done"
  BY <1>1 DEF Collected
<1>3. ASSUME at[Init_pcb] # "spawn", NEW i \in 1..step PROVE at'[Children[i]] = "gone"
  <2>1. at[Children[i]] = "gone" /\ Children[i] \in Workers
    BY <1>1, <1>3 DEF Collected
  <2>. QED BY <2>1
<1>. QED BY <1>1, <1>2, <1>3 DEF Collected

\* Nobody moves.
LEMMA CollectedStays ==
  ASSUME Collected, UNCHANGED <<test, step, at>>, at[Init_pcb] = "done" => panic' = panic
  PROVE  Collected'
<1>1. Children' = Children /\ step' = step /\ at' = at
  BY DEF Children
<1>. QED BY <1>1 DEF Collected

\* The descriptors stay.
LEMMA FreedStays ==
  ASSUME FreedAtLast, UNCHANGED <<test, descriptors, fifo>>, ~panic \/ panic'
  PROVE  FreedAtLast'
BY DEF FreedAtLast

\* A close frees the pipe if no descriptor is left.
LEMMA CloseFrees ==
  ASSUME NEW p, NEW where, NEW mode, NEW next, Close(p, where, mode, next),
         fifo \in {"unlinked", "absent", "linked"}, test.medium = "pipe" => fifo # "linked"
  PROVE  FreedAtLast'
<1>1. test' = test /\ Resource_destroy(fifo)
  BY DEF Close, Resource_close
<1>2. CASE test.medium = "pipe" /\ descriptors' = {}
  <2>1. CASE fifo = "unlinked"
    BY <1>1, <1>2, <2>1 DEF Resource_destroy, FreedAtLast
  <2>2. CASE fifo = "absent"
    BY <1>1, <1>2, <2>2 DEF Resource_destroy, FreedAtLast
  <2>. QED BY <1>2, <2>1, <2>2
<1>. QED BY <1>1, <1>2 DEF FreedAtLast

-----------------------------------------------------------------------------
(* What arrives: the writer and the reader of a text meet in open.         *)

\* A step that opens and closes nothing, but for an open that waits.
LEMMA MeetingStays ==
  ASSUME test \in Tests, Meeting, UNCHANGED test,
         UNCHANGED <<readers_number, writers_number, syscall_intermediate_data>>,
         waiting_list_open_writer' = waiting_list_open_writer
           \/ waiting_list_open_writer' \in Seq(ToSet(test.writers)),
         waiting_list_open_reader' = waiting_list_open_reader
           \/ waiting_list_open_reader' \in Seq(ToSet(test.readers)),
         \A p \in ToSet(Children) :
           /\ at'[p] \in {"unborn", "setup"} <=> at[p] \in {"unborn", "setup"}
           /\ at[p] \in {"exit", "zombie", "gone"} => at'[p] \in {"exit", "zombie", "gone"}
  PROVE  Meeting'
<1>. SUFFICES ASSUME test.medium = "fifo", test.data = "text" PROVE Meeting'
  BY DEF Meeting
<1>1. ToSet(Children) = ToSet(test.writers) \cup ToSet(test.readers)
  BY ChildrenFacts
<1>2. ASSUME NEW p \in ToSet(Children)
      PROVE  /\ WasMet(p)' <=> WasMet(p)
             /\ \A number : CountedIn(number, p) =>
                  /\ number \in Int /\ (~WasMet(p)' => number = 0)
                  /\ WasMet(p)' /\ at'[p] \notin {"exit", "zombie", "gone"} => number > 0
  <2>1. WasMet(p)' <=> WasMet(p)
    BY DEF WasMet
  <2>. QED BY <2>1 DEF CountedIn
<1>3. \A w \in ToSet(test.writers) : CountedIn(writers_number, w)'
  BY <1>1, <1>2 DEF Meeting, CountedIn
<1>4. \A r \in ToSet(test.readers) : CountedIn(readers_number, r)'
  BY <1>1, <1>2 DEF Meeting, CountedIn
<1>5. \A w \in ToSet(test.writers) : \A r \in ToSet(test.readers) : WasMet(w)' <=> WasMet(r)'
  BY <1>1, <1>2 DEF Meeting
<1>. QED BY <1>3, <1>4, <1>5 DEF Meeting

\* A close of a side that has ended.
LEMMA MeetingCloses ==
  ASSUME test \in Tests, Meeting, NEW p \in ToSet(Children), NEW mode, mode = ModeOf(p), Goes(p, "exit"),
         at \in [Workers -> ParentPlaces \cup WriterPlaces \cup ReaderPlaces], at[p] = "close",
         readers_number' = IF mode = "RDONLY" THEN readers_number - 1 ELSE readers_number,
         writers_number' = IF mode = "WRONLY" THEN writers_number - 1 ELSE writers_number,
         UNCHANGED <<test, waiting_list_open_reader, waiting_list_open_writer, syscall_intermediate_data>>
  PROVE  Meeting'
<1>. SUFFICES ASSUME test.medium = "fifo", test.data = "text" PROVE Meeting'
  BY DEF Meeting
<1>1. /\ ToSet(Children) = ToSet(test.writers) \cup ToSet(test.readers) /\ ToSet(Children) \subseteq Workers
      /\ ToSet(test.writers) \cap ToSet(test.readers) = {}
      /\ \A v, w \in ToSet(test.writers) : v = w
      /\ \A q, r \in ToSet(test.readers) : q = r
  BY ChildrenFacts, TextTests
<1>2. at'[p] = "exit" /\ at[p] = "close" /\ \A q \in ToSet(Children) : q # p => at'[q] = at[q]
  BY <1>1 DEF Goes
<1>3. \A q \in ToSet(Children) : WasMet(q)' <=> WasMet(q)
  BY <1>2 DEF WasMet
<1>4. ASSUME NEW w \in ToSet(test.writers) PROVE CountedIn(writers_number, w)'
  <2>1. CountedIn(writers_number, w) /\ w \in ToSet(Children)
    BY <1>1 DEF Meeting
  <2>2. CASE p \in ToSet(test.writers)
    <3>1. w = p /\ writers_number' = writers_number - 1 /\ WasMet(w)'
      BY <1>1, <1>2, <2>2 DEF ModeOf, WasMet
    <3>. QED BY <1>2, <2>1, <3>1 DEF CountedIn
  <2>3. CASE p \notin ToSet(test.writers)
    <3>1. w # p /\ writers_number' = writers_number
      BY <1>1, <2>3 DEF ModeOf
    <3>. QED BY <1>2, <1>3, <2>1, <3>1 DEF CountedIn
  <2>. QED BY <2>2, <2>3
<1>5. ASSUME NEW r \in ToSet(test.readers) PROVE CountedIn(readers_number, r)'
  <2>1. CountedIn(readers_number, r) /\ r \in ToSet(Children)
    BY <1>1 DEF Meeting
  <2>2. CASE p \in ToSet(test.readers)
    <3>1. r = p /\ readers_number' = readers_number - 1 /\ WasMet(r)'
      BY <1>1, <1>2, <2>2 DEF ModeOf, WasMet
    <3>. QED BY <1>2, <2>1, <3>1 DEF CountedIn
  <2>3. CASE p \notin ToSet(test.readers)
    <3>1. r # p /\ readers_number' = readers_number
      BY <1>1, <2>3 DEF ModeOf
    <3>. QED BY <1>2, <1>3, <2>1, <3>1 DEF CountedIn
  <2>. QED BY <2>2, <2>3
<1>6. \A w \in ToSet(test.writers) : \A r \in ToSet(test.readers) : WasMet(w)' <=> WasMet(r)'
  BY <1>1, <1>3 DEF Meeting
<1>. QED BY <1>4, <1>5, <1>6 DEF Meeting

\* A test has writers and readers.
LEMMA SomeOfEach ==
  ASSUME test \in Tests
  PROVE  ToSet(test.writers) # {} /\ ToSet(test.readers) # {}
<1>1. ASSUME NEW s \in Seq(Workers), s # <<>> PROVE ToSet(s) # {}
  <2>1. DOMAIN s = 1..Len(s) /\ Len(s) \in Nat /\ Len(s) # 0
    BY <1>1, LenProperties, EmptySeq
  <2>2. 1 \in DOMAIN s
    BY <2>1
  <2>. QED BY <2>2 DEF ToSet
<1>. QED BY <1>1, TestFacts

\* An open of p that succeeds, and wakes those of q that wait: both are counted.
LEMMA BothCounted ==
  ASSUME NEW p, NEW q, p # q, NEW mine, NEW theirs, CountedIn(mine, p), CountedIn(theirs, q),
         WasMet(p) <=> WasMet(q), at[p] = "setup", at'[p] \in {"write", "read"}, at'[q] = at[q],
         NEW queue \in Seq({q}), theirs > 0 \/ queue # <<>>,
         syscall_intermediate_data' = Marked(p, queue)
  PROVE  /\ WasMet(p)' /\ WasMet(q)'
         /\ mine + Own(p) \in Int /\ mine + Own(p) > 0
         /\ theirs + Len(queue) \in Int
         /\ at[q] \notin {"exit", "zombie", "gone"} => theirs + Len(queue) > 0
<1>1. PICK n \in Nat : n = Len(queue) /\ (queue # <<>> => n > 0 /\ q \in Range(queue))
  <2>1. Len(queue) \in Nat /\ DOMAIN queue = 1..Len(queue) /\ \A i \in 1..Len(queue) : queue[i] = q
    BY LenProperties
  <2>2. ASSUME queue # <<>> PROVE Len(queue) > 0 /\ q \in Range(queue)
    <3>1. Len(queue) # 0
      BY <2>2, EmptySeq
    <3>2. 1 \in 1..Len(queue)
      BY <2>1, <3>1
    <3>. QED BY <2>1, <3>2 DEF Range
  <2>. QED BY <2>1, <2>2
<1>2. WasMet(p)'
  BY DEF WasMet
<1>3. WasMet(q)'
  <2>1. CASE queue # <<>>
    BY <1>1, <2>1 DEF WasMet, Marked
  <2>2. CASE theirs > 0
    <3>1. WasMet(q)
      BY <2>2 DEF CountedIn
    <3>. QED BY <3>1 DEF WasMet, Marked
  <2>. QED BY <2>1, <2>2
<1>4. mine + Own(p) \in Int /\ mine + Own(p) > 0
  <2>1. CASE p \in syscall_intermediate_data
    BY <2>1 DEF Own, WasMet, CountedIn
  <2>2. CASE p \notin syscall_intermediate_data
    <3>1. mine = 0 /\ Own(p) = 1
      BY <2>2 DEF Own, WasMet, CountedIn
    <3>. QED BY <3>1
  <2>. QED BY <2>1, <2>2
<1>5. theirs + n \in Int /\ (at[q] \notin {"exit", "zombie", "gone"} => theirs + n > 0)
  <2>1. CASE WasMet(q)
    BY <1>1, <2>1 DEF CountedIn
  <2>2. CASE ~WasMet(q)
    BY <1>1, <2>2 DEF CountedIn
  <2>. QED BY <2>1, <2>2
<1>. QED BY <1>1, <1>2, <1>3, <1>4, <1>5

\* An open of the writer or of the reader.
LEMMA MeetingOpens ==
  ASSUME test \in Tests, Meeting, UNCHANGED test, NEW p \in ToSet(Children),
         at \in [Workers -> ParentPlaces \cup WriterPlaces \cup ReaderPlaces], at[p] = "setup",
         call \in [Procs -> StreamCalls], call[p].op = ModeOf(p), ~call[p].nonblock,
         OpenReader(p) \/ OpenWriter(p),
         \/ at' = at /\ call' = call
         \/ Return(p) /\ \E next \in {"write", "read"} : Goes(p, next)
  PROVE  Meeting'
<1>. SUFFICES ASSUME test.medium = "fifo", test.data = "text" PROVE Meeting'
  BY DEF Meeting
<1>1. /\ ToSet(Children) = ToSet(test.writers) \cup ToSet(test.readers) /\ ToSet(Children) \subseteq Workers
      /\ ToSet(test.writers) \cap ToSet(test.readers) = {}
      /\ \A v, w \in ToSet(test.writers) : v = w
      /\ \A q, r \in ToSet(test.readers) : q = r
      /\ p \in Workers /\ Workers \subseteq Procs
  BY ChildrenFacts, TextTests
<1>2. /\ waiting_list_open_writer \in Seq(ToSet(test.writers))
      /\ waiting_list_open_reader \in Seq(ToSet(test.readers))
      /\ \A w \in ToSet(test.writers) : CountedIn(writers_number, w)
      /\ \A r \in ToSet(test.readers) : CountedIn(readers_number, r)
      /\ \A w \in ToSet(test.writers) : \A r \in ToSet(test.readers) : WasMet(w) <=> WasMet(r)
  BY DEF Meeting
<1>3. Return(p) => call' # call
  BY <1>1 DEF Return, Idle, ModeOf
<1>4. ASSUME NEW S, NEW queue \in Seq(S) PROVE Append(queue, p) \in Seq(S \cup {p}) /\ StillOpening(queue) = <<>>
  BY DEF StillOpening, Met
<1>5. CASE at' = at /\ call' = call
  <2>1. /\ UNCHANGED <<readers_number, writers_number, syscall_intermediate_data>>
        /\ \/ UNCHANGED <<waiting_list_open_reader, waiting_list_open_writer>>
           \/ /\ call[p].op = "RDONLY" /\ waiting_list_open_reader' = Append(waiting_list_open_reader, p)
              /\ UNCHANGED waiting_list_open_writer
           \/ /\ call[p].op = "WRONLY" /\ waiting_list_open_writer' = Append(waiting_list_open_writer, p)
              /\ UNCHANGED waiting_list_open_reader
    BY <1>3, <1>5 DEF OpenReader, OpenWriter, Opened, openers, Enqueued
  <2>2. CASE call[p].op = "RDONLY"
    <3>1. p \in ToSet(test.readers)
      BY <1>1, <2>2 DEF ModeOf
    <3>2. Append(waiting_list_open_reader, p) \in Seq(ToSet(test.readers))
      BY <1>2, <3>1
    <3>. QED BY <1>5, <2>1, <2>2, <3>2, MeetingStays
  <2>3. CASE call[p].op = "WRONLY"
    <3>1. p \in ToSet(test.writers)
      BY <1>1, <2>3 DEF ModeOf
    <3>2. Append(waiting_list_open_writer, p) \in Seq(ToSet(test.writers))
      BY <1>2, <3>1
    <3>. QED BY <1>5, <2>1, <2>3, <3>2, MeetingStays
  <2>. QED BY <2>2, <2>3 DEF ModeOf
<1>6. ASSUME Return(p), NEW next \in {"write", "read"}, Goes(p, next) PROVE Meeting'
  <2>1. at'[p] = next /\ \A q \in ToSet(Children) : q # p => at'[q] = at[q]
    BY <1>1, <1>6 DEF Goes
  <2>2. CASE call[p].op = "RDONLY"
    <3>1. p \in ToSet(test.readers)
      BY <1>1, <2>2 DEF ModeOf
    <3>2. /\ writers_number > 0 \/ waiting_list_open_writer # <<>>
          /\ syscall_intermediate_data' = Marked(p, waiting_list_open_writer)
          /\ waiting_list_open_writer' = <<>>
          /\ writers_number' = writers_number + Len(waiting_list_open_writer)
          /\ readers_number' = readers_number + Own(p)
          /\ UNCHANGED waiting_list_open_reader
      <4>1. /\ WriterThere(p) /\ Opened(p, waiting_list_open_writer)
            /\ waiting_list_open_writer' = StillOpening(waiting_list_open_writer)
            /\ writers_number' = writers_number + Len(Met(waiting_list_open_writer))
            /\ readers_number' = readers_number + Own(p)
            /\ UNCHANGED waiting_list_open_reader
        BY <1>3, <1>6, <2>2 DEF OpenReader, OpenWriter, Crash
      <4>. QED BY <1>2, <1>4, <4>1 DEF WriterThere, Opened, Met
    <3>3. ASSUME NEW w \in ToSet(test.writers)
          PROVE  /\ WasMet(p)' /\ WasMet(w)'
                 /\ readers_number' \in Int /\ readers_number' > 0
                 /\ writers_number' \in Int
                 /\ at'[w] \notin {"exit", "zombie", "gone"} => writers_number' > 0
      <4>1. w # p /\ at'[w] = at[w] /\ ToSet(test.writers) = {w}
        BY <1>1, <2>1, <3>1
      <4>2. waiting_list_open_writer \in Seq({w})
        BY <1>2, <4>1
      <4>3. CountedIn(readers_number, p) /\ CountedIn(writers_number, w) /\ (WasMet(p) <=> WasMet(w))
        BY <1>2, <3>1
      <4>. QED BY <2>1, <3>2, <4>1, <4>2, <4>3, BothCounted
    <3>4. waiting_list_open_writer' \in Seq(ToSet(test.writers))
      BY <3>2
    <3>5. \A w \in ToSet(test.writers) : CountedIn(writers_number, w)'
      BY <3>3 DEF CountedIn
    <3>6. \A r \in ToSet(test.readers) : CountedIn(readers_number, r)'
      <4>1. \A r \in ToSet(test.readers) : r = p
        BY <1>1, <3>1
      <4>2. \E w : w \in ToSet(test.writers)
        BY SomeOfEach
      <4>. QED BY <3>3, <4>1, <4>2 DEF CountedIn
    <3>7. \A w \in ToSet(test.writers) : \A r \in ToSet(test.readers) : WasMet(w)' <=> WasMet(r)'
      BY <1>1, <3>1, <3>3
    <3>. QED BY <1>2, <3>2, <3>4, <3>5, <3>6, <3>7 DEF Meeting
  <2>3. CASE call[p].op = "WRONLY"
    <3>1. p \in ToSet(test.writers)
      BY <1>1, <2>3 DEF ModeOf
    <3>2. /\ readers_number > 0 \/ waiting_list_open_reader # <<>>
          /\ syscall_intermediate_data' = Marked(p, waiting_list_open_reader)
          /\ waiting_list_open_reader' = <<>>
          /\ readers_number' = readers_number + Len(waiting_list_open_reader)
          /\ writers_number' = writers_number + Own(p)
          /\ UNCHANGED waiting_list_open_writer
      <4>1. /\ ReaderThere /\ Opened(p, waiting_list_open_reader)
            /\ waiting_list_open_reader' = StillOpening(waiting_list_open_reader)
            /\ readers_number' = readers_number + Len(Met(waiting_list_open_reader))
            /\ writers_number' = writers_number + Own(p)
            /\ UNCHANGED waiting_list_open_writer
        BY <1>3, <1>6, <2>3 DEF OpenReader, OpenWriter, Crash
      <4>. QED BY <1>2, <1>4, <4>1 DEF ReaderThere, Opened, Met
    <3>3. ASSUME NEW r \in ToSet(test.readers)
          PROVE  /\ WasMet(p)' /\ WasMet(r)'
                 /\ writers_number' \in Int /\ writers_number' > 0
                 /\ readers_number' \in Int
                 /\ at'[r] \notin {"exit", "zombie", "gone"} => readers_number' > 0
      <4>1. r # p /\ at'[r] = at[r] /\ ToSet(test.readers) = {r}
        BY <1>1, <2>1, <3>1
      <4>2. waiting_list_open_reader \in Seq({r})
        BY <1>2, <4>1
      <4>3. CountedIn(writers_number, p) /\ CountedIn(readers_number, r) /\ (WasMet(p) <=> WasMet(r))
        BY <1>2, <3>1
      <4>. QED BY <2>1, <3>2, <4>1, <4>2, <4>3, BothCounted
    <3>4. waiting_list_open_reader' \in Seq(ToSet(test.readers))
      BY <3>2
    <3>5. \A r \in ToSet(test.readers) : CountedIn(readers_number, r)'
      BY <3>3 DEF CountedIn
    <3>6. \A w \in ToSet(test.writers) : CountedIn(writers_number, w)'
      <4>1. \A w \in ToSet(test.writers) : w = p
        BY <1>1, <3>1
      <4>2. \E r : r \in ToSet(test.readers)
        BY SomeOfEach
      <4>. QED BY <3>3, <4>1, <4>2 DEF CountedIn
    <3>7. \A w \in ToSet(test.writers) : \A r \in ToSet(test.readers) : WasMet(w)' <=> WasMet(r)'
      BY <1>1, <3>1, <3>3
    <3>. QED BY <1>2, <3>2, <3>4, <3>5, <3>6, <3>7 DEF Meeting
  <2>. QED BY <2>2, <2>3 DEF ModeOf
<1>. QED BY <1>5, <1>6

-----------------------------------------------------------------------------
(* What arrives: the steps of the timer and of init.                       *)

\* The children whose end init has met.
LEMMA GoneChildren ==
  ASSUME test \in Tests, SpawnOK, Collected, at[Init_pcb] # "spawn"
  PROVE  \A i \in 1..step : at[Children[i]] = "gone" /\ Children[i] \in ToSet(Children)
<1>1. step \in 0..Len(Children) /\ Len(Children) \in Nat
  BY ChildrenFacts DEF SpawnOK
<1>2. \A i \in 1..step : i \in 1..Len(Children)
  BY <1>1
<1>. QED BY <1>2, ChildrenFacts DEF Collected

\* The timer.
LEMMA ScheduleDelivers ==
  ASSUME BytesInv, DeliveryInv,
         (\E elapsed \in SUBSET ToSet(asleep) : StreamSchedule(elapsed)) \/ UNCHANGED streamVars
  PROVE  DeliveryInv'
<1>1. /\ UNCHANGED <<at, step, test, size, buffer, read_pos, write_pos, sent, got, descriptors, fifo, call,
                     readers_number, writers_number, panic, waiting_list_open_reader,
                     waiting_list_open_writer, syscall_intermediate_data>>
      /\ test \in Tests /\ call \in [Procs -> StreamCalls]
  <2>1. CASE \E elapsed \in SUBSET ToSet(asleep) : StreamSchedule(elapsed)
    BY <2>1 DEF StreamSchedule, UnchangedIpc, UnchangedFifo, progVars, openers, BytesInv, TransfersOK
  <2>2. CASE UNCHANGED streamVars
    BY <2>2 DEF streamVars, fifoVars, vars, progVars, openers, BytesInv, TransfersOK
  <2>. QED BY <2>1, <2>2
<1>2. Quiet
  BY <1>1 DEF Quiet
<1>3. \A p \in ToSet(Children) : GoesOn(p) /\ CallStays(p)
  BY <1>1 DEF GoesOn, CallStays
<1>4. Conserved' /\ TextOK' /\ SentAll' /\ Drained'
  BY <1>2, <1>3, QuietDelivers DEF DeliveryInv
<1>5. Meeting'
  BY <1>1, MeetingStays DEF DeliveryInv
<1>6. Collected' /\ FreedAtLast'
  BY <1>1, CollectedStays DEF DeliveryInv, FreedAtLast
<1>. QED BY <1>4, <1>5, <1>6 DEF DeliveryInv

\* A spawn.
LEMMA SpawnDelivers ==
  ASSUME BytesInv, ProgramInv, DeliveryInv, SpawnNext
  PROVE  DeliveryInv'
<1>1. test \in Tests /\ PlacesOK /\ SpawnOK /\ OwnOK /\ call \in [Procs -> StreamCalls]
  BY DEF BytesInv, TransfersOK, ProgramInv
<1>2. PICK child : child = Children[step + 1]
  OBVIOUS
<1>3. /\ child \in ToSet(Children) /\ child \in Workers /\ child # Init_pcb
      /\ at[child] = "unborn" /\ at'[child] = "setup" /\ at[Init_pcb] = "spawn"
      /\ at'[Init_pcb] \in {"spawn", "close reader", "wait"}
      /\ \A q \in Workers : q # Init_pcb /\ q # child => at'[q] = at[q]
      /\ Init_pcb \in Workers /\ Init_pcb \notin ToSet(Children) /\ ToSet(Children) \subseteq Workers
  BY <1>1, <1>2, SpawnMoves, ChildrenFacts
<1>4. /\ Spawn(child) /\ UNCHANGED <<test, sent, got, call, panic, fifo, waiting_list_open_reader,
                                    waiting_list_open_writer, syscall_intermediate_data>>
      /\ step' = IF step + 1 = Len(Children) THEN 0 ELSE step + 1
      /\ at' = [at EXCEPT ![child] = "setup",
                          ![Init_pcb] = IF step + 1 # Len(Children) THEN "spawn"
                                        ELSE IF test.medium = "pipe" THEN "close reader" ELSE "wait"]
  BY <1>2 DEF SpawnNext, Spawn, UnchangedIpc
<1>5. \A p \in ToSet(Children) : GoesOn(p) /\ CallStays(p)
  BY <1>3, <1>4 DEF GoesOn, CallStays
<1>6. Conserved' /\ TextOK' /\ SentAll' /\ Drained'
  BY <1>5, ParentQuiet, QuietDelivers DEF DeliveryInv, Parent
<1>7. Meeting'
  <2>. SUFFICES ASSUME test.medium = "fifo", test.data = "text" PROVE Meeting'
    BY <1>4 DEF Meeting
  <2>1. Cloned(child) = {}
    <3>1. HasAt(Init_pcb, at[Init_pcb]) = {}
      BY <1>3 DEF HasAt
    <3>2. \A d \in descriptors : d.pcb # Init_pcb
      BY <1>1, <3>1, OwnFacts
    <3>. QED BY <3>2 DEF Cloned
  <2>2. \A mode : Onclone(child, mode) = 0
    BY <2>1, FS_EmptySet DEF Onclone
  <2>3. readers_number \in Int /\ writers_number \in Int
    BY <1>1, SomeOfEach DEF DeliveryInv, Meeting, CountedIn
  <2>4. readers_number' = readers_number /\ writers_number' = writers_number
    BY <1>4, <2>2, <2>3 DEF Spawn
  <2>5. \A p \in ToSet(Children) :
          /\ at'[p] \in {"unborn", "setup"} <=> at[p] \in {"unborn", "setup"}
          /\ at[p] \in {"exit", "zombie", "gone"} => at'[p] \in {"exit", "zombie", "gone"}
    BY <1>3
  <2>. QED BY <1>1, <1>4, <2>4, <2>5, MeetingStays DEF DeliveryInv
<1>8. Collected'
  <2>1. at'[Init_pcb] # "spawn" => step' = 0
    <3>1. at'[Init_pcb] = IF step + 1 # Len(Children) THEN "spawn"
                          ELSE IF test.medium = "pipe" THEN "close reader" ELSE "wait"
      <4>1. at \in [Workers -> ParentPlaces \cup WriterPlaces \cup ReaderPlaces]
        BY <1>1 DEF PlacesOK
      <4>. QED BY <1>3, <1>4, <4>1
    <3>. QED BY <1>4, <3>1
  <2>2. at'[Init_pcb] # "done"
    BY <1>3
  <2>. QED BY <2>1, <2>2 DEF Collected
<1>9. FreedAtLast'
  <2>1. descriptors \subseteq descriptors'
    BY <1>4 DEF Spawn
  <2>. QED BY <1>4, <2>1 DEF DeliveryInv, FreedAtLast
<1>. QED BY <1>6, <1>7, <1>8, <1>9 DEF DeliveryInv

\* Init closes its ends.
LEMMA ParentCloseDelivers ==
  ASSUME BytesInv, ProgramInv, DeliveryInv, NEW where, NEW mode, NEW next, Close(Init_pcb, where, mode, next),
         \/ where = "close reader" /\ mode = "RDONLY" /\ next = "close writer"
         \/ where = "close writer" /\ mode = "WRONLY" /\ next = "wait"
  PROVE  DeliveryInv'
<1>1. /\ test \in Tests /\ Init_pcb \in Workers /\ Init_pcb \notin ToSet(Children) /\ ToSet(Children) \subseteq Workers
      /\ OwnOK /\ mode \in Modes
      /\ at \in [Workers -> ParentPlaces \cup WriterPlaces \cup ReaderPlaces]
      /\ \A i \in 1..Len(Children) : Children[i] \in ToSet(Children)
  BY ChildrenFacts DEF BytesInv, TransfersOK, ProgramInv, PlacesOK, Modes
<1>2. /\ at[Init_pcb] = where /\ Goes(Init_pcb, next)
      /\ UNCHANGED <<test, step, call, size, sent, got>>
  BY <1>1, CloseEffect
<1>3. Children' = Children /\ \A q \in ToSet(Children) : at'[q] = at[q] /\ call'[q] = call[q]
  BY <1>1, <1>2 DEF Goes, Children
<1>4. test.medium = "pipe"
  BY <1>2, TestChildren DEF ProgramInv, PlacesOK, BytesInv, TransfersOK
<1>5. Conserved' /\ TextOK' /\ SentAll' /\ Drained'
  <2>1. Init_pcb \in Procs
    BY <1>1, StreamConstants
  <2>2. Quiet
    BY <2>1, ChildQuiet
  <2>. QED BY <1>3, <2>2, QuietDelivers DEF DeliveryInv, GoesOn, CallStays
<1>6. Meeting'
  BY <1>2, <1>4 DEF Meeting
<1>7. Collected'
  <2>1. at'[Init_pcb] = next
    BY <1>1, <1>2 DEF Goes
  <2>2. \A i \in 1..step : at[Children[i]] = "gone" /\ Children[i] \in ToSet(Children)
    <3>1. at[Init_pcb] # "spawn"
      BY <1>2
    <3>. QED BY <1>1, <3>1, GoneChildren DEF ProgramInv, DeliveryInv
  <2>. QED BY <1>2, <1>3, <2>1, <2>2 DEF Collected
<1>8. FreedAtLast'
  BY <1>1, <1>4, CloseFrees DEF OwnOK
<1>. QED BY <1>5, <1>6, <1>7, <1>8 DEF DeliveryInv

\* Init waits, or the test ends.
LEMMA WaitDelivers ==
  ASSUME BytesInv, ProgramInv, DeliveryInv, WaitNext \/ EndTest
  PROVE  DeliveryInv'
<1>1. /\ test \in Tests /\ Init_pcb \in Workers /\ Init_pcb \notin ToSet(Children) /\ ToSet(Children) \subseteq Workers
      /\ at \in [Workers -> ParentPlaces \cup WriterPlaces \cup ReaderPlaces]
      /\ call \in [Procs -> StreamCalls]
      /\ \A i \in 1..Len(Children) : Children[i] \in ToSet(Children)
      /\ step \in 0..Len(Children) /\ Len(Children) \in Nat
  BY ChildrenFacts DEF BytesInv, TransfersOK, ProgramInv, PlacesOK, SpawnOK
<1>2. /\ UNCHANGED <<test, size, buffer, read_pos, write_pos, sent, got, call, descriptors, fifo, panic,
                     readers_number, writers_number, waiting_list_open_reader,
                     waiting_list_open_writer, syscall_intermediate_data>>
      /\ at[Init_pcb] = "wait" /\ ~panic
  BY DEF WaitNext, EndTest, UnchangedIpc, UnchangedFifo, openers, Runs, Stopped
<1>3. \/ /\ step < Len(Children) /\ at[Children[step + 1]] = "zombie"
         /\ Goes(Children[step + 1], "gone") /\ step' = step + 1
      \/ Goes(Init_pcb, "waiting") /\ step' = step
      \/ step = Len(Children) /\ Goes(Init_pcb, "done") /\ step' = step
  BY DEF WaitNext, EndTest
<1>4. Children' = Children
  BY <1>2 DEF Children
<1>5. ASSUME NEW p \in ToSet(Children)
      PROVE  at'[p] = at[p] \/ (at[p] = "zombie" /\ at'[p] = "gone")
  BY <1>1, <1>3 DEF Goes
<1>6. Conserved' /\ TextOK' /\ SentAll' /\ Drained'
  <2>1. Quiet
    BY <1>1, <1>2 DEF Quiet
  <2>. QED BY <1>2, <1>5, <2>1, QuietDelivers DEF DeliveryInv, GoesOn, CallStays
<1>7. Meeting'
  BY <1>1, <1>2, <1>5, MeetingStays DEF DeliveryInv
<1>8. Collected'
  <2>1. \A i \in 1..step : at'[Children[i]] = "gone"
    <3>1. at[Init_pcb] # "spawn"
      BY <1>2
    <3>2. \A i \in 1..step : at[Children[i]] = "gone" /\ Children[i] \in ToSet(Children)
      BY <1>1, <3>1, GoneChildren DEF ProgramInv, DeliveryInv
    <3>. QED BY <1>5, <3>2
  <2>2. CASE /\ step < Len(Children) /\ at[Children[step + 1]] = "zombie"
             /\ Goes(Children[step + 1], "gone") /\ step' = step + 1
    <3>1. PICK k \in 1..Len(Children) : k = step + 1
      BY <1>1, <2>2
    <3>2. at'[Children[k]] = "gone" /\ at'[Init_pcb] = at[Init_pcb]
      BY <1>1, <2>2, <3>1 DEF Goes
    <3>3. \A i \in 1..(step + 1) : i \in 1..step \/ i = k
      BY <1>1, <3>1
    <3>. QED BY <1>2, <1>4, <2>1, <2>2, <3>2, <3>3 DEF Collected
  <2>3. CASE Goes(Init_pcb, "waiting") /\ step' = step
    <3>1. at'[Init_pcb] = "waiting"
      BY <1>1, <2>3 DEF Goes
    <3>. QED BY <1>4, <2>1, <2>3, <3>1 DEF Collected
  <2>4. CASE step = Len(Children) /\ Goes(Init_pcb, "done") /\ step' = step
    <3>1. at'[Init_pcb] = "done"
      BY <1>1, <2>4 DEF Goes
    <3>. QED BY <1>2, <1>4, <2>1, <2>4, <3>1 DEF Collected
  <2>. QED BY <1>3, <2>2, <2>3, <2>4
<1>9. FreedAtLast'
  BY <1>2 DEF DeliveryInv, FreedAtLast
<1>. QED BY <1>6, <1>7, <1>8, <1>9 DEF DeliveryInv

-----------------------------------------------------------------------------
(* What arrives: the steps of a child that transfer nothing.               *)

\* A child closes an end.
LEMMA ChildCloseDelivers ==
  ASSUME BytesInv, ProgramInv, DeliveryInv, NEW p \in ToSet(Children),
         NEW where, NEW mode, NEW next, ChildCloses(p, where, mode, next)
  PROVE  DeliveryInv'
<1>1. /\ test \in Tests /\ p \in Workers /\ p \in Procs /\ OwnOK /\ SpawnOK
      /\ ToSet(Children) \subseteq Workers /\ test.medium \in {"pipe", "fifo"}
      /\ at \in [Workers -> ParentPlaces \cup WriterPlaces \cup ReaderPlaces]
  BY ChildrenFacts, TestChildren, StreamConstants DEF BytesInv, TransfersOK, ProgramInv, PlacesOK
<1>2. /\ Close(p, where, mode, next) /\ mode \in Modes
      /\ \/ where = "setup" /\ test.medium = "pipe" /\ next \in {"write", "read"}
         \/ where = "close" /\ mode = ModeOf(p) /\ next = "exit"
  BY DEF ChildCloses, Modes, ModeOf
<1>3. /\ at[p] = where /\ Goes(p, next)
      /\ readers_number' = IF mode = "RDONLY" THEN readers_number - 1 ELSE readers_number
      /\ writers_number' = IF mode = "WRONLY" THEN writers_number - 1 ELSE writers_number
      /\ UNCHANGED <<test, step, call>>
  BY <1>1, <1>2, CloseEffect
<1>4. at'[p] = next /\ \A q \in Workers : q # p => at'[q] = at[q]
  BY <1>1, <1>3 DEF Goes
<1>5. Conserved' /\ TextOK' /\ SentAll' /\ Drained'
  <2>1. \A q \in ToSet(Children) : GoesOn(q) /\ CallStays(q)
    BY <1>1, <1>2, <1>3, <1>4 DEF GoesOn, CallStays
  <2>2. Quiet
    BY <1>1, <1>2, ChildQuiet
  <2>. QED BY <2>1, <2>2, QuietDelivers DEF DeliveryInv
<1>6. Meeting'
  <2>1. CASE where = "setup"
    BY <1>2, <1>3, <2>1 DEF Meeting
  <2>2. CASE where = "close"
    <3>1. mode = ModeOf(p) /\ next = "exit" /\ at[p] = "close"
      BY <1>2, <1>3, <2>2
    <3>2. UNCHANGED <<waiting_list_open_reader, waiting_list_open_writer, syscall_intermediate_data>>
      BY <1>2 DEF Close, Resource_close
    <3>. QED BY <1>1, <1>3, <3>1, <3>2, MeetingCloses DEF DeliveryInv
  <2>. QED BY <1>2, <2>1, <2>2
<1>7. Collected'
  <2>1. at[p] # "gone"
    BY <1>2, <1>3
  <2>. QED BY <1>1, <1>3, <1>4, <2>1, ChildLeavesCollected DEF DeliveryInv
<1>8. FreedAtLast'
  <2>1. fifo \in {"unlinked", "absent", "linked"} /\ (test.medium = "pipe" => fifo # "linked")
    BY <1>1 DEF OwnOK
  <2>. QED BY <1>2, <2>1, CloseFrees
<1>. QED BY <1>5, <1>6, <1>7, <1>8 DEF DeliveryInv

\* A child in open runs one of its branches.
LEMMA OpenRuns ==
  ASSUME BytesInv, ProgramInv, NEW p \in Workers, NEW mode \in Modes, NEW next,
         test.medium = "fifo", mode = ModeOf(p), In(p, mode), Opening(p, mode, next)
  PROVE  /\ OpenReader(p) \/ OpenWriter(p)
         /\ call[p].op = ModeOf(p) /\ at[p] = "setup" /\ ~call[p].nonblock
<1>1. /\ test \in Tests /\ p \in Procs /\ CallsAt /\ OwnOK
  BY StreamConstants DEF BytesInv, TransfersOK, ProgramInv
<1>2. call[p].op = mode /\ call[p] # Idle /\ at[p] = "setup" /\ ~call[p].nonblock
  BY <1>1, CallPlaces DEF In, Modes, Idle
<1>3. /\ fifo = "linked" /\ FreeFds(p) # {}
      /\ Cardinality(descriptors) \in Nat /\ Cardinality(descriptors) < MaxDescriptors
  BY <1>1, <1>2, RoomToOpen
<1>4. Resource_open(p)
  <2>1. ~(Runs(p, "setup"))
    BY <1>2 DEF Runs, Issues
  <2>. QED BY <2>1 DEF Opening
<1>5. MaxDescriptors \in Nat
  BY FifoAssumption
<1>6. ~OpenFails(p)
  BY <1>2, <1>3, <1>5 DEF OpenFails, Modes
<1>. QED BY <1>2, <1>4, <1>6 DEF Resource_open

\* A child opens the fifo.
LEMMA ChildOpenDelivers ==
  ASSUME BytesInv, ProgramInv, DeliveryInv, NEW p \in ToSet(Children),
         NEW mode, NEW next, ChildOpens(p, mode, next)
  PROVE  DeliveryInv'
<1>1. /\ test \in Tests /\ p \in Workers /\ p \in Procs /\ SpawnOK /\ CallsAt
      /\ ToSet(Children) \subseteq Workers /\ Workers \subseteq Procs
      /\ at \in [Workers -> ParentPlaces \cup WriterPlaces \cup ReaderPlaces]
      /\ call \in [Procs -> StreamCalls]
  BY ChildrenFacts, StreamConstants DEF BytesInv, TransfersOK, ProgramInv, PlacesOK
<1>2. /\ Opening(p, mode, next) /\ test.medium = "fifo" /\ mode = ModeOf(p) /\ mode \in Modes
      /\ next \in {"write", "read"}
  BY DEF ChildOpens, ModeOf, Modes
<1>3. Quiet
  BY <1>1, <1>2, ChildQuiet DEF Modes
<1>4. FreedAtLast'
  BY <1>2, <1>3 DEF FreedAtLast, Quiet
<1>5. CASE In(p, mode)
  <2>1. /\ OpenReader(p) \/ OpenWriter(p)
        /\ call[p].op = ModeOf(p) /\ at[p] = "setup" /\ ~call[p].nonblock
    BY <1>1, <1>2, <1>5, OpenRuns
  <2>2. \/ at' = at /\ step' = step /\ call' = call
        \/ Goes(p, next) /\ Return(p) /\ step' = step
    BY <1>1, <1>2, <1>5, OpenEffect
  <2>3. Meeting'
    BY <1>1, <1>2, <1>3, <2>1, <2>2, MeetingOpens DEF DeliveryInv, Quiet
  <2>4. \A q \in ToSet(Children) : q # p => at'[q] = at[q] /\ call'[q] = call[q]
    BY <1>1, <2>2 DEF Goes, Return
  <2>5. GoesOn(p) /\ CallStays(p)
    BY <1>1, <1>2, <2>1, <2>2 DEF GoesOn, CallStays, Goes, Return, Idle
  <2>6. Conserved' /\ TextOK' /\ SentAll' /\ Drained'
    BY <1>3, <2>4, <2>5, QuietDelivers DEF DeliveryInv, GoesOn, CallStays
  <2>7. Collected'
    <3>1. \A q \in Workers : q # p => at'[q] = at[q]
      BY <1>1, <2>2 DEF Goes
    <3>. QED BY <1>1, <1>3, <2>1, <2>2, <3>1, ChildLeavesCollected DEF DeliveryInv, Quiet
  <2>. QED BY <1>4, <2>3, <2>6, <2>7 DEF DeliveryInv
<1>6. CASE ~In(p, mode)
  <2>1. /\ at[p] = "setup" /\ at' = at /\ step' = step
        /\ call' = [call EXCEPT ![p] = [op |-> mode, count |-> 0, done |-> 0, nonblock |-> FALSE]]
        /\ UNCHANGED <<readers_number, writers_number, waiting_list_open_reader,
                       waiting_list_open_writer, syscall_intermediate_data>>
    BY <1>2, <1>6 DEF Opening, Runs, UnchangedFifo, openers, progVars
  <2>2. call'[p].op = mode /\ \A q \in ToSet(Children) : q # p => call'[q] = call[q]
    BY <1>1, <2>1
  <2>3. \A q \in ToSet(Children) : GoesOn(q) /\ CallStays(q)
    BY <1>2, <2>1, <2>2 DEF GoesOn, CallStays, Modes
  <2>4. Conserved' /\ TextOK' /\ SentAll' /\ Drained'
    BY <1>3, <2>3, QuietDelivers DEF DeliveryInv
  <2>5. Meeting'
    BY <1>1, <1>3, <2>1, MeetingStays DEF DeliveryInv, Quiet
  <2>6. Collected'
    BY <1>1, <1>3, <2>1, ChildLeavesCollected DEF DeliveryInv, Quiet
  <2>. QED BY <1>4, <2>4, <2>5, <2>6 DEF DeliveryInv
<1>. QED BY <1>5, <1>6

\* A child sleeps.
LEMMA SleepDelivers ==
  ASSUME BytesInv, ProgramInv, DeliveryInv, NEW p \in ToSet(Children), Sleep(p), test.data = "packets"
  PROVE  DeliveryInv'
<1>1. /\ test \in Tests /\ p \in Workers /\ p \in Procs /\ SpawnOK
      /\ ToSet(Children) \subseteq Workers
      /\ at \in [Workers -> ParentPlaces \cup WriterPlaces \cup ReaderPlaces]
  BY ChildrenFacts, StreamConstants DEF BytesInv, TransfersOK, ProgramInv, PlacesOK
<1>2. /\ at[p] = "sleep" /\ Goes(p, LoopHead(p, sent[p] = Total)) /\ ~panic
      /\ UNCHANGED <<test, step, call, descriptors, fifo>>
  BY DEF Sleep, Runs, Stopped, UnchangedIpc, UnchangedFifo
<1>3. at'[p] = LoopHead(p, sent[p] = Total) /\ \A q \in Workers : q # p => at'[q] = at[q]
  BY <1>1, <1>2 DEF Goes
<1>4. \A q \in ToSet(Children) : GoesOn(q) /\ CallStays(q)
  BY <1>1, <1>2, <1>3 DEF GoesOn, CallStays
<1>5. Quiet
  BY <1>1, ChildQuiet
<1>6. Conserved' /\ TextOK' /\ SentAll' /\ Drained'
  BY <1>4, <1>5, QuietDelivers DEF DeliveryInv
<1>7. Meeting'
  BY <1>2 DEF Meeting
<1>8. Collected'
  BY <1>1, <1>2, <1>3, ChildLeavesCollected DEF DeliveryInv
<1>9. FreedAtLast'
  BY <1>2, FreedStays DEF DeliveryInv
<1>. QED BY <1>6, <1>7, <1>8, <1>9 DEF DeliveryInv

\* A child ends.
LEMMA ExitDelivers ==
  ASSUME BytesInv, ProgramInv, DeliveryInv, NEW p \in ToSet(Children), Exit(p)
  PROVE  DeliveryInv'
<1>1. /\ test \in Tests /\ p \in Workers /\ p \in Procs /\ SpawnOK
      /\ ToSet(Children) \subseteq Workers /\ Init_pcb \in Workers /\ Init_pcb \notin ToSet(Children)
      /\ at \in [Workers -> ParentPlaces \cup WriterPlaces \cup ReaderPlaces]
      /\ step \in 0..Len(Children) /\ Len(Children) \in Nat
  BY ChildrenFacts, StreamConstants DEF BytesInv, TransfersOK, ProgramInv, PlacesOK, SpawnOK
<1>2. /\ at[p] = "exit" /\ ~panic
      /\ UNCHANGED <<test, call, descriptors, fifo, readers_number, writers_number,
                     waiting_list_open_reader, waiting_list_open_writer, syscall_intermediate_data>>
      /\ \/ /\ at[Init_pcb] = "waiting" /\ Children[step + 1] = p
            /\ at' = [at EXCEPT ![p] = "gone", ![Init_pcb] = "wait"] /\ step' = step + 1
         \/ Goes(p, "zombie") /\ step' = step
  BY DEF Exit, Runs, Stopped, UnchangedIpc, UnchangedFifo, openers
<1>3. at'[p] \in {"gone", "zombie"} /\ \A q \in ToSet(Children) : q # p => at'[q] = at[q]
  BY <1>1, <1>2 DEF Goes
<1>4. \A q \in ToSet(Children) : GoesOn(q) /\ CallStays(q)
  BY <1>2, <1>3 DEF GoesOn, CallStays
<1>5. Quiet
  BY <1>1, ChildQuiet
<1>6. Conserved' /\ TextOK' /\ SentAll' /\ Drained'
  BY <1>4, <1>5, QuietDelivers DEF DeliveryInv
<1>7. Meeting'
  BY <1>1, <1>2, <1>3, MeetingStays DEF DeliveryInv
<1>8. Collected'
  <2>1. CASE Goes(p, "zombie") /\ step' = step
    <3>1. \A q \in Workers : q # p => at'[q] = at[q]
      BY <1>1, <2>1 DEF Goes
    <3>. QED BY <1>1, <1>2, <2>1, <3>1, ChildLeavesCollected DEF DeliveryInv
  <2>2. CASE /\ at[Init_pcb] = "waiting" /\ Children[step + 1] = p
             /\ at' = [at EXCEPT ![p] = "gone", ![Init_pcb] = "wait"] /\ step' = step + 1
    <3>1. \A i \in 1..step : at[Children[i]] = "gone" /\ Children[i] \in ToSet(Children)
      BY <1>1, <2>2, GoneChildren DEF DeliveryInv
    <3>2. \A i \in 1..(step + 1) : i \in 1..step \/ i = step + 1
      BY <1>1
    <3>3. at'[p] = "gone" /\ at'[Init_pcb] = "wait" /\ \A q \in ToSet(Children) : q # p => at'[q] = at[q]
      BY <1>1, <2>2
    <3>4. \A i \in 1..(step + 1) : at'[Children[i]] = "gone"
      BY <2>2, <3>1, <3>2, <3>3
    <3>5. Children' = Children
      BY <1>2 DEF Children
    <3>. QED BY <2>2, <3>3, <3>4, <3>5 DEF Collected
  <2>. QED BY <1>2, <2>1, <2>2
<1>9. FreedAtLast'
  BY <1>2, FreedStays DEF DeliveryInv
<1>. QED BY <1>6, <1>7, <1>8, <1>9 DEF DeliveryInv

-----------------------------------------------------------------------------
(* What arrives: transfers.                                                *)

\* What a transfer leaves alone, whatever it does to the bytes.
LEMMA TransferLeaves ==
  ASSUME test \in Tests, SpawnOK, Meeting, Collected, FreedAtLast, ~panic,
         UNCHANGED <<test, step, descriptors, fifo, openers>>,
         NEW p \in ToSet(Children), at[p] \in {"read", "write"},
         at'[p] \notin {"unborn", "setup"}, \A q \in Workers : q # p => at'[q] = at[q]
  PROVE  Meeting' /\ Collected' /\ FreedAtLast'
<1>1. ToSet(Children) \subseteq Workers
  BY ChildrenFacts
<1>2. Meeting'
  <2>1. \A q \in ToSet(Children) :
          /\ at'[q] \in {"unborn", "setup"} <=> at[q] \in {"unborn", "setup"}
          /\ at[q] \in {"exit", "zombie", "gone"} => at'[q] \in {"exit", "zombie", "gone"}
    BY <1>1
  <2>. QED BY <2>1, MeetingStays DEF openers
<1>3. Collected'
  BY ChildLeavesCollected
<1>. QED BY <1>2, <1>3, FreedStays

\* While a writer of a reliable test writes, some process can read it.
LEMMA SomebodyReads ==
  ASSUME test \in Tests, ProgramInv, Drained, Meeting, Reliable,
         NEW p \in ToSet(test.writers), at[p] = "write"
  PROVE  readers_number # 0
<1>1. PICK r \in ToSet(test.readers) : r \in Workers
  BY ChildrenFacts
<1>2. at[r] \notin Ended /\ at[r] # "failed"
  BY <1>1 DEF Drained, Ended, ProgramInv, NobodyFailed
<1>3. CASE test.medium = "pipe"
  BY <1>2, <1>3, ReaderOfPipe
<1>4. CASE test.medium = "fifo" /\ test.data = "text"
  <2>1. CountedIn(readers_number, r) /\ WasMet(r)
    BY <1>4 DEF Meeting, WasMet
  <2>. QED BY <1>2, <2>1 DEF CountedIn, Ended
<1>. QED BY <1>3, <1>4, TestChildren DEF Reliable

\* At the end of file of a reliable test, no writer writes any more.
LEMMA WritersOver ==
  ASSUME test \in Tests, ProgramInv, Meeting, Reliable, writers_number = 0,
         NEW r \in ToSet(test.readers), at[r] = "read", NEW w \in ToSet(test.writers)
  PROVE  at[w] \in Ended
<1>1. /\ OwnOK /\ w \in Workers /\ Init_pcb \in Workers /\ w \in ToSet(Children)
      /\ test.medium \in {"pipe", "fifo"} /\ at[w] \in WriterPlaces
  BY ChildrenFacts, TestChildren DEF ProgramInv, PlacesOK
<1>2. CASE test.medium = "pipe"
  <2>1. Open("WRONLY") = {}
    <3>1. IsFiniteSet(Open("WRONLY")) /\ Cardinality(Open("WRONLY")) = 0
      BY <1>1, <1>2, OwnFacts DEF ProgramInv, PipeCounts
    <3>. QED BY <3>1, FS_EmptySet
  <2>2. \A q \in Workers : "WRONLY" \notin HasAt(q, at[q])
    BY <1>1, <2>1, OwnFacts
  <2>3. at[w] # "unborn"
    <3>. SUFFICES ASSUME at[w] = "unborn" PROVE FALSE
      OBVIOUS
    <3>2. PICK i \in 1..Len(Children) : w = Children[i]
      BY <1>1, ChildrenFacts
    <3>3. at[Init_pcb] = "spawn"
      BY <3>2 DEF ProgramInv, SpawnOK
    <3>4. "WRONLY" \in HasAt(Init_pcb, at[Init_pcb])
      BY <1>2, <3>3 DEF HasAt
    <3>. QED BY <1>1, <2>2, <3>4
  <2>4. at[w] \notin {"setup", "write", "sleep", "close", "failed"}
    BY <1>1, <1>2, <2>2 DEF HasAt, ModeOf
  <2>. QED BY <1>1, <2>3, <2>4 DEF WriterPlaces, Ended
<1>3. CASE test.medium = "fifo"
  <2>1. test.data = "text"
    BY <1>3 DEF Reliable
  <2>2. CountedIn(writers_number, w) /\ WasMet(w)
    BY <1>3, <2>1 DEF Meeting, WasMet
  <2>. QED BY <2>2 DEF CountedIn, Ended
<1>. QED BY <1>1, <1>2, <1>3

\* A write of a text is where its writer is.
LEMMA TextWrites ==
  ASSUME BytesInv, ProgramInv, TextOK, test.data = "text", NEW p \in ToSet(test.writers),
         call[p].op = "write"
  PROVE  Left(p) = TextLen - sent[p] /\ call[p].done = sent[p] /\ sent[p] < TextLen
<1>1. /\ test \in Tests /\ p \in Workers /\ p \in Procs /\ CallsAt
  BY ChildrenFacts, StreamConstants DEF BytesInv, TransfersOK, ProgramInv
<1>2. call[p].count = TextLen
  BY <1>1, CallPlaces, TextTests
<1>3. call[p].done = sent[p] /\ sent[p] < TextLen
  BY DEF TextOK
<1>. QED BY <1>2, <1>3 DEF Left

\* A writer begins a write, or it transfers, waits or ends.
LEMMA WriteDelivers ==
  ASSUME BytesInv, ProgramInv, DeliveryInv, NEW p \in ToSet(test.writers), Write(p), Conserved'
  PROVE  DeliveryInv'
<1>1. /\ test \in Tests /\ p \in Workers /\ p \in Procs /\ p \in ToSet(Children) /\ p \in ToSet(Writers)
      /\ p \notin ToSet(test.readers) /\ ToSet(Children) \subseteq Workers /\ Workers \subseteq Procs
      /\ ToSet(Children) = ToSet(test.writers) \cup ToSet(test.readers)
      /\ ToSet(test.writers) \subseteq ToSet(Writers)
      /\ at \in [Workers -> ParentPlaces \cup WriterPlaces \cup ReaderPlaces]
      /\ call \in [Procs -> StreamCalls] /\ sent \in [ToSet(Writers) -> Nat]
      /\ CallsAt /\ SpawnOK
  BY ChildrenFacts, TestChildren, StreamConstants DEF BytesInv, TransfersOK, ProgramInv, PlacesOK
<1>2. CASE Begins(p, "write", Chunk)
  <2>1. /\ at[p] = "write" /\ ~panic /\ call[p] = Idle
        /\ call' = [call EXCEPT ![p] = [op |-> "write", count |-> Chunk, done |-> 0, nonblock |-> FALSE]]
        /\ UNCHANGED <<at, step, test, size, sent, got, descriptors, fifo, openers>>
    BY <1>2 DEF Begins, Runs, Issues, Stopped, UnchangedFifo, progVars
  <2>2. call'[p].op = "write" /\ call'[p].done = 0 /\ \A q \in ToSet(Children) : q # p => call'[q] = call[q]
    BY <1>1, <2>1
  <2>3. Chunk' = Chunk /\ Total' = Total /\ (Reliable' <=> Reliable) /\ Children' = Children
    BY <2>1 DEF Chunk, Total, Reliable, Children
  <2>4. TextOK'
    <3>. SUFFICES ASSUME test.data = "text" PROVE TextOK'
      BY <2>1 DEF TextOK
    <3>1. \A w \in ToSet(test.writers) : w = p
      BY <1>1, TextTests
    <3>2. sent[p] = 0 /\ 0 < TextLen
      BY <1>1, <2>1, TextTests DEF DeliveryInv, TextOK
    <3>3. \A r \in ToSet(test.readers) : call'[r] = call[r]
      BY <1>1, <2>2
    <3>. QED BY <2>1, <2>2, <2>3, <3>1, <3>2, <3>3 DEF DeliveryInv, TextOK
  <2>5. SentAll' /\ Drained'
    BY <2>1, <2>3 DEF DeliveryInv, SentAll, Drained
  <2>6. Meeting' /\ Collected' /\ FreedAtLast'
    BY <1>1, <2>1, TransferLeaves DEF DeliveryInv
  <2>. QED BY <2>4, <2>5, <2>6 DEF DeliveryInv
<1>3. CASE ~Begins(p, "write", Chunk)
  <2>1. /\ WriteEffect(p) /\ call[p].op = "write" /\ at[p] = "write" /\ ~panic
        /\ UNCHANGED <<test, step, got, descriptors, fifo, openers>>
    BY <1>3, WriteTransfers DEF Stopped
  <2>2. PICK k \in 0..SizeMax : sent' = [sent EXCEPT ![p] = @ + k] /\ k = size' - size
    BY <1>3, WriteTransfers
  <2>3. /\ k \in Nat /\ size' = size + k /\ size \in Nat
        /\ sent[p] \in Nat /\ sent'[p] = sent[p] + k
        /\ \A w \in ToSet(test.writers) : w # p => sent'[w] = sent[w]
    <3>1. SizeMax \in Nat /\ k \in Nat
      BY StreamConstants
    <3>2. PICK n \in Nat : size' = size + n /\ size \in Nat
      BY <1>3, WriteTransfers
    <3>3. k = n
      BY <2>2, <3>2
    <3>4. size' = size + k /\ size \in Nat
      BY <3>2, <3>3
    <3>5. sent[p] \in Nat /\ sent'[p] = sent[p] + k
      BY <1>1, <2>2
    <3>6. \A w \in ToSet(test.writers) : w # p => sent'[w] = sent[w]
      BY <1>1, <2>2
    <3>. QED BY <3>1, <3>4, <3>5, <3>6
  <2>4. Chunk' = Chunk /\ Total' = Total /\ (Reliable' <=> Reliable) /\ Children' = Children
    BY <2>1 DEF Chunk, Total, Reliable, Children
  <2>5. \/ call' = call /\ at' = at /\ k = 0
        \/ /\ test.data = "text" /\ at' = at /\ k < Left(p)
           /\ call' = [call EXCEPT ![p].done = @ + k]
        \/ /\ Return(p)
           /\ \E to \in {"write", "sleep", "close", "failed"} :
                /\ Goes(p, to)
                /\ Reliable => k = Left(p) /\ to = AfterChunk(p, sent'[p])
    <3>1. Reliable => readers_number # 0
      BY <1>1, <2>1, SomebodyReads DEF DeliveryInv
    <3>. QED BY <2>1, <2>2, <2>3, <3>1 DEF WriteEffect
  <2>6. /\ at'[p] \in {"write", "sleep", "close", "failed"}
        /\ \A q \in Workers : q # p => at'[q] = at[q]
        /\ \A q \in Procs : q # p => call'[q] = call[q]
    BY <1>1, <2>1, <2>5 DEF Goes, Return
  <2>7. TextOK'
    <3>. SUFFICES ASSUME test.data = "text" PROVE TextOK'
      BY <2>1 DEF TextOK
    <3>1. /\ \A w \in ToSet(test.writers) : w = p
          /\ Left(p) = TextLen - sent[p] /\ call[p].done = sent[p] /\ sent[p] < TextLen
          /\ TextLen \in Nat /\ Total = TextLen
      BY <1>1, <2>1, TextTests, TextWrites DEF DeliveryInv
    <3>2. /\ \A r \in ToSet(test.readers) : sent[p] = Len(got[r]) + size
          /\ \A r \in ToSet(test.readers) : call[r].op = "read" =>
               call[r].count = TextLen - Len(got[r]) /\ call[r].done = 0
          /\ \A q \in ToSet(Children) : at[q] # "sleep"
      BY DEF DeliveryInv, TextOK
    <3>3. /\ ~(at'[p] \in {"unborn", "setup"} \/ (at'[p] = "write" /\ call'[p] = Idle))
          /\ call'[p].op = "write" => call'[p].done = sent'[p] /\ sent'[p] < TextLen
          /\ at'[p] # "sleep"
      <4>1. CASE call' = call /\ at' = at /\ k = 0
        BY <2>1, <2>3, <3>1, <4>1 DEF Idle
      <4>2. CASE at' = at /\ k < Left(p) /\ call' = [call EXCEPT ![p].done = @ + k]
        <5>1. call'[p].op = "write" /\ call'[p].done = sent[p] + k
          <6>1. call[p] \in StreamCalls /\ call'[p] = [call[p] EXCEPT !.done = @ + k]
            BY <1>1, <4>2
          <6>. QED BY <2>1, <3>1, <6>1 DEF StreamCalls
        <5>2. sent[p] + k < TextLen
          BY <2>3, <3>1, <4>2
        <5>. QED BY <2>1, <2>3, <4>2, <5>1, <5>2 DEF Idle
      <4>3. ASSUME Return(p), NEW to, Goes(p, to), k = Left(p), to = AfterChunk(p, sent'[p])
            PROVE  call'[p] = Idle /\ at'[p] = "close"
        <5>1. sent'[p] = Total
          BY <2>3, <3>1, <4>3
        <5>2. to = "close"
          BY <1>1, <4>3, <5>1 DEF AfterChunk, LoopHead
        <5>. QED BY <1>1, <4>3, <5>2 DEF Return, Goes
      <4>. QED BY <2>5, <4>1, <4>2, <4>3 DEF Reliable, Idle
    <3>4. \A r \in ToSet(test.readers) : call'[r] = call[r]
      BY <1>1, <2>6
    <3>5. \A r \in ToSet(test.readers) : sent'[p] = Len(got[r]) + size'
      <4>1. ASSUME NEW r \in ToSet(test.readers) PROVE sent'[p] = Len(got[r]) + size'
        <5>1. Len(got[r]) \in Nat
          BY <1>1, TestChildren, LenProperties DEF BytesInv, TransfersOK
        <5>. QED BY <2>3, <3>2, <5>1
      <4>. QED BY <4>1
    <3>6. \A q \in ToSet(Children) : at'[q] # "sleep"
      BY <1>1, <2>6, <3>2, <3>3
    <3>. QED BY <2>1, <2>4, <3>1, <3>2, <3>3, <3>4, <3>5, <3>6 DEF TextOK
  <2>8. SentAll'
    <3>1. ASSUME Reliable, NEW w \in ToSet(test.writers), at'[w] \in Ended PROVE sent'[w] = Total
      <4>1. CASE w # p
        BY <1>1, <2>3, <2>6, <3>1, <4>1 DEF DeliveryInv, SentAll
      <4>2. CASE w = p
        <5>1. at'[p] # at[p]
          BY <2>1, <3>1, <4>2 DEF Ended
        <5>2. PICK to : Goes(p, to) /\ to = AfterChunk(p, sent'[p])
          BY <2>5, <3>1, <5>1
        <5>3. to \in Ended
          BY <1>1, <3>1, <4>2, <5>2 DEF Goes
        <5>. QED BY <4>2, <5>2, <5>3 DEF AfterChunk, LoopHead, Ended
      <4>. QED BY <4>1, <4>2
    <3>. QED BY <2>1, <2>4, <3>1 DEF SentAll
  <2>9. Drained'
    <3>1. ASSUME Reliable, NEW r \in ToSet(test.readers), at'[r] \in Ended PROVE FALSE
      <4>1. at[r] \in Ended
        BY <1>1, <2>6, <3>1
      <4>2. at[p] \in Ended
        BY <3>1, <4>1 DEF DeliveryInv, Drained
      <4>. QED BY <2>1, <4>2 DEF Ended
    <3>. QED BY <2>1, <2>4, <3>1 DEF Drained
  <2>10. Meeting' /\ Collected' /\ FreedAtLast'
    BY <1>1, <2>1, <2>6, TransferLeaves DEF DeliveryInv
  <2>. QED BY <2>7, <2>8, <2>9, <2>10 DEF DeliveryInv
<1>. QED BY <1>2, <1>3

\* A reader of a text that has read all of it leaves an empty buffer, and a writer that
\* has ended.
LEMMA TextRead ==
  ASSUME BytesInv, ProgramInv, TextOK, SentAll, test.data = "text", NEW r \in ToSet(test.readers),
         call[r].op = "read", Left(r) = 0, NEW w \in ToSet(test.writers)
  PROVE  size = 0 /\ at[w] \in Ended
<1>1. /\ test \in Tests /\ w \in Workers /\ w \in Procs /\ CallsAt /\ r \in ToSet(Readers)
      /\ w \in ToSet(Children) /\ w \in ToSet(Writers) /\ w \notin ToSet(test.readers)
      /\ at[w] \in WriterPlaces /\ at[w] # "failed"
  BY ChildrenFacts, TestChildren, StreamConstants
     DEF BytesInv, TransfersOK, ProgramInv, PlacesOK, NobodyFailed, Reliable
<1>2. /\ TextLen \in Nat /\ TextLen > 0 /\ Total = TextLen
      /\ size \in Nat /\ Len(got[r]) \in Nat /\ sent[w] \in Nat
  BY <1>1, TextTests, LenProperties, StreamConstants DEF BytesInv, BufferOK, TransfersOK
<1>3. sent[w] = Len(got[r]) + size /\ call[r].count = TextLen - Len(got[r]) /\ call[r].done = 0
  BY DEF TextOK
<1>4. Len(got[r]) = TextLen
  BY <1>2, <1>3 DEF Left
<1>5. sent[w] = TextLen + size
  BY <1>3, <1>4
<1>6. sent[w] # 0 /\ ~(sent[w] < TextLen)
  BY <1>2, <1>5
<1>7. at[w] \notin {"unborn", "setup", "sleep"} /\ ~(at[w] = "write" /\ call[w] = Idle) /\ call[w].op # "write"
  BY <1>1, <1>6 DEF TextOK
<1>8. at[w] # "write"
  <2>. SUFFICES ASSUME at[w] = "write" PROVE FALSE
    OBVIOUS
  <2>1. call[w] # Idle
    BY <1>7
  <2>2. call[w].op = "write"
    BY <1>1, <2>1 DEF CallsAt
  <2>. QED BY <1>7, <2>2
<1>9. at[w] \in Ended
  BY <1>1, <1>7, <1>8 DEF WriterPlaces, Ended
<1>10. sent[w] = Total
  BY <1>9 DEF SentAll, Reliable
<1>. QED BY <1>2, <1>5, <1>9, <1>10

\* A reader begins a read, or it waits or ends.
LEMMA ReadDelivers ==
  ASSUME BytesInv, ProgramInv, DeliveryInv, NEW p \in ToSet(test.readers), Read(p), Conserved'
  PROVE  DeliveryInv'
<1>1. /\ test \in Tests /\ p \in Workers /\ p \in Procs /\ p \in ToSet(Children) /\ p \in ToSet(Readers)
      /\ p \notin ToSet(test.writers) /\ ToSet(Children) \subseteq Workers /\ Workers \subseteq Procs
      /\ ToSet(Children) = ToSet(test.writers) \cup ToSet(test.readers)
      /\ ToSet(test.writers) \subseteq ToSet(Writers)
      /\ test.data \in {"text", "packets"}
      /\ at \in [Workers -> ParentPlaces \cup WriterPlaces \cup ReaderPlaces]
      /\ call \in [Procs -> StreamCalls] /\ sent \in [ToSet(Writers) -> Nat]
      /\ got \in [ToSet(Readers) -> Seq(Cells)] /\ CallsAt /\ SpawnOK
  BY ChildrenFacts, TestChildren, StreamConstants DEF BytesInv, TransfersOK, ProgramInv, PlacesOK
<1>2. CASE Begins(p, "read", Wanted(p))
  <2>1. /\ at[p] = "read" /\ ~panic
        /\ call' = [call EXCEPT ![p] = [op |-> "read", count |-> Wanted(p), done |-> 0, nonblock |-> FALSE]]
        /\ UNCHANGED <<at, step, test, size, sent, got, descriptors, fifo, openers>>
    BY <1>2 DEF Begins, Runs, Stopped, UnchangedFifo, progVars
  <2>2. /\ call'[p].op = "read" /\ call'[p].done = 0 /\ call'[p].count = Wanted(p)
        /\ \A q \in ToSet(Children) : q # p => call'[q] = call[q]
    BY <1>1, <2>1
  <2>3. Total' = Total /\ (Reliable' <=> Reliable) /\ Children' = Children
    BY <2>1 DEF Chunk, Total, Reliable, Children
  <2>4. TextOK'
    <3>. SUFFICES ASSUME test.data = "text" PROVE TextOK'
      BY <2>1 DEF TextOK
    <3>1. \A r \in ToSet(test.readers) : r = p
      BY <1>1, TextTests
    <3>2. call'[p].count = TextLen - Len(got[p])
      BY <2>2 DEF Wanted
    <3>3. \A w \in ToSet(test.writers) : call'[w] = call[w]
      BY <1>1, <2>2
    <3>. QED BY <2>1, <2>2, <2>3, <3>1, <3>2, <3>3 DEF DeliveryInv, TextOK
  <2>5. SentAll' /\ Drained'
    BY <2>1, <2>3 DEF DeliveryInv, SentAll, Drained
  <2>6. Meeting' /\ Collected' /\ FreedAtLast'
    BY <1>1, <2>1, TransferLeaves DEF DeliveryInv
  <2>. QED BY <2>4, <2>5, <2>6 DEF DeliveryInv
<1>3. CASE ~Begins(p, "read", Wanted(p))
  <2>1. /\ ReadEffect(p) /\ call[p].op = "read" /\ at[p] = "read" /\ ~panic
        /\ UNCHANGED <<test, step, sent, descriptors, fifo, openers>>
    BY <1>3, ReadTransfers DEF Stopped
  <2>2. PICK k \in 0..SizeMax : /\ k <= Len(Held) /\ k = size - size'
                                /\ got' = [got EXCEPT ![p] = @ \o SubSeq(Held, 1, k)]
    BY <1>3, ReadTransfers
  <2>3. /\ size \in Nat /\ size' \in Nat /\ Held \in Seq(Cells) /\ Len(Held) = size
    <3>1. Fifo_read(p) /\ UNCHANGED <<sent, buffer>>
      BY <1>3, ReadTransfers DEF Read
    <3>2. BytesInv'
      BY <1>1, <1>3, <3>1, ReadIsReceive DEF Read
    <3>. QED BY <3>2, StreamConstants, ContentAt DEF BytesInv, BufferOK, Held
  <2>4. /\ \A w \in ToSet(test.readers) : w # p => got'[w] = got[w]
        /\ Len(got[p]) \in Nat /\ Len(got'[p]) \in Nat /\ Len(got'[p]) + size' = Len(got[p]) + size
    <3>1. SizeMax \in Nat
      BY StreamConstants
    <3>2. PICK m \in 0..size : size' = size - m
      BY <1>3, ReadTransfers
    <3>3. k = m
      BY <2>2, <2>3, <3>2
    <3>4. k \in 0..Len(Held) /\ size' = size - k /\ k \in 0..size
      BY <2>3, <3>2, <3>3
    <3>5. SubSeq(Held, 1, k) \in Seq(Cells) /\ Len(SubSeq(Held, 1, k)) = k - 1 + 1
      <4>1. 1 \in 1..(Len(Held) + 1) /\ 1 <= k + 1
        BY <2>3, <3>4
      <4>. QED BY <2>3, <3>4, <4>1, PartAt
    <3>6. got[p] \in Seq(Cells) /\ got'[p] = got[p] \o SubSeq(Held, 1, k)
      BY <1>1, <2>2
    <3>7. Len(got[p]) \in Nat /\ Len(got'[p]) = Len(got[p]) + (k - 1 + 1)
      BY <3>5, <3>6, ConcatProperties, LenProperties
    <3>8. k \in Nat /\ k - 1 + 1 = k
      BY <3>1
    <3>9. Len(got'[p]) = Len(got[p]) + k
      BY <3>7, <3>8
    <3>10. Len(got'[p]) \in Nat /\ Len(got'[p]) + size' = Len(got[p]) + size
      BY <2>3, <3>4, <3>7, <3>8, <3>9
    <3>11. \A w \in ToSet(test.readers) : w # p => got'[w] = got[w]
      BY <1>1, <2>2, TestChildren
    <3>. QED BY <3>7, <3>10, <3>11
  <2>5. Chunk' = Chunk /\ Total' = Total /\ (Reliable' <=> Reliable) /\ Children' = Children
    BY <2>1 DEF Chunk, Total, Reliable, Children
  <2>6. /\ at'[p] \in {"read", "sleep", "close"}
        /\ \A q \in Workers : q # p => at'[q] = at[q]
        /\ \A q \in Procs : q # p => call'[q] = call[q]
        /\ (call'[p] = call[p] /\ size' = size) \/ call'[p] = Idle
    BY <1>1, <2>1 DEF ReadEffect, Goes, Return
  <2>7. TextOK'
    <3>. SUFFICES ASSUME test.data = "text" PROVE TextOK'
      BY <2>1 DEF TextOK
    <3>1. \A r \in ToSet(test.readers) : r = p
      BY <1>1, TextTests
    <3>2. \A w \in ToSet(test.writers) : w \in Workers /\ w # p /\ call'[w] = call[w] /\ at'[w] = at[w]
      BY <1>1, <2>6
    <3>3. \A w \in ToSet(test.writers) : sent'[w] = Len(got'[p]) + size'
      BY <2>1, <2>4 DEF DeliveryInv, TextOK
    <3>4. ASSUME call'[p].op = "read" PROVE call'[p].count = TextLen - Len(got'[p]) /\ call'[p].done = 0
      <4>1. call'[p] = call[p] /\ size' = size
        BY <2>6, <3>4 DEF Idle
      <4>2. Len(got'[p]) = Len(got[p])
        BY <2>3, <2>4, <4>1
      <4>. QED BY <2>1, <4>1, <4>2 DEF DeliveryInv, TextOK
    <3>5. at'[p] # "sleep"
      BY <1>1, <2>1 DEF ReadEffect, Goes
    <3>6. \A q \in ToSet(Children) : at'[q] # "sleep"
      BY <1>1, <2>6, <3>5 DEF DeliveryInv, TextOK
    <3>. QED BY <2>1, <2>5, <3>1, <3>2, <3>3, <3>4, <3>6 DEF DeliveryInv, TextOK
  <2>8. SentAll'
    <3>1. \A w \in ToSet(test.writers) : at'[w] = at[w]
      BY <1>1, <2>6
    <3>. QED BY <2>1, <2>5, <3>1 DEF DeliveryInv, SentAll
  <2>9. Drained'
    <3>1. ASSUME Reliable, NEW r \in ToSet(test.readers), at'[r] \in Ended
          PROVE  size' = 0 /\ \A w \in ToSet(test.writers) : at[w] \in Ended
      <4>1. CASE r # p
        <5>1. size = 0 /\ \A w \in ToSet(test.writers) : at[w] \in Ended
          BY <1>1, <2>6, <3>1, <4>1 DEF DeliveryInv, Drained
        <5>. QED BY <2>2, <2>3, <5>1
      <4>2. CASE r = p
        <5>1. size' = size /\ ((size = 0 /\ writers_number = 0) \/ Left(p) = 0)
          BY <1>1, <2>1, <3>1, <4>2 DEF ReadEffect, Goes, Ended
        <5>2. CASE size = 0 /\ writers_number = 0
          BY <1>1, <2>1, <3>1, <5>1, <5>2, WritersOver DEF DeliveryInv
        <5>3. CASE Left(p) = 0
          <6>1. test.data = "text"
            BY <1>1, <2>1, <5>3, CallPlaces, StreamConstants
          <6>2. \A w \in ToSet(test.writers) : size = 0 /\ at[w] \in Ended
            BY <2>1, <5>3, <6>1, TextRead DEF DeliveryInv
          <6>3. ToSet(test.writers) # {}
            BY <1>1, SomeOfEach
          <6>. QED BY <5>1, <6>2, <6>3
        <5>. QED BY <5>1, <5>2, <5>3
      <4>. QED BY <4>1, <4>2
    <3>2. \A w \in ToSet(test.writers) : at'[w] = at[w]
      BY <1>1, <2>6
    <3>. QED BY <2>1, <2>5, <3>1, <3>2 DEF Drained
  <2>10. Meeting' /\ Collected' /\ FreedAtLast'
    BY <1>1, <2>1, <2>6, TransferLeaves DEF DeliveryInv
  <2>. QED BY <2>7, <2>8, <2>9, <2>10 DEF DeliveryInv
<1>. QED BY <1>2, <1>3

-----------------------------------------------------------------------------
(* What arrives: the theorem.                                              *)

\* Every step keeps the invariant of what arrives.
LEMMA DeliveryStep ==
  ASSUME BytesInv, ProgramInv, DeliveryInv, [StreamNext]_streamVars
  PROVE  DeliveryInv'
<1>1. CASE (\E elapsed \in SUBSET ToSet(asleep) : StreamSchedule(elapsed)) \/ UNCHANGED streamVars
  BY <1>1, ScheduleDelivers
<1>2. CASE Parent
  <2>1. CASE SpawnNext
    BY <2>1, SpawnDelivers
  <2>2. CASE Close(Init_pcb, "close reader", "RDONLY", "close writer")
    BY <2>2, ParentCloseDelivers
  <2>3. CASE Close(Init_pcb, "close writer", "WRONLY", "wait")
    BY <2>3, ParentCloseDelivers
  <2>4. CASE WaitNext \/ EndTest
    BY <2>4, WaitDelivers
  <2>. QED BY <1>2, <2>1, <2>2, <2>3, <2>4 DEF Parent
<1>3. ASSUME NEW p \in Workers, Child(p) PROVE DeliveryInv'
  <2>1. /\ p \in ToSet(Children)
        /\ \/ \E where, mode, next : ChildCloses(p, where, mode, next)
           \/ \E mode, next : ChildOpens(p, mode, next)
           \/ Sleep(p) /\ test.data = "packets"
           \/ Exit(p)
           \/ p \in ToSet(test.writers) /\ Write(p)
           \/ p \in ToSet(test.readers) /\ Read(p)
    BY <1>3, ChildSteps DEF BytesInv, TransfersOK
  <2>2. CASE (p \in ToSet(test.writers) /\ Write(p)) \/ (p \in ToSet(test.readers) /\ Read(p))
    <3>1. (UNION {ToSet(got'[r]) : r \in ToSet(Readers)}) \cup ToSet(Held')
            = UNION {{w} \X (1..sent'[w]) : w \in ToSet(Writers)}
      BY StreamStep, ChannelConserves DEF DeliveryInv, Conserved
    <3>2. test' = test /\ \A w \in ToSet(Writers) \ ToSet(test.writers) : sent'[w] = sent[w]
      <4>1. sent \in [ToSet(Writers) -> Nat]
        BY DEF BytesInv, TransfersOK
      <4>2. CASE p \in ToSet(test.writers) /\ Write(p)
        BY <4>1, <4>2 DEF Write, Begins, progVars
      <4>3. CASE p \in ToSet(test.readers) /\ Read(p)
        BY <4>3 DEF Read, Begins, progVars
      <4>. QED BY <2>2, <4>2, <4>3
    <3>3. Conserved'
      BY <3>1, <3>2 DEF DeliveryInv, Conserved
    <3>. QED BY <2>2, <3>3, WriteDelivers, ReadDelivers
  <2>. QED BY <2>1, <2>2, ChildCloseDelivers, ChildOpenDelivers, SleepDelivers, ExitDelivers
<1>. QED BY <1>1, <1>2, <1>3 DEF StreamNext

\* A run begins with nothing sent and nobody born.
LEMMA DeliveryStart ==
  ASSUME StreamInit, BytesInv, ProgramInv
  PROVE  DeliveryInv
<1>1. /\ test \in Tests /\ Init_pcb \in Workers /\ Init_pcb \notin ToSet(Children)
      /\ ToSet(Children) \subseteq Workers /\ Workers \subseteq Procs
      /\ ToSet(Children) = ToSet(test.writers) \cup ToSet(test.readers)
      /\ ToSet(test.writers) \subseteq ToSet(Writers) /\ ToSet(test.readers) \subseteq ToSet(Readers)
  BY ChildrenFacts, TestChildren DEF StreamInit
<1>2. /\ at = [p \in Workers |-> IF p = Init_pcb THEN "spawn" ELSE "unborn"]
      /\ call = [p \in Procs |-> Idle] /\ syscall_intermediate_data = {}
      /\ descriptors = (IF test.medium = "pipe" THEN PipeEnds(Init_pcb) ELSE {})
      /\ readers_number = Cardinality(Open("RDONLY"))
      /\ writers_number = Cardinality(Open("WRONLY"))
      /\ waiting_list_open_reader = <<>> /\ waiting_list_open_writer = <<>>
      /\ sent = [w \in ToSet(Writers) |-> 0] /\ got = [r \in ToSet(Readers) |-> <<>>] /\ size = 0
  BY DEF StreamInit
<1>3. at[Init_pcb] = "spawn" /\ \A p \in ToSet(Children) : at[p] = "unborn" /\ call[p] = Idle
  BY <1>1, <1>2
<1>4. Conserved
  <2>1. Held = <<>> /\ ToSet(<<>>) = {} /\ 1..0 = {}
    BY <1>2 DEF Held, Content, ToSet
  <2>2. \A r \in ToSet(Readers) : ToSet(got[r]) = {}
    BY <1>2, <2>1
  <2>3. \A w \in ToSet(Writers) : sent[w] = 0 /\ {w} \X (1..sent[w]) = {}
    BY <1>2, <2>1
  <2>. QED BY <2>1, <2>2, <2>3 DEF Conserved
<1>5. TextOK
  <2>1. \A w \in ToSet(test.writers) : sent[w] = 0
    BY <1>1, <1>2
  <2>2. \A r \in ToSet(test.readers) : Len(got[r]) + size = 0
    BY <1>1, <1>2
  <2>. QED BY <1>1, <1>3, <2>1, <2>2 DEF TextOK, Idle
<1>6. SentAll /\ Drained
  BY <1>1, <1>3 DEF SentAll, Drained, Ended
<1>7. Meeting
  <2>. SUFFICES ASSUME test.medium = "fifo", test.data = "text" PROVE Meeting
    BY DEF Meeting
  <2>1. readers_number = 0 /\ writers_number = 0
    <3>1. Open("RDONLY") = {} /\ Open("WRONLY") = {}
      BY <1>2 DEF Open
    <3>. QED BY <1>2, <3>1, FS_EmptySet
  <2>2. \A p \in ToSet(Children) : ~WasMet(p)
    BY <1>2, <1>3 DEF WasMet
  <2>3. \A p \in ToSet(Children) : CountedIn(writers_number, p) /\ CountedIn(readers_number, p)
    BY <2>1, <2>2 DEF CountedIn
  <2>. QED BY <1>1, <1>2, <2>2, <2>3 DEF Meeting
<1>8. Collected
  BY <1>3 DEF Collected
<1>9. FreedAtLast
  <2>1. ASSUME test.medium = "pipe" PROVE descriptors # {}
    <3>1. "RDONLY" \in HasAt(Init_pcb, at[Init_pcb])
      BY <1>3, <2>1 DEF HasAt
    <3>. QED BY <1>1, <3>1, OwnFacts DEF ProgramInv
  <2>. QED BY <2>1 DEF FreedAtLast
<1>. QED BY <1>4, <1>5, <1>6, <1>7, <1>8, <1>9 DEF DeliveryInv

\* What the invariants say when the test is over.
LEMMA DoneIsDelivered ==
  ASSUME BytesInv, ProgramInv, DeliveryInv
  PROVE  AllDelivered
<1>. SUFFICES ASSUME Reliable, at[Init_pcb] = "done"
              PROVE  /\ \A w \in ToSet(test.writers) : sent[w] = Total
                     /\ UNION {ToSet(got[r]) : r \in ToSet(Readers)} = ToSet(test.writers) \X (1..Total)
                     /\ descriptors = {} /\ (test.medium = "pipe" => fifo = "absent")
  BY DEF AllDelivered
<1>1. /\ test \in Tests /\ Init_pcb \in Workers
      /\ ToSet(Children) = ToSet(test.writers) \cup ToSet(test.readers)
      /\ ToSet(test.writers) \subseteq ToSet(Writers)
      /\ ToSet(test.writers) # {} /\ ToSet(test.readers) # {}
  BY ChildrenFacts, TestChildren, SomeOfEach DEF BytesInv, TransfersOK
<1>2. \A p \in ToSet(Children) : at[p] = "gone"
  <2>1. step = Len(Children) /\ \A i \in 1..step : at[Children[i]] = "gone"
    BY DEF DeliveryInv, Collected
  <2>. QED BY <1>1, <2>1, ChildrenFacts
<1>3. \A w \in ToSet(test.writers) : sent[w] = Total
  BY <1>1, <1>2 DEF DeliveryInv, SentAll, Ended
<1>4. UNION {ToSet(got[r]) : r \in ToSet(Readers)} = ToSet(test.writers) \X (1..Total)
  <2>1. size = 0
    BY <1>1, <1>2 DEF DeliveryInv, Drained, Ended
  <2>2. ToSet(Held) = {} /\ 1..0 = {}
    BY <2>1 DEF Held, Content, ToSet
  <2>3. UNION {ToSet(got[r]) : r \in ToSet(Readers)} = UNION {{w} \X (1..sent[w]) : w \in ToSet(Writers)}
    BY <2>2 DEF DeliveryInv, Conserved
  <2>4. \A w \in ToSet(Writers) : {w} \X (1..sent[w]) = IF w \in ToSet(test.writers) THEN {w} \X (1..Total) ELSE {}
    <3>1. \A w \in ToSet(Writers) \ ToSet(test.writers) : sent[w] = 0
      BY DEF DeliveryInv, Conserved
    <3>. QED BY <1>3, <2>2, <3>1
  <2>5. UNION {{w} \X (1..sent[w]) : w \in ToSet(Writers)} = ToSet(test.writers) \X (1..Total)
    BY <1>1, <2>4
  <2>. QED BY <2>3, <2>5
<1>5. descriptors = {}
  <2>1. \A p \in Workers : HasAt(p, at[p]) = {}
    <3>1. \A p \in Workers : at[p] \in {"done", "gone", "unborn"}
      BY <1>2 DEF ProgramInv, PlacesOK
    <3>. QED BY <3>1 DEF HasAt
  <2>. QED BY <2>1, OwnFacts DEF ProgramInv
<1>6. test.medium = "pipe" => fifo = "absent"
  BY <1>5 DEF DeliveryInv, FreedAtLast, Collected
<1>. QED BY <1>3, <1>4, <1>5, <1>6

\* A reliable test that ends has transferred every byte, each writer's and no others, and
\* has left no descriptor and no pipe behind (AllDelivered).
THEOREM EverythingArrives == StreamSpec => []AllDelivered
<1>1. StreamInit => BytesInv /\ ProgramInv /\ DeliveryInv
  BY StreamStart, ProgramStart, DeliveryStart
<1>2. BytesInv /\ ProgramInv /\ DeliveryInv /\ [StreamNext]_streamVars
        => (BytesInv /\ ProgramInv /\ DeliveryInv)'
  BY StreamStep, ProgramStep, DeliveryStep
<1>3. BytesInv /\ ProgramInv /\ DeliveryInv => AllDelivered
  BY DoneIsDelivered
<1>. QED BY <1>1, <1>2, <1>3, PTL DEF StreamSpec
===============================================================================
