---------------------------- MODULE BridgesProofs ----------------------------
(* Theorems about Bridges, for every stream, every chunk size and every limit. *)
EXTENDS Bridges, FiniteSetTheorems, SequenceTheorems, WellFoundedInduction, TLAPS

-----------------------------------------------------------------------------
(* Streams and their tails *)

\* A piece of a stream, and the piece after it.
LEMMA PiecesJoin ==
    ASSUME NEW T, NEW s \in Seq(T), NEW a \in Nat, NEW b \in Nat, NEW c \in Nat,
           a <= b, b <= c, c <= Len(s)
    PROVE  SubSeq(s, a + 1, b) \o SubSeq(s, b + 1, c) = SubSeq(s, a + 1, c)
  OBVIOUS

\* The end of a piece of a stream is a piece of the stream.
LEMMA PieceOfPiece ==
    ASSUME NEW T, NEW s \in Seq(T), NEW a \in Nat, NEW b \in Nat, NEW n \in Nat,
           a + n <= b, b <= Len(s)
    PROVE  SubSeq(SubSeq(s, a + 1, b), n + 1, b - a) = SubSeq(s, a + n + 1, b)
  OBVIOUS

-----------------------------------------------------------------------------
(* The tail of a stderr *)

\* What was read is a part of the stream.
StreamOK == stream \in Seq(Bytes) /\ pos \in Nat /\ pos <= Len(stream)

\* A chunk is the next piece of the stream, and reading it stays within the stream.
LEMMA ChunkIsNext ==
    ASSUME StreamOK, NEW chunk \in Chunks
    PROVE  \E n \in 1 .. Chunk : /\ pos + n <= Len(stream) /\ Len(chunk) = n
                                 /\ chunk = SubSeq(stream, pos + 1, pos + n)
  <1>1. PICK n \in 1 .. Chunk : /\ pos + n <= Len(stream)
                                /\ chunk = SubSeq(stream, pos + 1, pos + n)
    BY DEF Chunks
  <1>2. n \in Nat
    BY BridgesAssumption
  <1>3. Len(SubSeq(stream, pos + 1, pos + n)) = n
    BY <1>1, <1>2 DEF StreamOK
  <1>4. QED
    BY <1>1, <1>3

\* The bridges read the stream from its beginning, and no further than its end.
LEMMA StreamInvariant == Spec => []StreamOK
  <1>1. Init => StreamOK
    <2> SUFFICES ASSUME Init PROVE StreamOK
      OBVIOUS
    <2>1. PICK n \in 0 .. MaxInput : stream \in [1 .. n -> Bytes]
      BY DEF Init, Alphabet
    <2>2. n \in Nat
      BY BridgesAssumption
    <2>3. QED
      BY <2>1, <2>2 DEF Init, StreamOK
  <1>2. StreamOK /\ [Next]_vars => StreamOK'
    <2> SUFFICES ASSUME StreamOK, [Next]_vars PROVE StreamOK'
      OBVIOUS
    <2>1. stream' = stream
      BY DEF Next, vars, ReadLines, ReadChunk, Drain, Ends, Leave, Write, Sent, ReaderGone
    <2>2. ASSUME NEW chunk \in Chunks, pos' = pos + Len(chunk) PROVE StreamOK'
      BY <2>1, <2>2, ChunkIsNext, BridgesAssumption DEF StreamOK
    <2>3. CASE pos' = pos
      BY <2>1, <2>3 DEF StreamOK
    <2>4. ReadLines \/ ReadChunk \/ Drain => \E chunk \in Chunks : pos' = pos + Len(chunk)
      BY DEF ReadLines, ReadChunk, Drain
    <2>5. QED
      BY <2>2, <2>3, <2>4 DEF Next, vars, ioVars, Ends, Leave, Write, Sent, ReaderGone
  <1>3. QED
    BY <1>1, <1>2, PTL DEF Spec

\* _Tail keeps the last bytes of a stream, and says how many it dropped, for every chunk
\* size and every limit.
THEOREM TailKeepsTheEnd == Spec => []TailExact
  <1>1. Init => TailExact
    BY BridgesAssumption DEF Init, TailExact
  <1>2. ASSUME StreamOK, TailExact, [Next]_vars PROVE TailExact'
    <2>1. UNCHANGED <<kind, stream>>
      BY <1>2 DEF Next, vars, ReadLines, ReadChunk, Drain, Ends, Leave, Write, Sent, ReaderGone
    <2>2. CASE kind # "tail"
      BY <2>1, <2>2 DEF TailExact
    <2>3. ASSUME kind = "tail", Drain PROVE TailExact'
      <3>1. PICK chunk \in Chunks : pos' = pos + Len(chunk) /\ KeepTail(data \o chunk)
        BY <2>3 DEF Drain
      <3>2. PICK n \in 1 .. Chunk : /\ pos + n <= Len(stream) /\ Len(chunk) = n
                                    /\ chunk = SubSeq(stream, pos + 1, pos + n)
        BY <1>2, ChunkIsNext
      <3>3. n \in Nat /\ Limit \in Nat /\ pos \in Nat /\ pos <= Len(stream) /\ stream \in Seq(Bytes)
        BY <1>2, BridgesAssumption DEF StreamOK
      <3>4. /\ dropped = (IF pos > Limit THEN pos - Limit ELSE 0)
            /\ data = SubSeq(stream, dropped + 1, pos)
        BY <1>2, <2>3 DEF TailExact
      <3>5. dropped \in Nat /\ dropped <= pos
        BY <3>3, <3>4
      <3>6. data \o chunk = SubSeq(stream, dropped + 1, pos + n)
        <4>1. pos + n \in Nat /\ pos + n <= Len(stream)
          BY <3>2, <3>3
        <4>2. SubSeq(stream, dropped + 1, pos) \o SubSeq(stream, pos + 1, pos + n)
                = SubSeq(stream, dropped + 1, pos + n)
          BY <3>3, <3>5, <4>1, PiecesJoin
        <4>3. QED
          BY <3>2, <3>4, <4>2
      <3>7. Len(data \o chunk) = pos + n - dropped
        <4>1. /\ dropped + 1 \in Nat /\ pos + n \in Nat /\ dropped + 1 >= 1 /\ pos + n <= Len(stream)
              /\ dropped + 1 <= pos + n + 1 /\ n >= 1
          BY <3>2, <3>3, <3>5
        <4>2. Len(SubSeq(stream, dropped + 1, pos + n)) = pos + n - (dropped + 1) + 1
          BY <3>3, <4>1
        <4>3. QED
          BY <3>3, <3>5, <3>6, <4>1, <4>2
      <3>8. CASE pos + n - dropped > Limit
        <4>1. /\ dropped' = dropped + ((pos + n - dropped) - Limit)
              /\ data' = SubSeq(data \o chunk, (pos + n - dropped) - Limit + 1, pos + n - dropped)
          <5>1. PICK m : m = Len(data \o chunk)
            OBVIOUS
          <5>2. m = pos + n - dropped /\ m > Limit
            BY <3>7, <3>8, <5>1
          <5>3. /\ dropped' = dropped + (m - Limit)
                /\ data' = SubSeq(data \o chunk, m - Limit + 1, m)
            BY <3>1, <5>1, <5>2 DEF KeepTail
          <5>4. QED
            BY <3>3, <3>5, <5>2, <5>3
        <4>2. dropped' = pos + n - Limit /\ pos + n > Limit
          BY <3>3, <3>5, <3>8, <4>1
        <4>3. data' = SubSeq(stream, dropped + ((pos + n - dropped) - Limit) + 1, pos + n)
          BY <3>2, <3>3, <3>5, <3>6, <3>8, <4>1, PieceOfPiece
        <4>4. QED
          BY <2>1, <3>1, <3>2, <3>3, <3>5, <4>2, <4>3 DEF TailExact
      <3>9. CASE ~(pos + n - dropped > Limit)
        <4>1. dropped' = dropped /\ data' = data \o chunk
          BY <3>1, <3>7, <3>9 DEF KeepTail
        <4>2. dropped = 0 \/ dropped = pos - Limit
          BY <3>4
        <4>3. dropped = 0 /\ ~(pos + n > Limit)
          BY <3>2, <3>3, <3>4, <3>9, <4>2
        <4>4. QED
          BY <2>1, <3>1, <3>2, <3>6, <4>1, <4>3 DEF TailExact
      <3>10. QED
        BY <3>8, <3>9
    <2>4. ASSUME kind = "tail", ~Drain PROVE TailExact'
      <3>1. UNCHANGED <<pos, data, dropped>>
        BY <1>2, <2>4 DEF Next, vars, ioVars, tailVars, ReadLines, ReadChunk, Ends, Leave, Write, Sent,
                          ReaderGone
      <3>2. QED
        BY <1>2, <2>1, <3>1 DEF TailExact
    <2>5. QED
      BY <2>2, <2>3, <2>4
  <1>3. QED
    BY <1>1, <1>2, StreamInvariant, PTL DEF Spec

-----------------------------------------------------------------------------
(* Sequences *)

\* Sequences are put together from either end.
LEMMA Together == \A S : \A s, t, u \in Seq(S) : (s \o t) \o u = s \o (t \o u)
  BY ConcatAssociative

LEMMA PiecesTogether == \A s, t, u \in Seq(Seq(Bytes)) : (s \o t) \o u = s \o (t \o u)
  <1> DEFINE T == Seq(Bytes)
  <1> HIDE DEF T
  <1>1. \A s, t, u \in Seq(T) : (s \o t) \o u = s \o (t \o u)
    BY ConcatAssociative
  <1>2. QED
    BY <1>1 DEF T

LEMMA AppendTogether ==
    ASSUME NEW S, NEW s \in Seq(S), NEW t \in Seq(S), NEW e \in S
    PROVE  s \o Append(t, e) = Append(s \o t, e)
  <1> DEFINE one == <<e>>
  <1>1. one \in Seq(S) /\ s \o t \in Seq(S)
    BY ConcatProperties
  <1>2. Append(t, e) = t \o one /\ Append(s \o t, e) = (s \o t) \o one
    BY <1>1, AppendIsConcat
  <1> HIDE DEF one
  <1>3. (s \o t) \o one = s \o (t \o one)
    BY <1>1, Together
  <1>4. QED
    BY <1>2, <1>3

\* A set of numbers that is not empty has a least one.
LEMMA LeastNumber ==
    ASSUME NEW T \in SUBSET Nat, T # {}
    PROVE  \E n \in T : \A m \in T : n <= m
  <1> DEFINE R == {ss \in Nat \X Nat : ss[1] < ss[2]}
  <1>1. IsWellFoundedOn(R, Nat)
    BY NatLessThanWellFounded DEF OpToRel
  <1>2. \A m, n \in T : m < n => <<m, n>> \in R
    OBVIOUS
  <1> HIDE DEF R
  <1>3. PICK n \in T : \A m \in T : <<m, n>> \notin R
    BY <1>1, WFMin
  <1>4. \A m \in T : ~(m < n)
    BY <1>2, <1>3
  <1>5. \A m \in T : m \in Nat /\ n \in Nat
    OBVIOUS
  <1>6. QED
    BY <1>4, <1>5

\* A set of numbers with 0 and the successor of each of its numbers has all of them.
LEMMA Induction ==
    ASSUME NEW T \in SUBSET Nat, 0 \in T, \A n \in T : n + 1 \in T
    PROVE  \A n \in Nat : n \in T
  <1> SUFFICES ASSUME Nat \ T # {} PROVE FALSE
    OBVIOUS
  <1>1. PICK n \in Nat \ T : \A m \in Nat \ T : n <= m
    BY LeastNumber
  <1>2. n - 1 \in Nat /\ n - 1 \in T
    BY <1>1
  <1>3. QED
    BY <1>1, <1>2

\* A set with the empty sequence, and with each of its sequences the longer ones by one
\* element, has all sequences.
LEMMA SeqInduction ==
    ASSUME NEW T, NEW X, <<>> \in X,
           \A s \in Seq(T) : s \in X => \A e \in T : Append(s, e) \in X
    PROVE  \A s \in Seq(T) : s \in X
  <1> DEFINE N == {n \in Nat : \A s \in Seq(T) : Len(s) = n => s \in X}
  <1>1. 0 \in N
    <2>1. \A s \in Seq(T) : Len(s) = 0 => s = <<>>
      BY EmptySeq
    <2>2. QED
      BY <2>1
  <1>2. ASSUME NEW n \in N PROVE n + 1 \in N
    <2>1. ASSUME NEW s \in Seq(T), Len(s) = n + 1 PROVE s \in X
      <3>1. n \in Nat
        OBVIOUS
      <3>2. s # <<>>
        BY <2>1, <3>1, EmptySeq
      <3>3. PICK r \in Seq(T), e \in T : s = Append(r, e)
        BY <3>2, SequenceEmptyOrAppend
      <3>4. Len(r) + 1 = n + 1 /\ Len(r) \in Nat
        BY <2>1, <3>3, AppendProperties, LenProperties
      <3>5. Len(r) = n
        BY <3>1, <3>4
      <3>6. QED
        BY <3>3, <3>5
    <2>2. QED
      BY <2>1
  <1> HIDE DEF N
  <1>3. N \in SUBSET Nat
    BY DEF N
  <1>4. \A n \in Nat : n \in N
    BY <1>1, <1>2, <1>3, Induction
  <1>5. QED
    BY <1>4, LenProperties DEF N

\* A function that is given by its first value and by a step from each value to the next.
Steps(f, n, s0, g) == f[0] = s0 /\ \A i \in 1 .. n : f[i] = g[i][f[i - 1]]

LEMMA StepsExist ==
    ASSUME NEW S, NEW s0 \in S, NEW g \in [Nat -> [S -> S]]
    PROVE  \A n \in Nat : \E f \in [0 .. n -> S] : Steps(f, n, s0, g)
  <1> USE DEF Steps
  <1> DEFINE has(n) == \E f \in [0 .. n -> S] : Steps(f, n, s0, g)
             T == {n \in Nat : has(n)}
  <1>1. 0 \in T
    <2>1. [i \in 0 .. 0 |-> s0] \in [0 .. 0 -> S] /\ Steps([i \in 0 .. 0 |-> s0], 0, s0, g)
      OBVIOUS
    <2>2. QED
      BY <2>1
  <1>2. ASSUME NEW n \in Nat, has(n) PROVE has(n + 1)
    <2>1. PICK f \in [0 .. n -> S] : Steps(f, n, s0, g)
      BY <1>2
    <2> DEFINE h == [i \in 0 .. n + 1 |-> IF i = n + 1 THEN g[n + 1][f[n]] ELSE f[i]]
    <2>2. \A i \in 0 .. n + 1 : i = n + 1 \/ i \in 0 .. n
      OBVIOUS
    <2>3. h \in [0 .. n + 1 -> S]
      <3>1. n \in 0 .. n /\ n + 1 \in Nat
        OBVIOUS
      <3>2. g[n + 1][f[n]] \in S
        BY <3>1
      <3>3. QED
        BY <2>2, <3>2
    <2>4. h[0] = s0
      BY <2>1
    <2>5. ASSUME NEW i \in 1 .. n + 1 PROVE h[i] = g[i][h[i - 1]]
      <3>1. CASE i = n + 1
        <4>1. i - 1 = n /\ n \in 0 .. n + 1 /\ n # n + 1 /\ n + 1 \in 0 .. n + 1
          BY <3>1
        <4>2. QED
          BY <3>1, <4>1
      <3>2. CASE i # n + 1
        <4>1. i \in 1 .. n /\ i - 1 # n + 1 /\ i \in 0 .. n + 1 /\ i - 1 \in 0 .. n + 1
          BY <3>2
        <4>2. QED
          BY <2>1, <3>2, <4>1
      <3>3. QED
        BY <3>1, <3>2
    <2> HIDE DEF h
    <2>6. Steps(h, n + 1, s0, g)
      BY <2>4, <2>5
    <2>7. QED
      BY <2>3, <2>6
  <1> HIDE DEF has
  <1>3. T \in SUBSET Nat /\ \A n \in T : n + 1 \in T
    BY <1>2
  <1>4. \A n \in Nat : n \in T
    BY <1>1, <1>3, Induction
  <1>5. QED
    BY <1>4 DEF has

\* Two such functions are the same as far as their steps are.
LEMMA StepsUnique ==
    ASSUME NEW g, NEW n \in Nat, NEW f, NEW h, NEW s0,
           Steps(f, n, s0, g), Steps(h, n, s0, g)
    PROVE  \A i \in 0 .. n : f[i] = h[i]
  <1> USE DEF Steps
  <1> DEFINE T == {i \in Nat : i <= n => f[i] = h[i]}
  <1>1. 0 \in T
    OBVIOUS
  <1>2. ASSUME NEW i \in T PROVE i + 1 \in T
    <2>1. i \in Nat /\ i + 1 \in Nat
      OBVIOUS
    <2>2. ASSUME i + 1 <= n PROVE f[i + 1] = h[i + 1]
      <3>1. i + 1 \in 1 .. n /\ (i + 1) - 1 = i /\ i <= n
        BY <2>1, <2>2
      <3>2. f[i] = h[i]
        BY <3>1
      <3>3. f[i + 1] = g[i + 1][f[i]] /\ h[i + 1] = g[i + 1][h[i]]
        BY <3>1
      <3>4. QED
        BY <3>2, <3>3
    <2>3. QED
      BY <2>1, <2>2
  <1>3. T \in SUBSET Nat
    OBVIOUS
  <1> HIDE DEF T
  <1>4. \A i \in Nat : i \in T
    BY <1>1, <1>2, <1>3, Induction
  <1>5. QED
    BY <1>4 DEF T

-----------------------------------------------------------------------------
(* FlattenSeq *)

\* FlattenSeq takes one sequence after the other.
LEMMA FlattenSteps ==
    ASSUME NEW T, NEW ss \in Seq(Seq(T))
    PROVE  \E f \in [0 .. Len(ss) -> Seq(T)] :
             /\ f[0] = <<>>
             /\ \A i \in 1 .. Len(ss) : f[i] = f[i - 1] \o ss[i]
             /\ FlattenSeq(ss) = f[Len(ss)]
  <1> DEFINE n == Len(ss)
             g == [i \in Nat |-> [x \in Seq(T) |-> IF i \in 1 .. n THEN x \o ss[i] ELSE x]]
  <1>1. n \in Nat /\ \A i \in 1 .. n : ss[i] \in Seq(T)
    BY LenProperties, ElementOfSeq
  <1>2. <<>> \in Seq(T)
    BY EmptySeq
  <1>3. g \in [Nat -> [Seq(T) -> Seq(T)]]
    BY <1>1, ConcatProperties
  <1> HIDE DEF n
  <1>4. PICK f \in [0 .. n -> Seq(T)] : Steps(f, n, <<>>, g)
    <2> HIDE DEF g
    <2>1. QED
      BY <1>1, <1>2, <1>3, StepsExist
  <1>5. \A i \in 1 .. n : f[i] = f[i - 1] \o ss[i]
    <2> SUFFICES ASSUME NEW i \in 1 .. n PROVE f[i] = f[i - 1] \o ss[i]
      OBVIOUS
    <2>1. i \in Nat /\ i - 1 \in 0 .. n
      BY <1>1
    <2>2. f[i - 1] \in Seq(T)
      BY <2>1
    <2>3. g[i][f[i - 1]] = f[i - 1] \o ss[i]
      BY <2>1, <2>2
    <2>4. QED
      BY <1>4, <2>3 DEF Steps
  <1>6. FlattenSeq(ss) = f[n]
    <2>1. CASE n = 0
      <3>1. ss = <<>>
        BY <2>1, EmptySeq DEF n
      <3>2. QED
        BY <1>4, <2>1, <3>1 DEF FlattenSeq, n, Steps
    <2>2. CASE n # 0
      <3> DEFINE Flat(h) == h = [i \in 1 .. n |-> IF i = 1 THEN ss[i] ELSE h[i - 1] \o ss[i]]
                 c == CHOOSE k : Flat(k)
      <3>1. Flat([i \in 1 .. n |-> f[i]])
        <4> DEFINE k == [i \in 1 .. n |-> f[i]]
        <4>1. ASSUME NEW i \in 1 .. n PROVE k[i] = IF i = 1 THEN ss[i] ELSE k[i - 1] \o ss[i]
          <5>1. CASE i = 1
            <6>0. i - 1 = 0
              BY <5>1
            <6>1. f[i] = <<>> \o ss[i] /\ ss[i] \in Seq(T)
              BY <1>1, <1>4, <1>5, <6>0 DEF Steps
            <6>2. <<>> \o ss[i] = ss[i]
              BY <6>1, ConcatEmptySeq
            <6>3. QED
              BY <5>1, <6>1, <6>2
          <5>2. CASE i # 1
            <6>1. i - 1 \in 1 .. n
              BY <1>1, <5>2
            <6>2. QED
              BY <1>5, <5>2, <6>1
          <5>3. QED
            BY <5>1, <5>2
        <4>2. QED
          BY <4>1
      <3>2. Flat(c)
        BY <3>1
      <3>3. FlattenSeq(ss) = c[n]
        BY <2>2 DEF FlattenSeq, n
      <3> HIDE DEF c
      <3> DEFINE k == [i \in 0 .. n |-> IF i = 0 THEN <<>> ELSE c[i]]
      <3>4. k[0] = f[0]
        BY <1>1, <1>4 DEF Steps
      <3>5. \A i \in 1 .. n : c[i] = IF i = 1 THEN ss[i] ELSE c[i - 1] \o ss[i]
        BY <3>2
      <3>6. ASSUME NEW i \in 0 .. n PROVE k[i] = f[i]
        <4> DEFINE M == {m \in Nat : m <= n => k[m] = f[m]}
        <4>1. 0 \in M
          BY <3>4
        <4>2. ASSUME NEW m \in M PROVE m + 1 \in M
          <5>1. m \in Nat /\ m + 1 \in Nat /\ (m + 1) - 1 = m
            OBVIOUS
          <5>2. ASSUME m + 1 <= n PROVE k[m + 1] = f[m + 1]
            <6>1. m + 1 \in 1 .. n /\ m \in 0 .. n /\ m + 1 \in 0 .. n /\ m + 1 # 0 /\ m <= n
              BY <1>1, <5>1, <5>2
            <6>2. f[m + 1] = f[m] \o ss[m + 1] /\ k[m] = f[m] /\ k[m + 1] = c[m + 1]
              BY <1>5, <5>1, <6>1
            <6>3. CASE m = 0
              <7>1. m + 1 = 1 /\ 1 \in 1 .. n
                BY <6>1, <6>3
              <7>2. f[1] = <<>> \o ss[1] /\ ss[1] \in Seq(T) /\ c[1] = ss[1]
                BY <1>1, <1>4, <3>5, <6>2, <6>3, <7>1 DEF Steps
              <7>3. <<>> \o ss[1] = ss[1]
                BY <7>2, ConcatEmptySeq
              <7>4. QED
                BY <6>2, <7>1, <7>2, <7>3
            <6>4. CASE m # 0
              <7>0. m + 1 # 1
                BY <5>1, <6>4
              <7>1. c[m + 1] = c[m] \o ss[m + 1]
                BY <3>5, <5>1, <6>1, <7>0
              <7>2. k[m] = c[m]
                BY <6>1, <6>4
              <7>3. QED
                BY <6>2, <7>1, <7>2
            <6>5. QED
              BY <6>3, <6>4
          <5>3. QED
            BY <5>1, <5>2
        <4>3. M \in SUBSET Nat
          OBVIOUS
        <4> HIDE DEF M
        <4>4. \A m \in Nat : m \in M
          BY <4>1, <4>2, <4>3, Induction
        <4>5. i \in M /\ i <= n
          BY <1>1, <4>4
        <4>6. QED
          BY <4>5 DEF M
      <3>7. QED
        BY <1>1, <2>2, <3>3, <3>6
    <2>3. QED
      BY <2>1, <2>2
  <1>7. QED
    BY <1>4, <1>5, <1>6 DEF n, Steps

\* FlattenSeq of a longer sequence has the new element at its end.
LEMMA FlattenAppend ==
    ASSUME NEW T, NEW ss \in Seq(Seq(T)), NEW x \in Seq(T)
    PROVE  /\ FlattenSeq(ss) \in Seq(T)
           /\ FlattenSeq(Append(ss, x)) = FlattenSeq(ss) \o x
  <1> DEFINE n == Len(ss)
             tt == Append(ss, x)
  <1>1. /\ tt \in Seq(Seq(T)) /\ Len(tt) = n + 1 /\ tt[n + 1] = x
        /\ \A i \in 1 .. n : tt[i] = ss[i]
    BY AppendProperties
  <1>2. n \in Nat
    BY LenProperties
  <1>3. PICK f \in [0 .. n -> Seq(T)] :
          /\ f[0] = <<>> /\ \A i \in 1 .. n : f[i] = f[i - 1] \o ss[i]
          /\ FlattenSeq(ss) = f[n]
    BY FlattenSteps
  <1> HIDE DEF n, tt
  <1>4. PICK h \in [0 .. n + 1 -> Seq(T)] :
          /\ h[0] = <<>> /\ \A i \in 1 .. n + 1 : h[i] = h[i - 1] \o tt[i]
          /\ FlattenSeq(tt) = h[n + 1]
    <2>1. \E h \in [0 .. Len(tt) -> Seq(T)] :
            /\ h[0] = <<>> /\ \A i \in 1 .. Len(tt) : h[i] = h[i - 1] \o tt[i]
            /\ FlattenSeq(tt) = h[Len(tt)]
      BY <1>1, FlattenSteps
    <2>2. QED
      BY <1>1, <2>1
  <1>5. ASSUME NEW i \in Nat PROVE i <= n => f[i] = h[i]
    <2> DEFINE M == {m \in Nat : m <= n => f[m] = h[m]}
    <2>1. 0 \in M
      BY <1>3, <1>4
    <2>2. ASSUME NEW m \in M PROVE m + 1 \in M
      <3>1. m \in Nat /\ m + 1 \in Nat /\ (m + 1) - 1 = m
        OBVIOUS
      <3>2. ASSUME m + 1 <= n PROVE f[m + 1] = h[m + 1]
        <4>1. m + 1 \in 1 .. n /\ m + 1 \in 1 .. n + 1 /\ m <= n
          BY <1>2, <3>1, <3>2
        <4>2. f[m + 1] = f[m] \o ss[m + 1] /\ h[m + 1] = h[m] \o tt[m + 1]
          BY <1>3, <1>4, <3>1, <4>1
        <4>3. f[m] = h[m]
          BY <4>1
        <4>4. QED
          BY <1>1, <4>1, <4>2, <4>3
      <3>3. QED
        BY <3>1, <3>2
    <2>3. M \in SUBSET Nat
      OBVIOUS
    <2> HIDE DEF M
    <2>4. \A m \in Nat : m \in M
      BY <2>1, <2>2, <2>3, Induction
    <2>5. QED
      BY <2>4 DEF M
  <1>6. h[n] = f[n] /\ f[n] \in Seq(T)
    BY <1>2, <1>5
  <1>7. h[n + 1] = h[n] \o tt[n + 1]
    <2>1. n + 1 \in 1 .. n + 1 /\ (n + 1) - 1 = n
      BY <1>2
    <2>2. QED
      BY <1>4, <2>1
  <1>8. QED
    BY <1>1, <1>3, <1>4, <1>6, <1>7 DEF tt

\* FlattenSeq of no sequence, and of two sequences one after the other.
LEMMA FlattenEmpty == FlattenSeq(<<>>) = <<>>
  BY EmptySeq DEF FlattenSeq

LEMMA FlattenConcat ==
    ASSUME NEW T, NEW a \in Seq(Seq(T)), NEW b \in Seq(Seq(T))
    PROVE  FlattenSeq(a \o b) = FlattenSeq(a) \o FlattenSeq(b)
  <1> DEFINE S == Seq(T)
             X == {s \in Seq(S) : FlattenSeq(a \o s) = FlattenSeq(a) \o FlattenSeq(s)}
  <1>0. FlattenSeq(a) \in S
    BY FlattenAppend, EmptySeq
  <1>1. <<>> \in X
    <2>1. a \o <<>> = a /\ <<>> \in Seq(S)
      BY ConcatEmptySeq, EmptySeq
    <2>2. FlattenSeq(a) \o <<>> = FlattenSeq(a)
      BY <1>0, ConcatEmptySeq
    <2>3. QED
      BY <2>1, <2>2, FlattenEmpty
  <1>2. ASSUME NEW s \in Seq(S), s \in X, NEW x \in S PROVE Append(s, x) \in X
    <2>1. a \o s \in Seq(S) /\ Append(s, x) \in Seq(S)
      BY ConcatProperties, AppendProperties
    <2>2. a \o Append(s, x) = Append(a \o s, x)
      OBVIOUS
    <2>3. FlattenSeq(a \o Append(s, x)) = FlattenSeq(a \o s) \o x
      BY <2>1, <2>2, FlattenAppend
    <2>4. FlattenSeq(Append(s, x)) = FlattenSeq(s) \o x /\ FlattenSeq(s) \in S
      BY FlattenAppend
    <2>5. (FlattenSeq(a) \o FlattenSeq(s)) \o x = FlattenSeq(a) \o (FlattenSeq(s) \o x)
      BY <1>0, <2>4, Together
    <2>6. QED
      BY <1>2, <2>1, <2>3, <2>4, <2>5
  <1> HIDE DEF X
  <1>3. \A s \in Seq(S) : s \in X
    BY <1>1, <1>2, SeqInduction
  <1>4. QED
    BY <1>3 DEF X

-----------------------------------------------------------------------------
(* Split *)

Pieces == Seq(Seq(Bytes)) \ {<<>>}

\* A byte goes to the last piece, and a separator begins another one.
LEMMA AddByteFacts ==
    ASSUME NEW p \in Pieces, NEW b \in Bytes, NEW sep
    PROVE  /\ AddByte(p, b, sep) \in Pieces
           /\ b = sep => AddByte(p, b, sep) = Append(p, <<>>)
           /\ b # sep => /\ Len(AddByte(p, b, sep)) = Len(p)
                             /\ Last(AddByte(p, b, sep)) = Append(Last(p), b)
                             /\ Front(AddByte(p, b, sep)) = Front(p)
  <1>1. /\ p \in Seq(Seq(Bytes)) /\ Len(p) \in Nat /\ Len(p) # 0
        /\ \A i \in 1 .. Len(p) : p[i] \in Seq(Bytes)
    BY EmptySeq, LenProperties, ElementOfSeq DEF Pieces
  <1>2. CASE b = sep
    <2>1. AddByte(p, b, sep) = Append(p, <<>>) /\ <<>> \in Seq(Bytes)
      BY <1>2 DEF AddByte
    <2>2. Append(p, <<>>) \in Pieces
      BY <1>1, <2>1, AppendProperties DEF Pieces
    <2>3. QED
      BY <1>2, <2>1, <2>2
  <1>3. CASE b # sep
    <2> DEFINE e == Append(p[Len(p)], b)
               q == [p EXCEPT ![Len(p)] = e]
    <2>1. AddByte(p, b, sep) = q
      BY <1>1, <1>3 DEF AddByte
    <2>2. Len(p) \in 1 .. Len(p) /\ e \in Seq(Bytes)
      BY <1>1, AppendProperties
    <2> HIDE DEF e
    <2>3. /\ q \in Seq(Seq(Bytes)) /\ Len(q) = Len(p)
          /\ \A j \in 1 .. Len(p) : q[j] = IF j = Len(p) THEN e ELSE p[j]
      BY <1>1, <2>2, ExceptSeq
    <2> HIDE DEF q
    <2>4. q \in Pieces
      BY <1>1, <2>3, EmptySeq DEF Pieces
    <2>5. Last(q) = Append(Last(p), b)
      BY <2>2, <2>3 DEF Last, e
    <2>6. Front(q) = Front(p)
      <3>1. /\ Front(q) = SubSeq(q, 1, Len(p) - 1) /\ Front(p) = SubSeq(p, 1, Len(p) - 1)
            /\ Len(p) - 1 \in Int
        BY <1>1, <2>3 DEF Front
      <3>2. \A j \in 1 .. Len(p) - 1 : q[j] = p[j] /\ q[j] \in Seq(Bytes) /\ p[j] \in Seq(Bytes)
        BY <1>1, <2>3
      <3>3. /\ Front(p) \in Seq(Seq(Bytes))
            /\ Len(Front(p)) = IF 1 <= Len(p) - 1 THEN Len(p) - 1 - 1 + 1 ELSE 0
            /\ \A j \in 1 .. Len(p) - 1 - 1 + 1 : Front(p)[j] = p[1 + j - 1]
        BY <3>1, <3>2, SubSeqProperties
      <3>4. /\ Front(q) \in Seq(Seq(Bytes))
            /\ Len(Front(q)) = IF 1 <= Len(p) - 1 THEN Len(p) - 1 - 1 + 1 ELSE 0
            /\ \A j \in 1 .. Len(p) - 1 - 1 + 1 : Front(q)[j] = q[1 + j - 1]
        BY <3>1, <3>2, SubSeqProperties
      <3>5. \A j \in 1 .. Len(Front(p)) : Front(p)[j] = p[j] /\ Front(q)[j] = q[j] /\ j \in 1 .. Len(p) - 1
        BY <1>1, <3>3, <3>4
      <3>6. Len(Front(q)) = Len(Front(p)) /\ \A j \in 1 .. Len(Front(q)) : Front(q)[j] = Front(p)[j]
        BY <3>2, <3>3, <3>4, <3>5
      <3>7. QED
        BY <3>3, <3>4, <3>6, SeqEqual
    <2>7. QED
      BY <1>3, <2>1, <2>3, <2>4, <2>5, <2>6
  <1>4. QED
    BY <1>2, <1>3

\* Split takes one byte after the other.
LEMMA SplitAtSteps ==
    ASSUME NEW d \in Seq(Bytes), NEW sep
    PROVE  \E f \in [0 .. Len(d) -> Pieces] :
             /\ f[0] = << <<>> >>
             /\ \A i \in 1 .. Len(d) : f[i] = AddByte(f[i - 1], d[i], sep)
             /\ SplitAt(d, sep) = f[Len(d)]
  <1> DEFINE n == Len(d)
             one == << <<>> >>
             add(p, b) == AddByte(p, b, sep)
             g == [i \in Nat |-> [p \in Pieces |-> IF i \in 1 .. n THEN add(p, d[i]) ELSE p]]
  <1> HIDE DEF add
  <1>1. n \in Nat /\ \A i \in 1 .. n : d[i] \in Bytes
    BY LenProperties, ElementOfSeq
  <1>2. one \in Pieces
    <2>1. <<>> \in Seq(Bytes)
      OBVIOUS
    <2>2. one \in Seq(Seq(Bytes)) /\ one # <<>>
      BY <2>1
    <2>3. QED
      BY <2>2 DEF Pieces
  <1> HIDE DEF n, one
  <1>3. g \in [Nat -> [Pieces -> Pieces]]
    BY <1>1, AddByteFacts DEF add
  <1>4. PICK f \in [0 .. n -> Pieces] : Steps(f, n, one, g)
    <2> HIDE DEF g
    <2>1. QED
      BY <1>1, <1>2, <1>3, StepsExist
  <1>5. \A i \in 1 .. n : f[i] = add(f[i - 1], d[i])
    <2> SUFFICES ASSUME NEW i \in 1 .. n PROVE f[i] = add(f[i - 1], d[i])
      OBVIOUS
    <2>1. i \in Nat /\ i - 1 \in 0 .. n
      BY <1>1
    <2>2. f[i - 1] \in Pieces
      BY <2>1
    <2>3. g[i][f[i - 1]] = add(f[i - 1], d[i])
      BY <2>1, <2>2
    <2>4. QED
      BY <1>4, <2>3 DEF Steps
  <1> DEFINE Upto(h) == h = [i \in 0 .. n |-> IF i = 0 THEN one ELSE add(h[i - 1], d[i])]
             c == CHOOSE h : Upto(h)
  <1>6. Upto(f)
    <2>1. ASSUME NEW i \in 0 .. n PROVE f[i] = IF i = 0 THEN one ELSE add(f[i - 1], d[i])
      <3>1. CASE i = 0
        BY <1>4, <3>1 DEF Steps
      <3>2. CASE i # 0
        <4>1. i \in 1 .. n
          BY <1>1, <3>2
        <4>2. QED
          BY <1>5, <3>2, <4>1
      <3>3. QED
        BY <3>1, <3>2
    <2>2. QED
      BY <2>1
  <1>7. Upto(c)
    BY <1>6
  <1>8. SplitAt(d, sep) = c[n]
    BY DEF SplitAt, n, one, add
  <1> HIDE DEF c
  <1>9. \A i \in 0 .. n : c[i] = f[i]
    <2>1. \A i \in 0 .. n : c[i] = IF i = 0 THEN one ELSE add(c[i - 1], d[i])
      BY <1>7
    <2> DEFINE M == {m \in Nat : m <= n => c[m] = f[m]}
    <2>2. 0 \in M
      BY <1>1, <1>4, <2>1 DEF Steps
    <2>3. ASSUME NEW m \in M PROVE m + 1 \in M
      <3>1. m \in Nat /\ m + 1 \in Nat /\ (m + 1) - 1 = m /\ m + 1 # 0
        OBVIOUS
      <3>2. ASSUME m + 1 <= n PROVE c[m + 1] = f[m + 1]
        <4>1. m + 1 \in 1 .. n /\ m + 1 \in 0 .. n /\ m <= n
          BY <1>1, <3>1, <3>2
        <4>2. f[m + 1] = add(f[m], d[m + 1])
          BY <1>5, <3>1, <4>1
        <4>3. c[m + 1] = add(c[m], d[m + 1])
          BY <2>1, <3>1, <4>1
        <4>4. c[m] = f[m]
          BY <4>1
        <4>5. QED
          BY <4>2, <4>3, <4>4
      <3>3. QED
        BY <3>1, <3>2
    <2>4. M \in SUBSET Nat
      OBVIOUS
    <2> HIDE DEF M
    <2>5. \A m \in Nat : m \in M
      BY <2>2, <2>3, <2>4, Induction
    <2>6. QED
      BY <1>1, <2>5 DEF M
  <1>10. SplitAt(d, sep) = f[n]
    BY <1>1, <1>8, <1>9
  <1>11. QED
    BY <1>4, <1>5, <1>10 DEF Steps, n, one, add

\* The pieces of a longer sequence have the new byte added.
LEMMA SplitAtEmpty == \A sep : SplitAt(<<>>, sep) = << <<>> >>
  <1>1. <<>> \in Seq(Bytes) /\ Len(<<>>) = 0
    OBVIOUS
  <1>2. QED
    BY <1>1, SplitAtSteps

LEMMA SplitAtAppend ==
    ASSUME NEW d \in Seq(Bytes), NEW b \in Bytes, NEW sep
    PROVE  SplitAt(d, sep) \in Pieces /\ SplitAt(Append(d, b), sep) = AddByte(SplitAt(d, sep), b, sep)
  <1> DEFINE n == Len(d)
             dd == Append(d, b)
             add(p, x) == AddByte(p, x, sep)
  <1> HIDE DEF add
  <1>1. dd \in Seq(Bytes) /\ Len(dd) = n + 1 /\ dd[n + 1] = b /\ \A i \in 1 .. n : dd[i] = d[i]
    BY AppendProperties
  <1>2. n \in Nat
    BY LenProperties
  <1>3. PICK f \in [0 .. n -> Pieces] :
          /\ f[0] = << <<>> >> /\ \A i \in 1 .. n : f[i] = add(f[i - 1], d[i])
          /\ SplitAt(d, sep) = f[n]
    BY SplitAtSteps DEF add
  <1> HIDE DEF n, dd
  <1>4. PICK h \in [0 .. n + 1 -> Pieces] :
          /\ h[0] = << <<>> >> /\ \A i \in 1 .. n + 1 : h[i] = add(h[i - 1], dd[i])
          /\ SplitAt(dd, sep) = h[n + 1]
    <2>1. \E h \in [0 .. Len(dd) -> Pieces] :
            /\ h[0] = << <<>> >> /\ \A i \in 1 .. Len(dd) : h[i] = add(h[i - 1], dd[i])
            /\ SplitAt(dd, sep) = h[Len(dd)]
      BY <1>1, SplitAtSteps DEF add
    <2>2. QED
      BY <1>1, <2>1
  <1>5. ASSUME NEW i \in Nat PROVE i <= n => f[i] = h[i]
    <2> DEFINE M == {m \in Nat : m <= n => f[m] = h[m]}
    <2>1. 0 \in M
      BY <1>3, <1>4
    <2>2. ASSUME NEW m \in M PROVE m + 1 \in M
      <3>1. m \in Nat /\ m + 1 \in Nat /\ (m + 1) - 1 = m
        OBVIOUS
      <3>2. ASSUME m + 1 <= n PROVE f[m + 1] = h[m + 1]
        <4>1. m + 1 \in 1 .. n /\ m + 1 \in 1 .. n + 1 /\ m <= n
          BY <1>2, <3>1, <3>2
        <4>2. f[m + 1] = add(f[m], d[m + 1]) /\ h[m + 1] = add(h[m], dd[m + 1])
          BY <1>3, <1>4, <3>1, <4>1
        <4>3. f[m] = h[m]
          BY <4>1
        <4>4. QED
          BY <1>1, <4>1, <4>2, <4>3
      <3>3. QED
        BY <3>1, <3>2
    <2>3. M \in SUBSET Nat
      OBVIOUS
    <2> HIDE DEF M
    <2>4. \A m \in Nat : m \in M
      BY <2>1, <2>2, <2>3, Induction
    <2>5. QED
      BY <2>4 DEF M
  <1>6. h[n] = f[n] /\ f[n] \in Pieces
    BY <1>2, <1>5
  <1>7. h[n + 1] = add(h[n], dd[n + 1])
    <2>1. n + 1 \in 1 .. n + 1 /\ (n + 1) - 1 = n
      BY <1>2
    <2>2. QED
      BY <1>4, <2>1
  <1>8. QED
    BY <1>1, <1>3, <1>4, <1>6, <1>7 DEF dd, add

LEMMA SplitEmpty == Split(<<>>) = << <<>> >>
  BY SplitAtEmpty DEF Split

LEMMA SplitAppend ==
    ASSUME NEW d \in Seq(Bytes), NEW b \in Bytes
    PROVE  Split(d) \in Pieces /\ Split(Append(d, b)) = AddByte(Split(d), b, Newline)
  BY SplitAtAppend DEF Split

-----------------------------------------------------------------------------
(* Lines *)

\* A sequence is what comes before its last element, and that element.
LEMMA FrontLast ==
    ASSUME NEW S, NEW p \in Seq(S), p # <<>>
    PROVE  /\ Front(p) \in Seq(S) /\ Last(p) \in S /\ p = Append(Front(p), Last(p))
           /\ Len(p) \in Nat \ {0} /\ Len(Front(p)) = Len(p) - 1
  <1>1. PICK q \in Seq(S), x \in S : p = Append(q, x)
    BY SequenceEmptyOrAppend
  <1>2. Len(p) = Len(q) + 1 /\ Len(q) \in Nat /\ \A i \in 1 .. Len(q) : p[i] = q[i]
    BY <1>1, AppendProperties, LenProperties
  <1>3. Last(p) = x
    BY <1>1, <1>2, AppendProperties DEF Last
  <1>4. Front(p) = q
    <2>1. Front(p) = SubSeq(p, 1, Len(q))
      BY <1>2 DEF Front
    <2>2. \A i \in 1 .. Len(q) : p[i] \in S
      BY <1>2, ElementOfSeq
    <2>3. /\ SubSeq(p, 1, Len(q)) \in Seq(S)
          /\ Len(SubSeq(p, 1, Len(q))) = IF 1 <= Len(q) THEN Len(q) - 1 + 1 ELSE 0
          /\ \A i \in 1 .. Len(q) - 1 + 1 : SubSeq(p, 1, Len(q))[i] = p[1 + i - 1]
      BY <1>2, <2>2, SubSeqProperties
    <2>4. Len(SubSeq(p, 1, Len(q))) = Len(q)
      BY <1>2, <2>3
    <2>5. \A i \in 1 .. Len(q) : SubSeq(p, 1, Len(q))[i] = q[i]
      BY <1>2, <2>3
    <2>6. QED
      BY <2>1, <2>3, <2>4, <2>5, SeqEqual
  <1>5. QED
    BY <1>1, <1>2, <1>3, <1>4

LEMMA FrontLastAppend ==
    ASSUME NEW S, NEW q \in Seq(S), NEW x \in S
    PROVE  Front(Append(q, x)) = q /\ Last(Append(q, x)) = x
  <1>1. Append(q, x) \in Seq(S) /\ Append(q, x) # <<>>
    BY AppendProperties
  <1>2. Append(q, x) = Append(Front(Append(q, x)), Last(Append(q, x)))
    BY <1>1, FrontLast
  <1>3. Front(Append(q, x)) \in Seq(S) /\ Last(Append(q, x)) \in S
    BY <1>1, FrontLast
  <1>4. QED
    BY <1>2, <1>3, AppendInjective

\* Pieces without a newline, and the lines that they are.
Plain == {l \in Seq(Bytes) : Newline \notin Range(l)}

Terminated(q) == [i \in DOMAIN q |-> Append(q[i], Newline)]

LEMMA TerminatedFacts ==
    ASSUME NEW q \in Seq(Seq(Bytes))
    PROVE  /\ Terminated(q) \in Seq(Seq(Bytes)) /\ Len(Terminated(q)) = Len(q)
           /\ \A x \in Seq(Bytes) :
                Terminated(Append(q, x)) = Append(Terminated(q), Append(x, Newline))
  <1>1. Newline \in Bytes
    BY BridgesAssumption
  <1>2. /\ Len(q) \in Nat /\ DOMAIN q = 1 .. Len(q)
        /\ \A i \in 1 .. Len(q) : q[i] \in Seq(Bytes)
    BY LenProperties, ElementOfSeq
  <1>3. \A i \in 1 .. Len(q) : Append(q[i], Newline) \in Seq(Bytes)
    BY <1>1, <1>2, AppendProperties
  <1>4. Terminated(q) = [i \in 1 .. Len(q) |-> Append(q[i], Newline)]
    BY <1>2 DEF Terminated
  <1>5. Terminated(q) \in Seq(Seq(Bytes)) /\ Len(Terminated(q)) = Len(q)
    BY <1>2, <1>3, <1>4
  <1>6. ASSUME NEW x \in Seq(Bytes)
        PROVE  Terminated(Append(q, x)) = Append(Terminated(q), Append(x, Newline))
    <2> DEFINE qx == Append(q, x)
               s == Terminated(qx)
               t == Append(Terminated(q), Append(x, Newline))
    <2>1. /\ qx \in Seq(Seq(Bytes)) /\ Len(qx) = Len(q) + 1 /\ qx[Len(q) + 1] = x
          /\ \A i \in 1 .. Len(q) : qx[i] = q[i]
      BY AppendProperties
    <2>2. DOMAIN qx = 1 .. Len(q) + 1
      BY <2>1, LenProperties
    <2>3. Append(x, Newline) \in Seq(Bytes)
      BY <1>1, AppendProperties
    <2>4. /\ t \in Seq(Seq(Bytes)) /\ Len(t) = Len(q) + 1 /\ t[Len(q) + 1] = Append(x, Newline)
          /\ \A i \in 1 .. Len(q) : t[i] = Terminated(q)[i]
      BY <1>5, <2>3, AppendProperties
    <2>5. s = [i \in 1 .. Len(q) + 1 |-> Append(qx[i], Newline)]
      BY <2>2 DEF Terminated
    <2>6. \A i \in 1 .. Len(q) + 1 : i = Len(q) + 1 \/ i \in 1 .. Len(q)
      BY <1>2
    <2> HIDE DEF qx, t, s
    <2>7. \A i \in 1 .. Len(q) + 1 : s[i] = t[i]
      <3>1. ASSUME NEW i \in 1 .. Len(q) + 1 PROVE s[i] = t[i]
        <4>1. s[i] = Append(qx[i], Newline)
          BY <2>5
        <4>2. CASE i = Len(q) + 1
          BY <2>1, <2>4, <4>1, <4>2
        <4>3. CASE i \in 1 .. Len(q)
          <5>1. qx[i] = q[i] /\ t[i] = Append(q[i], Newline)
            BY <1>4, <2>1, <2>4, <4>3
          <5>2. QED
            BY <4>1, <5>1
        <4>4. QED
          BY <2>6, <4>2, <4>3
      <3>2. QED
        BY <3>1
    <2>8. t = [i \in 1 .. Len(q) + 1 |-> t[i]]
      BY <2>4, LenProperties
    <2>9. s = t
      BY <2>5, <2>7, <2>8
    <2>10. QED
      BY <2>9 DEF s, t, qx
  <1>7. QED
    BY <1>5, <1>6

LEMMA TerminatedEmpty == Terminated(<<>>) = <<>>
  BY DEF Terminated

LEMMA PlainPieces == Seq(Plain) \subseteq Seq(Seq(Bytes)) /\ <<>> \in Plain
  <1>1. Plain \subseteq Seq(Bytes)
    BY DEF Plain
  <1>2. \A s \in Seq(Plain) : s \in Seq(Seq(Bytes))
    BY <1>1, SeqMonotonic
  <1>3. <<>> \in Seq(Bytes) /\ Range(<<>>) = {}
    BY DEF Range
  <1>4. QED
    BY <1>2, <1>3 DEF Plain

\* The bytes of a sequence with one more.
LEMMA RangeAppend ==
    ASSUME NEW T, NEW s \in Seq(T), NEW b \in T
    PROVE  Range(Append(s, b)) = Range(s) \cup {b}
  <1>1. Append(s, b) = s \o <<b>> /\ <<b>> \in Seq(T)
    BY AppendIsConcat
  <1>2. Range(<<b>>) = {b}
    BY DEF Range
  <1> DEFINE r == <<b>>
  <1> HIDE DEF r
  <1>3. Range(s \o r) = Range(s) \cup Range(r)
    BY <1>1, RangeConcatenation DEF r
  <1>4. QED
    BY <1>1, <1>2, <1>3 DEF r

\* The newlines of a stream, and of a stream with one more byte.
LEMMA NewlinesEmpty == Newlines(<<>>) = 0
  <1>1. {i \in DOMAIN <<>> : <<>>[i] = Newline} = {}
    OBVIOUS
  <1>2. QED
    BY <1>1, FS_EmptySet DEF Newlines

LEMMA NewlinesAppend ==
    ASSUME NEW d \in Seq(Bytes), NEW b \in Bytes
    PROVE  /\ Newlines(d) \in Nat
           /\ Newlines(Append(d, b)) = Newlines(d) + (IF b = Newline THEN 1 ELSE 0)
  <1> DEFINE A == {i \in DOMAIN d : d[i] = Newline}
             B == {i \in DOMAIN Append(d, b) : Append(d, b)[i] = Newline}
             n == Len(d)
  <1>1. n \in Nat /\ DOMAIN d = 1 .. n /\ DOMAIN Append(d, b) = 1 .. n + 1
    <2>1. Append(d, b) \in Seq(Bytes) /\ Len(Append(d, b)) = n + 1
      BY AppendProperties
    <2>2. QED
      BY <2>1, LenProperties
  <1>2. Append(d, b)[n + 1] = b /\ \A i \in 1 .. n : Append(d, b)[i] = d[i]
    BY AppendProperties
  <1>3. IsFiniteSet(A)
    <2>1. A \in SUBSET (1 .. n) /\ IsFiniteSet(1 .. n)
      BY <1>1, FS_Interval
    <2>2. QED
      BY <2>1, FS_Subset
  <1>4. Newlines(d) = Cardinality(A) /\ Newlines(Append(d, b)) = Cardinality(B)
    BY DEF Newlines
  <1>5. Cardinality(A) \in Nat
    BY <1>3, FS_CardinalityType
  <1>6. CASE b = Newline
    <2>1. B = A \cup {n + 1} /\ n + 1 \notin A
      <3> HIDE DEF n
      <3>1. \A i \in 1 .. n + 1 : i = n + 1 \/ i \in 1 .. n
        BY <1>1
      <3>2. n + 1 \notin 1 .. n /\ n + 1 \in 1 .. n + 1 /\ 1 .. n \subseteq 1 .. n + 1
        BY <1>1
      <3>3. QED
        BY <1>1, <1>2, <1>6, <3>1, <3>2
    <2>2. Cardinality(B) = Cardinality(A) + 1
      <3>1. Cardinality(A \cup {n + 1}) = IF n + 1 \in A THEN Cardinality(A) ELSE Cardinality(A) + 1
        BY <1>3, FS_AddElement
      <3>2. QED
        BY <2>1, <3>1
    <2>3. Newlines(Append(d, b)) = Newlines(d) + 1
      BY <1>4, <2>2
    <2>4. QED
      BY <1>4, <1>5, <1>6, <2>3
  <1>7. CASE b # Newline
    <2>1. B = A
      <3> HIDE DEF n
      <3>1. \A i \in 1 .. n + 1 : i = n + 1 \/ i \in 1 .. n
        BY <1>1
      <3>2. 1 .. n \subseteq 1 .. n + 1
        BY <1>1
      <3>3. QED
        BY <1>1, <1>2, <1>7, <3>1, <3>2
    <2>2. Newlines(Append(d, b)) = Newlines(d) /\ Newlines(d) \in Nat
      BY <1>4, <1>5, <2>1
    <2>3. Newlines(d) + 0 = Newlines(d)
      BY <2>2
    <2>4. QED
      BY <1>7, <2>2, <2>3
  <1>8. QED
    BY <1>6, <1>7

\* split() takes a block apart at its newlines.
LEMMA SplitFacts ==
    ASSUME NEW d \in Seq(Bytes)
    PROVE  /\ Split(d) \in Seq(Plain) /\ Split(d) # <<>>
           /\ d = FlattenSeq(Terminated(Front(Split(d)))) \o Last(Split(d))
           /\ Newlines(d) = Len(Front(Split(d)))
  <1> DEFINE Good(e) == /\ Split(e) \in Seq(Plain) /\ Split(e) # <<>>
                        /\ e = FlattenSeq(Terminated(Front(Split(e)))) \o Last(Split(e))
                        /\ Newlines(e) = Len(Front(Split(e)))
             X == {e \in Seq(Bytes) : Good(e)}
  <1>1. <<>> \in X
    <2>1. << <<>> >> = Append(<<>>, <<>>) /\ <<>> \in Seq(Plain) /\ <<>> \in Seq(Bytes)
      OBVIOUS
    <2>2. Front(<< <<>> >>) = <<>> /\ Last(<< <<>> >>) = <<>>
      BY <2>1, PlainPieces, FrontLastAppend
    <2>3. << <<>> >> \in Seq(Plain) /\ << <<>> >> # <<>>
      BY PlainPieces
    <2>4. <<>> \o <<>> = <<>> /\ Len(<<>>) = 0
      BY <2>1, ConcatEmptySeq
    <2>5. Newlines(<<>>) = 0
      BY NewlinesEmpty
    <2>6. QED
      BY <2>1, <2>2, <2>3, <2>4, <2>5, SplitEmpty, TerminatedEmpty, FlattenEmpty
  <1>2. ASSUME NEW e \in Seq(Bytes), e \in X, NEW b \in Bytes PROVE Append(e, b) \in X
    <2> DEFINE p == Split(e)
               q == Split(Append(e, b))
    <2>1. q = AddByte(p, b, Newline) /\ p \in Pieces
      BY SplitAppend
    <2>2. /\ p \in Seq(Plain) /\ p # <<>>
          /\ e = FlattenSeq(Terminated(Front(p))) \o Last(p) /\ Newlines(e) = Len(Front(p))
      BY <1>2
    <2>3. Append(e, b) \in Seq(Bytes)
      BY AppendProperties
    <2> HIDE DEF p, q
    <2>4. /\ Front(p) \in Seq(Plain) /\ Last(p) \in Plain /\ p = Append(Front(p), Last(p))
          /\ Len(p) \in Nat \ {0} /\ Len(Front(p)) = Len(p) - 1
      BY <2>2, FrontLast
    <2>5. Front(p) \in Seq(Seq(Bytes)) /\ Last(p) \in Seq(Bytes)
      BY <2>4, PlainPieces DEF Plain
    <2>6. FlattenSeq(Terminated(Front(p))) \in Seq(Bytes) /\ Terminated(Front(p)) \in Seq(Seq(Bytes))
      <3>1. Terminated(Front(p)) \in Seq(Seq(Bytes))
        BY <2>5, TerminatedFacts
      <3>2. <<>> \in Seq(Bytes)
        OBVIOUS
      <3>3. QED
        BY <3>1, <3>2, FlattenAppend
    <2>7. /\ <<b>> \in Seq(Bytes) /\ Append(e, b) = e \o <<b>>
          /\ Append(Last(p), b) = Last(p) \o <<b>> /\ Append(Last(p), b) \in Seq(Bytes)
      BY <2>5, AppendIsConcat, AppendProperties
    <2>8. Append(e, b) = FlattenSeq(Terminated(Front(p))) \o Append(Last(p), b)
      <3> DEFINE x == FlattenSeq(Terminated(Front(p)))
      <3>1. x \in Seq(Bytes) /\ e = x \o Last(p) /\ Last(p) \in Seq(Bytes)
        BY <2>2, <2>5, <2>6
      <3> HIDE DEF x
      <3>2. x \o Append(Last(p), b) = Append(x \o Last(p), b)
        BY <3>1, AppendTogether
      <3>3. QED
        BY <3>1, <3>2 DEF x
    <2>9. CASE b = Newline
      <3>1. q = Append(p, <<>>) /\ <<>> \in Plain /\ <<>> \in Seq(Bytes)
        BY <2>1, <2>9, AddByteFacts, PlainPieces DEF Plain
      <3>2. q \in Seq(Plain) /\ q # <<>> /\ Front(q) = p /\ Last(q) = <<>>
        BY <2>2, <3>1, AppendProperties, FrontLastAppend
      <3>3. Terminated(p) = Append(Terminated(Front(p)), Append(Last(p), b))
        BY <2>4, <2>5, <2>9, TerminatedFacts
      <3>4. FlattenSeq(Terminated(p)) = FlattenSeq(Terminated(Front(p))) \o Append(Last(p), b)
        BY <2>6, <2>7, <3>3, FlattenAppend
      <3>5. Append(e, b) \o <<>> = Append(e, b)
        BY <2>3, ConcatEmptySeq
      <3>6. Newlines(Append(e, b)) = Newlines(e) + 1 /\ Newlines(e) \in Nat
        BY <2>9, NewlinesAppend
      <3>7. Newlines(Append(e, b)) = Len(Front(q))
        BY <2>2, <2>4, <3>2, <3>6
      <3>8. QED
        BY <2>3, <2>8, <3>2, <3>4, <3>5, <3>7 DEF q
    <2>10. CASE b # Newline
      <3>1. /\ q \in Pieces /\ Len(q) = Len(p) /\ Last(q) = Append(Last(p), b)
            /\ Front(q) = Front(p)
        BY <2>1, <2>10, AddByteFacts
      <3>2. q = Append(Front(p), Append(Last(p), b)) /\ q # <<>>
        BY <3>1, FrontLast DEF Pieces
      <3>3. Append(Last(p), b) \in Plain
        <4>1. Range(Append(Last(p), b)) = Range(Last(p)) \cup {b}
          BY <2>5, RangeAppend
        <4>2. Newline \notin Range(Last(p))
          BY <2>4 DEF Plain
        <4>3. QED
          BY <2>7, <2>10, <4>1, <4>2 DEF Plain
      <3>4. q \in Seq(Plain)
        BY <2>4, <3>2, <3>3, AppendProperties
      <3>5. Newlines(Append(e, b)) = Newlines(e)
        BY <2>10, NewlinesAppend
      <3>6. QED
        BY <2>2, <2>3, <2>8, <3>1, <3>2, <3>4, <3>5 DEF q
    <2>11. QED
      BY <2>9, <2>10
  <1> HIDE DEF X
  <1>3. \A e \in Seq(Bytes) : e \in X
    BY <1>1, <1>2, SeqInduction
  <1>4. QED
    BY <1>3 DEF X

\* A stream that ends where a line ends.
Whole(s) == s = <<>> \/ Last(s) = Newline

LEMMA LastConcat ==
    ASSUME NEW T, NEW s \in Seq(T), NEW t \in Seq(T), t # <<>>
    PROVE  s \o t # <<>> /\ Last(s \o t) = Last(t) /\ Last(t) \in Range(t)
  <1>1. Len(t) \in Nat \ {0} /\ Len(s) \in Nat /\ DOMAIN t = 1 .. Len(t)
    BY EmptySeq, LenProperties
  <1>2. /\ s \o t \in Seq(T) /\ Len(s \o t) = Len(s) + Len(t)
        /\ \A i \in 1 .. Len(s) + Len(t) :
             (s \o t)[i] = IF i <= Len(s) THEN s[i] ELSE t[i - Len(s)]
    BY ConcatProperties
  <1> DEFINE n == Len(s)
             m == Len(t)
  <1>3. n + m \in 1 .. n + m /\ ~(n + m <= n) /\ (n + m) - n = m /\ n + m # 0 /\ m \in 1 .. m
    <2>1. n \in Nat /\ m \in Nat \ {0}
      BY <1>1
    <2> HIDE DEF n, m
    <2>2. QED
      BY <2>1
  <1>4. Last(s \o t) = Last(t)
    BY <1>2, <1>3 DEF Last
  <1>5. s \o t # <<>>
    BY <1>2, <1>3, EmptySeq
  <1>6. Last(t) \in Range(t)
    BY <1>1, <1>3 DEF Last, Range
  <1>7. QED
    BY <1>4, <1>5, <1>6

\* Complete lines, and what follows them.
LEMMA WholeLines ==
    ASSUME NEW q \in Seq(Seq(Bytes))
    PROVE  FlattenSeq(Terminated(q)) \in Seq(Bytes) /\ Whole(FlattenSeq(Terminated(q)))
  <1>1. Terminated(q) \in Seq(Seq(Bytes)) /\ <<>> \in Seq(Bytes) /\ Newline \in Bytes
    BY TerminatedFacts, EmptySeq, BridgesAssumption
  <1>2. FlattenSeq(Terminated(q)) \in Seq(Bytes)
    BY <1>1, FlattenAppend
  <1>3. CASE q = <<>>
    BY <1>2, <1>3, TerminatedEmpty, FlattenEmpty DEF Whole
  <1>4. CASE q # <<>>
    <2>1. PICK r \in Seq(Seq(Bytes)), x \in Seq(Bytes) : q = Append(r, x)
      BY <1>4, SequenceEmptyOrAppend
    <2>2. Terminated(q) = Append(Terminated(r), Append(x, Newline)) /\ Terminated(r) \in Seq(Seq(Bytes))
      BY <2>1, TerminatedFacts
    <2>3. Append(x, Newline) \in Seq(Bytes) /\ Append(x, Newline) # <<>>
      BY <1>1, AppendProperties
    <2>4. /\ FlattenSeq(Terminated(q)) = FlattenSeq(Terminated(r)) \o Append(x, Newline)
          /\ FlattenSeq(Terminated(r)) \in Seq(Bytes)
      BY <2>2, <2>3, FlattenAppend
    <2>5. Last(Append(x, Newline)) = Newline
      BY <1>1, FrontLastAppend
    <2>6. QED
      BY <1>2, <2>3, <2>4, <2>5, LastConcat DEF Whole
  <1>5. QED
    BY <1>3, <1>4

\* An end without a newline does not end a line.
LEMMA NotWhole ==
    ASSUME NEW s \in Seq(Bytes), NEW l \in Plain, l # <<>>
    PROVE  s \o l # <<>> /\ Last(s \o l) # Newline
  BY LastConcat DEF Plain

\* peek() is given the lines of a block, each whole and none empty.
Line == {l \in Seq(Bytes) : l # <<>> /\ Newline \notin Range(Front(l))}

LEMMA LinesFacts ==
    ASSUME NEW d \in Seq(Bytes)
    PROVE  /\ LinesOf(d) \in Seq(Line) /\ FlattenSeq(LinesOf(d)) = d
           /\ Len(LinesOf(d)) = NumberOfLines(d)
  <1> DEFINE p == Split(d)
             t == Terminated(Front(p))
             e == IF Last(p) = <<>> THEN <<>> ELSE <<Last(p)>>
  <1>1. /\ p \in Seq(Plain) /\ p # <<>> /\ d = FlattenSeq(t) \o Last(p)
        /\ Newlines(d) = Len(Front(p))
    BY SplitFacts
  <1>2. /\ Front(p) \in Seq(Plain) /\ Last(p) \in Plain /\ p = Append(Front(p), Last(p))
        /\ Len(p) \in Nat \ {0} /\ Len(Front(p)) = Len(p) - 1
    BY <1>1, FrontLast
  <1>3. Front(p) \in Seq(Seq(Bytes)) /\ Last(p) \in Seq(Bytes)
    BY <1>2, PlainPieces DEF Plain
  <1>4. LinesOf(d) = t \o e
    <2>1. DOMAIN Front(p) = 1 .. Len(p) - 1 /\ \A i \in 1 .. Len(p) - 1 : Front(p)[i] = p[i]
      BY <1>2, AppendProperties, LenProperties
    <2>2. t = [i \in 1 .. Len(p) - 1 |-> Append(p[i], Newline)]
      BY <2>1 DEF Terminated
    <2>3. QED
      BY <2>2 DEF LinesOf
  <1>5. t \in Seq(Line)
    <2>1. Len(t) = Len(Front(p)) /\ t \in Seq(Seq(Bytes))
      BY <1>3, TerminatedFacts
    <2>2. ASSUME NEW i \in 1 .. Len(t) PROVE t[i] \in Line
      <3>1. i \in DOMAIN Front(p) /\ Front(p)[i] \in Plain
        BY <1>2, <2>1, LenProperties, ElementOfSeq
      <3>2. t[i] = Append(Front(p)[i], Newline)
        BY <3>1 DEF Terminated
      <3>3. Front(p)[i] \in Seq(Bytes) /\ Newline \in Bytes /\ Newline \notin Range(Front(p)[i])
        BY <3>1, BridgesAssumption DEF Plain
      <3>4. t[i] \in Seq(Bytes) /\ t[i] # <<>> /\ Front(t[i]) = Front(p)[i]
        BY <3>2, <3>3, AppendProperties, FrontLastAppend
      <3>5. QED
        BY <3>3, <3>4 DEF Line
    <2>3. t \in [1 .. Len(t) -> Seq(Bytes)] /\ Len(t) \in Nat
      BY <2>1, LenProperties
    <2> HIDE DEF t
    <2>4. t \in [1 .. Len(t) -> Line]
      BY <2>2, <2>3
    <2>5. QED
      BY <2>3, <2>4, SeqDef
  <1>6. ASSUME NEW l \in Plain, l # <<>> PROVE l \in Line
    <2>1. l \in Seq(Bytes) /\ Newline \notin Range(l)
      BY DEF Plain
    <2>2. Front(l) \in Seq(Bytes) /\ Last(l) \in Bytes /\ l = Append(Front(l), Last(l))
      BY <1>6, <2>1, FrontLast
    <2>3. Range(l) = Range(Front(l)) \cup {Last(l)}
      <3>1. Range(Append(Front(l), Last(l))) = Range(Front(l)) \cup {Last(l)}
        BY <2>2, RangeAppend
      <3>2. QED
        BY <2>2, <3>1
    <2>4. QED
      BY <1>6, <2>1, <2>3 DEF Line
  <1>7. /\ e \in Seq(Line) /\ Len(e) = IF Last(p) = <<>> THEN 0 ELSE 1
        /\ FlattenSeq(e) = Last(p)
    <2>1. CASE Last(p) = <<>>
      BY <2>1, FlattenEmpty, EmptySeq
    <2>2. CASE Last(p) # <<>>
      <3>1. Last(p) \in Line
        BY <1>2, <1>6, <2>2
      <3>2. e = Append(<<>>, Last(p)) /\ e = <<Last(p)>>
        BY <1>3, <2>2
      <3>3. <<>> \in Seq(Line) /\ <<>> \in Seq(Seq(Bytes))
        BY EmptySeq
      <3>4. e \in Seq(Line) /\ Len(e) = 1
        BY <3>1, <3>2, <3>3, AppendProperties
      <3>5. FlattenSeq(e) = <<>> \o Last(p)
        BY <1>3, <3>2, <3>3, FlattenAppend, FlattenEmpty
      <3>6. <<>> \o Last(p) = Last(p)
        BY <1>3, ConcatEmptySeq
      <3>7. QED
        BY <2>2, <3>4, <3>5, <3>6
    <2>3. QED
      BY <2>1, <2>2
  <1>8. Len(t) = Len(Front(p)) /\ t \in Seq(Seq(Bytes))
    BY <1>3, TerminatedFacts
  <1>9. FlattenSeq(t) \in Seq(Bytes) /\ Whole(FlattenSeq(t))
    BY <1>3, WholeLines
  <1>10. NumberOfLines(d) = Len(Front(p)) + (IF Last(p) = <<>> THEN 0 ELSE 1)
    <2>1. CASE Last(p) = <<>>
      <3>1. d = FlattenSeq(t)
        BY <1>1, <1>9, <2>1, ConcatEmptySeq
      <3>2. Whole(d)
        BY <1>9, <3>1
      <3>3. QED
        BY <1>1, <2>1, <3>2 DEF NumberOfLines, Whole
    <2>2. CASE Last(p) # <<>>
      <3>1. d # <<>> /\ Last(d) # Newline
        BY <1>1, <1>2, <1>9, <2>2, NotWhole
      <3>2. QED
        BY <1>1, <2>2, <3>1 DEF NumberOfLines
    <2>3. QED
      BY <2>1, <2>2
  <1> HIDE DEF p, t, e
  <1>11. t \o e \in Seq(Line) /\ Len(t \o e) = Len(t) + Len(e)
    BY <1>5, <1>7, ConcatProperties
  <1>12. FlattenSeq(t \o e) = d
    <2>1. Line \subseteq Seq(Bytes)
      BY DEF Line
    <2>2. e \in Seq(Seq(Bytes))
      BY <1>7, <2>1, SeqMonotonic
    <2>3. QED
      BY <1>1, <1>7, <1>8, <2>2, FlattenConcat
  <1>13. QED
    BY <1>4, <1>7, <1>8, <1>10, <1>11, <1>12

\* What two parts of a stream hold.
LEMMA NewlinesConcat ==
    ASSUME NEW a \in Seq(Bytes), NEW b \in Seq(Bytes)
    PROVE  Newlines(a \o b) = Newlines(a) + Newlines(b)
  <1> DEFINE X == {s \in Seq(Bytes) : Newlines(a \o s) = Newlines(a) + Newlines(s)}
  <1>0. Newline \in Bytes
    BY BridgesAssumption
  <1>1. <<>> \in X
    <2>1. a \o <<>> = a /\ <<>> \in Seq(Bytes)
      BY ConcatEmptySeq
    <2>2. Newlines(<<>>) = 0
      BY NewlinesEmpty
    <2>3. Newlines(a) \in Nat
      BY <1>0, NewlinesAppend
    <2>4. QED
      BY <2>1, <2>2, <2>3
  <1>2. ASSUME NEW s \in Seq(Bytes), s \in X, NEW c \in Bytes PROVE Append(s, c) \in X
    <2>1. a \o s \in Seq(Bytes) /\ Append(s, c) \in Seq(Bytes)
      BY ConcatProperties, AppendProperties
    <2>2. a \o Append(s, c) = Append(a \o s, c)
      OBVIOUS
    <2>3. Newlines(Append(a \o s, c)) = Newlines(a \o s) + (IF c = Newline THEN 1 ELSE 0)
      BY <2>1, NewlinesAppend
    <2>4. Newlines(Append(s, c)) = Newlines(s) + (IF c = Newline THEN 1 ELSE 0)
      BY NewlinesAppend
    <2>5. Newlines(a) \in Nat /\ Newlines(s) \in Nat
      BY NewlinesAppend
    <2>6. Newlines(a \o s) = Newlines(a) + Newlines(s)
      BY <1>2
    <2> DEFINE x == Newlines(a)
               y == Newlines(s)
               z == IF c = Newline THEN 1 ELSE 0
    <2>7. (x + y) + z = x + (y + z)
      <3>1. x \in Nat /\ y \in Nat /\ z \in Nat
        BY <2>5
      <3> HIDE DEF x, y, z
      <3>2. QED
        BY <3>1
    <2>8. Newlines(a \o Append(s, c)) = Newlines(a) + Newlines(Append(s, c))
      BY <2>2, <2>3, <2>4, <2>6, <2>7
    <2>9. QED
      BY <2>1, <2>8
  <1> HIDE DEF X
  <1>3. \A s \in Seq(Bytes) : s \in X
    BY <1>1, <1>2, SeqInduction
  <1>4. QED
    BY <1>3 DEF X

LEMMA NumberConcat ==
    ASSUME NEW a \in Seq(Bytes), NEW b \in Seq(Bytes), Whole(a)
    PROVE  NumberOfLines(a \o b) = NumberOfLines(a) + NumberOfLines(b)
  <1>1. Newline \in Bytes /\ Newlines(a) \in Nat /\ Newlines(b) \in Nat
    BY BridgesAssumption, NewlinesAppend
  <1>2. NumberOfLines(a) = Newlines(a)
    BY <1>1 DEF Whole, NumberOfLines
  <1>3. CASE b = <<>>
    <2>1. a \o b = a
      BY <1>3, ConcatEmptySeq
    <2>2. Newlines(b) = 0
      BY <1>3, NewlinesEmpty
    <2>3. NumberOfLines(b) = 0
      BY <1>3, <2>2 DEF NumberOfLines
    <2>4. QED
      BY <1>1, <1>2, <2>1, <2>3
  <1>4. CASE b # <<>>
    <2>1. a \o b # <<>> /\ Last(a \o b) = Last(b)
      BY <1>4, LastConcat
    <2>2. Newlines(a \o b) = Newlines(a) + Newlines(b)
      BY NewlinesConcat
    <2>3. QED
      BY <1>1, <1>2, <1>4, <2>1, <2>2 DEF NumberOfLines
  <1>5. QED
    BY <1>3, <1>4

-----------------------------------------------------------------------------
(* filter() *)

\* Passed(), for filter().
Dropped(s, i) == \E j \in DOMAIN s : SameLine(s, i, j) /\ s[j] = Unwanted
Marked(s) == [i \in DOMAIN s |-> IF Dropped(s, i) THEN <<>> ELSE <<s[i]>>]
Sieved(s) == FlattenSeq(Marked(s))

LEMMA PassedIsSieved == \A s : Passed(s) = IF kind # "filter" THEN s ELSE Sieved(s)
  BY DEF Passed, Sieved, Marked, Dropped

LEMMA MarkedFacts ==
    ASSUME NEW s \in Seq(Bytes)
    PROVE  /\ Marked(s) \in Seq(Seq(Bytes)) /\ Len(Marked(s)) = Len(s)
           /\ DOMAIN s = 1 .. Len(s) /\ Len(s) \in Nat
           /\ Sieved(s) \in Seq(Bytes)
  <1>1. DOMAIN s = 1 .. Len(s) /\ Len(s) \in Nat /\ \A i \in 1 .. Len(s) : s[i] \in Bytes
    BY LenProperties, ElementOfSeq
  <1>2. \A i \in 1 .. Len(s) : <<s[i]>> \in Seq(Bytes) /\ <<>> \in Seq(Bytes)
    BY <1>1
  <1>3. Marked(s) = [i \in 1 .. Len(s) |-> IF Dropped(s, i) THEN <<>> ELSE <<s[i]>>]
    BY <1>1 DEF Marked
  <1>4. Marked(s) \in Seq(Seq(Bytes)) /\ Len(Marked(s)) = Len(s)
    <2>1. Marked(s) \in [1 .. Len(s) -> Seq(Bytes)]
      BY <1>2, <1>3
    <2>2. QED
      BY <1>1, <2>1
  <1>5. Sieved(s) \in Seq(Bytes)
    BY <1>4, FlattenAppend, EmptySeq DEF Sieved
  <1>6. QED
    BY <1>1, <1>4, <1>5

\* Behind the end of a line another one begins: nothing before it has an effect behind it.
LEMMA SievedConcat ==
    ASSUME NEW s \in Seq(Bytes), NEW d \in Seq(Bytes), Whole(s)
    PROVE  Sieved(s \o d) = Sieved(s) \o Sieved(d)
  <1> DEFINE n == Len(s)
             m == Len(d)
             c == s \o d
  <1>1. /\ DOMAIN s = 1 .. n /\ n \in Nat /\ DOMAIN d = 1 .. m /\ m \in Nat
        /\ Marked(s) \in Seq(Seq(Bytes)) /\ Len(Marked(s)) = n
        /\ Marked(d) \in Seq(Seq(Bytes)) /\ Len(Marked(d)) = m
    BY MarkedFacts
  <1>2. /\ c \in Seq(Bytes) /\ Len(c) = n + m /\ DOMAIN c = 1 .. n + m
        /\ \A i \in 1 .. n + m : c[i] = IF i <= n THEN s[i] ELSE d[i - n]
    BY ConcatProperties, LenProperties
  <1>3. Marked(c) \in Seq(Seq(Bytes)) /\ Len(Marked(c)) = n + m
    BY <1>2, MarkedFacts
  <1>4. n # 0 => s[n] = Newline
    BY EmptySeq DEF Whole, Last
  <1> HIDE DEF n, m, c
  <1>5. \A i \in 1 .. n : i \in 1 .. n + m /\ c[i] = s[i]
    BY <1>1, <1>2
  <1>6. \A i \in 1 .. m : n + i \in 1 .. n + m /\ c[n + i] = d[i]
    <2> SUFFICES ASSUME NEW i \in 1 .. m PROVE n + i \in 1 .. n + m /\ c[n + i] = d[i]
      OBVIOUS
    <2>1. n + i \in 1 .. n + m /\ ~(n + i <= n) /\ (n + i) - n = i
      BY <1>1
    <2>2. QED
      BY <1>2, <2>1
  <1>7. ASSUME NEW i \in 1 .. n PROVE Dropped(c, i) <=> Dropped(s, i)
    <2>0. i \in Int /\ 1 <= i /\ i <= n
      BY <1>1
    <2>1. ASSUME NEW j \in 1 .. n + m, SameLine(c, i, j), c[j] = Unwanted PROVE Dropped(s, i)
      <3>1. j \in 1 .. n
        <4> SUFFICES ASSUME j > n PROVE FALSE
          BY <1>1
        <4>1. n \in 1 .. n /\ n # 0
          BY <1>1
        <4>2. n \in DOMAIN c /\ c[n] = Newline
          BY <1>2, <1>4, <1>5, <4>1
        <4>3. (i <= n /\ n < j)
          BY <1>1, <2>0
        <4>4. QED
          BY <2>1, <4>2, <4>3 DEF SameLine
      <3>2. \A k \in 1 .. n : k \in DOMAIN c /\ c[k] = s[k]
        BY <1>2, <1>5
      <3>3. SameLine(s, i, j)
        BY <1>1, <2>1, <3>2 DEF SameLine
      <3>4. s[j] = Unwanted
        BY <2>1, <3>1, <3>2
      <3>5. QED
        BY <1>1, <3>1, <3>3, <3>4 DEF Dropped
    <2>2. ASSUME NEW j \in 1 .. n, SameLine(s, i, j), s[j] = Unwanted PROVE Dropped(c, i)
      <3>1. ASSUME NEW k \in 1 .. n + m, (i <= k /\ k < j) \/ (j <= k /\ k < i)
            PROVE  c[k] # Newline
        <4>1. k \in 1 .. n
          BY <1>1, <3>1
        <4>2. s[k] # Newline
          BY <1>1, <2>2, <3>1, <4>1 DEF SameLine
        <4>3. QED
          BY <1>5, <4>1, <4>2
      <3>2. SameLine(c, i, j)
        BY <1>2, <3>1 DEF SameLine
      <3>3. j \in DOMAIN c /\ c[j] = Unwanted
        BY <1>2, <1>5, <2>2
      <3>4. QED
        BY <3>2, <3>3 DEF Dropped
    <2>3. QED
      BY <1>1, <1>2, <2>1, <2>2 DEF Dropped
  <1>8. ASSUME NEW i \in 1 .. m PROVE Dropped(c, n + i) <=> Dropped(d, i)
    <2>0. i \in Int /\ 1 <= i /\ i <= m
      BY <1>1
    <2>1. ASSUME NEW j \in 1 .. n + m, SameLine(c, n + i, j), c[j] = Unwanted PROVE Dropped(d, i)
      <3>1. j > n
        <4> SUFFICES ASSUME j <= n PROVE FALSE
          BY <1>1
        <4>1. n \in 1 .. n /\ n # 0
          BY <1>1
        <4>2. n \in DOMAIN c /\ c[n] = Newline
          BY <1>2, <1>4, <1>5, <4>1
        <4>3. j <= n /\ n < n + i
          BY <1>1, <2>0
        <4>4. QED
          BY <2>1, <4>2, <4>3 DEF SameLine
      <3>2. PICK h \in 1 .. m : j = n + h
        <4>1. j - n \in 1 .. m /\ j = n + (j - n)
          BY <1>1, <3>1
        <4>2. QED
          BY <4>1
      <3>3. ASSUME NEW k \in 1 .. m, (i <= k /\ k < h) \/ (h <= k /\ k < i) PROVE d[k] # Newline
        <4>1. (n + i <= n + k /\ n + k < j) \/ (j <= n + k /\ n + k < n + i)
          BY <1>1, <3>2, <3>3
        <4>2. n + k \in DOMAIN c /\ c[n + k] = d[k]
          BY <1>2, <1>6
        <4>3. QED
          BY <2>1, <4>1, <4>2 DEF SameLine
      <3>4. SameLine(d, i, h) /\ d[h] = Unwanted
        BY <1>1, <1>6, <2>1, <3>2, <3>3 DEF SameLine
      <3>5. QED
        BY <1>1, <3>4 DEF Dropped
    <2>2. ASSUME NEW j \in 1 .. m, SameLine(d, i, j), d[j] = Unwanted PROVE Dropped(c, n + i)
      <3>1. ASSUME NEW k \in 1 .. n + m,
                   (n + i <= k /\ k < n + j) \/ (n + j <= k /\ k < n + i)
            PROVE  c[k] # Newline
        <4>1. PICK h \in 1 .. m : k = n + h
          <5>1. k - n \in 1 .. m /\ k = n + (k - n)
            BY <1>1, <3>1
          <5>2. QED
            BY <5>1
        <4>2. (i <= h /\ h < j) \/ (j <= h /\ h < i)
          BY <1>1, <3>1, <4>1
        <4>3. d[h] # Newline
          BY <1>1, <2>2, <4>2 DEF SameLine
        <4>4. QED
          BY <1>6, <4>1, <4>3
      <3>2. SameLine(c, n + i, n + j)
        BY <1>2, <3>1 DEF SameLine
      <3>3. n + j \in DOMAIN c /\ c[n + j] = Unwanted
        BY <1>2, <1>6, <2>2
      <3>4. QED
        BY <3>2, <3>3 DEF Dropped
    <2>3. QED
      BY <1>1, <1>2, <2>1, <2>2 DEF Dropped
  <1>9. Marked(c) = Marked(s) \o Marked(d)
    <2> DEFINE x == Marked(c)
               y == Marked(s) \o Marked(d)
    <2>1. /\ y \in Seq(Seq(Bytes)) /\ Len(y) = n + m
          /\ \A i \in 1 .. n + m : y[i] = IF i <= n THEN Marked(s)[i] ELSE Marked(d)[i - n]
      BY <1>1, ConcatProperties
    <2>2. ASSUME NEW i \in 1 .. n + m PROVE x[i] = y[i]
      <3>1. x[i] = IF Dropped(c, i) THEN <<>> ELSE <<c[i]>>
        BY <1>2 DEF Marked
      <3>2. CASE i <= n
        <4>1. i \in 1 .. n
          BY <1>1, <3>2
        <4>2. y[i] = IF Dropped(s, i) THEN <<>> ELSE <<s[i]>>
          BY <1>1, <2>1, <3>2, <4>1 DEF Marked
        <4>3. QED
          BY <1>5, <1>7, <3>1, <4>1, <4>2
      <3>3. CASE ~(i <= n)
        <4>1. PICK h \in 1 .. m : i = n + h /\ i - n = h
          <5>1. i - n \in 1 .. m /\ i = n + (i - n)
            BY <1>1, <3>3
          <5>2. QED
            BY <5>1
        <4>2. y[i] = Marked(d)[h]
          BY <2>1, <3>3, <4>1
        <4>3. Marked(d)[h] = IF Dropped(d, h) THEN <<>> ELSE <<d[h]>>
          BY <1>1 DEF Marked
        <4>4. (Dropped(c, i) <=> Dropped(d, h)) /\ c[i] = d[h]
          BY <1>6, <1>8, <4>1
        <4>5. QED
          BY <3>1, <4>2, <4>3, <4>4
      <3>4. QED
        BY <3>2, <3>3
    <2> HIDE DEF x, y
    <2>3. x \in Seq(Seq(Bytes)) /\ Len(x) = n + m
      BY <1>3 DEF x
    <2>4. x = y
      BY <2>1, <2>2, <2>3, SeqEqual
    <2>5. QED
      BY <2>4 DEF x, y
  <1>10. FlattenSeq(Marked(s) \o Marked(d)) = FlattenSeq(Marked(s)) \o FlattenSeq(Marked(d))
    BY <1>1, FlattenConcat
  <1>11. QED
    BY <1>9, <1>10 DEF Sieved, c

\* Of sequences of nothing, and of single bytes.
LEMMA FlattenNothing ==
    \A n \in Nat : FlattenSeq([i \in 1 .. n |-> <<>>]) = <<>>
  <1> DEFINE e(n) == [i \in 1 .. n |-> <<>>]
             N == {n \in Nat : FlattenSeq(e(n)) = <<>>}
  <1>1. 0 \in N
    <2>1. e(0) = <<>>
      OBVIOUS
    <2>2. QED
      BY <2>1, FlattenEmpty
  <1>2. ASSUME NEW n \in N PROVE n + 1 \in N
    <2>1. n \in Nat /\ FlattenSeq(e(n)) = <<>>
      OBVIOUS
    <2>2. <<>> \in Seq(Bytes) /\ e(n) \in Seq(Seq(Bytes))
      BY <2>1
    <2>3. e(n + 1) = Append(e(n), <<>>)
      BY <2>1
    <2>4. FlattenSeq(e(n + 1)) = <<>> \o <<>>
      BY <2>1, <2>2, <2>3, FlattenAppend
    <2>5. <<>> \o <<>> = <<>>
      BY <2>2, ConcatEmptySeq
    <2>6. QED
      BY <2>1, <2>4, <2>5
  <1>3. N \in SUBSET Nat
    OBVIOUS
  <1> HIDE DEF N
  <1>4. \A n \in Nat : n \in N
    BY <1>1, <1>2, <1>3, Induction
  <1>5. QED
    BY <1>4 DEF N

LEMMA FlattenSingles ==
    \A s \in Seq(Bytes) : FlattenSeq([i \in DOMAIN s |-> <<s[i]>>]) = s
  <1> DEFINE e(s) == [i \in DOMAIN s |-> <<s[i]>>]
             X == {s \in Seq(Bytes) : FlattenSeq(e(s)) = s}
  <1>1. <<>> \in X
    <2>1. e(<<>>) = <<>> /\ <<>> \in Seq(Bytes)
      OBVIOUS
    <2>2. QED
      BY <2>1, FlattenEmpty
  <1>2. ASSUME NEW s \in Seq(Bytes), s \in X, NEW b \in Bytes PROVE Append(s, b) \in X
    <2>1. /\ Append(s, b) \in Seq(Bytes) /\ Len(Append(s, b)) = Len(s) + 1
          /\ Append(s, b)[Len(s) + 1] = b /\ \A i \in 1 .. Len(s) : Append(s, b)[i] = s[i]
      BY AppendProperties
    <2>2. /\ Len(s) \in Nat /\ DOMAIN s = 1 .. Len(s) /\ \A i \in 1 .. Len(s) : s[i] \in Bytes
          /\ DOMAIN Append(s, b) = 1 .. Len(s) + 1
      BY <2>1, LenProperties, ElementOfSeq
    <2>3. \A i \in 1 .. Len(s) : <<s[i]>> \in Seq(Bytes)
      BY <2>2
    <2>4. e(s) \in Seq(Seq(Bytes)) /\ Len(e(s)) = Len(s) /\ <<b>> \in Seq(Bytes)
      <3>1. e(s) \in [1 .. Len(s) -> Seq(Bytes)]
        BY <2>2, <2>3
      <3>2. QED
        BY <2>2, <3>1
    <2>5. e(Append(s, b)) = Append(e(s), <<b>>)
      <3> DEFINE x == e(Append(s, b))
                 y == Append(e(s), <<b>>)
      <3>1. /\ y \in Seq(Seq(Bytes)) /\ Len(y) = Len(s) + 1 /\ y[Len(s) + 1] = <<b>>
            /\ \A i \in 1 .. Len(s) : y[i] = e(s)[i]
        BY <2>4, AppendProperties
      <3>2. DOMAIN y = 1 .. Len(s) + 1
        BY <3>1, LenProperties
      <3>3. ASSUME NEW i \in 1 .. Len(s) + 1 PROVE Append(s, b)[i] \in Bytes /\ <<Append(s, b)[i]>> = y[i]
        <4>1. CASE i = Len(s) + 1
          BY <2>1, <3>1, <4>1
        <4>2. CASE i # Len(s) + 1
          <5>1. i \in 1 .. Len(s)
            BY <2>2, <4>2
          <5>2. y[i] = <<s[i]>>
            BY <2>2, <3>1, <5>1
          <5>3. QED
            BY <2>1, <2>2, <5>1, <5>2
        <4>3. QED
          BY <4>1, <4>2
      <3>4. x = [i \in 1 .. Len(s) + 1 |-> <<Append(s, b)[i]>>]
        BY <2>2
      <3>5. y = [i \in 1 .. Len(s) + 1 |-> y[i]]
        BY <3>1, LenProperties
      <3> HIDE DEF x, y
      <3>6. x = y
        BY <3>3, <3>4, <3>5
      <3>7. QED
        BY <3>6 DEF x, y
    <2>6. FlattenSeq(e(Append(s, b))) = s \o <<b>>
      BY <1>2, <2>4, <2>5, FlattenAppend
    <2>7. Append(s, b) = s \o <<b>>
      BY AppendIsConcat
    <2>8. QED
      BY <2>1, <2>6, <2>7
  <1> HIDE DEF X
  <1>3. \A s \in Seq(Bytes) : s \in X
    BY <1>1, <1>2, SeqInduction
  <1>4. QED
    BY <1>3 DEF X

\* Of one line all bytes are dropped, or none.
LEMMA SievedLine ==
    ASSUME NEW s \in Seq(Bytes), \A i \in 1 .. Len(s) - 1 : s[i] # Newline
    PROVE  Sieved(s) = IF Unwanted \in Range(s) THEN <<>> ELSE s
  <1>1. DOMAIN s = 1 .. Len(s) /\ Len(s) \in Nat
    BY LenProperties
  <1>2. \A i, j \in 1 .. Len(s) : SameLine(s, i, j)
    <2> SUFFICES ASSUME NEW i \in 1 .. Len(s), NEW j \in 1 .. Len(s), NEW k \in 1 .. Len(s),
                        (i <= k /\ k < j) \/ (j <= k /\ k < i)
                 PROVE  s[k] # Newline
      BY <1>1 DEF SameLine
    <2>1. k \in 1 .. Len(s) - 1
      BY <1>1
    <2>2. QED
      BY <2>1
  <1>3. \A i \in 1 .. Len(s) : Dropped(s, i) <=> Unwanted \in Range(s)
    BY <1>1, <1>2 DEF Dropped, Range
  <1>4. CASE Unwanted \in Range(s)
    <2>1. Marked(s) = [i \in 1 .. Len(s) |-> <<>>]
      BY <1>1, <1>3, <1>4 DEF Marked
    <2>2. QED
      BY <1>1, <1>4, <2>1, FlattenNothing DEF Sieved
  <1>5. CASE Unwanted \notin Range(s)
    <2>1. Marked(s) = [i \in DOMAIN s |-> <<s[i]>>]
      BY <1>1, <1>3, <1>5 DEF Marked
    <2>2. QED
      BY <1>5, <2>1, FlattenSingles DEF Sieved
  <1>6. QED
    BY <1>4, <1>5

LEMMA SievedPlain ==
    ASSUME NEW l \in Plain
    PROVE  /\ Sieved(l) = IF Keep(l) THEN l ELSE <<>>
           /\ Sieved(Append(l, Newline)) = IF Keep(l) THEN Append(l, Newline) ELSE <<>>
  <1>1. l \in Seq(Bytes) /\ Newline \notin Range(l) /\ Newline \in Bytes /\ Newline # Unwanted
    BY BridgesAssumption DEF Plain
  <1>2. Len(l) \in Nat /\ \A i \in 1 .. Len(l) : l[i] # Newline
    BY <1>1, LenProperties DEF Range
  <1>3. Sieved(l) = IF Keep(l) THEN l ELSE <<>>
    <2>1. \A i \in 1 .. Len(l) - 1 : l[i] # Newline
      BY <1>2
    <2>2. QED
      BY <1>1, <2>1, SievedLine DEF Keep
  <1>4. Sieved(Append(l, Newline)) = IF Keep(l) THEN Append(l, Newline) ELSE <<>>
    <2> DEFINE t == Append(l, Newline)
    <2>1. /\ t \in Seq(Bytes) /\ Len(t) = Len(l) + 1 /\ \A i \in 1 .. Len(l) : t[i] = l[i]
      BY <1>1, AppendProperties
    <2>2. Range(t) = Range(l) \cup {Newline}
      BY <1>1, RangeAppend
    <2> HIDE DEF t
    <2>3. \A i \in 1 .. Len(t) - 1 : t[i] # Newline
      BY <1>2, <2>1
    <2>4. Sieved(t) = IF Unwanted \in Range(t) THEN <<>> ELSE t
      BY <2>1, <2>3, SievedLine
    <2>5. QED
      BY <1>1, <2>2, <2>4 DEF Keep, t
  <1>5. QED
    BY <1>3, <1>4

\* The kept pieces, and what they are joined to, with one piece more.
LEMMA KeptAppend ==
    ASSUME NEW r \in Seq(Plain), NEW x \in Plain
    PROVE  /\ Kept(r) \in Seq(Seq(Bytes))
           /\ Kept(Append(r, x)) = IF Keep(x) THEN Append(Kept(r), x) ELSE Kept(r)
  <1> DEFINE e(s) == [i \in DOMAIN s |-> IF Keep(s[i]) THEN <<s[i]>> ELSE <<>>]
             S == Seq(Bytes)
  <1>1. \A y \in Plain : y \in S
    BY DEF Plain
  <1>2. ASSUME NEW s \in Seq(Plain)
        PROVE  /\ e(s) \in Seq(Seq(S)) /\ Len(e(s)) = Len(s)
               /\ Len(s) \in Nat /\ DOMAIN s = 1 .. Len(s)
               /\ FlattenSeq(e(s)) \in Seq(S)
    <2>1. Len(s) \in Nat /\ DOMAIN s = 1 .. Len(s) /\ \A i \in 1 .. Len(s) : s[i] \in S
      BY <1>1, LenProperties, ElementOfSeq
    <2> HIDE DEF S
    <2>2. \A i \in 1 .. Len(s) : <<s[i]>> \in Seq(S) /\ <<>> \in Seq(S)
      BY <2>1
    <2>3. e(s) \in [1 .. Len(s) -> Seq(S)]
      BY <2>1, <2>2
    <2>4. e(s) \in Seq(Seq(S)) /\ Len(e(s)) = Len(s)
      BY <2>1, <2>3
    <2> HIDE DEF e
    <2>5. <<>> \in Seq(S)
      OBVIOUS
    <2>6. FlattenSeq(e(s)) \in Seq(S)
      BY <2>4, <2>5, FlattenAppend
    <2>7. QED
      BY <2>1, <2>4, <2>6
  <1> DEFINE new == IF Keep(x) THEN <<x>> ELSE <<>>
  <1>3. new \in Seq(S)
    <2>1. x \in S
      BY <1>1
    <2> HIDE DEF S
    <2>2. QED
      BY <2>1
  <1>4. /\ Append(r, x) \in Seq(Plain) /\ Len(Append(r, x)) = Len(r) + 1
        /\ Append(r, x)[Len(r) + 1] = x /\ \A i \in 1 .. Len(r) : Append(r, x)[i] = r[i]
    BY AppendProperties
  <1>5. e(Append(r, x)) = Append(e(r), new)
    <2> DEFINE u == e(Append(r, x))
               v == Append(e(r), new)
    <2>1. /\ v \in Seq(Seq(S)) /\ Len(v) = Len(r) + 1 /\ v[Len(r) + 1] = new
          /\ \A i \in 1 .. Len(r) : v[i] = e(r)[i]
      BY <1>2, <1>3, AppendProperties
    <2>2. u \in Seq(Seq(S)) /\ Len(u) = Len(r) + 1
      BY <1>2, <1>4
    <2>3. ASSUME NEW i \in 1 .. Len(r) + 1 PROVE u[i] = v[i]
      <3>1. DOMAIN Append(r, x) = 1 .. Len(r) + 1
        BY <1>2, <1>4
      <3>2. u[i] = IF Keep(Append(r, x)[i]) THEN <<Append(r, x)[i]>> ELSE <<>>
        BY <3>1
      <3>3. CASE i = Len(r) + 1
        BY <1>4, <2>1, <3>2, <3>3
      <3>4. CASE i # Len(r) + 1
        <4>1. i \in 1 .. Len(r) /\ i \in DOMAIN r
          BY <1>2, <3>4
        <4>2. v[i] = IF Keep(r[i]) THEN <<r[i]>> ELSE <<>>
          BY <2>1, <4>1
        <4>3. Append(r, x)[i] = r[i]
          BY <1>4, <4>1
        <4>4. QED
          BY <3>2, <4>2, <4>3
      <3>5. QED
        BY <3>3, <3>4
    <2> HIDE DEF u, v
    <2>4. u = v
      BY <2>1, <2>2, <2>3, SeqEqual
    <2>5. QED
      BY <2>4 DEF u, v
  <1>6. Kept(r) = FlattenSeq(e(r)) /\ Kept(Append(r, x)) = FlattenSeq(e(Append(r, x)))
    BY DEF Kept
  <1>7. e(r) \in Seq(Seq(S)) /\ FlattenSeq(e(r)) \in Seq(S)
    BY <1>2
  <1> HIDE DEF e
  <1>8. FlattenSeq(Append(e(r), new)) = FlattenSeq(e(r)) \o new
    BY <1>3, <1>7, FlattenAppend
  <1>9. Kept(r) \in Seq(S) /\ Kept(Append(r, x)) = Kept(r) \o new
    BY <1>5, <1>6, <1>7, <1>8
  <1>10. x \in S
    BY <1>1
  <1>11. CASE Keep(x)
    BY <1>9, <1>10, <1>11, AppendIsConcat
  <1>12. CASE ~Keep(x)
    BY <1>9, <1>12, ConcatEmptySeq
  <1>13. QED
    BY <1>9, <1>11, <1>12

LEMMA KeptEmpty == Kept(<<>>) = <<>>
  <1>1. [i \in DOMAIN <<>> |-> IF Keep(<<>>[i]) THEN <<<<>>[i]>> ELSE <<>>] = <<>>
    OBVIOUS
  <1>2. QED
    BY <1>1, FlattenEmpty DEF Kept

LEMMA JoinAppend ==
    ASSUME NEW r \in Seq(Seq(Bytes)), NEW x \in Seq(Bytes)
    PROVE  /\ Join(r) \in Seq(Bytes)
           /\ Join(Append(r, x)) = IF r = <<>> THEN x ELSE (Join(r) \o <<Newline>>) \o x
  <1> DEFINE e(s) == [i \in DOMAIN s |-> IF i = 1 THEN s[i] ELSE <<Newline>> \o s[i]]
             S == Seq(Bytes)
             new == IF r = <<>> THEN x ELSE <<Newline>> \o x
  <1>1. <<Newline>> \in S
    BY BridgesAssumption
  <1>2. ASSUME NEW s \in Seq(S)
        PROVE  /\ e(s) \in Seq(S) /\ Len(e(s)) = Len(s)
               /\ Len(s) \in Nat /\ DOMAIN s = 1 .. Len(s)
               /\ FlattenSeq(e(s)) \in S
    <2>1. Len(s) \in Nat /\ DOMAIN s = 1 .. Len(s) /\ \A i \in 1 .. Len(s) : s[i] \in S
      BY LenProperties, ElementOfSeq
    <2>2. \A i \in 1 .. Len(s) : <<Newline>> \o s[i] \in S
      BY <1>1, <2>1, ConcatProperties
    <2> HIDE DEF S
    <2>3. e(s) \in [1 .. Len(s) -> S]
      BY <2>1, <2>2
    <2>4. e(s) \in Seq(S) /\ Len(e(s)) = Len(s)
      BY <2>1, <2>3
    <2> HIDE DEF e
    <2> USE DEF S
    <2>5. FlattenSeq(e(s)) \in S
      BY <1>1, <2>4, FlattenAppend
    <2>6. QED
      BY <2>1, <2>4, <2>5
  <1>3. new \in S
    BY <1>1, ConcatProperties
  <1>4. /\ Append(r, x) \in Seq(S) /\ Len(Append(r, x)) = Len(r) + 1
        /\ Append(r, x)[Len(r) + 1] = x /\ \A i \in 1 .. Len(r) : Append(r, x)[i] = r[i]
    BY AppendProperties
  <1>5. e(Append(r, x)) = Append(e(r), new)
    <2> DEFINE u == e(Append(r, x))
               v == Append(e(r), new)
    <2>1. /\ v \in Seq(S) /\ Len(v) = Len(r) + 1 /\ v[Len(r) + 1] = new
          /\ \A i \in 1 .. Len(r) : v[i] = e(r)[i]
      <3>1. e(r) \in Seq(S) /\ Len(e(r)) = Len(r)
        BY <1>2
      <3> HIDE DEF e, new, S
      <3>2. QED
        BY <1>3, <3>1, AppendProperties
    <2>2. u \in Seq(S) /\ Len(u) = Len(r) + 1
      BY <1>2, <1>4
    <2>3. ASSUME NEW i \in 1 .. Len(r) + 1 PROVE u[i] = v[i]
      <3>1. DOMAIN Append(r, x) = 1 .. Len(r) + 1
        BY <1>2, <1>4
      <3>2. u[i] = IF i = 1 THEN Append(r, x)[i] ELSE <<Newline>> \o Append(r, x)[i]
        BY <3>1
      <3>3. CASE i = Len(r) + 1
        <4>1. i = 1 <=> r = <<>>
          BY <1>2, <3>3, EmptySeq
        <4>2. QED
          BY <1>4, <2>1, <3>2, <3>3, <4>1
      <3>4. CASE i # Len(r) + 1
        <4>1. i \in 1 .. Len(r) /\ i \in DOMAIN r
          BY <1>2, <3>4
        <4>2. v[i] = IF i = 1 THEN r[i] ELSE <<Newline>> \o r[i]
          BY <2>1, <4>1
        <4>3. Append(r, x)[i] = r[i]
          BY <1>4, <4>1
        <4>4. QED
          BY <3>2, <4>2, <4>3
      <3>5. QED
        BY <3>3, <3>4
    <2> HIDE DEF u, v
    <2>4. u = v
      BY <2>1, <2>2, <2>3, SeqEqual
    <2>5. QED
      BY <2>4 DEF u, v
  <1>6. Join(r) = FlattenSeq(e(r)) /\ Join(Append(r, x)) = FlattenSeq(e(Append(r, x)))
    BY DEF Join
  <1>7. e(r) \in Seq(S) /\ FlattenSeq(e(r)) \in S
    BY <1>2
  <1>8. r = <<>> => Join(r) = <<>>
    <2>1. r = <<>> => e(r) = <<>>
      OBVIOUS
    <2>2. QED
      BY <1>6, <2>1, FlattenEmpty
  <1> HIDE DEF e
  <1>9. FlattenSeq(Append(e(r), new)) = FlattenSeq(e(r)) \o new
    BY <1>3, <1>7, FlattenAppend
  <1>10. Join(r) \in S /\ Join(Append(r, x)) = Join(r) \o new
    BY <1>5, <1>6, <1>7, <1>9
  <1>11. CASE r = <<>>
    BY <1>8, <1>10, <1>11, ConcatEmptySeq
  <1>12. CASE r # <<>>
    BY <1>1, <1>10, <1>12, Together
  <1>13. QED
    BY <1>10, <1>11, <1>12

\* What is kept of complete lines.
LEMMA SievedLines ==
    \A r \in Seq(Plain) :
      Sieved(FlattenSeq(Terminated(r))) = IF Kept(r) = <<>> THEN <<>>
                                          ELSE Join(Kept(r)) \o <<Newline>>
  <1> DEFINE Good(r) == Sieved(FlattenSeq(Terminated(r)))
                          = IF Kept(r) = <<>> THEN <<>> ELSE Join(Kept(r)) \o <<Newline>>
             X == {r \in Seq(Plain) : Good(r)}
  <1>1. <<>> \in X
    <2>1. <<>> \in Plain /\ ~(Unwanted \in Range(<<>>)) /\ <<>> \in Seq(Plain)
      BY PlainPieces DEF Range
    <2>2. Sieved(<<>>) = <<>>
      BY <2>1, SievedPlain
    <2>3. QED
      BY <2>1, <2>2, TerminatedEmpty, FlattenEmpty, KeptEmpty
  <1>2. ASSUME NEW r \in Seq(Plain), r \in X, NEW x \in Plain PROVE Append(r, x) \in X
    <2>1. r \in Seq(Seq(Bytes)) /\ x \in Seq(Bytes) /\ Newline \in Bytes /\ <<Newline>> \in Seq(Bytes)
      BY PlainPieces, BridgesAssumption DEF Plain
    <2> DEFINE s == FlattenSeq(Terminated(r))
               t == Append(x, Newline)
    <2>2. Terminated(Append(r, x)) = Append(Terminated(r), t) /\ Terminated(r) \in Seq(Seq(Bytes))
      BY <2>1, TerminatedFacts
    <2>3. t \in Seq(Bytes) /\ t = x \o <<Newline>>
      BY <2>1, AppendProperties, AppendIsConcat
    <2>4. FlattenSeq(Terminated(Append(r, x))) = s \o t
      BY <2>2, <2>3, FlattenAppend
    <2>5. s \in Seq(Bytes) /\ Whole(s)
      BY <2>1, WholeLines
    <2>6. Sieved(t) = IF Keep(x) THEN t ELSE <<>>
      BY SievedPlain
    <2> HIDE DEF s, t
    <2>7. Sieved(s \o t) = Sieved(s) \o Sieved(t) /\ Sieved(s) \in Seq(Bytes)
      BY <2>3, <2>5, SievedConcat, MarkedFacts
    <2>8. Sieved(s) = IF Kept(r) = <<>> THEN <<>> ELSE Join(Kept(r)) \o <<Newline>>
      BY <1>2 DEF s
    <2>9. /\ Kept(r) \in Seq(Seq(Bytes))
          /\ Kept(Append(r, x)) = IF Keep(x) THEN Append(Kept(r), x) ELSE Kept(r)
      BY KeptAppend
    <2>10. Append(r, x) \in Seq(Plain)
      BY AppendProperties
    <2>11. Good(Append(r, x))
      <3>1. CASE ~Keep(x)
        <4>1. Sieved(s \o t) = Sieved(s)
          BY <2>6, <2>7, <3>1, ConcatEmptySeq
        <4>2. QED
          BY <2>4, <2>8, <2>9, <3>1, <4>1
      <3>2. CASE Keep(x)
        <4>1. /\ Join(Kept(r)) \in Seq(Bytes)
              /\ Join(Append(Kept(r), x))
                   = IF Kept(r) = <<>> THEN x ELSE (Join(Kept(r)) \o <<Newline>>) \o x
          BY <2>1, <2>9, JoinAppend
        <4>2. Append(Kept(r), x) # <<>>
          BY <2>1, <2>9, AppendProperties
        <4>3. Sieved(s \o t) = Join(Append(Kept(r), x)) \o <<Newline>>
          <5>1. CASE Kept(r) = <<>>
            BY <2>3, <2>6, <2>7, <2>8, <3>2, <4>1, <5>1, ConcatEmptySeq
          <5>2. CASE Kept(r) # <<>>
            <6> DEFINE w == Join(Kept(r)) \o <<Newline>>
            <6>1. w \in Seq(Bytes)
              BY <2>1, <4>1, ConcatProperties
            <6>2. Sieved(s \o t) = w \o (x \o <<Newline>>)
              BY <2>3, <2>6, <2>7, <2>8, <3>2, <5>2
            <6>3. Join(Append(Kept(r), x)) = w \o x
              BY <4>1, <5>2
            <6> HIDE DEF w
            <6>4. (w \o x) \o <<Newline>> = w \o (x \o <<Newline>>)
              BY <2>1, <6>1, Together
            <6>5. QED
              BY <6>2, <6>3, <6>4
          <5>3. QED
            BY <5>1, <5>2
        <4>4. QED
          BY <2>4, <2>9, <3>2, <4>2, <4>3
      <3>3. QED
        BY <3>1, <3>2
    <2>12. QED
      BY <2>10, <2>11
  <1> HIDE DEF X
  <1>3. \A r \in Seq(Plain) : r \in X
    BY <1>1, <1>2, SeqInduction
  <1>4. QED
    BY <1>3 DEF X

\* filter() makes of a block what it is to pass on of it.
LEMMA FilterMeans ==
    ASSUME NEW d \in Seq(Bytes)
    PROVE  Filtered(d) = Sieved(d)
  <1> DEFINE p == Split(d)
             s == FlattenSeq(Terminated(Front(p)))
             whole == IF Kept(Front(p)) = <<>> THEN <<>> ELSE Join(Kept(Front(p))) \o <<Newline>>
  <1>1. p \in Seq(Plain) /\ p # <<>> /\ d = s \o Last(p)
    BY SplitFacts
  <1>2. Front(p) \in Seq(Plain) /\ Last(p) \in Plain /\ p = Append(Front(p), Last(p))
    BY <1>1, FrontLast
  <1>3. Front(p) \in Seq(Seq(Bytes)) /\ Last(p) \in Seq(Bytes) /\ <<Newline>> \in Seq(Bytes)
    BY <1>2, PlainPieces, BridgesAssumption DEF Plain
  <1>4. s \in Seq(Bytes) /\ Whole(s)
    BY <1>3, WholeLines
  <1>5. Sieved(s) = whole
    BY <1>2, SievedLines
  <1>6. Sieved(Last(p)) = IF Keep(Last(p)) THEN Last(p) ELSE <<>>
    BY <1>2, SievedPlain
  <1>7. Sieved(d) = whole \o Sieved(Last(p)) /\ whole \in Seq(Bytes)
    <2> HIDE DEF whole, s
    <2>1. Sieved(s \o Last(p)) = Sieved(s) \o Sieved(Last(p)) /\ Sieved(s) \in Seq(Bytes)
      BY <1>3, <1>4, SievedConcat, MarkedFacts
    <2>2. QED
      BY <1>1, <1>5, <2>1
  <1>8. /\ Kept(Front(p)) \in Seq(Seq(Bytes))
        /\ Kept(p) = IF Keep(Last(p)) THEN Append(Kept(Front(p)), Last(p)) ELSE Kept(Front(p))
    BY <1>2, KeptAppend
  <1>9. Last(p) = <<>> => Keep(Last(p))
    BY DEF Keep, Range
  <1>10. CASE Last(p) = <<>>
    <2>1. Filtered(d) = whole
      <3>1. Filtered(d) = IF Kept(Front(p)) = <<>> THEN <<>>
                          ELSE Join(Kept(Front(p))) \o (IF TRUE THEN <<Newline>> ELSE <<>>)
        BY <1>10 DEF Filtered
      <3>2. QED
        BY <3>1
    <2> HIDE DEF whole
    <2>2. QED
      BY <1>6, <1>7, <1>9, <1>10, <2>1, ConcatEmptySeq
  <1>11. CASE Last(p) # <<>>
    <2>1. Filtered(d) = IF Kept(p) = <<>> THEN <<>>
                        ELSE Join(Kept(p)) \o (IF ~Keep(Last(p)) THEN <<Newline>> ELSE <<>>)
      BY <1>11 DEF Filtered
    <2>2. CASE ~Keep(Last(p))
      <3>1. Filtered(d) = whole
        BY <1>8, <2>1, <2>2
      <3> HIDE DEF whole
      <3>2. QED
        BY <1>6, <1>7, <2>2, <3>1, ConcatEmptySeq
    <2>3. CASE Keep(Last(p))
      <3> DEFINE k == Kept(Front(p))
      <3>1. Kept(p) = Append(k, Last(p)) /\ Append(k, Last(p)) # <<>>
        BY <1>3, <1>8, <2>3, AppendProperties
      <3>2. /\ Join(Append(k, Last(p))) = IF k = <<>> THEN Last(p) ELSE (Join(k) \o <<Newline>>) \o Last(p)
            /\ Join(Append(k, Last(p))) \in Seq(Bytes)
        <4>1. Append(k, Last(p)) \in Seq(Seq(Bytes))
          BY <1>3, <1>8, AppendProperties
        <4>2. QED
          BY <1>3, <1>8, <4>1, JoinAppend
      <3>3. Filtered(d) = Join(Append(k, Last(p)))
        <4>1. Filtered(d) = Join(Append(k, Last(p))) \o <<>>
          BY <2>1, <2>3, <3>1
        <4>2. QED
          BY <3>2, <4>1, ConcatEmptySeq
      <3>4. Sieved(d) = whole \o Last(p)
        BY <1>6, <1>7, <2>3
      <3>5. CASE k = <<>>
        BY <1>3, <3>2, <3>3, <3>4, <3>5, ConcatEmptySeq
      <3>6. CASE k # <<>>
        BY <3>2, <3>3, <3>4, <3>6
      <3>7. QED
        BY <3>5, <3>6
    <2>4. QED
      BY <2>2, <2>3
  <1>12. QED
    BY <1>10, <1>11

-----------------------------------------------------------------------------
(* What a bridge has passed on *)

\* What is not handled yet is the beginning of a line; what is handled was sent or is being
\* sent, as far as it is to pass.
PassInv ==
    kind # "tail" =>
      /\ pc \in {"read", "send", "over"}
      /\ pending \in Plain /\ Len(pending) <= pos
      /\ pending = SubSeq(stream, pos - Len(pending) + 1, pos)
      /\ kind = "per_chunk" \/ ended # "no" => pending = <<>>
      /\ kind # "per_chunk" /\ ended = "no" => Whole(Handled)
      /\ view \in Seq(Bytes) /\ out \in Seq(Bytes) /\ out \o view = Passed(Handled)
      /\ pc = "read" => view = <<>>
      /\ pc = "over" /\ ~cut => view = <<>> /\ ended # "no"

\* The largest of the numbers up to n that are in a set with 0.
LEMMA LargestExists ==
    ASSUME NEW n \in Nat, NEW A \in SUBSET (1 .. n)
    PROVE  Max({0} \cup A) \in {0} \cup A /\ \A i \in A : i <= Max({0} \cup A)
  <1> DEFINE S == {0} \cup A
             U == {m \in Nat : \A x \in S : x <= m}
  <1>1. S \subseteq 0 .. n /\ S \subseteq Nat
    OBVIOUS
  <1>2. n \in U
    BY <1>1
  <1>3. PICK m \in U : \A k \in U : m <= k
    <2>1. U \in SUBSET Nat /\ U # {}
      BY <1>2
    <2> HIDE DEF U
    <2>2. QED
      BY <2>1, LeastNumber
  <1>4. m \in S
    <2> SUFFICES ASSUME m \notin S PROVE FALSE
      OBVIOUS
    <2>1. m # 0 /\ m - 1 \in Nat
      OBVIOUS
    <2>2. \A x \in S : x <= m - 1
      <3> SUFFICES ASSUME NEW x \in S PROVE x <= m - 1
        OBVIOUS
      <3>1. x \in Nat /\ x <= m /\ x # m /\ m \in Nat
        BY <1>1
      <3>2. QED
        BY <3>1
    <2>3. m - 1 \in U
      BY <2>1, <2>2
    <2>4. QED
      BY <1>3, <2>3
  <1>5. \A x \in S : m >= x
    BY <1>1
  <1> HIDE DEF S, U
  <1>6. Max(S) \in S /\ \A x \in S : Max(S) >= x
    BY <1>4, <1>5 DEF Max
  <1>7. Max(S) \in Nat /\ \A x \in S : x \in Nat /\ x <= Max(S)
    BY <1>1, <1>6
  <1>8. QED
    BY <1>6, <1>7 DEF S

\* Where the last line of a chunk ends.
LEMMA LastNewline ==
    ASSUME NEW c \in Seq(Bytes), NEW k,
           k = Max({0} \cup {i \in DOMAIN c : c[i] = Newline})
    PROVE  /\ k \in 0 .. Len(c) /\ (k # 0 => c[k] = Newline)
           /\ \A i \in k + 1 .. Len(c) : c[i] # Newline
  <1> DEFINE A == {i \in DOMAIN c : c[i] = Newline}
  <1>1. DOMAIN c = 1 .. Len(c) /\ Len(c) \in Nat
    BY LenProperties
  <1>2. A \in SUBSET (1 .. Len(c))
    BY <1>1
  <1>3. k \in {0} \cup A /\ \A i \in A : i <= k
    <2> HIDE DEF A
    <2>1. Max({0} \cup A) \in {0} \cup A /\ \A i \in A : i <= Max({0} \cup A)
      BY <1>1, <1>2, LargestExists
    <2>2. QED
      BY <2>1 DEF A
  <1>4. \A i \in k + 1 .. Len(c) : i \in 1 .. Len(c) /\ ~(i <= k)
    BY <1>1, <1>3
  <1>5. QED
    BY <1>1, <1>3, <1>4

\* A part of a stream.
LEMMA PartFacts ==
    ASSUME NEW s \in Seq(Bytes), NEW a \in Nat, NEW b \in Nat, a <= b, b <= Len(s)
    PROVE  /\ SubSeq(s, a + 1, b) \in Seq(Bytes) /\ Len(SubSeq(s, a + 1, b)) = b - a
           /\ \A i \in 1 .. b - a : SubSeq(s, a + 1, b)[i] = s[a + i]
  <1>1. Len(s) \in Nat /\ \A i \in 1 .. Len(s) : s[i] \in Bytes
    BY LenProperties, ElementOfSeq
  <1>2. a + 1 \in Int /\ b \in Int /\ \A i \in a + 1 .. b : s[i] \in Bytes
    BY <1>1
  <1>3. /\ SubSeq(s, a + 1, b) \in Seq(Bytes)
        /\ Len(SubSeq(s, a + 1, b)) = IF a + 1 <= b THEN b - (a + 1) + 1 ELSE 0
        /\ \A i \in 1 .. b - (a + 1) + 1 : SubSeq(s, a + 1, b)[i] = s[(a + 1) + i - 1]
    BY <1>2, SubSeqProperties
  <1>4. (IF a + 1 <= b THEN b - (a + 1) + 1 ELSE 0) = b - a
    OBVIOUS
  <1>5. ASSUME NEW i \in 1 .. b - a PROVE SubSeq(s, a + 1, b)[i] = s[a + i]
    <2>1. i \in 1 .. b - (a + 1) + 1 /\ (a + 1) + i - 1 = a + i
      OBVIOUS
    <2>2. QED
      BY <1>3, <2>1
  <1>6. QED
    BY <1>3, <1>4, <1>5

\* Handled, in one piece with what comes next.
LEMMA HandledFacts ==
    ASSUME StreamOK, PassInv, kind # "tail"
    PROVE  /\ pending \in Seq(Bytes) /\ Len(pending) \in Nat /\ Len(pending) <= pos
           /\ Handled \in Seq(Bytes) /\ Len(Handled) = pos - Len(pending)
           /\ Read \in Seq(Bytes) /\ Handled \o pending = Read
           /\ Newline \notin Range(pending)
  <1>1. pending \in Seq(Bytes) /\ Newline \notin Range(pending) /\ Len(pending) <= pos
    BY DEF PassInv, Plain
  <1>2. Len(pending) \in Nat /\ pos \in Nat /\ pos <= Len(stream) /\ stream \in Seq(Bytes)
        /\ Len(stream) \in Nat
    BY <1>1, LenProperties DEF StreamOK
  <1> DEFINE h == pos - Len(pending)
  <1>3. h \in Nat /\ h <= pos /\ 0 <= h /\ h <= Len(stream) /\ h - 0 = h /\ 0 + 1 = 1
    BY <1>1, <1>2
  <1> HIDE DEF h
  <1>4. SubSeq(stream, 1, h) \in Seq(Bytes) /\ Len(SubSeq(stream, 1, h)) = h
    <2>1. /\ SubSeq(stream, 0 + 1, h) \in Seq(Bytes) /\ Len(SubSeq(stream, 0 + 1, h)) = h - 0
      BY <1>2, <1>3, PartFacts
    <2>2. QED
      BY <1>3, <2>1
  <1>5. SubSeq(stream, 1, pos) \in Seq(Bytes)
    <2>1. SubSeq(stream, 0 + 1, pos) \in Seq(Bytes)
      BY <1>2, PartFacts
    <2>2. QED
      BY <1>3, <2>1
  <1>6. SubSeq(stream, 0 + 1, h) \o SubSeq(stream, h + 1, pos) = SubSeq(stream, 0 + 1, pos)
    BY <1>2, <1>3, PiecesJoin
  <1>7. pending = SubSeq(stream, h + 1, pos)
    BY DEF PassInv, h
  <1>8. QED
    BY <1>1, <1>2, <1>3, <1>4, <1>5, <1>6, <1>7 DEF Handled, Read, h

\* What becomes of a chunk in _blocks().
LEMMA ReadLinesMeans ==
    ASSUME StreamOK, PassInv, ReadLines
    PROVE  /\ pending' \in Plain /\ Len(pending') <= pos'
           /\ pending' = SubSeq(stream', pos' - Len(pending') + 1, pos')
           /\ \/ Handled' = Handled /\ UNCHANGED <<view, pc, statVars>>
              \/ \E d \in Seq(Bytes) : Block(d) /\ Handled' = Handled \o d /\ Whole(Handled')
  <1>0. kind # "tail" /\ UNCHANGED stream
    BY DEF ReadLines
  <1>1. /\ pending \in Seq(Bytes) /\ Len(pending) \in Nat /\ Len(pending) <= pos
        /\ Handled \in Seq(Bytes) /\ Newline \notin Range(pending)
    BY <1>0, HandledFacts
  <1>2. PICK chunk \in Chunks :
          LET cut_at == Max({0} \cup {i \in DOMAIN chunk : chunk[i] = Newline})
          IN /\ pos' = pos + Len(chunk)
             /\ IF cut_at = 0 THEN pending' = pending \o chunk /\ UNCHANGED <<view, pc, statVars>>
                ELSE /\ Block(pending \o SubSeq(chunk, 1, cut_at))
                     /\ pending' = SubSeq(chunk, cut_at + 1, Len(chunk))
    BY DEF ReadLines
  <1>3. PICK n \in 1 .. Chunk : /\ pos + n <= Len(stream) /\ Len(chunk) = n
                                /\ chunk = SubSeq(stream, pos + 1, pos + n)
    BY ChunkIsNext
  <1>4. n \in Nat /\ pos \in Nat /\ pos <= Len(stream) /\ stream \in Seq(Bytes) /\ Len(stream) \in Nat
    BY BridgesAssumption, LenProperties DEF StreamOK
  <1>5. chunk \in Seq(Bytes) /\ \A i \in 1 .. n : chunk[i] = stream[pos + i]
    <2>1. pos + n \in Nat /\ pos <= pos + n /\ (pos + n) - pos = n
      BY <1>4
    <2>2. QED
      BY <1>3, <1>4, <2>1, PartFacts
  <1>6. PICK k : k = Max({0} \cup {i \in DOMAIN chunk : chunk[i] = Newline})
    OBVIOUS
  <1>7. /\ k \in 0 .. n /\ (k # 0 => chunk[k] = Newline)
        /\ \A i \in k + 1 .. n : chunk[i] # Newline
    BY <1>3, <1>5, <1>6, LastNewline
  <1> DEFINE l == Len(pending)
  <1>8. pending = SubSeq(stream, (pos - l) + 1, pos) /\ Handled = SubSeq(stream, 0 + 1, pos - l)
    <2>1. 0 + 1 = 1
      OBVIOUS
    <2>2. QED
      BY <1>0, <2>1 DEF PassInv, Handled
  <1>9. pos' = pos + n
    BY <1>2, <1>3
  <1>10. l \in Nat /\ l <= pos /\ pos - l \in Nat /\ pos + n \in Nat
    BY <1>1, <1>4
  <1> HIDE DEF l
  <1>11. CASE k = 0
    <2>1. pending' = pending \o chunk /\ UNCHANGED <<view, pc, statVars>>
      BY <1>2, <1>6, <1>11
    <2>2. pending' = SubSeq(stream, (pos - l) + 1, pos + n)
      <3>1. pos - l <= pos /\ pos <= pos + n
        BY <1>4, <1>10
      <3>2. SubSeq(stream, (pos - l) + 1, pos) \o SubSeq(stream, pos + 1, pos + n)
              = SubSeq(stream, (pos - l) + 1, pos + n)
        BY <1>3, <1>4, <1>10, <3>1, PiecesJoin
      <3>3. QED
        BY <1>3, <1>8, <2>1, <3>2
    <2>3. pending' \in Seq(Bytes) /\ Len(pending') = l + n
      BY <1>1, <1>3, <1>5, <2>1, ConcatProperties DEF l
    <2>4. (pos + n) - (l + n) = pos - l /\ l + n <= pos + n
      BY <1>4, <1>10
    <2>5. Handled' = Handled
      BY <1>0, <1>8, <1>9, <2>3, <2>4 DEF Handled, l
    <2>6. Newline \notin Range(pending')
      <3>1. Newline \notin Range(chunk)
        <4>1. \A i \in 1 .. n : chunk[i] # Newline
          BY <1>4, <1>7, <1>11
        <4>2. QED
          BY <1>3, <1>5, <4>1, LenProperties DEF Range
      <3>2. QED
        BY <1>1, <1>5, <2>1, <3>1, RangeConcatenation
    <2>7. QED
      BY <1>0, <1>9, <2>1, <2>2, <2>3, <2>4, <2>5, <2>6 DEF Plain
  <1>12. CASE k # 0
    <2>1. /\ Block(pending \o SubSeq(chunk, 1, k)) /\ pending' = SubSeq(chunk, k + 1, n)
      BY <1>2, <1>3, <1>6, <1>12
    <2>2. k \in Nat /\ k >= 1 /\ k <= n /\ pos + k \in Nat /\ pos + k <= pos + n /\ pos <= pos + k
      BY <1>4, <1>7, <1>12
    <2>3. pending' = SubSeq(stream, (pos + k) + 1, pos + n)
      <3>1. SubSeq(SubSeq(stream, pos + 1, pos + n), k + 1, (pos + n) - pos)
              = SubSeq(stream, (pos + k) + 1, pos + n)
        BY <1>3, <1>4, <1>10, <2>2, PieceOfPiece
      <3>2. (pos + n) - pos = n
        BY <1>4
      <3>3. QED
        BY <1>3, <2>1, <3>1, <3>2
    <2>4. pending' \in Seq(Bytes) /\ Len(pending') = n - k
      <3>1. /\ SubSeq(stream, (pos + k) + 1, pos + n) \in Seq(Bytes)
            /\ Len(SubSeq(stream, (pos + k) + 1, pos + n)) = (pos + n) - (pos + k)
        BY <1>3, <1>4, <1>10, <2>2, PartFacts
      <3>2. (pos + n) - (pos + k) = n - k
        BY <1>4, <2>2
      <3>3. QED
        BY <2>3, <3>1, <3>2
    <2>5. (pos + n) - (n - k) = pos + k /\ n - k <= pos + n
      BY <1>4, <2>2
    <2>6. Newline \notin Range(pending')
      <3>1. ASSUME NEW i \in 1 .. n - k PROVE pending'[i] # Newline
        <4>1. pending'[i] = chunk[k + i]
          <5>1. /\ k <= n /\ n <= Len(chunk)
            BY <1>3, <1>4, <2>2
          <5>2. QED
            BY <1>4, <1>5, <2>1, <2>2, <5>1, PartFacts
        <4>2. k + i \in k + 1 .. n
          BY <1>4, <2>2
        <4>3. QED
          BY <1>7, <4>1, <4>2
      <3>2. DOMAIN pending' = 1 .. n - k
        BY <2>4, LenProperties
      <3>3. QED
        BY <3>1, <3>2 DEF Range
    <2> DEFINE d == pending \o SubSeq(chunk, 1, k)
    <2>7. SubSeq(chunk, 1, k) = SubSeq(stream, pos + 1, pos + k) /\ SubSeq(chunk, 1, k) \in Seq(Bytes)
      <3> DEFINE x == SubSeq(chunk, 1, k)
                 y == SubSeq(stream, pos + 1, pos + k)
      <3>1. /\ SubSeq(chunk, 0 + 1, k) \in Seq(Bytes) /\ Len(SubSeq(chunk, 0 + 1, k)) = k - 0
            /\ \A i \in 1 .. k - 0 : SubSeq(chunk, 0 + 1, k)[i] = chunk[0 + i]
        <4>1. 0 <= k /\ k <= Len(chunk)
          BY <1>3, <2>2
        <4>2. QED
          BY <1>5, <2>2, <4>1, PartFacts
      <3>2. 0 + 1 = 1 /\ k - 0 = k /\ (pos + k) - pos = k /\ \A i \in 1 .. k : 0 + i = i /\ i \in 1 .. n
        BY <1>4, <2>2
      <3>3. x \in Seq(Bytes) /\ Len(x) = k /\ \A i \in 1 .. k : x[i] = chunk[i]
        BY <3>1, <3>2
      <3>4. pos + k <= Len(stream)
        BY <1>3, <1>4, <2>2
      <3>5. y \in Seq(Bytes) /\ Len(y) = (pos + k) - pos /\ \A i \in 1 .. (pos + k) - pos : y[i] = stream[pos + i]
        BY <1>4, <2>2, <3>4, PartFacts
      <3> HIDE DEF x, y
      <3>6. \A i \in 1 .. Len(x) : x[i] = y[i]
        BY <1>5, <3>2, <3>3, <3>5
      <3>7. x = y
        BY <3>2, <3>3, <3>5, <3>6, SeqEqual
      <3>8. QED
        BY <3>3, <3>7 DEF x, y
    <2>8. d \in Seq(Bytes) /\ d = SubSeq(stream, (pos - l) + 1, pos + k)
      <3>1. pos + k <= Len(stream)
        BY <1>3, <1>4, <2>2
      <3>2. SubSeq(stream, (pos - l) + 1, pos) \o SubSeq(stream, pos + 1, pos + k)
              = SubSeq(stream, (pos - l) + 1, pos + k)
        BY <1>4, <1>10, <2>2, <3>1, PiecesJoin
      <3>3. d \in Seq(Bytes)
        BY <1>1, <2>7, ConcatProperties
      <3>4. QED
        BY <1>8, <2>7, <3>2, <3>3
    <2> HIDE DEF d
    <2>9. Handled' = SubSeq(stream, 0 + 1, pos + k)
      <3>1. 0 + 1 = 1
        OBVIOUS
      <3>2. Handled' = SubSeq(stream, 1, (pos + n) - (n - k))
        BY <1>0, <1>9, <2>4 DEF Handled
      <3>3. QED
        BY <2>5, <3>1, <3>2
    <2>10. Handled' = Handled \o d
      <3>1. pos - l <= pos + k /\ pos + k <= Len(stream) /\ 0 <= pos - l
        BY <1>3, <1>4, <1>10, <2>2
      <3>2. SubSeq(stream, 0 + 1, pos - l) \o SubSeq(stream, (pos - l) + 1, pos + k)
              = SubSeq(stream, 0 + 1, pos + k)
        BY <1>4, <1>10, <2>2, <3>1, PiecesJoin
      <3>3. QED
        BY <1>8, <2>8, <2>9, <3>2
    <2>11. Whole(Handled')
      <3>1. pos + k <= Len(stream) /\ (pos + k) - 0 = pos + k /\ pos + k \in 1 .. pos + k
            /\ 0 + (pos + k) = pos + k /\ 0 <= pos + k
        BY <1>3, <1>4, <2>2
      <3>2. /\ Len(SubSeq(stream, 0 + 1, pos + k)) = (pos + k) - 0
            /\ \A i \in 1 .. (pos + k) - 0 : SubSeq(stream, 0 + 1, pos + k)[i] = stream[0 + i]
        BY <1>4, <2>2, <3>1, PartFacts
      <3>3. Last(Handled') = stream[pos + k]
        BY <2>9, <3>1, <3>2 DEF Last
      <3>4. stream[pos + k] = chunk[k]
        BY <1>4, <1>5, <2>2
      <3>5. QED
        BY <1>7, <1>12, <3>3, <3>4 DEF Whole
    <2>12. Block(d)
      BY <2>1 DEF d
    <2>13. pending' = SubSeq(stream', pos' - Len(pending') + 1, pos') /\ Len(pending') <= pos'
      BY <1>0, <1>9, <2>3, <2>4, <2>5
    <2>14. QED
      BY <2>4, <2>6, <2>8, <2>10, <2>11, <2>12, <2>13 DEF Plain
  <1>13. QED
    BY <1>11, <1>12

\* A part from behind its end is empty.
LEMMA NoPart == \A s : \A n \in Nat : SubSeq(s, n + 1, n) = <<>>
  <1> SUFFICES ASSUME NEW s, NEW n \in Nat PROVE SubSeq(s, n + 1, n) = <<>>
    OBVIOUS
  <1>1. n \in Int /\ n + 1 \in Int /\ n < n + 1
    OBVIOUS
  <1>2. QED
    BY <1>1, SubSeqEmpty

\* What becomes of an unfinished line at the end of a stream.
LEMMA EndsMeans ==
    ASSUME StreamOK, PassInv, kind # "tail", Ends
    PROVE  /\ pending' = <<>> /\ ended = "no" /\ ended' \in {"eof", "gave up"} /\ pc = "read"
           /\ \/ Handled' = Handled /\ UNCHANGED <<view, pc, statVars>>
              \/ kind # "per_chunk" /\ Block(pending) /\ Handled' = Handled \o pending
  <1>1. /\ pending \in Seq(Bytes) /\ Len(pending) \in Nat /\ Len(pending) <= pos
        /\ Handled \o pending = Read
    BY HandledFacts
  <1>2. pos \in Nat
    BY DEF StreamOK
  <1>3. UNCHANGED <<stream, pos>> /\ ended = "no" /\ ended' \in {"eof", "gave up"} /\ pc = "read"
    BY DEF Ends
  <1>4. CASE pending = <<>>
    <2>1. pending' = <<>> /\ UNCHANGED <<view, pc, statVars>>
      BY <1>4 DEF Ends
    <2>2. Handled' = Handled
      BY <1>3, <1>4, <2>1 DEF Handled
    <2>3. QED
      BY <1>3, <2>1, <2>2
  <1>5. CASE pending # <<>>
    <2>1. pending' = <<>> /\ Block(pending)
      BY <1>5 DEF Ends
    <2>2. kind # "per_chunk"
      BY <1>5 DEF PassInv
    <2>3. Len(<<>>) = 0 /\ pos - 0 = pos
      BY <1>2
    <2>4. Handled' = Read
      BY <1>3, <2>1, <2>3 DEF Handled, Read
    <2>5. QED
      BY <1>1, <1>3, <2>1, <2>2, <2>4
  <1>6. QED
    BY <1>4, <1>5

\* A chunk of per_chunk() is handled at once.
LEMMA ReadChunkMeans ==
    ASSUME StreamOK, PassInv, ReadChunk
    PROVE  /\ pending = <<>> /\ pending' = <<>> /\ Handled = Read /\ Handled' = Read'
           /\ \E chunk \in Seq(Bytes) :
                /\ chunk # <<>> /\ view' = chunk /\ Read' = Read \o chunk
                /\ pos' = pos + Len(chunk) /\ bytes' = bytes + Len(chunk)
                /\ lines' = lines + Newlines(chunk)
                /\ ends_with_newline' = (Last(chunk) = Newline)
  <1>1. kind = "per_chunk" /\ UNCHANGED <<kind, stream, pending>>
    BY DEF ReadChunk
  <1>2. pending = <<>> /\ pos \in Nat /\ pos <= Len(stream) /\ stream \in Seq(Bytes)
    BY <1>1 DEF PassInv, StreamOK
  <1>3. PICK chunk \in Chunks :
          /\ pos' = pos + Len(chunk) /\ bytes' = bytes + Len(chunk)
          /\ lines' = lines + Newlines(chunk)
          /\ ends_with_newline' = (Last(chunk) = Newline) /\ view' = chunk
    BY DEF ReadChunk
  <1>4. PICK n \in 1 .. Chunk : /\ pos + n <= Len(stream) /\ Len(chunk) = n
                                /\ chunk = SubSeq(stream, pos + 1, pos + n)
    BY ChunkIsNext
  <1>5. n \in Nat /\ n # 0 /\ pos + n \in Nat /\ pos <= pos + n /\ 0 <= pos /\ 0 + 1 = 1
    BY <1>2, BridgesAssumption
  <1>6. chunk \in Seq(Bytes)
    BY <1>2, <1>4, <1>5, PartFacts
  <1>7. chunk # <<>>
    BY <1>4, <1>5, EmptySeq
  <1>8. SubSeq(stream, 0 + 1, pos) \o SubSeq(stream, pos + 1, pos + n) = SubSeq(stream, 0 + 1, pos + n)
    BY <1>2, <1>4, <1>5, PiecesJoin
  <1>9. Read' = Read \o chunk
    BY <1>1, <1>3, <1>4, <1>5, <1>8 DEF Read
  <1>10. Len(<<>>) = 0 /\ pos - 0 = pos /\ pos' - 0 = pos'
    BY <1>2, <1>3, <1>4, <1>5
  <1>11. Handled = Read /\ Handled' = Read'
    BY <1>1, <1>2, <1>10 DEF Handled, Read
  <1>12. QED
    BY <1>1, <1>2, <1>3, <1>6, <1>7, <1>9, <1>11

\* The steps that handle nothing more.
LEMMA NothingHandled ==
    UNCHANGED <<stream, pos, pending>> => Handled' = Handled /\ Read' = Read
  BY DEF Handled, Read

\* What is to pass of a longer stream, when a block is handled.
LEMMA BlockPasses ==
    ASSUME NEW h \in Seq(Bytes), NEW d \in Seq(Bytes), Whole(h), Block(d)
    PROVE  view' \in Seq(Bytes) /\ Passed(h \o d) = Passed(h) \o view'
  <1>1. CASE kind = "filter"
    <2>1. view' = Sieved(d) /\ Sieved(d) \in Seq(Bytes)
      BY <1>1, FilterMeans, MarkedFacts DEF Block
    <2>2. QED
      BY <1>1, <2>1, SievedConcat, PassedIsSieved
  <1>2. CASE kind # "filter"
    BY <1>2, PassedIsSieved DEF Block
  <1>3. QED
    BY <1>1, <1>2

\* Every step keeps PassInv.
LEMMA PassStep == StreamOK /\ PassInv /\ [Next]_vars => PassInv'
  <1> SUFFICES ASSUME StreamOK, PassInv, [Next]_vars PROVE PassInv'
    OBVIOUS
  <1>1. UNCHANGED <<kind, stream>>
    BY DEF Next, vars, ReadLines, ReadChunk, Drain, Ends, Leave, Write, Sent, ReaderGone
  <1>2. CASE kind = "tail"
    BY <1>1, <1>2 DEF PassInv
  <1>3. CASE kind # "tail"
    <2> DEFINE pass(s) == IF kind # "filter" THEN s ELSE Sieved(s)
    <2>1. Passed(Handled)' = pass(Handled') /\ \A s : Passed(s) = pass(s)
      BY <1>1, PassedIsSieved DEF Passed, Sieved, Marked, Dropped
    <2> HIDE DEF pass
    <2>2. /\ pc \in {"read", "send", "over"}
          /\ pending \in Plain /\ Len(pending) <= pos
          /\ pending = SubSeq(stream, pos - Len(pending) + 1, pos)
          /\ kind = "per_chunk" \/ ended # "no" => pending = <<>>
          /\ kind # "per_chunk" /\ ended = "no" => Whole(Handled)
          /\ view \in Seq(Bytes) /\ out \in Seq(Bytes) /\ out \o view = pass(Handled)
          /\ pc = "read" => view = <<>>
          /\ pc = "over" /\ ~cut => view = <<>> /\ ended # "no"
      BY <1>3, <2>1 DEF PassInv
    <2>3. /\ pending \in Seq(Bytes) /\ Len(pending) \in Nat /\ Handled \in Seq(Bytes)
          /\ Newline \notin Range(pending)
      BY <1>3, HandledFacts
    <2>4. ASSUME UNCHANGED <<pos, pending>>
          PROVE  /\ Handled' = Handled
                 /\ pending' \in Plain /\ Len(pending') <= pos'
                 /\ pending' = SubSeq(stream', pos' - Len(pending') + 1, pos')
      BY <1>1, <2>2, <2>4, NothingHandled
    <2>5. pc = "read" => out = pass(Handled)
      BY <2>2, ConcatEmptySeq
    <2>6. ASSUME NEW d \in Seq(Bytes), Block(d), Whole(Handled), pc = "read", UNCHANGED out,
                 Handled' = Handled \o d
          PROVE  view' \in Seq(Bytes) /\ out' \o view' = pass(Handled') /\ pc' = "send"
      <3>1. view' \in Seq(Bytes) /\ pass(Handled \o d) = pass(Handled) \o view'
        BY <2>1, <2>3, <2>6, BlockPasses
      <3>2. pc' = "send"
        BY <2>6 DEF Block
      <3>3. QED
        BY <2>5, <2>6, <3>1, <3>2
    <2>7. CASE ReadLines
      <3>1. /\ pending' \in Plain /\ Len(pending') <= pos'
            /\ pending' = SubSeq(stream', pos' - Len(pending') + 1, pos')
            /\ \/ Handled' = Handled /\ UNCHANGED <<view, pc, statVars>>
               \/ \E d \in Seq(Bytes) : Block(d) /\ Handled' = Handled \o d /\ Whole(Handled')
        BY <2>7, ReadLinesMeans
      <3>2. kind # "per_chunk" /\ ended = "no" /\ pc = "read" /\ UNCHANGED <<ended, cut, out>>
        BY <2>7 DEF ReadLines
      <3>3. CASE Handled' = Handled /\ UNCHANGED <<view, pc, statVars>>
        BY <1>1, <2>1, <2>2, <3>1, <3>2, <3>3 DEF PassInv
      <3>4. CASE \E d \in Seq(Bytes) : Block(d) /\ Handled' = Handled \o d /\ Whole(Handled')
        <4>1. view' \in Seq(Bytes) /\ out' \o view' = pass(Handled') /\ pc' = "send" /\ Whole(Handled')
          BY <2>2, <2>6, <3>2, <3>4
        <4>2. QED
          BY <1>1, <2>1, <2>2, <3>1, <3>2, <4>1 DEF PassInv
      <3>5. QED
        BY <3>1, <3>3, <3>4
    <2>8. CASE ReadChunk
      <3>1. PICK chunk \in Seq(Bytes) :
              /\ pending = <<>> /\ pending' = <<>> /\ Handled = Read /\ Handled' = Read'
              /\ view' = chunk /\ Read' = Read \o chunk /\ pos' = pos + Len(chunk)
        BY <2>8, ReadChunkMeans
      <3>2. /\ kind = "per_chunk" /\ pc = "read" /\ ended = "no" /\ pc' = "send"
            /\ UNCHANGED <<ended, cut, out>>
        BY <2>8 DEF ReadChunk
      <3>3. out' \o view' = pass(Handled')
        <4>1. pass(Handled) = Handled /\ pass(Handled') = Handled'
          BY <3>2 DEF pass
        <4>2. QED
          BY <2>5, <3>1, <3>2, <4>1
      <3>4. /\ pending' \in Plain /\ Len(pending') <= pos'
            /\ pending' = SubSeq(stream', pos' - Len(pending') + 1, pos')
        <4>1. pos' \in Nat /\ Len(<<>>) = 0 /\ 0 <= pos' /\ pos' - 0 + 1 = pos' + 1 /\ pos' < pos' + 1
          BY <3>1, LenProperties DEF StreamOK
        <4>2. SubSeq(stream', pos' + 1, pos') = <<>>
          BY <4>1, NoPart
        <4>3. QED
          BY <3>1, <4>1, <4>2, PlainPieces
      <3>5. QED
        BY <1>1, <2>1, <2>2, <3>1, <3>2, <3>3, <3>4 DEF PassInv
    <2>9. CASE Ends
      <3>1. /\ pending' = <<>> /\ ended = "no" /\ ended' \in {"eof", "gave up"} /\ pc = "read"
            /\ \/ Handled' = Handled /\ UNCHANGED <<view, pc, statVars>>
               \/ kind # "per_chunk" /\ Block(pending) /\ Handled' = Handled \o pending
        BY <1>3, <2>9, EndsMeans
      <3>2. UNCHANGED <<pos, cut, out>>
        BY <2>9 DEF Ends
      <3>3. /\ pending' \in Plain /\ Len(pending') <= pos'
            /\ pending' = SubSeq(stream', pos' - Len(pending') + 1, pos')
        <4>1. pos' \in Nat /\ Len(<<>>) = 0 /\ 0 <= pos' /\ pos' - 0 + 1 = pos' + 1 /\ pos' < pos' + 1
          BY <3>2 DEF StreamOK
        <4>2. SubSeq(stream', pos' + 1, pos') = <<>>
          BY <4>1, NoPart
        <4>3. QED
          BY <3>1, <4>1, <4>2, PlainPieces
      <3>4. CASE Handled' = Handled /\ UNCHANGED <<view, pc, statVars>>
        BY <1>1, <2>1, <2>2, <3>1, <3>2, <3>3, <3>4 DEF PassInv
      <3>5. CASE kind # "per_chunk" /\ Block(pending) /\ Handled' = Handled \o pending
        <4>1. view' \in Seq(Bytes) /\ out' \o view' = pass(Handled') /\ pc' = "send"
          BY <2>2, <2>3, <2>6, <3>1, <3>2, <3>5
        <4>2. QED
          BY <1>1, <2>1, <2>2, <3>1, <3>2, <3>3, <4>1 DEF PassInv
      <3>6. QED
        BY <3>1, <3>4, <3>5
    <2>10. CASE Leave
      BY <1>1, <2>1, <2>2, <2>4, <2>10 DEF Leave, PassInv
    <2>11. CASE Write
      <3>1. PICK n \in 1 .. Len(view) : /\ out' = out \o SubSeq(view, 1, n)
                                        /\ view' = SubSeq(view, n + 1, Len(view))
        BY <2>11 DEF Write
      <3>2. n \in Nat /\ n <= Len(view) /\ Len(view) \in Nat /\ 0 <= n /\ 0 + 1 = 1
        BY <2>2, LenProperties
      <3>3. SubSeq(view, 0 + 1, n) \in Seq(Bytes) /\ SubSeq(view, n + 1, Len(view)) \in Seq(Bytes)
        BY <2>2, <3>2, PartFacts
      <3>4. SubSeq(view, 0 + 1, n) \o SubSeq(view, n + 1, Len(view)) = SubSeq(view, 0 + 1, Len(view))
        BY <2>2, <3>2, PiecesJoin
      <3>5. SubSeq(view, 1, Len(view)) = view
        BY <2>2, SubSeqFull
      <3>6. out' \in Seq(Bytes) /\ view' \in Seq(Bytes)
        BY <2>2, <3>1, <3>2, <3>3, ConcatProperties
      <3>7. out' \o view' = out \o view
        <4> DEFINE x == SubSeq(view, 0 + 1, n)
                   y == SubSeq(view, n + 1, Len(view))
        <4>1. out' = out \o x /\ view' = y /\ x \o y = view /\ x \in Seq(Bytes) /\ y \in Seq(Bytes)
          BY <3>1, <3>2, <3>3, <3>4, <3>5
        <4> HIDE DEF x, y
        <4>2. (out \o x) \o y = out \o (x \o y)
          <5>1. out \in Seq(Bytes)
            BY <2>2
          <5>2. x \in Seq(Bytes) /\ y \in Seq(Bytes)
            BY <4>1
          <5>3. QED
            BY <5>1, <5>2, Together
        <4>3. QED
          BY <4>1, <4>2
      <3>8. UNCHANGED <<pos, pc, ended, cut, pending>> /\ pc = "send"
        BY <2>11 DEF Write
      <3>9. QED
        BY <1>1, <2>1, <2>2, <2>4, <3>6, <3>7, <3>8 DEF PassInv
    <2>12. CASE Sent
      BY <1>1, <2>1, <2>2, <2>4, <2>12 DEF Sent, PassInv
    <2>13. CASE ReaderGone
      BY <1>1, <2>1, <2>2, <2>4, <2>13 DEF ReaderGone, PassInv
    <2>14. CASE UNCHANGED vars
      BY <1>1, <2>1, <2>2, <2>4, <2>14 DEF vars, ioVars, PassInv
    <2>15. QED
      BY <1>3, <2>7, <2>8, <2>9, <2>10, <2>11, <2>12, <2>13, <2>14 DEF Next, Drain
  <1>4. QED
    BY <1>2, <1>3

\* At the beginning nothing is read.
LEMMA NothingRead ==
    ASSUME Init
    PROVE  Read = <<>> /\ Handled = <<>> /\ <<>> \in Seq(Bytes) /\ Whole(<<>>)
  <1>1. pos = 0 /\ pending = <<>> /\ Len(<<>>) = 0 /\ 0 - 0 = 0 /\ 0 < 1
    BY DEF Init
  <1>2. SubSeq(stream, 1, 0) = <<>>
    BY <1>1, SubSeqEmpty
  <1>3. QED
    BY <1>1, <1>2, EmptySeq DEF Read, Handled, Whole

LEMMA PassInit == Init => PassInv
  <1> SUFFICES ASSUME Init PROVE PassInv
    OBVIOUS
  <1>1. Handled = <<>> /\ <<>> \in Seq(Bytes) /\ Whole(<<>>)
    BY NothingRead
  <1>2. Passed(<<>>) = <<>>
    <2>1. Sieved(<<>>) = <<>>
      <3>1. Marked(<<>>) = <<>>
        BY DEF Marked
      <3>2. QED
        BY <3>1, FlattenEmpty DEF Sieved
    <2>2. QED
      BY <2>1, PassedIsSieved
  <1>3. pending = SubSeq(stream, pos - Len(pending) + 1, pos) /\ Len(pending) <= pos
    <2>1. pos = 0 /\ pending = <<>> /\ Len(<<>>) = 0 /\ 0 - 0 + 1 = 1 /\ 0 < 1
      BY DEF Init
    <2>2. SubSeq(stream, 1, 0) = <<>>
      BY <2>1, SubSeqEmpty
    <2>3. QED
      BY <2>1, <2>2
  <1>4. <<>> \in Plain /\ <<>> \o <<>> = <<>>
    BY <1>1, PlainPieces, ConcatEmptySeq
  <1>5. QED
    BY <1>1, <1>2, <1>3, <1>4 DEF Init, PassInv

\* A bridge passes on the bytes of the lines that it is to pass on, once and in order, and
\* holds back no more than an unfinished line, for every stream, however it is cut.
THEOREM BridgesPassOn == Spec => []PassesOn
  <1>1. StreamOK /\ PassInv => PassesOn
    <2> SUFFICES ASSUME StreamOK, PassInv, kind # "tail"
                 PROVE  /\ out \o view = Passed(Handled) /\ Newline \notin Range(pending)
                        /\ pc = "over" /\ ~cut => out = Passed(Read)
      BY DEF PassesOn
    <2>1. /\ out \o view = Passed(Handled) /\ out \in Seq(Bytes)
          /\ pc = "over" /\ ~cut => view = <<>> /\ pending = <<>>
      BY DEF PassInv
    <2>2. /\ Handled \o pending = Read /\ Handled \in Seq(Bytes)
          /\ Newline \notin Range(pending)
      BY HandledFacts
    <2>3. ASSUME pc = "over", ~cut PROVE out = Passed(Read)
      <3>1. out \o <<>> = Passed(Handled) /\ Handled \o <<>> = Read
        BY <2>1, <2>2, <2>3
      <3>2. QED
        BY <2>1, <2>2, <3>1, ConcatEmptySeq
    <2>4. QED
      BY <2>1, <2>2, <2>3
  <1>2. QED
    BY <1>1, PassInit, PassStep, StreamInvariant, PTL DEF Spec

-----------------------------------------------------------------------------
(* What a bridge has counted *)

\* A step of a bridge of lines handles a block, or nothing.
LEMMA LinesStep ==
    ASSUME StreamOK, PassInv, kind \notin {"tail", "per_chunk"}, [Next]_vars
    PROVE  \/ /\ Handled' = Handled /\ UNCHANGED <<kind, seen, bytes, ends_with_newline>>
              /\ ends_with_newline => lines' = lines
           \/ /\ UNCHANGED kind /\ Whole(Handled)
              /\ \E d \in Seq(Bytes) : Block(d) /\ Handled' = Handled \o d
  <1>1. UNCHANGED <<kind, stream>>
    BY DEF Next, vars, ReadLines, ReadChunk, Drain, Ends, Leave, Write, Sent, ReaderGone
  <1>2. ended = "no" => Whole(Handled)
    BY DEF PassInv
  <1>3. CASE ReadLines
    <2>1. \/ Handled' = Handled /\ UNCHANGED <<view, pc, statVars>>
          \/ \E d \in Seq(Bytes) : Block(d) /\ Handled' = Handled \o d
      BY <1>3, ReadLinesMeans
    <2>2. Whole(Handled)
      BY <1>2, <1>3 DEF ReadLines
    <2>3. QED
      BY <1>1, <2>1, <2>2 DEF statVars
  <1>4. CASE Ends
    <2>1. /\ ended = "no"
          /\ \/ Handled' = Handled /\ UNCHANGED <<view, pc, statVars>>
             \/ Block(pending) /\ Handled' = Handled \o pending
      BY <1>4, EndsMeans
    <2>2. pending \in Seq(Bytes)
      BY HandledFacts
    <2>3. QED
      BY <1>1, <1>2, <2>1, <2>2 DEF statVars
  <1>5. CASE Leave
    BY <1>1, <1>5, NothingHandled DEF Leave
  <1>6. CASE Write \/ Sent \/ ReaderGone \/ UNCHANGED vars
    BY <1>1, <1>6, NothingHandled DEF Write, Sent, ReaderGone, vars, ioVars, statVars
  <1>7. QED
    BY <1>3, <1>4, <1>5, <1>6 DEF Next, ReadChunk, Drain

\* peek() has seen the lines that are handled.
SeenInv ==
    kind = "peek" =>
      /\ seen \in Seq(Line) /\ FlattenSeq(seen) = Handled
      /\ Len(seen) = NumberOfLines(Handled)

LEMMA SeenStep == StreamOK /\ PassInv /\ SeenInv /\ [Next]_vars => SeenInv'
  <1> SUFFICES ASSUME StreamOK, PassInv, SeenInv, [Next]_vars PROVE SeenInv'
    OBVIOUS
  <1>1. UNCHANGED kind
    BY DEF Next, vars, ReadLines, ReadChunk, Drain, Ends, Leave, Write, Sent, ReaderGone
  <1>2. CASE kind # "peek"
    BY <1>1, <1>2 DEF SeenInv
  <1>3. CASE kind = "peek"
    <2>1. /\ seen \in Seq(Line) /\ FlattenSeq(seen) = Handled
          /\ Len(seen) = NumberOfLines(Handled)
      BY <1>3 DEF SeenInv
    <2>2. \/ Handled' = Handled /\ UNCHANGED seen
          \/ Whole(Handled) /\ \E d \in Seq(Bytes) : Block(d) /\ Handled' = Handled \o d
      BY <1>3, LinesStep
    <2>3. CASE Handled' = Handled /\ UNCHANGED seen
      BY <1>1, <2>1, <2>3 DEF SeenInv, NumberOfLines, Newlines
    <2>4. ASSUME Whole(Handled), NEW d \in Seq(Bytes), Block(d), Handled' = Handled \o d
          PROVE  SeenInv'
      <3>1. seen' = seen \o LinesOf(d)
        BY <1>3, <2>4 DEF Block
      <3>2. /\ LinesOf(d) \in Seq(Line) /\ FlattenSeq(LinesOf(d)) = d
            /\ Len(LinesOf(d)) = NumberOfLines(d)
        BY LinesFacts
      <3>3. Handled \in Seq(Bytes)
        BY <1>3, HandledFacts
      <3>4. seen' \in Seq(Line) /\ Len(seen') = Len(seen) + Len(LinesOf(d))
        BY <2>1, <3>1, <3>2, ConcatProperties
      <3>5. FlattenSeq(seen') = Handled \o d
        <4>1. Line \subseteq Seq(Bytes)
          BY DEF Line
        <4>2. seen \in Seq(Seq(Bytes)) /\ LinesOf(d) \in Seq(Seq(Bytes))
          BY <2>1, <3>2, <4>1, SeqMonotonic
        <4>3. FlattenSeq(seen \o LinesOf(d)) = FlattenSeq(seen) \o FlattenSeq(LinesOf(d))
          BY <4>2, FlattenConcat
        <4>4. QED
          BY <2>1, <3>1, <3>2, <4>3
      <3>6. NumberOfLines(Handled \o d) = NumberOfLines(Handled) + NumberOfLines(d)
        BY <2>4, <3>3, NumberConcat
      <3>7. Len(seen') = NumberOfLines(Handled')
        BY <2>1, <2>4, <3>2, <3>4, <3>6
      <3>8. QED
        BY <2>4, <3>4, <3>5, <3>7 DEF SeenInv
    <2>5. QED
      BY <2>2, <2>3, <2>4
  <1>4. QED
    BY <1>2, <1>3

\* meter(interval=0) has counted the lines and the bytes that are handled.
LinesInv ==
    /\ kind # "per_chunk" => ends_with_newline = TRUE
    /\ kind = "per_line" => bytes = Len(Handled) /\ lines = NumberOfLines(Handled)

LEMMA LinesInvStep == StreamOK /\ PassInv /\ LinesInv /\ [Next]_vars => LinesInv'
  <1> SUFFICES ASSUME StreamOK, PassInv, LinesInv, [Next]_vars PROVE LinesInv'
    OBVIOUS
  <1>1. UNCHANGED kind
    BY DEF Next, vars, ReadLines, ReadChunk, Drain, Ends, Leave, Write, Sent, ReaderGone
  <1>2. kind # "per_chunk" => ends_with_newline' = TRUE
    <2> SUFFICES ASSUME kind # "per_chunk" PROVE UNCHANGED ends_with_newline
      BY DEF LinesInv
    <2>1. CASE kind = "tail"
      BY <2>1 DEF Next, vars, statVars, ReadLines, ReadChunk, Drain, Ends, Block, Leave, Write, Sent,
                  ReaderGone
    <2>2. CASE kind # "tail"
      BY <2>2, LinesStep DEF Block
    <2>3. QED
      BY <2>1, <2>2
  <1>3. CASE kind # "per_line"
    BY <1>1, <1>2, <1>3 DEF LinesInv
  <1>4. CASE kind = "per_line"
    <2>1. ends_with_newline /\ bytes = Len(Handled) /\ lines = NumberOfLines(Handled)
      BY <1>4 DEF LinesInv
    <2>2. \/ Handled' = Handled /\ UNCHANGED bytes /\ lines' = lines
          \/ Whole(Handled) /\ \E d \in Seq(Bytes) : Block(d) /\ Handled' = Handled \o d
      BY <1>4, <2>1, LinesStep
    <2>3. CASE Handled' = Handled /\ UNCHANGED bytes /\ lines' = lines
      BY <1>1, <1>2, <2>1, <2>3 DEF LinesInv, NumberOfLines, Newlines
    <2>4. ASSUME Whole(Handled), NEW d \in Seq(Bytes), Block(d), Handled' = Handled \o d
          PROVE  LinesInv'
      <3>1. bytes' = bytes + Len(d) /\ lines' = lines + Len(LinesOf(d))
        BY <1>4, <2>4 DEF Block
      <3>2. Len(LinesOf(d)) = NumberOfLines(d)
        BY LinesFacts
      <3>3. Handled \in Seq(Bytes)
        BY <1>4, HandledFacts
      <3>4. NumberOfLines(Handled \o d) = NumberOfLines(Handled) + NumberOfLines(d)
        BY <2>4, <3>3, NumberConcat
      <3>5. Len(Handled \o d) = Len(Handled) + Len(d)
        BY <3>3, ConcatProperties
      <3>6. bytes' = Len(Handled') /\ lines' = NumberOfLines(Handled')
        BY <2>1, <2>4, <3>1, <3>2, <3>4, <3>5
      <3>7. QED
        BY <1>1, <1>2, <3>6 DEF LinesInv
    <2>5. QED
      BY <2>2, <2>3, <2>4
  <1>5. QED
    BY <1>3, <1>4

\* The other loop of meter() has counted what was read, but a last line without its end only
\* when it is over.
ChunksInv ==
    kind = "per_chunk" =>
      /\ bytes = pos /\ ends_with_newline \in BOOLEAN /\ (ends_with_newline <=> Whole(Read))
      /\ lines = IF pc = "over" /\ ~cut THEN NumberOfLines(Read) ELSE Newlines(Read)
      /\ cut => pc = "over"

LEMMA ChunksStep == StreamOK /\ PassInv /\ ChunksInv /\ [Next]_vars => ChunksInv'
  <1> SUFFICES ASSUME StreamOK, PassInv, ChunksInv, [Next]_vars PROVE ChunksInv'
    OBVIOUS
  <1>1. UNCHANGED <<kind, stream>>
    BY DEF Next, vars, ReadLines, ReadChunk, Drain, Ends, Leave, Write, Sent, ReaderGone
  <1>2. CASE kind # "per_chunk"
    BY <1>1, <1>2 DEF ChunksInv
  <1>3. CASE kind = "per_chunk"
    <2>1. /\ bytes = pos /\ ends_with_newline \in BOOLEAN /\ (ends_with_newline <=> Whole(Read))
          /\ lines = IF pc = "over" /\ ~cut THEN NumberOfLines(Read) ELSE Newlines(Read)
          /\ cut => pc = "over"
      BY <1>3 DEF ChunksInv
    <2>2. Read \in Seq(Bytes) /\ Newlines(Read) \in Nat
      BY <1>3, HandledFacts, NewlinesAppend, BridgesAssumption
    <2>3. CASE ReadChunk
      <3>1. PICK chunk \in Seq(Bytes) :
              /\ chunk # <<>> /\ Read' = Read \o chunk
              /\ pos' = pos + Len(chunk) /\ bytes' = bytes + Len(chunk)
              /\ lines' = lines + Newlines(chunk)
              /\ ends_with_newline' = (Last(chunk) = Newline)
        BY <2>3, ReadChunkMeans
      <3>2. pc = "read" /\ pc' = "send" /\ UNCHANGED cut /\ ~cut
        BY <2>1, <2>3 DEF ReadChunk
      <3>3. Newlines(Read \o chunk) = Newlines(Read) + Newlines(chunk)
        BY <2>2, NewlinesConcat
      <3>4. Read \o chunk # <<>> /\ Last(Read \o chunk) = Last(chunk)
        BY <2>2, <3>1, LastConcat
      <3>5. ends_with_newline' <=> Whole(Read')
        BY <3>1, <3>4 DEF Whole
      <3>6. lines' = Newlines(Read') /\ bytes' = pos'
        BY <2>1, <3>1, <3>2, <3>3
      <3>7. ends_with_newline' \in BOOLEAN
        BY <3>1
      <3>8. QED
        BY <3>2, <3>5, <3>6, <3>7 DEF ChunksInv, Newlines
    <2>4. CASE Ends
      <3>1. Read' = Read /\ UNCHANGED pos
        BY <1>1, <2>4 DEF Ends, Read
      <3>2. UNCHANGED <<pc, cut, statVars>> /\ pc = "read"
        BY <1>3, <2>4, EndsMeans DEF Ends
      <3>3. QED
        BY <2>1, <3>1, <3>2 DEF ChunksInv, statVars, Newlines
    <2>5. CASE Leave
      <3>1. /\ Read' = Read /\ UNCHANGED <<pos, cut, bytes, ends_with_newline>>
            /\ pc = "read" /\ pc' = "over"
            /\ lines' = IF ends_with_newline THEN lines ELSE lines + 1
        BY <1>1, <2>5 DEF Leave, Read
      <3>2. lines = Newlines(Read)
        BY <2>1, <3>1
      <3>3. NumberOfLines(Read) = IF Whole(Read) THEN Newlines(Read) ELSE Newlines(Read) + 1
        BY <2>2 DEF NumberOfLines, Whole
      <3>4. lines' = NumberOfLines(Read)
        <4>1. CASE ends_with_newline
          BY <2>1, <3>1, <3>2, <3>3, <4>1
        <4>2. CASE ~ends_with_newline
          BY <2>1, <3>1, <3>2, <3>3, <4>2
        <4>3. QED
          BY <4>1, <4>2
      <3>5. ~cut
        BY <2>1, <3>1
      <3>6. QED
        BY <2>1, <3>1, <3>4, <3>5 DEF ChunksInv, NumberOfLines, Newlines
    <2>6. CASE ReaderGone
      <3>1. Read' = Read /\ UNCHANGED <<pos, statVars>> /\ pc = "send" /\ cut' = TRUE /\ pc' = "over"
        BY <1>1, <2>6 DEF ReaderGone, Read
      <3>2. QED
        BY <2>1, <3>1 DEF ChunksInv, statVars, Newlines
    <2>7. CASE Write \/ Sent
      <3>1. /\ Read' = Read /\ UNCHANGED <<pos, cut, statVars>>
            /\ pc = "send" /\ pc' \in {"send", "read"}
        BY <1>1, <2>7 DEF Write, Sent, Read
      <3>2. QED
        BY <2>1, <3>1 DEF ChunksInv, statVars, Newlines
    <2>8. CASE UNCHANGED vars
      <3>1. Read' = Read /\ UNCHANGED <<pos, cut, pc, statVars>>
        BY <2>8 DEF vars, ioVars, Read
      <3>2. QED
        BY <2>1, <3>1 DEF ChunksInv, statVars, NumberOfLines, Newlines
    <2>9. QED
      BY <1>3, <2>3, <2>4, <2>5, <2>6, <2>7, <2>8 DEF Next, ReadLines, Drain
  <1>4. QED
    BY <1>2, <1>3

LEMMA CountsInit == Init => SeenInv /\ LinesInv /\ ChunksInv
  <1> SUFFICES ASSUME Init PROVE SeenInv /\ LinesInv /\ ChunksInv
    OBVIOUS
  <1>1. Read = <<>> /\ Handled = <<>> /\ Whole(<<>>)
    BY NothingRead
  <1>2. Newlines(<<>>) = 0 /\ NumberOfLines(<<>>) = 0
    BY NewlinesEmpty DEF NumberOfLines
  <1>3. <<>> \in Seq(Line) /\ Len(<<>>) = 0
    BY EmptySeq
  <1>4. QED
    BY <1>1, <1>2, <1>3, FlattenEmpty DEF Init, SeenInv, LinesInv, ChunksInv

\* peek() has seen every line whole and once, and both loops of meter() count the same lines
\* and bytes, for every stream, however it is cut.
THEOREM BridgesCount == Spec => []CountsLines
  <1>1. StreamOK /\ PassInv /\ SeenInv /\ LinesInv /\ ChunksInv => CountsLines
    <2> SUFFICES ASSUME StreamOK, PassInv, SeenInv, LinesInv, ChunksInv PROVE CountsLines
      OBVIOUS
    <2>1. ASSUME kind = "peek"
          PROVE  \A i \in DOMAIN seen : seen[i] # <<>> /\ Newline \notin Range(Front(seen[i]))
      <3>1. DOMAIN seen = 1 .. Len(seen) /\ \A i \in 1 .. Len(seen) : seen[i] \in Line
        BY <2>1, LenProperties, ElementOfSeq DEF SeenInv
      <3>2. QED
        BY <3>1 DEF Line
    <2>2. QED
      BY <2>1 DEF SeenInv, LinesInv, ChunksInv, CountsLines
  <1>2. QED
    BY <1>1, CountsInit, PassInit, SeenStep, LinesInvStep, ChunksStep, PassStep, StreamInvariant,
       PTL DEF Spec

-----------------------------------------------------------------------------
(* Splitting what was split before *)

LEMMA SplitIsPieces ==
    ASSUME NEW s \in Seq(Bytes), NEW sep
    PROVE  SplitAt(s, sep) \in Pieces
  BY SplitAtAppend, BridgesAssumption

\* All pieces are free of the separator.
LEMMA PiecesFree ==
    ASSUME NEW sep
    PROVE  \A s \in Seq(Bytes) : \A i \in 1 .. Len(SplitAt(s, sep)) : sep \notin Range(SplitAt(s, sep)[i])
  <1> DEFINE Good(s) == \A i \in 1 .. Len(SplitAt(s, sep)) : sep \notin Range(SplitAt(s, sep)[i])
             X == {s \in Seq(Bytes) : Good(s)}
  <1>0. <<>> \in Seq(Bytes) /\ Range(<<>>) = {}
    BY DEF Range
  <1>1. <<>> \in X
    <2>1. Len(<< <<>> >>) = 1 /\ \A i \in 1 .. 1 : << <<>> >>[i] = <<>>
      OBVIOUS
    <2>2. QED
      BY <1>0, <2>1, SplitAtEmpty
  <1>2. ASSUME NEW s \in Seq(Bytes), s \in X, NEW b \in Bytes PROVE Append(s, b) \in X
    <2> DEFINE p == SplitAt(s, sep)
               q == SplitAt(Append(s, b), sep)
    <2>1. p \in Pieces /\ q = AddByte(p, b, sep) /\ Append(s, b) \in Seq(Bytes)
      BY SplitAtAppend, AppendProperties
    <2>2. \A i \in 1 .. Len(p) : sep \notin Range(p[i])
      BY <1>2
    <2> HIDE DEF p, q
    <2>3. /\ p \in Seq(Seq(Bytes)) /\ Len(p) \in Nat \ {0}
          /\ \A i \in 1 .. Len(p) : p[i] \in Seq(Bytes)
      BY <2>1, EmptySeq, ElementOfSeq DEF Pieces
    <2>4. \A i \in 1 .. Len(q) : sep \notin Range(q[i])
      <3>1. CASE b = sep
        <4>1. q = Append(p, <<>>)
          BY <2>1, <3>1 DEF AddByte
        <4>2. /\ Len(q) = Len(p) + 1 /\ q[Len(p) + 1] = <<>> /\ \A i \in 1 .. Len(p) : q[i] = p[i]
          BY <1>0, <2>3, <4>1, AppendProperties
        <4>3. \A i \in 1 .. Len(q) : i \in 1 .. Len(p) \/ i = Len(p) + 1
          BY <2>3, <4>2
        <4>4. sep \notin Range(<<>>)
          BY <1>0
        <4>5. QED
          BY <2>2, <4>2, <4>3, <4>4
      <3>2. CASE b # sep
        <4>1. Len(p) \in 1 .. Len(p) /\ Append(p[Len(p)], b) \in Seq(Bytes)
          BY <2>3, AppendProperties
        <4>2. q = [p EXCEPT ![Len(p)] = Append(p[Len(p)], b)]
          BY <2>1, <2>3, <3>2 DEF AddByte
        <4>3. Range(Append(p[Len(p)], b)) = Range(p[Len(p)]) \cup {b}
          BY <2>3, <4>1, RangeAppend
        <4>4. Len(q) = Len(p)
              /\ \A i \in 1 .. Len(p) : q[i] = IF i = Len(p) THEN Append(p[Len(p)], b) ELSE p[i]
          BY <2>3, <4>1, <4>2, ExceptSeq
        <4>5. QED
          BY <2>2, <3>2, <4>1, <4>3, <4>4
      <3>3. QED
        BY <3>1, <3>2
    <2>5. QED
      BY <2>1, <2>4 DEF q
  <1> HIDE DEF X
  <1>3. \A s \in Seq(Bytes) : s \in X
    BY <1>1, <1>2, SeqInduction
  <1>4. QED
    BY <1>3 DEF X

\* What is free of the separator is one piece, and what is one piece is all of it.
LEMMA FreeIsOne ==
    ASSUME NEW sep
    PROVE  \A s \in Seq(Bytes) : /\ sep \notin Range(s) => SplitAt(s, sep) = <<s>>
                                 /\ Len(SplitAt(s, sep)) = 1 => SplitAt(s, sep) = <<s>>
  <1> DEFINE Good(s) == /\ sep \notin Range(s) => SplitAt(s, sep) = <<s>>
                        /\ Len(SplitAt(s, sep)) = 1 => SplitAt(s, sep) = <<s>>
             X == {s \in Seq(Bytes) : Good(s)}
  <1>1. <<>> \in X
    BY SplitAtEmpty
  <1>2. ASSUME NEW s \in Seq(Bytes), s \in X, NEW b \in Bytes PROVE Append(s, b) \in X
    <2> DEFINE p == SplitAt(s, sep)
               q == SplitAt(Append(s, b), sep)
    <2>1. p \in Pieces /\ q = AddByte(p, b, sep) /\ Append(s, b) \in Seq(Bytes)
      BY SplitAtAppend, AppendProperties
    <2>2. (sep \notin Range(s) => p = <<s>>) /\ (Len(p) = 1 => p = <<s>>)
      BY <1>2
    <2>3. Range(Append(s, b)) = Range(s) \cup {b}
      BY RangeAppend
    <2> HIDE DEF p, q
    <2>4. p \in Seq(Seq(Bytes)) /\ Len(p) \in Nat \ {0}
      BY <2>1, EmptySeq DEF Pieces
    <2>5. ASSUME p = <<s>>, b # sep PROVE q = <<Append(s, b)>>
      <3>1. Len(<<s>>) = 1 /\ <<s>>[1] = s /\ [<<s>> EXCEPT ![1] = Append(s, b)] = <<Append(s, b)>>
        OBVIOUS
      <3>2. q = [p EXCEPT ![Len(p)] = Append(p[Len(p)], b)]
        BY <2>1, <2>4, <2>5 DEF AddByte
      <3>3. QED
        BY <2>5, <3>1, <3>2
    <2>6. Len(q) = 1 => b # sep /\ Len(p) = 1
      <3>1. b = sep => Len(q) = Len(p) + 1
        <4>1. <<>> \in Seq(Bytes)
          OBVIOUS
        <4>2. b = sep => q = Append(p, <<>>)
          BY <2>1 DEF AddByte
        <4>3. QED
          BY <2>4, <4>1, <4>2, AppendProperties
      <3>2. b # sep => Len(q) = Len(p)
        BY <2>1, AddByteFacts
      <3>3. QED
        BY <2>4, <3>1, <3>2
    <2>7. sep \notin Range(Append(s, b)) => q = <<Append(s, b)>>
      BY <2>2, <2>3, <2>5
    <2>8. Len(q) = 1 => q = <<Append(s, b)>>
      BY <2>2, <2>5, <2>6
    <2>9. QED
      BY <2>1, <2>7, <2>8 DEF q
  <1> HIDE DEF X
  <1>3. \A s \in Seq(Bytes) : s \in X
    BY <1>1, <1>2, SeqInduction
  <1>4. QED
    BY <1>3 DEF X

\* A byte goes to the end of the pieces, whatever is before them.
LEMMA AddByteConcat ==
    ASSUME NEW f \in Seq(Seq(Bytes)), NEW q \in Pieces, NEW b \in Bytes, NEW sep
    PROVE  f \o q \in Pieces /\ AddByte(f \o q, b, sep) = f \o AddByte(q, b, sep)
  <1>1. q \in Seq(Seq(Bytes)) /\ q # <<>>
    BY DEF Pieces
  <1> DEFINE r == Front(q)
             x == Last(q)
  <1>2. r \in Seq(Seq(Bytes)) /\ x \in Seq(Bytes) /\ q = Append(r, x)
    BY <1>1, FrontLast
  <1> HIDE DEF r, x
  <1>3. \A y \in Seq(Bytes) : f \o Append(r, y) = Append(f \o r, y)
    <2> SUFFICES ASSUME NEW y \in Seq(Bytes) PROVE f \o Append(r, y) = Append(f \o r, y)
      OBVIOUS
    <2>1. QED
      BY <1>2, AppendTogether
  <1>4. f \o r \in Seq(Seq(Bytes))
    BY <1>2, ConcatProperties
  <1>5. f \o q = Append(f \o r, x)
    BY <1>2, <1>3
  <1>6. f \o q \in Pieces
    BY <1>2, <1>4, <1>5, AppendProperties DEF Pieces
  <1>7. CASE b = sep
    <2>1. <<>> \in Seq(Bytes)
      OBVIOUS
    <2>2. f \o Append(q, <<>>) = Append(f \o q, <<>>)
      BY <1>1, <2>1, AppendTogether
    <2>3. QED
      BY <1>6, <1>7, <2>2 DEF AddByte
  <1>8. CASE b # sep
    <2>1. \A t \in Pieces : AddByte(t, b, sep) = Append(Front(t), Append(Last(t), b))
      <3> SUFFICES ASSUME NEW t \in Pieces PROVE AddByte(t, b, sep) = Append(Front(t), Append(Last(t), b))
        OBVIOUS
      <3>1. /\ AddByte(t, b, sep) \in Pieces /\ Last(AddByte(t, b, sep)) = Append(Last(t), b)
            /\ Front(AddByte(t, b, sep)) = Front(t)
        BY <1>8, AddByteFacts
      <3>2. AddByte(t, b, sep) \in Seq(Seq(Bytes)) /\ AddByte(t, b, sep) # <<>>
        BY <3>1 DEF Pieces
      <3>3. AddByte(t, b, sep) = Append(Front(AddByte(t, b, sep)), Last(AddByte(t, b, sep)))
        BY <3>2, FrontLast
      <3>4. QED
        BY <3>1, <3>3
    <2>2. Front(f \o q) = f \o r /\ Last(f \o q) = x
      <3> DEFINE g == f \o r
      <3> HIDE DEF g
      <3>1. g \in Seq(Seq(Bytes)) /\ f \o q = Append(g, x)
        BY <1>4, <1>5 DEF g
      <3>2. Front(Append(g, x)) = g /\ Last(Append(g, x)) = x
        BY <1>2, <3>1, FrontLastAppend
      <3>3. QED
        BY <3>1, <3>2 DEF g
    <2>3. AddByte(f \o q, b, sep) = Append(f \o r, Append(x, b))
      BY <1>6, <2>1, <2>2
    <2>4. AddByte(q, b, sep) = Append(r, Append(x, b))
      BY <2>1 DEF r, x
    <2>5. Append(x, b) \in Seq(Bytes)
      BY <1>2, AppendProperties
    <2>6. QED
      BY <1>3, <1>6, <2>3, <2>4, <2>5
  <1>9. QED
    BY <1>7, <1>8

\* Only the last piece changes when more comes, and what comes is split with it.
LEMMA SplitConcat ==
    ASSUME NEW sep, NEW a \in Seq(Bytes)
    PROVE  \A c \in Seq(Bytes) :
             SplitAt(a \o c, sep) = Front(SplitAt(a, sep)) \o SplitAt(Last(SplitAt(a, sep)) \o c, sep)
  <1> DEFINE p == SplitAt(a, sep)
             f == Front(p)
             x == Last(p)
             X == {c \in Seq(Bytes) : SplitAt(a \o c, sep) = f \o SplitAt(x \o c, sep)}
  <1>1. f \in Seq(Seq(Bytes)) /\ x \in Seq(Bytes) /\ p = Append(f, x) /\ sep \notin Range(x)
    <2>1. p \in Seq(Seq(Bytes)) /\ p # <<>>
      <3>1. p \in Pieces
        BY SplitIsPieces
      <3>2. QED
        BY <3>1 DEF Pieces
    <2>2. Len(p) \in 1 .. Len(p)
      BY <2>1, EmptySeq
    <2>3. sep \notin Range(p[Len(p)])
      BY <2>2, PiecesFree
    <2> HIDE DEF p
    <2>4. QED
      BY <2>1, <2>3, FrontLast DEF Last
  <1> HIDE DEF f, x
  <1>2. <<>> \in X
    <2>1. a \o <<>> = a /\ x \o <<>> = x /\ <<>> \in Seq(Bytes)
      BY <1>1, ConcatEmptySeq
    <2>2. SplitAt(x, sep) = <<x>>
      BY <1>1, FreeIsOne
    <2>3. p = f \o <<x>>
      BY <1>1, AppendIsConcat
    <2>4. SplitAt(a \o <<>>, sep) = f \o SplitAt(x \o <<>>, sep)
      BY <2>1, <2>2, <2>3 DEF p
    <2>5. QED
      BY <2>1, <2>4
  <1>3. ASSUME NEW c \in Seq(Bytes), c \in X, NEW b \in Bytes PROVE Append(c, b) \in X
    <2>1. \A y \in Seq(Bytes) : y \o c \in Seq(Bytes) /\ y \o Append(c, b) = Append(y \o c, b)
      <3> SUFFICES ASSUME NEW y \in Seq(Bytes)
                   PROVE  y \o c \in Seq(Bytes) /\ y \o Append(c, b) = Append(y \o c, b)
        OBVIOUS
      <3>1. QED
        BY ConcatProperties, AppendTogether
    <2>2. SplitAt(a \o c, sep) = f \o SplitAt(x \o c, sep)
      BY <1>3
    <2>3. /\ SplitAt(x \o c, sep) \in Pieces
          /\ SplitAt(Append(x \o c, b), sep) = AddByte(SplitAt(x \o c, sep), b, sep)
          /\ SplitAt(Append(a \o c, b), sep) = AddByte(SplitAt(a \o c, sep), b, sep)
      BY <1>1, <2>1, SplitAtAppend
    <2>4. AddByte(f \o SplitAt(x \o c, sep), b, sep) = f \o AddByte(SplitAt(x \o c, sep), b, sep)
      BY <1>1, <2>3, AddByteConcat
    <2>5. Append(c, b) \in Seq(Bytes)
      BY AppendProperties
    <2>6. QED
      BY <1>1, <2>1, <2>2, <2>3, <2>4, <2>5
  <1> HIDE DEF X
  <1>4. \A c \in Seq(Bytes) : c \in X
    BY <1>2, <1>3, SeqInduction
  <1>5. QED
    BY <1>4 DEF X, f, x

\* One piece after the other, when a byte is added.
LEMMA AddByteMeans ==
    ASSUME NEW q \in Pieces, NEW b \in Bytes, NEW sep
    PROVE  /\ AddByte(q, b, sep) \in Pieces
           /\ q \in Seq(Seq(Bytes)) /\ Len(q) \in Nat \ {0} /\ \A i \in 1 .. Len(q) : q[i] \in Seq(Bytes)
           /\ Len(AddByte(q, b, sep)) = IF b = sep THEN Len(q) + 1 ELSE Len(q)
           /\ b = sep => /\ \A i \in 1 .. Len(q) : AddByte(q, b, sep)[i] = q[i]
                         /\ AddByte(q, b, sep)[Len(q) + 1] = <<>>
           /\ b # sep => \A i \in 1 .. Len(q) :
                AddByte(q, b, sep)[i] = IF i = Len(q) THEN Append(q[Len(q)], b) ELSE q[i]
  <1>1. q \in Seq(Seq(Bytes)) /\ Len(q) \in Nat \ {0} /\ \A i \in 1 .. Len(q) : q[i] \in Seq(Bytes)
    BY EmptySeq, ElementOfSeq DEF Pieces
  <1>2. AddByte(q, b, sep) \in Pieces
    BY AddByteFacts
  <1>3. CASE b = sep
    <2>1. <<>> \in Seq(Bytes) /\ AddByte(q, b, sep) = Append(q, <<>>)
      BY <1>3 DEF AddByte
    <2>2. /\ Len(Append(q, <<>>)) = Len(q) + 1 /\ Append(q, <<>>)[Len(q) + 1] = <<>>
          /\ \A i \in 1 .. Len(q) : Append(q, <<>>)[i] = q[i]
      BY <1>1, <2>1, AppendProperties
    <2>3. QED
      BY <1>1, <1>2, <1>3, <2>1, <2>2
  <1>4. CASE b # sep
    <2> DEFINE e == Append(q[Len(q)], b)
    <2>1. Len(q) \in 1 .. Len(q) /\ e \in Seq(Bytes)
      BY <1>1, AppendProperties
    <2>2. AddByte(q, b, sep) = [q EXCEPT ![Len(q)] = e]
      BY <1>1, <1>4 DEF AddByte
    <2> HIDE DEF e
    <2>3. /\ Len([q EXCEPT ![Len(q)] = e]) = Len(q)
          /\ \A i \in 1 .. Len(q) : [q EXCEPT ![Len(q)] = e][i] = IF i = Len(q) THEN e ELSE q[i]
      BY <1>1, <2>1, ExceptSeq
    <2>4. QED
      BY <1>1, <1>2, <1>4, <2>2, <2>3 DEF e
  <1>5. QED
    BY <1>3, <1>4

\* What does not occur in a sequence does not occur in its pieces.
LEMMA KeepsFree ==
    ASSUME NEW sep, NEW r
    PROVE  \A s \in Seq(Bytes) : r \notin Range(s) =>
             \A i \in 1 .. Len(SplitAt(s, sep)) : r \notin Range(SplitAt(s, sep)[i])
  <1> DEFINE Good(s) == r \notin Range(s) => \A i \in 1 .. Len(SplitAt(s, sep)) : r \notin Range(SplitAt(s, sep)[i])
             X == {s \in Seq(Bytes) : Good(s)}
  <1>0. <<>> \in Seq(Bytes) /\ r \notin Range(<<>>)
    BY DEF Range
  <1>1. <<>> \in X
    <2>1. Len(<< <<>> >>) = 1 /\ \A i \in 1 .. 1 : << <<>> >>[i] = <<>>
      OBVIOUS
    <2>2. QED
      BY <1>0, <2>1, SplitAtEmpty
  <1>2. ASSUME NEW s \in Seq(Bytes), s \in X, NEW b \in Bytes PROVE Append(s, b) \in X
    <2> DEFINE p == SplitAt(s, sep)
               q == SplitAt(Append(s, b), sep)
    <2>1. p \in Pieces /\ q = AddByte(p, b, sep) /\ Append(s, b) \in Seq(Bytes)
      BY SplitAtAppend, AppendProperties
    <2>2. r \notin Range(s) => \A i \in 1 .. Len(p) : r \notin Range(p[i])
      BY <1>2
    <2>3. Range(Append(s, b)) = Range(s) \cup {b}
      BY RangeAppend
    <2> HIDE DEF p, q
    <2>4. /\ Len(p) \in Nat \ {0} /\ \A i \in 1 .. Len(p) : p[i] \in Seq(Bytes)
          /\ Len(q) = IF b = sep THEN Len(p) + 1 ELSE Len(p)
          /\ b = sep => (\A i \in 1 .. Len(p) : q[i] = p[i]) /\ q[Len(p) + 1] = <<>>
          /\ b # sep => \A i \in 1 .. Len(p) : q[i] = IF i = Len(p) THEN Append(p[Len(p)], b) ELSE p[i]
      BY <2>1, AddByteMeans
    <2>5. ASSUME r \notin Range(Append(s, b)), NEW i \in 1 .. Len(q) PROVE r \notin Range(q[i])
      <3>1. r # b /\ \A j \in 1 .. Len(p) : r \notin Range(p[j])
        BY <2>2, <2>3, <2>5
      <3>2. Len(p) \in 1 .. Len(p) /\ Range(Append(p[Len(p)], b)) = Range(p[Len(p)]) \cup {b}
        BY <2>4, RangeAppend
      <3>3. i \in 1 .. Len(p) \/ (b = sep /\ i = Len(p) + 1)
        BY <2>4
      <3>4. CASE i \in 1 .. Len(p)
        <4>1. q[i] = p[i] \/ (i = Len(p) /\ q[i] = Append(p[Len(p)], b))
          BY <2>4, <3>4
        <4>2. QED
          BY <3>1, <3>2, <3>4, <4>1
      <3>5. CASE b = sep /\ i = Len(p) + 1
        BY <1>0, <2>4, <3>5
      <3>6. QED
        BY <3>3, <3>4, <3>5
    <2>6. QED
      BY <2>1, <2>5 DEF q
  <1> HIDE DEF X
  <1>3. \A s \in Seq(Bytes) : s \in X
    BY <1>1, <1>2, SeqInduction
  <1>4. QED
    BY <1>3 DEF X

\* What is free of the separator, and comes before, goes to the first piece.
Prepend(x, q) == [q EXCEPT ![1] = x \o q[1]]

LEMMA PrependFacts ==
    ASSUME NEW x \in Seq(Bytes), NEW q \in Pieces
    PROVE  /\ Prepend(x, q) \in Pieces /\ Len(Prepend(x, q)) = Len(q) /\ Len(q) \in Nat \ {0}
           /\ q \in Seq(Seq(Bytes)) /\ \A i \in 1 .. Len(q) : q[i] \in Seq(Bytes)
           /\ \A i \in 1 .. Len(q) : Prepend(x, q)[i] = IF i = 1 THEN x \o q[1] ELSE q[i]
  <1>1. q \in Seq(Seq(Bytes)) /\ Len(q) \in Nat \ {0} /\ \A i \in 1 .. Len(q) : q[i] \in Seq(Bytes)
    BY EmptySeq, ElementOfSeq DEF Pieces
  <1> DEFINE e == x \o q[1]
  <1>2. 1 \in 1 .. Len(q) /\ e \in Seq(Bytes)
    BY <1>1, ConcatProperties
  <1> HIDE DEF e
  <1>3. /\ [q EXCEPT ![1] = e] \in Seq(Seq(Bytes)) /\ Len([q EXCEPT ![1] = e]) = Len(q)
        /\ \A i \in 1 .. Len(q) : [q EXCEPT ![1] = e][i] = IF i = 1 THEN e ELSE q[i]
    BY <1>1, <1>2, ExceptSeq
  <1>4. Prepend(x, q) = [q EXCEPT ![1] = e]
    BY DEF Prepend, e
  <1>5. Prepend(x, q) # <<>>
    BY <1>1, <1>3, <1>4, EmptySeq
  <1>6. QED
    BY <1>1, <1>3, <1>4, <1>5 DEF e, Pieces

LEMMA SplitPrepend ==
    ASSUME NEW sep, NEW x \in Seq(Bytes), sep \notin Range(x)
    PROVE  \A c \in Seq(Bytes) : SplitAt(x \o c, sep) = Prepend(x, SplitAt(c, sep))
  <1> DEFINE X == {c \in Seq(Bytes) : SplitAt(x \o c, sep) = Prepend(x, SplitAt(c, sep))}
  <1>1. <<>> \in X
    <2>1. <<>> \in Seq(Bytes) /\ x \o <<>> = x
      BY ConcatEmptySeq
    <2>2. SplitAt(x, sep) = <<x>> /\ SplitAt(<<>>, sep) = <<<<>>>>
      BY FreeIsOne, SplitAtEmpty
    <2>3. <<<<>>>>[1] = <<>> /\ [<<<<>>>> EXCEPT ![1] = x] = <<x>>
      OBVIOUS
    <2>4. Prepend(x, <<<<>>>>) = <<x>>
      BY <2>1, <2>3 DEF Prepend
    <2>5. QED
      BY <2>1, <2>2, <2>4
  <1>2. ASSUME NEW c \in Seq(Bytes), c \in X, NEW b \in Bytes PROVE Append(c, b) \in X
    <2> DEFINE q == SplitAt(c, sep)
               l == AddByte(Prepend(x, q), b, sep)
               r == Prepend(x, AddByte(q, b, sep))
    <2>1. Append(c, b) \in Seq(Bytes) /\ x \o c \in Seq(Bytes) /\ x \o Append(c, b) = Append(x \o c, b)
      BY AppendProperties, ConcatProperties, AppendTogether
    <2>2. /\ q \in Pieces /\ SplitAt(Append(c, b), sep) = AddByte(q, b, sep)
          /\ SplitAt(Append(x \o c, b), sep) = AddByte(SplitAt(x \o c, sep), b, sep)
      BY <2>1, SplitAtAppend
    <2>3. SplitAt(x \o c, sep) = Prepend(x, q)
      BY <1>2
    <2> HIDE DEF q
    <2> DEFINE p == Prepend(x, q)
               a == AddByte(q, b, sep)
    <2>4. /\ p \in Pieces /\ Len(p) = Len(q) /\ Len(q) \in Nat \ {0}
          /\ \A i \in 1 .. Len(q) : q[i] \in Seq(Bytes)
          /\ \A i \in 1 .. Len(q) : p[i] = IF i = 1 THEN x \o q[1] ELSE q[i]
      BY <2>2, PrependFacts
    <2>5. /\ a \in Pieces /\ Len(a) = IF b = sep THEN Len(q) + 1 ELSE Len(q)
          /\ b = sep => (\A i \in 1 .. Len(q) : a[i] = q[i]) /\ a[Len(q) + 1] = <<>>
          /\ b # sep => \A i \in 1 .. Len(q) : a[i] = IF i = Len(q) THEN Append(q[Len(q)], b) ELSE q[i]
      BY <2>2, AddByteMeans
    <2> HIDE DEF p, a
    <2>6. /\ l \in Pieces /\ Len(l) = IF b = sep THEN Len(p) + 1 ELSE Len(p)
          /\ b = sep => (\A i \in 1 .. Len(p) : l[i] = p[i]) /\ l[Len(p) + 1] = <<>>
          /\ b # sep => \A i \in 1 .. Len(p) : l[i] = IF i = Len(p) THEN Append(p[Len(p)], b) ELSE p[i]
      <3>1. l = AddByte(p, b, sep)
        BY DEF p
      <3> HIDE DEF l
      <3>2. QED
        BY <2>4, <3>1, AddByteMeans
    <2>7. /\ r \in Pieces /\ Len(r) = Len(a)
          /\ \A i \in 1 .. Len(a) : r[i] = IF i = 1 THEN x \o a[1] ELSE a[i]
      <3>1. r = Prepend(x, a)
        BY DEF a
      <3> HIDE DEF r
      <3>2. QED
        BY <2>5, <3>1, PrependFacts
    <2> HIDE DEF l, r
    <2>8. Len(l) = Len(r)
      BY <2>4, <2>5, <2>6, <2>7
    <2>9. ASSUME NEW i \in 1 .. Len(l) PROVE l[i] = r[i]
      <3>1. CASE b = sep
        <4>1. i \in 1 .. Len(q) \/ i = Len(q) + 1
          BY <2>4, <2>6, <3>1
        <4>2. Len(q) + 1 # 1 /\ 1 \in 1 .. Len(q) /\ i \in 1 .. Len(a) /\ i \in 1 .. Len(r)
          BY <2>4, <2>7, <2>8
        <4>3. CASE i \in 1 .. Len(q)
          <5>1. l[i] = p[i]
            BY <2>4, <2>6, <3>1, <4>3
          <5>2. p[i] = IF i = 1 THEN x \o q[1] ELSE q[i]
            BY <2>4, <4>3
          <5>3. a[i] = q[i] /\ a[1] = q[1]
            BY <2>5, <3>1, <4>2, <4>3
          <5>4. r[i] = IF i = 1 THEN x \o a[1] ELSE a[i]
            BY <2>7, <4>2
          <5>5. QED
            BY <5>1, <5>2, <5>3, <5>4
        <4>4. CASE i = Len(q) + 1
          <5>1. l[i] = <<>> /\ a[i] = <<>> /\ i # 1
            BY <2>4, <2>5, <2>6, <3>1, <4>2, <4>4
          <5>2. r[i] = a[i]
            BY <2>7, <4>2, <5>1
          <5>3. QED
            BY <5>1, <5>2
        <4>5. QED
          BY <4>1, <4>3, <4>4
      <3>2. CASE b # sep
        <4>1. i \in 1 .. Len(q) /\ i \in 1 .. Len(a) /\ 1 \in 1 .. Len(q) /\ Len(q) \in 1 .. Len(q)
          BY <2>4, <2>5, <2>6, <3>2
        <4>2. x \o Append(q[1], b) = Append(x \o q[1], b)
          BY <2>4, <4>1, AppendTogether
        <4>3. l[i] = IF i = Len(q) THEN Append(p[i], b) ELSE p[i]
          BY <2>4, <2>6, <3>2, <4>1
        <4>4. r[i] = IF i = 1 THEN x \o a[1] ELSE a[i]
          BY <2>7, <4>1
        <4>5. a[i] = IF i = Len(q) THEN Append(q[i], b) ELSE q[i]
          BY <2>5, <3>2, <4>1
        <4>6. p[i] = IF i = 1 THEN x \o q[1] ELSE q[i]
          BY <2>4, <4>1
        <4>7. CASE i = 1
          BY <4>2, <4>3, <4>4, <4>5, <4>6, <4>7
        <4>8. CASE i # 1
          BY <4>3, <4>4, <4>5, <4>6, <4>8
        <4>9. QED
          BY <4>7, <4>8
      <3>3. QED
        BY <3>1, <3>2
    <2>10. l = r
      <3>1. l \in Seq(Seq(Bytes)) /\ r \in Seq(Seq(Bytes))
        BY <2>6, <2>7 DEF Pieces
      <3>2. QED
        BY <2>8, <2>9, <3>1, SeqEqual
    <2>11. QED
      BY <2>1, <2>2, <2>3, <2>10 DEF l, r
  <1> HIDE DEF X
  <1>3. \A c \in Seq(Bytes) : c \in X
    BY <1>1, <1>2, SeqInduction
  <1>4. QED
    BY <1>3 DEF X

-----------------------------------------------------------------------------
(* What the display shows of a line *)

\* The rewrites of a line, and the latest of them that is not empty.
Parts(l) == SplitAt(l, Return)
Visible(q) == Max({0} \cup {i \in DOMAIN q : q[i] # <<>>})
Rewrite(q) == IF Visible(q) = 0 THEN <<>> ELSE SubSeq(q[Visible(q)], 1, Min({LineLimit, Len(q[Visible(q)])}))

LEMMA DisplayMeans == \A l : Display(l) = Rewrite(Parts(l))
  BY DEF Display, Rewrite, Visible, Parts

LEMMA VisibleFacts ==
    ASSUME NEW q \in Seq(Seq(Bytes))
    PROVE  /\ Visible(q) \in 0 .. Len(q) /\ (Visible(q) # 0 => q[Visible(q)] # <<>>)
           /\ \A i \in 1 .. Len(q) : q[i] # <<>> => i <= Visible(q)
  <1> DEFINE A == {i \in DOMAIN q : q[i] # <<>>}
  <1>1. Len(q) \in Nat /\ DOMAIN q = 1 .. Len(q)
    BY LenProperties
  <1>2. A \in SUBSET (1 .. Len(q)) /\ \A i \in A : q[i] # <<>>
    BY <1>1
  <1>3. \A i \in 1 .. Len(q) : q[i] # <<>> => i \in A
    BY <1>1
  <1>4. Visible(q) = Max({0} \cup A)
    BY DEF Visible
  <1> HIDE DEF A
  <1>5. Visible(q) \in {0} \cup A /\ \A i \in A : i <= Visible(q)
    BY <1>1, <1>2, <1>4, LargestExists
  <1>6. Visible(q) \in 0 .. Len(q)
    <2> DEFINE v == Visible(q)
               k == Len(q)
    <2>1. k \in Nat /\ v \in {0} \cup A /\ A \subseteq 1 .. k
      BY <1>1, <1>2, <1>5
    <2> HIDE DEF v, k
    <2>2. v \in 0 .. k
      BY <2>1
    <2>3. QED
      BY <2>2 DEF v, k
  <1>7. Visible(q) # 0 => q[Visible(q)] # <<>>
    BY <1>2, <1>5
  <1>8. QED
    BY <1>3, <1>5, <1>6, <1>7

\* What is before a rewrite that is not empty is not shown.
LEMMA RewriteConcat ==
    ASSUME NEW r \in Seq(Seq(Bytes)), NEW s \in Seq(Seq(Bytes)), Len(s) # 0, s[1] # <<>>
    PROVE  Rewrite(r \o s) = Rewrite(s)
  <1> DEFINE t == r \o s
  <1>1. /\ Len(r) \in Nat /\ Len(s) \in Nat \ {0} /\ t \in Seq(Seq(Bytes)) /\ Len(t) = Len(r) + Len(s)
        /\ \A i \in 1 .. Len(r) + Len(s) : t[i] = IF i <= Len(r) THEN r[i] ELSE s[i - Len(r)]
    BY LenProperties, ConcatProperties
  <1> HIDE DEF t
  <1> DEFINE m == Visible(s)
             k == Visible(t)
             n == Len(r)
  <1>2. /\ m \in 0 .. Len(s) /\ (m # 0 => s[m] # <<>>)
        /\ \A i \in 1 .. Len(s) : s[i] # <<>> => i <= m
    BY VisibleFacts
  <1>3. /\ k \in 0 .. Len(t) /\ (k # 0 => t[k] # <<>>)
        /\ \A i \in 1 .. Len(t) : t[i] # <<>> => i <= k
    BY <1>1, VisibleFacts
  <1> HIDE DEF m, k
  <1>4. 1 \in 1 .. Len(s)
    BY <1>1
  <1>5. m \in 1 .. Len(s) /\ s[m] # <<>>
    <2>1. 1 <= m /\ m \in 0 .. Len(s)
      BY <1>2, <1>4
    <2>2. Len(s) \in Nat
      BY <1>1
    <2>3. m \in 1 .. Len(s) /\ m # 0
      BY <2>1, <2>2
    <2>4. QED
      BY <1>2, <2>3
  <1>6. n + m \in 1 .. Len(t) /\ ~(n + m <= n) /\ (n + m) - n = m
    BY <1>1, <1>5
  <1>7. t[n + m] = s[m]
    BY <1>1, <1>6
  <1>8. n + m <= k
    BY <1>3, <1>5, <1>6, <1>7
  <1>9. k \in 1 .. Len(t) /\ ~(k <= n) /\ k - n \in 1 .. Len(s) /\ k # 0
    <2>1. n \in Nat /\ Len(s) \in Nat /\ Len(t) = n + Len(s)
      BY <1>1
    <2>2. k \in 0 .. Len(t) /\ m \in 1 .. Len(s) /\ n + m <= k
      BY <1>3, <1>5, <1>8
    <2> HIDE DEF n
    <2>3. QED
      BY <2>1, <2>2
  <1>10. t[k] = s[k - n]
    BY <1>1, <1>9
  <1>11. k - n <= m
    BY <1>2, <1>3, <1>9, <1>10
  <1>12. k = n + m /\ m # 0
    <2>1. n \in Nat /\ Len(s) \in Nat /\ k \in 1 .. Len(t) /\ Len(t) \in Nat
      BY <1>1, <1>9
    <2>2. m \in 1 .. Len(s) /\ n + m <= k /\ k - n <= m
      BY <1>5, <1>8, <1>11
    <2> HIDE DEF n
    <2>3. QED
      BY <2>1, <2>2
  <1>13. t[k] = s[m]
    BY <1>7, <1>12
  <1>14. QED
    BY <1>9, <1>12, <1>13 DEF Rewrite, t, m, k

\* No carriage return follows another.
Spaced(s) == \A i \in DOMAIN s : s[i] = Return /\ i < Len(s) => s[i + 1] # Return

LEMMA SpacedAppend ==
    ASSUME NEW s \in Seq(Bytes), NEW b \in Bytes, Spaced(Append(s, b))
    PROVE  Spaced(s) /\ (s # <<>> /\ s[Len(s)] = Return => b # Return)
  <1> DEFINE t == Append(s, b)
  <1>1. /\ t \in Seq(Bytes) /\ Len(t) = Len(s) + 1 /\ t[Len(s) + 1] = b
        /\ \A i \in 1 .. Len(s) : t[i] = s[i]
    BY AppendProperties
  <1>2. Len(s) \in Nat /\ DOMAIN s = 1 .. Len(s) /\ DOMAIN t = 1 .. Len(t) /\ (s # <<>> => Len(s) # 0)
    BY <1>1, LenProperties, EmptySeq
  <1>3. \A i \in DOMAIN t : t[i] = Return /\ i < Len(t) => t[i + 1] # Return
    BY DEF Spaced
  <1> HIDE DEF t
  <1>4. ASSUME NEW i \in DOMAIN s, s[i] = Return, i < Len(s) PROVE s[i + 1] # Return
    <2>1. i \in DOMAIN t /\ i < Len(t) /\ i \in 1 .. Len(s) /\ i + 1 \in 1 .. Len(s)
      BY <1>1, <1>2, <1>4
    <2>2. t[i] = s[i] /\ t[i + 1] = s[i + 1]
      BY <1>1, <2>1
    <2>3. QED
      BY <1>3, <1>4, <2>1, <2>2
  <1>5. ASSUME s # <<>>, s[Len(s)] = Return PROVE b # Return
    <2>1. Len(s) \in 1 .. Len(s) /\ Len(s) \in DOMAIN t /\ Len(s) < Len(t)
      BY <1>1, <1>2, <1>5
    <2>2. t[Len(s)] = Return
      BY <1>1, <1>5, <2>1
    <2>3. QED
      BY <1>1, <1>3, <2>1, <2>2
  <1>6. QED
    BY <1>4, <1>5 DEF Spaced

\* The last two rewrites, how long they are, and when one is empty.
LastTwo(s, p) ==
    /\ Len(p[Len(p)]) <= Len(s)
    /\ Len(p) >= 2 => Len(p[Len(p) - 1]) + 1 + Len(p[Len(p)]) <= Len(s)
    /\ Len(p) = 2 => s = (p[1] \o <<Return>>) \o p[2]
    /\ Spaced(s) => /\ \A i \in 2 .. Len(p) - 1 : p[i] # <<>>
                    /\ Len(p) >= 2 /\ p[Len(p)] = <<>> => s # <<>> /\ s[Len(s)] = Return

LEMMA LastTwoRewrites == \A s \in Seq(Bytes) : LastTwo(s, Parts(s))
  <1> DEFINE X == {s \in Seq(Bytes) : LastTwo(s, Parts(s))}
  <1>1. <<>> \in X
    <2>1. Parts(<<>>) = <<<<>>>> /\ <<>> \in Seq(Bytes)
      BY SplitAtEmpty DEF Parts
    <2>2. Len(<<<<>>>>) = 1 /\ Len(<<>>) = 0 /\ <<<<>>>>[1] = <<>> /\ 2 .. 1 - 1 = {}
      OBVIOUS
    <2>3. LastTwo(<<>>, <<<<>>>>)
      BY <2>2 DEF LastTwo
    <2>4. QED
      BY <2>1, <2>3
  <1>2. ASSUME NEW s \in Seq(Bytes), s \in X, NEW b \in Bytes PROVE Append(s, b) \in X
    <2> DEFINE p == Parts(s)
               q == Parts(Append(s, b))
               t == Append(s, b)
               n == Len(p)
    <2>1. /\ t \in Seq(Bytes) /\ Len(t) = Len(s) + 1 /\ t[Len(s) + 1] = b /\ Len(s) \in Nat /\ t # <<>>
      BY AppendProperties, LenProperties
    <2>2. p \in Pieces /\ q = AddByte(p, b, Return)
      BY SplitAtAppend DEF Parts
    <2>3. LastTwo(s, p)
      BY <1>2
    <2>4. Len(p) = 1 => p = <<s>>
      BY FreeIsOne DEF Parts
    <2> HIDE DEF p, q
    <2>5. /\ n \in Nat \ {0} /\ \A i \in 1 .. n : p[i] \in Seq(Bytes)
          /\ Len(q) = IF b = Return THEN n + 1 ELSE n
          /\ b = Return => (\A i \in 1 .. n : q[i] = p[i]) /\ q[n + 1] = <<>>
          /\ b # Return => \A i \in 1 .. n : q[i] = IF i = n THEN Append(p[n], b) ELSE p[i]
      BY <2>2, AddByteMeans
    <2>6. n \in 1 .. n /\ \A i \in 1 .. n : Len(p[i]) \in Nat
      BY <2>5, LenProperties
    <2>7. Spaced(t) => Spaced(s) /\ (s # <<>> /\ s[Len(s)] = Return => b # Return)
      BY SpacedAppend
    <2>8. CASE b = Return
      <3>1. Len(q) = n + 1 /\ q[n + 1] = <<>> /\ (n + 1) - 1 = n /\ q[n] = p[n] /\ Len(<<>>) = 0
        BY <2>5, <2>6, <2>8
      <3>2. Len(q[n + 1]) <= Len(t) /\ Len(p[n]) + 1 + 0 <= Len(t) /\ Len(p[n]) <= Len(s)
        BY <2>1, <2>3, <2>6, <3>1 DEF LastTwo
      <3>3. ASSUME Len(q) = 2 PROVE t = (q[1] \o <<Return>>) \o q[2]
        <4>1. n = 1 /\ p = <<s>>
          <5>1. n \in Nat /\ n + 1 = 2
            BY <2>5, <3>1, <3>3
          <5>2. n = 1
            <6> HIDE DEF n
            <6>1. QED
              BY <5>1
          <5>3. QED
            BY <2>4, <5>2
        <4>2. q[1] = s /\ q[2] = <<>>
          BY <3>1, <4>1
        <4>3. t = s \o <<Return>>
          BY <2>8, AppendIsConcat
        <4>4. t \o <<>> = t
          BY <2>1, ConcatEmptySeq
        <4>5. QED
          BY <4>2, <4>3, <4>4
      <3>4. ASSUME Spaced(t), NEW i \in 2 .. Len(q) - 1 PROVE q[i] # <<>>
        <4>1. Spaced(s) /\ (s = <<>> \/ s[Len(s)] # Return)
          BY <2>7, <2>8, <3>4
        <4>2. i \in 1 .. n /\ q[i] = p[i]
          BY <2>5, <2>8, <3>1
        <4>3. CASE i \in 2 .. n - 1
          BY <2>3, <4>1, <4>2, <4>3 DEF LastTwo
        <4>4. CASE i = n
          <5>1. n >= 2
            <6>1. i >= 2
              OBVIOUS
            <6> HIDE DEF n
            <6>2. QED
              BY <4>4, <6>1
          <5>2. p[n] = <<>> => s # <<>> /\ s[Len(s)] = Return
            BY <2>3, <4>1, <5>1 DEF LastTwo
          <5>3. QED
            BY <4>1, <4>2, <4>4, <5>2
        <4>5. i \in 2 .. n - 1 \/ i = n
          <5>1. i \in 2 .. Len(q) - 1 /\ Len(q) = n + 1 /\ n \in Nat
            BY <2>5, <3>1
          <5> HIDE DEF n
          <5>2. QED
            BY <5>1
        <4>6. QED
          BY <4>3, <4>4, <4>5
      <3>5. t[Len(t)] = Return
        BY <2>1, <2>8
      <3>6. LastTwo(t, q)
        BY <2>1, <3>1, <3>2, <3>3, <3>4, <3>5 DEF LastTwo
      <3>7. QED
        BY <2>1, <3>6 DEF q
    <2>9. CASE b # Return
      <3>1. Len(q) = n /\ q[n] = Append(p[n], b) /\ \A i \in 1 .. n : i # n => q[i] = p[i]
        BY <2>5, <2>6, <2>9
      <3>2. Len(q[n]) = Len(p[n]) + 1 /\ q[n] # <<>>
        BY <2>5, <2>6, <3>1, AppendProperties
      <3>3. Len(q[n]) <= Len(t)
        BY <2>1, <2>3, <2>6, <3>2 DEF LastTwo
      <3>4. ASSUME n >= 2 PROVE Len(q[n - 1]) + 1 + Len(q[n]) <= Len(t)
        <4>1. n - 1 \in 1 .. n /\ n - 1 # n
          BY <2>5, <3>4
        <4>2. Len(p[n - 1]) + 1 + Len(p[n]) <= Len(s) /\ q[n - 1] = p[n - 1]
          BY <2>3, <3>1, <3>4, <4>1 DEF LastTwo
        <4>3. Len(p[n - 1]) \in Nat /\ Len(p[n]) \in Nat
          BY <2>6, <4>1
        <4>4. QED
          <5> DEFINE x == Len(p[n - 1])
                     y == Len(p[n])
                     z == Len(s)
          <5>1. x \in Nat /\ y \in Nat /\ z \in Nat /\ x + 1 + y <= z
            BY <2>1, <4>2, <4>3
          <5>2. Len(q[n - 1]) = x /\ Len(q[n]) = y + 1 /\ Len(t) = z + 1
            BY <2>1, <3>2, <4>2
          <5> HIDE DEF x, y, z
          <5>3. x + 1 + (y + 1) <= z + 1
            BY <5>1
          <5>4. QED
            BY <5>2, <5>3
      <3>5. ASSUME n = 2 PROVE t = (q[1] \o <<Return>>) \o q[2]
        <4>1. 1 \in 1 .. n /\ 2 \in 1 .. n
          BY <3>5
        <4>2. q[1] = p[1] /\ q[2] = Append(p[2], b)
          BY <3>1, <3>5, <4>1
        <4> DEFINE x == p[1] \o <<Return>>
        <4>3. x \in Seq(Bytes) /\ p[2] \in Seq(Bytes)
          <5>1. <<Return>> \in Seq(Bytes)
            BY BridgesAssumption
          <5>2. QED
            BY <2>5, <4>1, <5>1, ConcatProperties
        <4>4. s = x \o p[2]
          BY <2>3, <3>5 DEF LastTwo
        <4> HIDE DEF x
        <4>5. x \o Append(p[2], b) = Append(x \o p[2], b)
          BY <4>3, AppendTogether
        <4>6. QED
          BY <4>2, <4>4, <4>5 DEF x
      <3>6. ASSUME Spaced(t), NEW i \in 2 .. n - 1 PROVE q[i] # <<>>
        <4>1. i \in 1 .. n /\ i # n /\ q[i] = p[i]
          BY <2>5, <3>1
        <4>2. QED
          BY <2>3, <2>7, <3>6, <4>1 DEF LastTwo
      <3>7. LastTwo(t, q)
        BY <2>5, <3>1, <3>2, <3>3, <3>4, <3>5, <3>6 DEF LastTwo
      <3>8. QED
        BY <2>1, <3>7 DEF q
    <2>10. QED
      BY <2>8, <2>9
  <1> HIDE DEF X
  <1>3. \A s \in Seq(Bytes) : s \in X
    BY <1>1, <1>2, SeqInduction
  <1>4. QED
    BY <1>3 DEF X

\* What feed() keeps of an unfinished line: the last two rewrites.
Two(l) == IF Len(Parts(l)) <= 2 THEN l
          ELSE (Parts(l)[Len(Parts(l)) - 1] \o <<Return>>) \o Parts(l)[Len(Parts(l))]

LEMMA TwoFacts ==
    ASSUME NEW l \in Seq(Bytes)
    PROVE  Two(l) \in Seq(Bytes) /\ Len(Two(l)) <= Len(l) /\ (Newline \notin Range(l) => Newline \notin Range(Two(l)))
  <1> DEFINE p == Parts(l)
  <1>1. CASE Len(p) <= 2
    <2>1. Len(l) \in Nat /\ Two(l) = l
      BY <1>1, LenProperties DEF Two
    <2>2. QED
      BY <2>1
  <1>2. CASE ~(Len(p) <= 2)
    <2>1. p \in Pieces /\ LastTwo(l, p)
      BY SplitIsPieces, LastTwoRewrites DEF Parts
    <2>2. Two(l) = (p[Len(p) - 1] \o <<Return>>) \o p[Len(p)]
      BY <1>2 DEF Two
    <2>3. \A r : r \notin Range(l) => \A i \in 1 .. Len(p) : r \notin Range(p[i])
      BY KeepsFree DEF Parts
    <2> HIDE DEF p
    <2>4. p \in Seq(Seq(Bytes)) /\ Len(p) \in Nat
      BY <2>1, LenProperties DEF Pieces
    <2> DEFINE n == Len(p)
               x == p[n - 1]
               y == p[n]
               c == <<Return>>
    <2>5. n - 1 \in 1 .. n /\ n \in 1 .. n /\ n >= 2
      <3>1. n \in Nat /\ ~(n <= 2)
        BY <1>2, <2>4
      <3> HIDE DEF n
      <3>2. QED
        BY <3>1
    <2>6. x \in Seq(Bytes) /\ y \in Seq(Bytes)
      BY <2>4, <2>5, ElementOfSeq
    <2>7. c \in Seq(Bytes) /\ Len(c) = 1 /\ Range(c) = {Return}
      BY BridgesAssumption DEF Range
    <2>8. Len(x) + 1 + Len(y) <= Len(l)
      BY <2>1, <2>5 DEF LastTwo
    <2>9. Newline \notin Range(l) => Newline \notin Range(x) /\ Newline \notin Range(y)
      <3>1. Newline # Return
        BY BridgesAssumption
      <3>2. QED
        BY <2>3, <2>5, <3>1
    <2>10. Two(l) = (x \o c) \o y
      BY <2>2
    <2> HIDE DEF x, y, c
    <2>11. x \o c \in Seq(Bytes) /\ Len(x \o c) = Len(x) + 1 /\ Range(x \o c) = Range(x) \cup {Return}
      <3>1. x \in Seq(Bytes) /\ c \in Seq(Bytes)
        BY <2>6, <2>7
      <3>2. x \o c \in Seq(Bytes) /\ Len(x \o c) = Len(x) + Len(c)
        BY <3>1, ConcatProperties
      <3>3. Range(x \o c) = Range(x) \cup Range(c)
        BY <3>1, RangeConcatenation
      <3>4. QED
        BY <2>7, <3>2, <3>3
    <2> DEFINE z == x \o c
    <2>12. z \in Seq(Bytes) /\ Len(z) = Len(x) + 1 /\ Range(z) = Range(x) \cup {Return} /\ Two(l) = z \o y
      BY <2>10, <2>11
    <2> HIDE DEF z
    <2>13. z \o y \in Seq(Bytes) /\ Len(z \o y) = Len(z) + Len(y) /\ Range(z \o y) = Range(z) \cup Range(y)
      <3>1. z \in Seq(Bytes) /\ y \in Seq(Bytes)
        BY <2>6, <2>12
      <3>2. z \o y \in Seq(Bytes) /\ Len(z \o y) = Len(z) + Len(y)
        BY <3>1, ConcatProperties
      <3>3. Range(z \o y) = Range(z) \cup Range(y)
        BY <3>1, RangeConcatenation
      <3>4. QED
        BY <3>2, <3>3
    <2>14. Len(Two(l)) = Len(x) + 1 + Len(y)
      BY <2>12, <2>13
    <2>15. QED
      BY <2>8, <2>9, <2>12, <2>13, <2>14, BridgesAssumption
  <1>3. QED
    BY <1>1, <1>2

\* A line that is short enough is kept without another loss.
LEMMA LatestIsTwo ==
    ASSUME NEW l \in Seq(Bytes), Len(l) <= LineLimit
    PROVE  Latest(l) = Two(l)
  <1> DEFINE t == Two(l)
             k == Len(t) - LineLimit + 1
  <1>1. t \in Seq(Bytes) /\ Len(t) <= Len(l) /\ Len(t) \in Nat /\ Len(l) \in Nat /\ LineLimit \in Nat
    BY TwoFacts, LenProperties, BridgesAssumption
  <1>2. Latest(l) = SubSeq(t, Max({1, k}), Len(t))
    BY DEF Latest, Two, Parts
  <1> HIDE DEF t
  <1>3. k \in Int /\ k <= 1
    BY <1>1
  <1> HIDE DEF k
  <1>4. Max({1, k}) = 1
    <2>1. 1 \in {1, k} /\ \A j \in {1, k} : 1 >= j
      BY <1>3
    <2>2. \A x \in {1, k} : (\A j \in {1, k} : x >= j) => x = 1
      BY <1>3
    <2>3. QED
      BY <2>1, <2>2 DEF Max
  <1>5. SubSeq(t, 1, Len(t)) = t
    BY <1>1, SubSeqFull
  <1>6. QED
    BY <1>2, <1>4, <1>5 DEF t

\* More of a line is split like more of its last two rewrites, with others before them, and
\* the first of the two is not empty then.
LEMMA TwoMeans ==
    ASSUME NEW l \in Seq(Bytes), Spaced(l), NEW h \in Seq(Bytes), Two(l) # l
    PROVE  \E r \in Seq(Seq(Bytes)), s \in Pieces :
             /\ r # <<>> /\ Len(s) >= 2 /\ s[1] # <<>>
             /\ Parts(l \o h) = r \o s /\ Parts(Two(l) \o h) = s
  <1> DEFINE p == Parts(l)
  <1>1. p \in Pieces /\ LastTwo(l, p) /\ Parts(l \o h) = Front(p) \o Parts(Last(p) \o h)
    BY SplitIsPieces, LastTwoRewrites, SplitConcat DEF Parts
  <1>2. ~(Len(p) <= 2) /\ Two(l) = (p[Len(p) - 1] \o <<Return>>) \o p[Len(p)]
    BY DEF Two
  <1>3. \A i \in 1 .. Len(p) : Return \notin Range(p[i])
    BY PiecesFree DEF Parts
  <1> HIDE DEF p
  <1> DEFINE f == Front(p)
             y == Last(p)
  <1>4. p \in Seq(Seq(Bytes)) /\ p # <<>>
    BY <1>1 DEF Pieces
  <1>5. /\ f \in Seq(Seq(Bytes)) /\ y \in Seq(Bytes) /\ p = Append(f, y)
        /\ Len(p) \in Nat \ {0} /\ Len(f) = Len(p) - 1
    BY <1>4, FrontLast
  <1>6. y = p[Len(p)]
    BY DEF Last
  <1> HIDE DEF f, y
  <1>7. Len(f) \in Nat /\ Len(f) >= 2 /\ Len(p) - 1 = Len(f) /\ Len(p) - 1 \in 2 .. Len(p) - 1
        /\ Len(p) - 1 \in 1 .. Len(p) /\ Len(p) \in 1 .. Len(p)
    <2> DEFINE n == Len(p)
               m == Len(f)
    <2>1. n \in Nat \ {0} /\ m = n - 1 /\ ~(n <= 2)
      BY <1>2, <1>5
    <2> HIDE DEF n, m
    <2>2. m \in Nat /\ m >= 2 /\ n - 1 = m /\ n - 1 \in 2 .. n - 1 /\ n - 1 \in 1 .. n /\ n \in 1 .. n
      BY <2>1
    <2>3. QED
      BY <2>2 DEF n, m
  <1>8. f # <<>> /\ \A i \in 1 .. Len(f) : p[i] = f[i]
    BY <1>5, <1>7, EmptySeq, AppendProperties
  <1> DEFINE r == Front(f)
             x == Last(f)
  <1>9. r \in Seq(Seq(Bytes)) /\ x \in Seq(Bytes) /\ f = Append(r, x) /\ Len(r) = Len(f) - 1
    BY <1>5, <1>8, FrontLast
  <1>10. x = p[Len(p) - 1]
    <2>1. x = f[Len(f)] /\ Len(f) \in 1 .. Len(f)
      BY <1>7 DEF Last
    <2>2. QED
      BY <1>7, <1>8, <2>1
  <1> HIDE DEF r, x
  <1>11. r # <<>>
    <2>1. Len(r) # 0
      BY <1>7, <1>9
    <2>2. QED
      BY <2>1, EmptySeq
  <1>12. x # <<>>
    BY <1>1, <1>7, <1>10 DEF LastTwo
  <1>13. Return \notin Range(x) /\ Return \notin Range(y)
    BY <1>3, <1>6, <1>7, <1>10
  <1> DEFINE one == <<x>>
             q == Parts(y \o h)
             s == one \o q
  <1>14. one \in Seq(Seq(Bytes)) /\ Len(one) = 1 /\ one[1] = x /\ y \o h \in Seq(Bytes)
    BY <1>5, <1>9, ConcatProperties
  <1>15. q \in Pieces
    BY <1>14, SplitIsPieces DEF Parts
  <1>16. f \o q = r \o s
    <2>1. f = r \o one
      BY <1>9, AppendIsConcat
    <2> HIDE DEF one, q
    <2>2. q \in Seq(Seq(Bytes))
      BY <1>15 DEF Pieces
    <2>3. (r \o one) \o q = r \o (one \o q)
      <3>1. r \in Seq(Seq(Bytes)) /\ one \in Seq(Seq(Bytes)) /\ q \in Seq(Seq(Bytes))
        BY <1>9, <1>14, <2>2
      <3>2. QED
        BY <3>1, PiecesTogether
    <2>4. QED
      BY <2>1, <2>3
  <1>17. Parts(Two(l) \o h) = s
    <2> DEFINE c == Append(x, Return)
    <2>1. Return \in Bytes
      BY BridgesAssumption
    <2>2. c \in Seq(Bytes) /\ c = x \o <<Return>>
      BY <1>9, <2>1, AppendProperties, AppendIsConcat
    <2>3. Parts(c) = Append(<<x>>, <<>>)
      <3>1. SplitAt(x, Return) = <<x>>
        BY <1>9, <1>13, FreeIsOne
      <3>2. SplitAt(c, Return) = AddByte(SplitAt(x, Return), Return, Return)
        BY <1>9, <2>1, SplitAtAppend
      <3>3. QED
        BY <3>1, <3>2 DEF Parts, AddByte
    <2>4. Front(Parts(c)) = one /\ Last(Parts(c)) = <<>>
      <3>1. <<>> \in Seq(Bytes)
        OBVIOUS
      <3> HIDE DEF one
      <3>2. Front(Append(one, <<>>)) = one /\ Last(Append(one, <<>>)) = <<>>
        BY <1>14, <3>1, FrontLastAppend
      <3>3. Parts(c) = Append(one, <<>>)
        BY <2>3 DEF one
      <3>4. QED
        BY <3>2, <3>3
    <2>5. Two(l) \o h = c \o (y \o h)
      <3>1. Two(l) = c \o y
        BY <1>2, <1>6, <1>10, <2>2
      <3> HIDE DEF c
      <3>2. (c \o y) \o h = c \o (y \o h)
        <4>1. c \in Seq(Bytes) /\ y \in Seq(Bytes)
          BY <1>5, <2>2
        <4>2. QED
          BY <4>1, Together
      <3>3. QED
        BY <3>1, <3>2
    <2> HIDE DEF c, one
    <2>6. Parts(c \o (y \o h)) = Front(Parts(c)) \o Parts(Last(Parts(c)) \o (y \o h))
      BY <1>14, <2>2, SplitConcat DEF Parts
    <2>7. <<>> \o (y \o h) = y \o h
      BY <1>14, ConcatEmptySeq
    <2>8. QED
      BY <2>4, <2>5, <2>6, <2>7
  <1>18. s \in Pieces /\ Len(s) >= 2 /\ s[1] = x
    <2> HIDE DEF one, q
    <2>1. q \in Seq(Seq(Bytes)) /\ q # <<>>
      BY <1>15 DEF Pieces
    <2>2. Len(q) \in Nat \ {0}
      BY <2>1, EmptySeq
    <2>3. /\ s \in Seq(Seq(Bytes)) /\ Len(s) = Len(one) + Len(q)
          /\ \A i \in 1 .. Len(one) + Len(q) : s[i] = IF i <= Len(one) THEN one[i] ELSE q[i - Len(one)]
      BY <1>14, <2>1, ConcatProperties
    <2>4. 1 \in 1 .. Len(one) + Len(q) /\ 1 <= Len(one)
      BY <1>14, <2>2
    <2>5. s[1] = one[1]
      BY <2>3, <2>4
    <2>6. Len(s) = 1 + Len(q)
      BY <1>14, <2>3
    <2> HIDE DEF s
    <2>7. Len(s) >= 2
      BY <2>2, <2>6
    <2>8. s # <<>>
      <3>1. Len(<<>>) = 0
        OBVIOUS
      <3>2. QED
        BY <2>7, <3>1
    <2>9. QED
      BY <1>14, <2>3, <2>5, <2>7, <2>8 DEF Pieces
  <1>19. Parts(l \o h) = r \o s
    BY <1>1, <1>16 DEF f, y
  <1> HIDE DEF s
  <1>20. QED
    BY <1>9, <1>11, <1>12, <1>17, <1>18, <1>19

\* So the last two rewrites of a line are enough, for what is shown and for what is kept.
LEMMA TwoRewrites ==
    ASSUME NEW l \in Seq(Bytes), Spaced(l), NEW h \in Seq(Bytes)
    PROVE  Display(Two(l) \o h) = Display(l \o h) /\ Two(Two(l) \o h) = Two(l \o h)
  <1>1. CASE Two(l) = l
    BY <1>1
  <1>2. CASE Two(l) # l
    <2>1. PICK r \in Seq(Seq(Bytes)), s \in Pieces :
             /\ r # <<>> /\ Len(s) >= 2 /\ s[1] # <<>>
             /\ Parts(l \o h) = r \o s /\ Parts(Two(l) \o h) = s
      BY <1>2, TwoMeans
    <2>2. s \in Seq(Seq(Bytes)) /\ Len(s) \in Nat /\ Len(s) # 0 /\ Len(r) \in Nat \ {0}
      BY <2>1, LenProperties, EmptySeq DEF Pieces
    <2>3. Rewrite(r \o s) = Rewrite(s)
      BY <2>1, <2>2, RewriteConcat
    <2>4. Display(Two(l) \o h) = Display(l \o h)
      BY <2>1, <2>3, DisplayMeans
    <2> DEFINE t == r \o s
               n == Len(s)
    <2>5. /\ Len(t) = Len(r) + Len(s)
          /\ \A i \in 1 .. Len(r) + Len(s) : t[i] = IF i <= Len(r) THEN r[i] ELSE s[i - Len(r)]
      BY <2>2, ConcatProperties
    <2>6. t[Len(t) - 1] = s[n - 1] /\ t[Len(t)] = s[n] /\ ~(Len(t) <= 2)
      <3> HIDE DEF t
      <3> DEFINE m == Len(r)
                 k == Len(t)
      <3>1. n \in Nat /\ n >= 2 /\ m \in Nat \ {0} /\ k = m + n
        BY <2>1, <2>2, <2>5
      <3>2. \A i \in 1 .. m + n : t[i] = IF i <= m THEN r[i] ELSE s[i - m]
        BY <2>5
      <3> HIDE DEF n, m, k
      <3>3. /\ k - 1 \in 1 .. m + n /\ ~(k - 1 <= m) /\ (k - 1) - m = n - 1
            /\ k \in 1 .. m + n /\ ~(k <= m) /\ k - m = n /\ ~(k <= 2)
        BY <3>1
      <3>4. t[k - 1] = s[n - 1] /\ t[k] = s[n]
        BY <3>2, <3>3
      <3>5. QED
        BY <3>3, <3>4 DEF k
    <2>7. Two(l \o h) = (s[n - 1] \o <<Return>>) \o s[n]
      <3>1. Parts(l \o h) = t
        BY <2>1
      <3> HIDE DEF t, n
      <3>2. QED
        BY <2>6, <3>1 DEF Two
    <2>8. CASE n <= 2
      <3>1. n = 2
        <4>1. n \in Nat /\ n >= 2
          BY <2>1, <2>2
        <4> HIDE DEF n
        <4>2. QED
          BY <2>8, <4>1
      <3>2. Two(Two(l) \o h) = Two(l) \o h
        BY <2>1, <2>8 DEF Two
      <3>3. Two(l) \o h \in Seq(Bytes)
        BY TwoFacts, ConcatProperties
      <3>4. LastTwo(Two(l) \o h, s)
        BY <2>1, <3>3, LastTwoRewrites
      <3>5. Two(l) \o h = (s[1] \o <<Return>>) \o s[2]
        BY <3>1, <3>4 DEF LastTwo
      <3>6. n - 1 = 1
        BY <3>1
      <3>7. QED
        BY <2>4, <2>7, <3>1, <3>2, <3>5, <3>6
    <2>9. CASE ~(n <= 2)
      <3>1. Two(Two(l) \o h) = (s[n - 1] \o <<Return>>) \o s[n]
        BY <2>1, <2>9 DEF Two
      <3>2. QED
        BY <2>4, <2>7, <3>1
    <2>10. QED
      BY <2>8, <2>9
  <1>3. QED
    BY <1>1, <1>2

\* The parts of a stream whose lines are short and spaced.
LEMMA SimpleAppend ==
    ASSUME NEW s \in Seq(Bytes), NEW b \in Bytes, Simple(Append(s, b))
    PROVE  Simple(s)
  <1> DEFINE t == Append(s, b)
  <1>1. /\ t \in Seq(Bytes) /\ Len(t) = Len(s) + 1 /\ \A i \in 1 .. Len(s) : t[i] = s[i]
    BY AppendProperties
  <1>2. Len(s) \in Nat /\ LineLimit \in Nat
    BY LenProperties, BridgesAssumption
  <1>3. Spaced(s)
    <2>1. Spaced(t)
      BY DEF Simple, Spaced
    <2>2. QED
      BY <2>1, SpacedAppend
  <1>4. \A i \in 1 .. Len(t) - LineLimit : \E k \in i .. i + LineLimit : t[k] = Newline
    BY DEF Simple
  <1> HIDE DEF t
  <1>5. ASSUME NEW i \in 1 .. Len(s) - LineLimit PROVE \E k \in i .. i + LineLimit : s[k] = Newline
    <2>1. i \in 1 .. Len(t) - LineLimit
      BY <1>1, <1>2
    <2>2. PICK k \in i .. i + LineLimit : t[k] = Newline
      BY <1>4, <2>1
    <2>3. k \in 1 .. Len(s)
      BY <1>2
    <2>4. QED
      BY <1>1, <2>2, <2>3
  <1>6. QED
    BY <1>3, <1>5 DEF Simple, Spaced

LEMMA SimpleConcat ==
    ASSUME NEW a \in Seq(Bytes)
    PROVE  \A c \in Seq(Bytes) : Simple(a \o c) => Simple(a)
  <1> DEFINE X == {c \in Seq(Bytes) : Simple(a \o c) => Simple(a)}
  <1>1. <<>> \in X
    <2>1. <<>> \in Seq(Bytes) /\ a \o <<>> = a
      BY ConcatEmptySeq
    <2>2. QED
      BY <2>1
  <1>2. ASSUME NEW c \in Seq(Bytes), c \in X, NEW b \in Bytes PROVE Append(c, b) \in X
    <2>1. a \o c \in Seq(Bytes) /\ a \o Append(c, b) = Append(a \o c, b) /\ Append(c, b) \in Seq(Bytes)
      BY ConcatProperties, AppendTogether, AppendProperties
    <2>2. Simple(Append(a \o c, b)) => Simple(a \o c)
      BY <2>1, SimpleAppend
    <2>3. QED
      BY <1>2, <2>1, <2>2
  <1> HIDE DEF X
  <1>3. \A c \in Seq(Bytes) : c \in X
    BY <1>1, <1>2, SeqInduction
  <1>4. QED
    BY <1>3 DEF X

\* The last piece is the end of the stream.
EndOf(l, s) == Len(l) <= Len(s) /\ \A j \in 1 .. Len(l) : l[j] = s[Len(s) - Len(l) + j]

LEMMA LastIsEnd == \A s \in Seq(Bytes) : EndOf(Split(s)[Len(Split(s))], s)
  <1> DEFINE X == {s \in Seq(Bytes) : EndOf(Split(s)[Len(Split(s))], s)}
  <1>1. <<>> \in X
    <2>1. Split(<<>>) = <<<<>>>> /\ <<>> \in Seq(Bytes)
      BY SplitEmpty
    <2>2. Len(<<<<>>>>) = 1 /\ Len(<<>>) = 0 /\ <<<<>>>>[1] = <<>>
      OBVIOUS
    <2>3. EndOf(<<>>, <<>>)
      BY <2>2 DEF EndOf
    <2>4. QED
      BY <2>1, <2>2, <2>3
  <1>2. ASSUME NEW s \in Seq(Bytes), s \in X, NEW b \in Bytes PROVE Append(s, b) \in X
    <2> DEFINE p == Split(s)
               q == Split(Append(s, b))
               t == Append(s, b)
    <2>1. /\ t \in Seq(Bytes) /\ Len(t) = Len(s) + 1 /\ t[Len(s) + 1] = b /\ Len(s) \in Nat
          /\ \A i \in 1 .. Len(s) : t[i] = s[i]
      BY AppendProperties, LenProperties
    <2>2. p \in Pieces /\ q = AddByte(p, b, Newline)
      BY SplitAppend
    <2>3. EndOf(p[Len(p)], s)
      BY <1>2
    <2> HIDE DEF p, q, t
    <2>4. /\ Len(p) \in Nat \ {0} /\ \A i \in 1 .. Len(p) : p[i] \in Seq(Bytes)
          /\ Len(q) = IF b = Newline THEN Len(p) + 1 ELSE Len(p)
          /\ b = Newline => q[Len(p) + 1] = <<>>
          /\ b # Newline => \A i \in 1 .. Len(p) : q[i] = IF i = Len(p) THEN Append(p[Len(p)], b) ELSE p[i]
      BY <2>2, AddByteMeans
    <2>5. CASE b = Newline
      <3>1. q[Len(q)] = <<>> /\ Len(<<>>) = 0
        BY <2>4, <2>5
      <3>2. EndOf(<<>>, t)
        BY <2>1, <3>1 DEF EndOf
      <3>3. QED
        BY <2>1, <3>1, <3>2 DEF q, t
    <2>6. CASE b # Newline
      <3> DEFINE l == p[Len(p)]
                 e == Append(l, b)
                 m == Len(l)
                 n == Len(s)
      <3>1. Len(p) \in 1 .. Len(p) /\ q[Len(q)] = e /\ l \in Seq(Bytes)
        <4>1. Len(p) \in 1 .. Len(p) /\ Len(q) = Len(p)
          BY <2>4, <2>6
        <4>2. p[Len(p)] \in Seq(Bytes) /\ q[Len(p)] = Append(p[Len(p)], b)
          BY <2>4, <2>6, <4>1
        <4>3. QED
          BY <4>1, <4>2
      <3> HIDE DEF l
      <3>2. /\ Len(e) = m + 1 /\ e[m + 1] = b /\ m \in Nat /\ \A i \in 1 .. m : e[i] = l[i]
        BY <3>1, AppendProperties, LenProperties
      <3>3. m <= n /\ \A j \in 1 .. m : l[j] = s[n - m + j]
        BY <2>3 DEF EndOf, l
      <3>4. n \in Nat /\ Len(t) = n + 1 /\ t[n + 1] = b /\ \A i \in 1 .. n : t[i] = s[i]
        BY <2>1
      <3> HIDE DEF e, m, n
      <3>5. m + 1 <= n + 1 /\ (n + 1) - (m + 1) = n - m
        BY <3>2, <3>3, <3>4
      <3>6. ASSUME NEW j \in 1 .. m + 1 PROVE e[j] = t[n - m + j]
        <4>1. CASE j = m + 1
          <5>1. n - m + j = n + 1
            BY <3>2, <3>4, <4>1
          <5>2. QED
            BY <3>2, <3>4, <4>1, <5>1
        <4>2. CASE j # m + 1
          <5>1. j \in 1 .. m /\ n - m + j \in 1 .. n
            BY <3>2, <3>3, <3>4, <4>2
          <5>2. QED
            BY <3>2, <3>3, <3>4, <5>1
        <4>3. QED
          BY <4>1, <4>2
      <3>7. EndOf(e, t)
        BY <3>2, <3>4, <3>5, <3>6 DEF EndOf
      <3>8. QED
        BY <2>1, <3>1, <3>7 DEF q, t
    <2>7. QED
      BY <2>5, <2>6
  <1> HIDE DEF X
  <1>3. \A s \in Seq(Bytes) : s \in X
    BY <1>1, <1>2, SeqInduction
  <1>4. QED
    BY <1>3 DEF X

\* The end of such a stream is short and spaced, if it is without a newline.
LEMMA EndIsShort ==
    ASSUME NEW t \in Seq(Bytes), Simple(t), NEW l \in Seq(Bytes), EndOf(l, t), Newline \notin Range(l)
    PROVE  Spaced(l) /\ Len(l) <= LineLimit
  <1>1. /\ Len(t) \in Nat /\ Len(l) \in Nat /\ LineLimit \in Nat
        /\ DOMAIN t = 1 .. Len(t) /\ DOMAIN l = 1 .. Len(l)
    BY LenProperties, BridgesAssumption
  <1>2. Len(l) <= Len(t) /\ \A j \in 1 .. Len(l) : l[j] = t[Len(t) - Len(l) + j]
    BY DEF EndOf
  <1>3. Spaced(l)
    <2>1. \A i \in DOMAIN t : t[i] = Return /\ i < Len(t) => t[i + 1] # Return
      BY DEF Simple
    <2>2. ASSUME NEW i \in DOMAIN l, l[i] = Return, i < Len(l) PROVE l[i + 1] # Return
      <3> DEFINE k == Len(t) - Len(l) + i
      <3>1. /\ k \in DOMAIN t /\ k < Len(t) /\ i \in 1 .. Len(l) /\ i + 1 \in 1 .. Len(l)
            /\ Len(t) - Len(l) + (i + 1) = k + 1
        BY <1>1, <1>2, <2>2
      <3> HIDE DEF k
      <3>2. l[i] = t[k]
        BY <1>2, <3>1 DEF k
      <3>3. l[i + 1] = t[k + 1]
        BY <1>2, <3>1
      <3>4. QED
        BY <2>1, <2>2, <3>1, <3>2, <3>3
    <2>3. QED
      BY <2>2 DEF Spaced
  <1>4. Len(l) <= LineLimit
    <2> SUFFICES ASSUME ~(Len(l) <= LineLimit) PROVE FALSE
      OBVIOUS
    <2> DEFINE i == Len(t) - LineLimit
    <2>1. i \in 1 .. Len(t) - LineLimit /\ i \in Int /\ i + LineLimit = Len(t)
      BY <1>1, <1>2
    <2>2. PICK k \in i .. i + LineLimit : t[k] = Newline
      BY <2>1 DEF Simple
    <2> DEFINE j == k - (Len(t) - Len(l))
    <2>3. j \in 1 .. Len(l) /\ Len(t) - Len(l) + j = k
      BY <1>1, <1>2, <2>1
    <2>4. l[j] = Newline
      BY <1>2, <2>2, <2>3
    <2>5. l[j] \in Range(l)
      BY <1>1, <2>3 DEF Range
    <2>6. QED
      BY <2>4, <2>5
  <1>5. QED
    BY <1>3, <1>4

\* All lines of such a stream are.
LEMMA SimpleLines ==
    \A s \in Seq(Bytes) : Simple(s) =>
      \A i \in 1 .. Len(Split(s)) : Spaced(Split(s)[i]) /\ Len(Split(s)[i]) <= LineLimit
  <1> DEFINE Good(s) == Simple(s) => \A i \in 1 .. Len(Split(s)) : Spaced(Split(s)[i]) /\ Len(Split(s)[i]) <= LineLimit
             X == {s \in Seq(Bytes) : Good(s)}
  <1>0. Spaced(<<>>) /\ Len(<<>>) <= LineLimit /\ <<>> \in Seq(Bytes)
    BY BridgesAssumption DEF Spaced
  <1>1. <<>> \in X
    <2>1. Len(<< <<>> >>) = 1 /\ \A i \in 1 .. 1 : << <<>> >>[i] = <<>>
      OBVIOUS
    <2>2. QED
      BY <1>0, <2>1, SplitEmpty
  <1>2. ASSUME NEW s \in Seq(Bytes), s \in X, NEW b \in Bytes PROVE Append(s, b) \in X
    <2> DEFINE p == Split(s)
               q == Split(Append(s, b))
    <2>1. p \in Pieces /\ q = AddByte(p, b, Newline) /\ Append(s, b) \in Seq(Bytes)
      BY SplitAppend, AppendProperties
    <2>2. Simple(Append(s, b)) => \A i \in 1 .. Len(p) : Spaced(p[i]) /\ Len(p[i]) <= LineLimit
      BY <1>2, SimpleAppend
    <2>3. EndOf(q[Len(q)], Append(s, b))
      BY <2>1, LastIsEnd
    <2>4. \A i \in 1 .. Len(q) : Newline \notin Range(q[i])
      BY <2>1, PiecesFree DEF Split
    <2> HIDE DEF p, q
    <2>5. /\ Len(p) \in Nat \ {0} /\ \A i \in 1 .. Len(p) : p[i] \in Seq(Bytes)
          /\ Len(q) = IF b = Newline THEN Len(p) + 1 ELSE Len(p)
          /\ b = Newline => (\A i \in 1 .. Len(p) : q[i] = p[i]) /\ q[Len(p) + 1] = <<>>
          /\ b # Newline => \A i \in 1 .. Len(p) : q[i] = IF i = Len(p) THEN Append(p[Len(p)], b) ELSE p[i]
      BY <2>1, AddByteMeans
    <2>6. ASSUME Simple(Append(s, b)), NEW i \in 1 .. Len(q)
          PROVE  Spaced(q[i]) /\ Len(q[i]) <= LineLimit
      <3>1. i = Len(q) \/ (i \in 1 .. Len(p) /\ q[i] = p[i])
        <4>1. CASE b = Newline
          BY <2>5, <4>1
        <4>2. CASE b # Newline
          BY <2>5, <4>2
        <4>3. QED
          BY <4>1, <4>2
      <3>2. CASE i = Len(q)
        <4>1. q[i] \in Seq(Bytes)
          <5>1. q \in Seq(Seq(Bytes))
            BY <2>1, AddByteMeans DEF Pieces
          <5>2. QED
            BY <5>1, ElementOfSeq
        <4>2. QED
          BY <2>1, <2>3, <2>4, <2>6, <3>2, <4>1, EndIsShort
      <3>3. CASE i \in 1 .. Len(p) /\ q[i] = p[i]
        BY <2>2, <2>6, <3>3
      <3>4. QED
        BY <3>1, <3>2, <3>3
    <2>7. QED
      BY <2>1, <2>6 DEF q
  <1> HIDE DEF X
  <1>3. \A s \in Seq(Bytes) : s \in X
    BY <1>1, <1>2, SeqInduction
  <1>4. QED
    BY <1>3 DEF X

-----------------------------------------------------------------------------
(* What the display shows of a stderr *)

\* What is shown of each of some lines.
Shows(q) == [i \in DOMAIN q |-> Display(q[i])]
Displayed == {Display(x) : x \in Seq(Bytes)}

LEMMA ShowsFacts ==
    ASSUME NEW q \in Seq(Seq(Bytes))
    PROVE  /\ Shows(q) \in Seq(Displayed) /\ Len(Shows(q)) = Len(q)
           /\ \A i \in 1 .. Len(q) : Shows(q)[i] = Display(q[i])
  <1>1. Len(q) \in Nat /\ DOMAIN q = 1 .. Len(q) /\ \A i \in 1 .. Len(q) : q[i] \in Seq(Bytes)
    BY LenProperties, ElementOfSeq
  <1>2. \A i \in 1 .. Len(q) : Display(q[i]) \in Displayed
    BY <1>1 DEF Displayed
  <1>3. Shows(q) = [i \in 1 .. Len(q) |-> Display(q[i])]
    BY <1>1 DEF Shows
  <1>4. QED
    BY <1>1, <1>2, <1>3

LEMMA FrontElements ==
    ASSUME NEW p \in Pieces
    PROVE  /\ Front(p) \in Seq(Seq(Bytes)) /\ Last(p) \in Seq(Bytes) /\ Last(p) = p[Len(p)]
           /\ Len(p) \in Nat \ {0} /\ Len(Front(p)) = Len(p) - 1
           /\ \A i \in 1 .. Len(p) - 1 : Front(p)[i] = p[i]
  <1>1. p \in Seq(Seq(Bytes)) /\ p # <<>>
    BY DEF Pieces
  <1>2. /\ Front(p) \in Seq(Seq(Bytes)) /\ Last(p) \in Seq(Bytes) /\ p = Append(Front(p), Last(p))
        /\ Len(p) \in Nat \ {0} /\ Len(Front(p)) = Len(p) - 1
    BY <1>1, FrontLast
  <1> DEFINE f == Front(p)
             l == Last(p)
  <1>3. f \in Seq(Seq(Bytes)) /\ l \in Seq(Bytes) /\ p = Append(f, l) /\ Len(f) = Len(p) - 1
    BY <1>2
  <1> HIDE DEF f, l
  <1>4. \A i \in 1 .. Len(f) : Append(f, l)[i] = f[i]
    BY <1>3, AppendProperties
  <1>5. \A i \in 1 .. Len(p) - 1 : f[i] = p[i]
    BY <1>3, <1>4
  <1>6. QED
    BY <1>2, <1>5 DEF f, Last

\* feed() shows the lines that a chunk completes, and keeps the last two rewrites of the next.
LEMMA ForwardMeans ==
    ASSUME NEW a \in Seq(Bytes), NEW c \in Seq(Bytes), Simple(a \o c),
           shown = Shows(Front(Split(a))), partial = Two(Last(Split(a))), Forward(c)
    PROVE  shown' = Shows(Front(Split(a \o c))) /\ partial' = Two(Last(Split(a \o c)))
  <1> DEFINE f == Front(Split(a))
             l == Last(Split(a))
             q == Split(c)
             k == Two(l)
             w == Prepend(l, q)
             v == Prepend(k, q)
             t == Split(a \o c)
  <1>1. f \in Seq(Seq(Bytes)) /\ l \in Seq(Bytes) /\ Newline \notin Range(l) /\ Spaced(l)
    <2>1. Split(a) \in Pieces
      BY SplitIsPieces DEF Split
    <2>2. /\ f \in Seq(Seq(Bytes)) /\ l \in Seq(Bytes) /\ l = Split(a)[Len(Split(a))]
          /\ Len(Split(a)) \in Nat \ {0}
      BY <2>1, FrontElements
    <2>3. Len(Split(a)) \in 1 .. Len(Split(a))
      BY <2>2
    <2>4. Newline \notin Range(l)
      BY <2>2, <2>3, PiecesFree DEF Split
    <2>5. Simple(a)
      BY SimpleConcat
    <2>6. Spaced(l)
      BY <2>2, <2>3, <2>5, SimpleLines
    <2>7. QED
      BY <2>2, <2>4, <2>6
  <1>2. q \in Pieces /\ t \in Pieces
    <2>1. a \o c \in Seq(Bytes)
      BY ConcatProperties
    <2>2. QED
      BY <2>1, SplitIsPieces DEF Split
  <1>3. t = f \o Split(l \o c)
    BY SplitConcat DEF Split
  <1>4. \A i \in 1 .. Len(t) : Spaced(t[i]) /\ Len(t[i]) <= LineLimit
    <2>1. a \o c \in Seq(Bytes)
      BY ConcatProperties
    <2>2. QED
      BY <2>1, SimpleLines
  <1>5. shown = Shows(f) /\ partial = k
    OBVIOUS
  <1> HIDE DEF f, l, q, t
  <1>6. k \in Seq(Bytes) /\ Newline \notin Range(k) /\ Len(k) <= Len(l)
    BY <1>1, TwoFacts
  <1>7. \A h \in Seq(Bytes) : Display(k \o h) = Display(l \o h) /\ Two(k \o h) = Two(l \o h)
    BY <1>1, TwoRewrites
  <1> HIDE DEF k
  <1>8. Split(l \o c) = w /\ Split(k \o c) = v
    BY <1>1, <1>6, SplitPrepend DEF Split, q
  <1>9. /\ w \in Pieces /\ v \in Pieces /\ Len(w) = Len(q) /\ Len(v) = Len(q) /\ Len(q) \in Nat \ {0}
        /\ \A i \in 1 .. Len(q) : q[i] \in Seq(Bytes)
        /\ \A i \in 1 .. Len(q) : w[i] = IF i = 1 THEN l \o q[1] ELSE q[i]
        /\ \A i \in 1 .. Len(q) : v[i] = IF i = 1 THEN k \o q[1] ELSE q[i]
    <2>1. /\ w \in Pieces /\ Len(w) = Len(q) /\ Len(q) \in Nat \ {0}
          /\ \A i \in 1 .. Len(q) : q[i] \in Seq(Bytes)
          /\ \A i \in 1 .. Len(q) : w[i] = IF i = 1 THEN l \o q[1] ELSE q[i]
      BY <1>1, <1>2, PrependFacts
    <2>2. /\ v \in Pieces /\ Len(v) = Len(q)
          /\ \A i \in 1 .. Len(q) : v[i] = IF i = 1 THEN k \o q[1] ELSE q[i]
      BY <1>2, <1>6, PrependFacts
    <2> HIDE DEF w, v
    <2>3. QED
      BY <2>1, <2>2
  <1> HIDE DEF w, v
  <1> DEFINE n == Len(q)
             m == Len(f)
  <1>10. 1 \in 1 .. n /\ n \in 1 .. n /\ m \in Nat /\ n \in Nat \ {0}
    BY <1>1, <1>9, LenProperties
  <1>11. \A i \in 1 .. n : Display(v[i]) = Display(w[i]) /\ Two(v[i]) = Two(w[i])
    <2> SUFFICES ASSUME NEW i \in 1 .. n PROVE Display(v[i]) = Display(w[i]) /\ Two(v[i]) = Two(w[i])
      OBVIOUS
    <2>1. CASE i = 1
      <3>1. v[i] = k \o q[1] /\ w[i] = l \o q[1] /\ q[1] \in Seq(Bytes)
        BY <1>9, <1>10, <2>1
      <3>2. QED
        BY <1>7, <3>1
    <2>2. CASE i # 1
      <3>1. v[i] = w[i]
        BY <1>9, <2>2
      <3>2. QED
        BY <3>1
    <2>3. QED
      BY <2>1, <2>2
  <1>12. /\ t = f \o w /\ Len(t) = m + n
         /\ \A i \in 1 .. m + n : t[i] = IF i <= m THEN f[i] ELSE w[i - m]
    <2>1. w \in Seq(Seq(Bytes)) /\ Len(w) = n
      BY <1>9 DEF Pieces
    <2>2. t = f \o w
      BY <1>3, <1>8
    <2>3. /\ Len(f \o w) = Len(f) + Len(w)
          /\ \A i \in 1 .. Len(f) + Len(w) : (f \o w)[i] = IF i <= Len(f) THEN f[i] ELSE w[i - Len(f)]
      BY <1>1, <2>1, ConcatProperties
    <2>4. QED
      BY <2>1, <2>2, <2>3
  <1> HIDE DEF n, m
  <1>13. \A i \in 1 .. n : w[i] = t[m + i] /\ Len(w[i]) <= LineLimit
    <2> SUFFICES ASSUME NEW i \in 1 .. n PROVE w[i] = t[m + i] /\ Len(w[i]) <= LineLimit
      OBVIOUS
    <2>1. m + i \in 1 .. m + n /\ ~(m + i <= m) /\ (m + i) - m = i
      BY <1>10
    <2>2. w[i] = t[m + i]
      BY <1>12, <2>1
    <2>3. QED
      BY <1>4, <1>12, <2>1, <2>2
  <1>14. v[n] \in Seq(Bytes) /\ Len(v[n]) <= LineLimit
    <2>1. CASE n = 1
      <3>1. v[n] = k \o q[1] /\ w[n] = l \o q[1] /\ q[1] \in Seq(Bytes)
        BY <1>9, <1>10, <2>1 DEF n
      <3> DEFINE h == q[1]
      <3>2. h \in Seq(Bytes)
        BY <3>1
      <3> HIDE DEF h
      <3>3. k \o h \in Seq(Bytes) /\ Len(k \o h) = Len(k) + Len(h) /\ Len(l \o h) = Len(l) + Len(h)
        BY <1>1, <1>6, <3>2, ConcatProperties
      <3>4. Len(k) \in Nat /\ Len(l) \in Nat /\ Len(h) \in Nat /\ LineLimit \in Nat
        BY <1>1, <1>6, <3>2, LenProperties, BridgesAssumption
      <3>5. Len(l \o h) <= LineLimit
        BY <1>10, <1>13, <3>1 DEF h
      <3>6. Len(k \o h) <= LineLimit
        BY <1>6, <3>3, <3>4, <3>5
      <3>7. QED
        BY <3>1, <3>3, <3>6 DEF h
    <2>2. CASE n # 1
      <3>1. v[n] = w[n] /\ v[n] = q[n] /\ q[n] \in Seq(Bytes)
        BY <1>9, <1>10, <2>2 DEF n
      <3>2. QED
        BY <1>10, <1>13, <3>1
    <2>3. QED
      BY <2>1, <2>2
  <1>15. Len(v) = n /\ Last(v) = v[n] /\ Last(t) = w[n]
    <2>1. Len(v) = n /\ Last(v) = v[n]
      BY <1>9 DEF n, Last
    <2>2. Last(t) = t[m + n]
      BY <1>12 DEF Last
    <2>3. QED
      BY <1>10, <1>13, <2>1, <2>2
  <1>16. /\ shown' = Shows(f) \o [i \in 1 .. n - 1 |-> Display(v[i])]
         /\ partial' = Latest(v[n])
    <2>1. Split(partial \o c) = v
      BY <1>5, <1>8
    <2>2. /\ shown' = shown \o [i \in 1 .. Len(v) - 1 |-> Display(v[i])]
          /\ partial' = Latest(Last(v))
      BY <2>1 DEF Forward
    <2>3. QED
      BY <1>5, <1>15, <2>2
  <1>17. partial' = Two(Last(t))
    <2>1. Latest(v[n]) = Two(v[n])
      BY <1>14, LatestIsTwo
    <2>2. QED
      BY <1>10, <1>11, <1>15, <1>16, <2>1
  <1>18. shown' = Shows(Front(t))
    <2> DEFINE g == Front(t)
               s == [i \in 1 .. n - 1 |-> Display(v[i])]
               x == Shows(f) \o s
               y == Shows(g)
    <2>1. g \in Seq(Seq(Bytes)) /\ Len(g) = m + n - 1 /\ \A i \in 1 .. m + n - 1 : g[i] = t[i]
      <3>1. g \in Seq(Seq(Bytes)) /\ Len(g) = Len(t) - 1 /\ \A i \in 1 .. Len(t) - 1 : g[i] = t[i]
        BY <1>2, FrontElements
      <3>2. Len(t) - 1 = m + n - 1
        BY <1>10, <1>12
      <3> HIDE DEF g
      <3>3. QED
        BY <3>1, <3>2
    <2>2. /\ s \in Seq(Displayed) /\ Len(s) = n - 1 /\ \A i \in 1 .. n - 1 : s[i] = Display(w[i])
      <3>1. n - 1 \in Nat /\ \A i \in 1 .. n - 1 : i \in 1 .. n
        BY <1>10
      <3>2. \A i \in 1 .. n - 1 : Display(v[i]) = Display(w[i])
        BY <1>11, <3>1
      <3>3. \A i \in 1 .. n : v[i] \in Seq(Bytes)
        <4>1. v \in Seq(Seq(Bytes))
          BY <1>9 DEF Pieces
        <4>2. QED
          BY <1>15, <4>1, ElementOfSeq
      <3>4. \A i \in 1 .. n - 1 : Display(v[i]) \in Displayed
        BY <3>1, <3>3 DEF Displayed
      <3>5. QED
        BY <3>1, <3>2, <3>4
    <2>3. Shows(f) \in Seq(Displayed) /\ Len(Shows(f)) = m /\ \A i \in 1 .. m : Shows(f)[i] = Display(f[i])
      BY <1>1, ShowsFacts DEF m
    <2> HIDE DEF g, s
    <2>4. /\ x \in Seq(Displayed) /\ Len(x) = Len(Shows(f)) + Len(s)
          /\ \A i \in 1 .. Len(Shows(f)) + Len(s) :
               x[i] = IF i <= Len(Shows(f)) THEN Shows(f)[i] ELSE s[i - Len(Shows(f))]
      BY <2>2, <2>3, ConcatProperties
    <2>5. y \in Seq(Displayed) /\ Len(y) = m + n - 1 /\ \A i \in 1 .. m + n - 1 : y[i] = Display(t[i])
      <3>1. y \in Seq(Displayed) /\ Len(y) = Len(g) /\ \A i \in 1 .. Len(g) : y[i] = Display(g[i])
        BY <2>1, ShowsFacts
      <3> HIDE DEF y
      <3>2. QED
        BY <2>1, <3>1
    <2> HIDE DEF x, y
    <2>6. Len(x) = m + n - 1 /\ Len(Shows(f)) + Len(s) = m + n - 1
      BY <1>10, <2>2, <2>3, <2>4
    <2>7. ASSUME NEW i \in 1 .. m + n - 1 PROVE x[i] = y[i]
      <3>1. i \in 1 .. m + n
        BY <1>10
      <3>2. CASE i <= m
        <4>1. i \in 1 .. m /\ t[i] = f[i]
          BY <1>10, <1>12, <3>1, <3>2
        <4>2. x[i] = Shows(f)[i]
          BY <2>3, <2>4, <2>6, <3>2
        <4>3. QED
          BY <2>3, <2>5, <4>1, <4>2
      <3>3. CASE ~(i <= m)
        <4>1. i - m \in 1 .. n - 1
          BY <1>10, <3>3
        <4>2. t[i] = w[i - m]
          BY <1>12, <3>1, <3>3
        <4>3. x[i] = s[i - m]
          BY <2>3, <2>4, <2>6, <3>3
        <4>4. QED
          BY <2>2, <2>5, <4>1, <4>2, <4>3
      <3>4. QED
        BY <3>2, <3>3
    <2>8. x = y
      BY <2>4, <2>5, <2>6, <2>7, SeqEqual
    <2>9. QED
      BY <1>16, <2>8 DEF x, y, s, g
  <1>19. QED
    BY <1>17, <1>18 DEF t

\* The complete lines are on the display, and the last one without its early rewrites.
ShownInv ==
    kind = "tail" =>
      /\ pc \in {"read", "over"} /\ pending = <<>>
      /\ Simple(Read) =>
           LET last == Last(Split(Read))
           IN IF pc = "read" THEN shown = Shows(Front(Split(Read))) /\ partial = Two(last)
              ELSE shown = Shows(Front(Split(Read)))
                             \o (IF Display(last) = <<>> THEN <<>> ELSE <<Display(last)>>)

\* A line without more is displayed by its last two rewrites.
LEMMA TwoDisplay ==
    ASSUME NEW l \in Seq(Bytes), Spaced(l)
    PROVE  Display(Two(l)) = Display(l)
  <1>1. <<>> \in Seq(Bytes) /\ l \o <<>> = l /\ Two(l) \o <<>> = Two(l)
    BY TwoFacts, ConcatEmptySeq
  <1>2. Display(Two(l) \o <<>>) = Display(l \o <<>>)
    BY <1>1, TwoRewrites
  <1>3. QED
    BY <1>1, <1>2

LEMMA ReadFacts ==
    ASSUME StreamOK
    PROVE  /\ Read \in Seq(Bytes) /\ Split(Read) \in Pieces
           /\ Front(Split(Read)) \in Seq(Seq(Bytes)) /\ Last(Split(Read)) \in Seq(Bytes)
           /\ Simple(Read) => Spaced(Last(Split(Read)))
  <1>1. Read \in Seq(Bytes)
    <2>1. stream \in Seq(Bytes) /\ pos \in Nat /\ pos <= Len(stream) /\ 0 <= pos /\ 0 + 1 = 1
      BY DEF StreamOK
    <2>2. SubSeq(stream, 0 + 1, pos) \in Seq(Bytes)
      BY <2>1, PartFacts
    <2>3. QED
      BY <2>1, <2>2 DEF Read
  <1>2. Split(Read) \in Pieces
    BY <1>1, SplitIsPieces DEF Split
  <1> DEFINE p == Split(Read)
  <1>3. /\ Front(p) \in Seq(Seq(Bytes)) /\ Last(p) \in Seq(Bytes) /\ Last(p) = p[Len(p)]
        /\ Len(p) \in Nat \ {0}
    BY <1>2, FrontElements
  <1>4. Simple(Read) => \A i \in 1 .. Len(p) : Spaced(p[i])
    BY <1>1, SimpleLines
  <1> HIDE DEF p
  <1>5. Len(p) \in 1 .. Len(p)
    BY <1>3
  <1>6. QED
    BY <1>1, <1>2, <1>3, <1>4, <1>5 DEF p

LEMMA ShownInit == Init => ShownInv
  <1> SUFFICES ASSUME Init PROVE ShownInv
    OBVIOUS
  <1>1. Read = <<>> /\ <<>> \in Seq(Bytes)
    BY NothingRead
  <1>2. Split(<<>>) = <<<<>>>> /\ Parts(<<>>) = <<<<>>>>
    BY SplitEmpty, SplitAtEmpty DEF Parts
  <1>3. Front(<<<<>>>>) = <<>> /\ Last(<<<<>>>>) = <<>> /\ Len(<<<<>>>>) = 1
    <2>1. Len(<<<<>>>>) = 1 /\ <<<<>>>>[1] = <<>>
      OBVIOUS
    <2>2. SubSeq(<<<<>>>>, 1, 0) = <<>>
      BY SubSeqEmpty
    <2>3. QED
      BY <2>1, <2>2 DEF Front, Last
  <1>4. Two(<<>>) = <<>>
    BY <1>2, <1>3 DEF Two
  <1>5. Shows(<<>>) = <<>>
    BY DEF Shows
  <1>6. pc = "read" /\ pending = <<>> /\ shown = <<>> /\ partial = <<>>
    BY DEF Init
  <1>7. QED
    BY <1>1, <1>2, <1>3, <1>4, <1>5, <1>6 DEF ShownInv

LEMMA ShownStep == StreamOK /\ ShownInv /\ [Next]_vars => ShownInv'
  <1> SUFFICES ASSUME StreamOK, ShownInv, [Next]_vars PROVE ShownInv'
    OBVIOUS
  <1>1. UNCHANGED <<kind, stream>>
    BY DEF Next, vars, ReadLines, ReadChunk, Drain, Ends, Leave, Write, Sent, ReaderGone
  <1>2. CASE kind # "tail"
    BY <1>1, <1>2 DEF ShownInv
  <1>3. CASE kind = "tail"
    <2> DEFINE good(s) == Simple(s)
               early(s) == Shows(Front(Split(s)))
               rest(s) == Two(Last(Split(s)))
               whole(s) == IF Display(Last(Split(s))) = <<>> THEN <<>> ELSE <<Display(Last(Split(s)))>>
    <2>1. /\ pc \in {"read", "over"} /\ pending = <<>>
          /\ good(Read) => IF pc = "read" THEN shown = early(Read) /\ partial = rest(Read)
                           ELSE shown = early(Read) \o whole(Read)
      BY <1>3 DEF ShownInv
    <2>2. ASSUME /\ pc' \in {"read", "over"} /\ pending' = <<>>
                 /\ good(Read') => IF pc' = "read" THEN shown' = early(Read') /\ partial' = rest(Read')
                                   ELSE shown' = early(Read') \o whole(Read')
          PROVE  ShownInv'
      BY <2>2 DEF ShownInv, Simple, Shows, Display, Two, Parts, Split
    <2> HIDE DEF good, early, rest, whole
    <2>3. CASE Drain
      <3>1. PICK chunk \in Chunks : pos' = pos + Len(chunk) /\ Forward(chunk)
        BY <2>3 DEF Drain
      <3>2. pc = "read" /\ UNCHANGED <<pc, pending>>
        BY <2>3 DEF Drain
      <3>3. PICK n \in 1 .. Chunk : /\ pos + n <= Len(stream) /\ Len(chunk) = n
                                    /\ chunk = SubSeq(stream, pos + 1, pos + n)
        BY ChunkIsNext
      <3>4. n \in Nat /\ pos \in Nat /\ pos + n \in Nat /\ pos <= pos + n /\ 0 <= pos /\ 0 + 1 = 1
            /\ stream \in Seq(Bytes) /\ pos <= Len(stream)
        BY BridgesAssumption DEF StreamOK
      <3>5. chunk \in Seq(Bytes)
        BY <3>3, <3>4, PartFacts
      <3>6. SubSeq(stream, 0 + 1, pos) \o SubSeq(stream, pos + 1, pos + n) = SubSeq(stream, 0 + 1, pos + n)
        BY <3>3, <3>4, PiecesJoin
      <3>7. Read' = Read \o chunk /\ Read \in Seq(Bytes)
        BY <1>1, <3>1, <3>3, <3>4, <3>6, ReadFacts DEF Read
      <3>8. ASSUME good(Read \o chunk) PROVE shown' = early(Read \o chunk) /\ partial' = rest(Read \o chunk)
        <4>1. good(Read)
          BY <3>5, <3>7, <3>8, SimpleConcat DEF good
        <4>2. shown = early(Read) /\ partial = rest(Read)
          BY <2>1, <3>2, <4>1
        <4>3. QED
          BY <3>1, <3>5, <3>7, <3>8, <4>2, ForwardMeans DEF good, early, rest
      <3>9. QED
        BY <2>1, <2>2, <3>2, <3>7, <3>8
    <2>4. CASE Ends
      <3>1. Read' = Read /\ UNCHANGED <<pc, pending, shown, partial>>
        BY <1>1, <2>1, <2>4 DEF Ends, Read, tailVars
      <3>2. QED
        BY <2>1, <2>2, <3>1
    <2>5. CASE Leave
      <3>1. Read' = Read /\ UNCHANGED pending /\ pc = "read" /\ pc' = "over" /\ Flush
        BY <1>1, <2>5 DEF Leave, Read
      <3>2. ASSUME good(Read) PROVE shown' = early(Read) \o whole(Read)
        <4> DEFINE f == Front(Split(Read))
                   l == Last(Split(Read))
                   d == Display(l)
        <4>1. f \in Seq(Seq(Bytes)) /\ l \in Seq(Bytes) /\ Spaced(l)
          BY <3>2, ReadFacts DEF good
        <4>2. shown = Shows(f) /\ partial = Two(l)
          BY <2>1, <3>1, <3>2 DEF early, rest
        <4> HIDE DEF f, l
        <4>3. Display(partial) = d
          BY <4>1, <4>2, TwoDisplay
        <4>4. shown' = IF d = <<>> THEN Shows(f) ELSE Append(Shows(f), d)
          BY <3>1, <4>2, <4>3 DEF Flush
        <4>5. Shows(f) \in Seq(Displayed) /\ d \in Displayed
          BY <4>1, ShowsFacts DEF Displayed
        <4> HIDE DEF d
        <4>6. Append(Shows(f), d) = Shows(f) \o <<d>> /\ Shows(f) \o <<>> = Shows(f)
          BY <4>5, AppendIsConcat, ConcatEmptySeq
        <4>7. shown' = Shows(f) \o (IF d = <<>> THEN <<>> ELSE <<d>>)
          BY <4>4, <4>6
        <4>8. QED
          BY <4>7 DEF early, whole, f, d, l
      <3>3. QED
        BY <2>1, <2>2, <3>1, <3>2
    <2>6. CASE UNCHANGED vars
      <3>1. Read' = Read /\ UNCHANGED <<pc, pending, shown, partial>>
        BY <2>6 DEF vars, ioVars, tailVars, Read
      <3>2. QED
        BY <2>1, <2>2, <3>1
    <2>7. ~(ReadLines \/ ReadChunk \/ Write \/ Sent \/ ReaderGone)
      BY <1>3, <2>1 DEF ReadLines, ReadChunk, Write, Sent, ReaderGone
    <2>8. QED
      BY <2>3, <2>4, <2>5, <2>6, <2>7 DEF Next
  <1>4. QED
    BY <1>2, <1>3

\* The display shows of every line of a stderr what it shows of the whole line, however the
\* bytes are cut, for every stream with short lines and no adjacent carriage returns.
THEOREM BridgesShow == Spec => []ShownAsWhole
  <1>1. StreamOK /\ ShownInv => ShownAsWhole
    <2> SUFFICES ASSUME StreamOK, ShownInv, kind = "tail", Simple(Read) PROVE ShownAsWhole
      BY DEF ShownAsWhole
    <2> DEFINE p == Split(Read)
               f == Front(p)
               l == Last(p)
               w == [i \in DOMAIN p |-> Display(p[i])]
    <2>1. p \in Pieces /\ f \in Seq(Seq(Bytes)) /\ l \in Seq(Bytes) /\ Spaced(l)
      BY ReadFacts
    <2>2. IF pc = "read" THEN shown = Shows(f) /\ partial = Two(l)
          ELSE shown = Shows(f) \o (IF Display(l) = <<>> THEN <<>> ELSE <<Display(l)>>)
      BY DEF ShownInv
    <2>3. pc \in {"read", "over"}
      BY DEF ShownInv
    <2>4. Display(Two(l)) = Display(l)
      BY <2>1, TwoDisplay
    <2>5. Front(w) = Shows(f) /\ Last(w) = Display(l)
      <3> HIDE DEF p
      <3>1. p \in Seq(Seq(Bytes)) /\ p # <<>>
        BY <2>1 DEF Pieces
      <3>2. w = Shows(p)
        BY DEF Shows
      <3>3. /\ l = p[Len(p)] /\ Len(p) \in Nat \ {0} /\ Len(f) = Len(p) - 1
            /\ \A i \in 1 .. Len(p) - 1 : f[i] = p[i]
        BY <2>1, FrontElements
      <3> HIDE DEF f, l, w
      <3>4. w \in Seq(Displayed) /\ Len(w) = Len(p) /\ \A i \in 1 .. Len(p) : w[i] = Display(p[i])
        BY <3>1, <3>2, ShowsFacts
      <3>5. Shows(f) \in Seq(Displayed) /\ Len(Shows(f)) = Len(f) /\ \A i \in 1 .. Len(f) : Shows(f)[i] = Display(f[i])
        BY <2>1, ShowsFacts
      <3>6. w # <<>> /\ Len(p) \in 1 .. Len(p)
        BY <3>3, <3>4, EmptySeq
      <3>7. Last(w) = Display(l)
        BY <3>3, <3>4, <3>6 DEF Last
      <3> DEFINE g == Front(w)
      <3>8. g \in Seq(Displayed) /\ Last(w) \in Displayed /\ w = Append(g, Last(w)) /\ Len(g) = Len(w) - 1
        BY <3>4, <3>6, FrontLast
      <3> HIDE DEF g
      <3>9. \A i \in 1 .. Len(g) : w[i] = g[i]
        <4>1. \A i \in 1 .. Len(g) : Append(g, Last(w))[i] = g[i]
          BY <3>8, AppendProperties
        <4>2. QED
          BY <3>8, <4>1
      <3>10. Len(g) = Len(Shows(f)) /\ \A i \in 1 .. Len(g) : g[i] = Shows(f)[i]
        <4>1. Len(g) = Len(p) - 1 /\ Len(Shows(f)) = Len(p) - 1
          BY <3>3, <3>4, <3>5, <3>8
        <4>2. ASSUME NEW i \in 1 .. Len(p) - 1 PROVE g[i] = Shows(f)[i]
          <5>1. i \in 1 .. Len(g) /\ i \in 1 .. Len(p) /\ i \in 1 .. Len(f)
            BY <3>3, <4>1
          <5>2. g[i] = Display(p[i])
            BY <3>4, <3>9, <5>1
          <5>3. Shows(f)[i] = Display(p[i])
            BY <3>3, <3>5, <5>1
          <5>4. QED
            BY <5>2, <5>3
        <4>3. QED
          BY <4>1, <4>2
      <3>11. g = Shows(f)
        BY <3>5, <3>8, <3>10, SeqEqual
      <3>12. QED
        BY <3>7, <3>11 DEF g
    <2>6. IF pc = "over" THEN shown = Front(w) \o (IF Last(w) = <<>> THEN <<>> ELSE <<Last(w)>>)
          ELSE shown = Front(w) /\ Display(partial) = Last(w)
      BY <2>2, <2>3, <2>4, <2>5
    <2>7. QED
      BY <2>6 DEF ShownAsWhole
  <1>2. QED
    BY <1>1, ShownInit, ShownStep, StreamInvariant, PTL DEF Spec
=============================================================================
