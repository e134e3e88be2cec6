--------------------------- MODULE ExecutorProofs ---------------------------
(***************************************************************************)
(* Theorems about Executor, for pipelines and texts of any length and any  *)
(* exits of the processes: the plan, the types and counts of the profile,  *)
(* the way of the stderr, and the failure that is reported.                *)
(***************************************************************************)
EXTENDS Executor, SequenceTheorems, WellFoundedInduction, TLAPS

-----------------------------------------------------------------------------
(* Folds and flattened sequences *)

\* A set of numbers that is not empty has a least one.
LEMMA LeastNumber ==
    ASSUME NEW T \in SUBSET Nat, T # {}
    PROVE  \E n \in T : \A m \in T : n <= m
<1> DEFINE R == {ss \in Nat \X Nat : ss[1] < ss[2]}
<1>1. IsWellFoundedOn(R, Nat)
  BY NatLessThanWellFounded DEF OpToRel
<1>2. \A m, n \in T : m < n => <<m, n>> \in R
  OBVIOUS
<1> HIDE DEF R
<1>3. PICK n \in T : \A m \in T : <<m, n>> \notin R
  BY <1>1, WFMin
<1>4. \A m \in T : ~(m < n)
  BY <1>2, <1>3
<1>5. \A m \in T : m \in Nat /\ n \in Nat
  OBVIOUS
<1>6. QED
  BY <1>4, <1>5

\* A set of numbers with 0 and the successor of each of its numbers has all of them.
LEMMA Induction ==
    ASSUME NEW T \in SUBSET Nat, 0 \in T, \A n \in T : n + 1 \in T
    PROVE  \A n \in Nat : n \in T
<1> SUFFICES ASSUME Nat \ T # {} PROVE FALSE
  OBVIOUS
<1>1. PICK n \in Nat \ T : \A m \in Nat \ T : n <= m
  BY LeastNumber
<1>2. n - 1 \in Nat /\ n - 1 \in T
  BY <1>1
<1>3. QED
  BY <1>1, <1>2

-----------------------------------------------------------------------------
(* The fold of plan() *)

Nothing == [groups |-> <<>>, current |-> <<>>]

\* FoldLeft applies Place to one step after the other.
LEMMA PlaceFold ==
    ASSUME NEW n \in Nat, NEW s, DOMAIN s = 1 .. n
    PROVE  \E acc : /\ acc[0] = Nothing
                    /\ \A i \in 1 .. n : acc[i] = Place(acc[i - 1], s[i])
                    /\ FoldLeft(Place, Nothing, s) = acc[n]
<1> DEFINE next(f, S) == IF S = {} THEN Nothing ELSE Place(f[S \ {Max(S)}], s[Max(S)])
           has(k) == \E f : \A S \in SUBSET (1 .. k) : f[S] = next(f, S)
           T == {k \in Nat : has(k)}
<1>1. 0 \in T
  <2>1. \A S \in SUBSET (1 .. 0) : S = {}
    OBVIOUS
  <2>2. \A S \in SUBSET (1 .. 0) : [R \in SUBSET (1 .. 0) |-> Nothing][S] = next([R \in SUBSET (1 .. 0) |-> Nothing], S)
    BY <2>1
  <2>3. QED
    BY <2>2
<1>2. ASSUME NEW k \in T PROVE k + 1 \in T
  <2>1. k \in Nat
    OBVIOUS
  <2>2. PICK f : \A S \in SUBSET (1 .. k) : f[S] = next(f, S)
    OBVIOUS
  <2> DEFINE g == [S \in SUBSET (1 .. k + 1) |->
                     IF k + 1 \in S THEN Place(f[S \ {k + 1}], s[k + 1]) ELSE f[S]]
  <2> HIDE DEF T
  <2>3. ASSUME NEW S \in SUBSET (1 .. k + 1) PROVE g[S] = next(g, S)
    <3>1. CASE k + 1 \in S
      <4>1. Max(S) = k + 1
        <5>1. \A y \in S : y <= k + 1 /\ y \in Nat
          BY <2>1
        <5>2. k + 1 \in S /\ \A x \in S : (\A y \in S : x >= y) => x = k + 1
          BY <5>1, <3>1, <2>1
        <5>3. \E x \in S : \A y \in S : x >= y
          BY <5>1, <3>1, <2>1
        <5>4. QED
          BY <5>2, <5>3 DEF Max
      <4>2. S \ {k + 1} \in SUBSET (1 .. k) /\ S \ {k + 1} \in SUBSET (1 .. k + 1)
        BY <2>1
      <4>3. g[S \ {k + 1}] = f[S \ {k + 1}]
        BY <4>2
      <4>4. g[S] = Place(f[S \ {k + 1}], s[k + 1]) /\ S # {}
        BY <3>1
      <4>5. QED
        BY <4>1, <4>3, <4>4
    <3>2. CASE k + 1 \notin S
      <4>1. S \in SUBSET (1 .. k)
        BY <3>2, <2>1
      <4>2. g[S] = f[S]
        BY <3>2
      <4>3. g[S \ {Max(S)}] = f[S \ {Max(S)}]
        <5> DEFINE R == S \ {Max(S)}
        <5>1. R \in SUBSET (1 .. k + 1) /\ k + 1 \notin R
          BY <3>2
        <5> HIDE DEF R
        <5>2. g[R] = f[R]
          BY <5>1
        <5>3. QED
          BY <5>2 DEF R
      <4>4. f[S] = next(f, S)
        BY <2>2, <4>1
      <4> HIDE DEF g
      <4>5. QED
        BY <4>2, <4>3, <4>4
    <3>3. QED
      BY <3>1, <3>2
  <2> HIDE DEF g
  <2>4. has(k + 1)
    BY <2>3
  <2>5. k + 1 \in Nat
    BY <2>1
  <2> HIDE DEF has
  <2>6. QED
    BY <2>4, <2>5 DEF T
<1>3. n \in T
  <2> HIDE DEF T
  <2>1. T \in SUBSET Nat
    BY DEF T
  <2>2. QED
    BY <1>1, <1>2, <2>1, Induction
<1> DEFINE Iter(f) == f = [S \in SUBSET (1 .. n) |-> next(f, S)]
<1>4. \E f : Iter(f)
  <2>1. PICK f : \A S \in SUBSET (1 .. n) : f[S] = next(f, S)
    BY <1>3
  <2> DEFINE g == [S \in SUBSET (1 .. n) |-> f[S]]
  <2>2. ASSUME NEW S \in SUBSET (1 .. n) PROVE g[S] = next(g, S)
    <3>1. S \ {Max(S)} \in SUBSET (1 .. n)
      OBVIOUS
    <3>2. g[S] = f[S] /\ g[S \ {Max(S)}] = f[S \ {Max(S)}]
      BY <3>1
    <3>3. f[S] = next(f, S)
      BY <2>1
    <3> HIDE DEF g
    <3>4. QED
      BY <3>2, <3>3
  <2>3. Iter(g)
    BY <2>2
  <2>4. QED
    BY <2>3
<1> DEFINE iter == CHOOSE f : Iter(f)
<1>5. FoldLeft(Place, Nothing, s) = iter[1 .. n]
  BY DEF FoldLeft, MapThenFoldSet
<1>6. \A S \in SUBSET (1 .. n) : iter[S] = next(iter, S)
  <2>1. Iter(iter)
    BY <1>4
  <2> HIDE DEF iter
  <2>2. QED
    BY <2>1
<1> HIDE DEF iter
<1> DEFINE acc == [i \in 0 .. n |-> iter[1 .. i]]
<1>7. acc[0] = Nothing
  <2>1. 1 .. 0 = {} /\ 1 .. 0 \in SUBSET (1 .. n)
    OBVIOUS
  <2>2. iter[1 .. 0] = Nothing
    BY <1>6, <2>1
  <2>3. QED
    BY <2>2
<1>8. ASSUME NEW i \in 1 .. n PROVE acc[i] = Place(acc[i - 1], s[i])
  <2>1. /\ i \in 1 .. i /\ \A x \in 1 .. i : i >= x
        /\ \A x \in 1 .. i : (\A y \in 1 .. i : x >= y) => x = i
    OBVIOUS
  <2>2. Max(1 .. i) = i
    BY <2>1 DEF Max
  <2>3. (1 .. i) \ {i} = 1 .. i - 1 /\ 1 .. i \in SUBSET (1 .. n) /\ 1 .. i # {}
    OBVIOUS
  <2>4. iter[1 .. i] = Place(iter[1 .. i - 1], s[i])
    BY <1>6, <2>2, <2>3
  <2>5. acc[i] = iter[1 .. i] /\ acc[i - 1] = iter[1 .. i - 1]
    OBVIOUS
  <2>6. QED
    BY <2>4, <2>5
<1>9. FoldLeft(Place, Nothing, s) = acc[n]
  BY <1>5
<1>10. QED
  BY <1>7, <1>8, <1>9

-----------------------------------------------------------------------------
(* FlattenSeq, and where the elements of its sequences go *)

\* FlattenSeq adds one sequence after the other.
LEMMA FlattenSteps ==
    ASSUME NEW g, Len(g) \in Nat \ {0}
    PROVE  \E fl : /\ FlattenSeq(g) = fl[Len(g)]
                   /\ \A i \in 1 .. Len(g) : fl[i] = IF i = 1 THEN g[i] ELSE fl[i - 1] \o g[i]
<1> DEFINE n == Len(g)
           next(f, i) == IF i = 1 THEN g[i] ELSE f[i - 1] \o g[i]
           has(k) == \E f : \A i \in 1 .. k : f[i] = next(f, i)
           T == {k \in Nat : has(k)}
<1>1. 0 \in T
  OBVIOUS
<1>2. ASSUME NEW k \in T PROVE k + 1 \in T
  <2>1. k \in Nat
    OBVIOUS
  <2>2. PICK f : \A i \in 1 .. k : f[i] = next(f, i)
    OBVIOUS
  <2> DEFINE h == [i \in 1 .. k + 1 |-> IF i = k + 1 THEN next(f, i) ELSE f[i]]
  <2>3. ASSUME NEW i \in 1 .. k + 1 PROVE h[i] = next(h, i)
    <3>1. CASE i = k + 1
      <4>1. h[i] = next(f, i)
        BY <3>1
      <4>2. i # 1 => h[i - 1] = f[i - 1]
        BY <2>1, <3>1
      <4> HIDE DEF h
      <4>3. QED
        BY <4>1, <4>2
    <3>2. CASE i # k + 1
      <4>1. h[i] = f[i] /\ i \in 1 .. k
        BY <2>1, <3>2
      <4>2. i # 1 => h[i - 1] = f[i - 1]
        BY <2>1, <3>2
      <4>3. f[i] = next(f, i)
        BY <2>2, <4>1
      <4> HIDE DEF h
      <4>4. QED
        BY <4>1, <4>2, <4>3
    <3>3. QED
      BY <3>1, <3>2
  <2> HIDE DEF h
  <2>4. has(k + 1)
    BY <2>3
  <2>5. k + 1 \in Nat
    BY <2>1
  <2> HIDE DEF has
  <2>6. QED
    BY <2>4, <2>5
<1>3. has(n)
  <2> HIDE DEF has
  <2>1. T \in SUBSET Nat
    OBVIOUS
  <2> HIDE DEF T
  <2>2. n \in T
    BY <1>1, <1>2, <2>1, Induction
  <2>3. QED
    BY <2>2 DEF T
<1> DEFINE Rec(f) == f = [i \in 1 .. n |-> next(f, i)]
<1>4. \E f : Rec(f)
  <2>1. PICK f : \A i \in 1 .. n : f[i] = next(f, i)
    BY <1>3
  <2> DEFINE h == [i \in 1 .. n |-> f[i]]
  <2>2. ASSUME NEW i \in 1 .. n PROVE h[i] = next(h, i)
    <3>1. h[i] = f[i] /\ (i # 1 => h[i - 1] = f[i - 1])
      OBVIOUS
    <3>2. f[i] = next(f, i)
      BY <2>1
    <3> HIDE DEF h
    <3>3. QED
      BY <3>1, <3>2
  <2>3. Rec(h)
    BY <2>2
  <2>4. QED
    BY <2>3
<1> DEFINE fl == CHOOSE f : Rec(f)
<1>5. FlattenSeq(g) = fl[n]
  BY DEF FlattenSeq
<1>6. \A i \in 1 .. n : fl[i] = next(fl, i)
  <2>1. Rec(fl)
    <3> HIDE DEF Rec
    <3>1. QED
      BY <1>4
  <2> HIDE DEF fl, next
  <2>2. QED
    BY <2>1
<1> HIDE DEF fl
<1>7. QED
  BY <1>5, <1>6

LEMMA FlattenEmpty == FlattenSeq(<<>>) = <<>>
BY DEF FlattenSeq

LEMMA PrefixFacts ==
    ASSUME NEW S, NEW g \in Seq(S), NEW k \in 0 .. Len(g)
    PROVE  /\ SubSeq(g, 1, k) \in Seq(S) /\ Len(SubSeq(g, 1, k)) = k
           /\ \A i \in 1 .. k : SubSeq(g, 1, k)[i] = g[i]
<1>1. 1 \in Int /\ k \in Int /\ \A i \in 1 .. k : g[i] \in S
  OBVIOUS
<1>2. /\ SubSeq(g, 1, k) \in Seq(S) /\ Len(SubSeq(g, 1, k)) = IF 1 <= k THEN k - 1 + 1 ELSE 0
      /\ \A i \in 1 .. k - 1 + 1 : SubSeq(g, 1, k)[i] = g[1 + i - 1]
  BY <1>1, SubSeqProperties
<1>3. k - 1 + 1 = k /\ k \in Nat /\ \A i \in 1 .. k : 1 + i - 1 = i
  OBVIOUS
<1>4. QED
  BY <1>2, <1>3

LEMMA FlattenAppend ==
    ASSUME NEW S, NEW g \in Seq(Seq(S)), NEW x \in Seq(S)
    PROVE  FlattenSeq(Append(g, x)) = FlattenSeq(g) \o x
<1> DEFINE n == Len(g)
           a == Append(g, x)
<1>1. /\ n \in Nat /\ Len(a) = n + 1 /\ n + 1 \in Nat \ {0} /\ a[n + 1] = x
      /\ \A i \in 1 .. n : a[i] = g[i]
  OBVIOUS
<1> HIDE DEF a
<1>2. PICK fa : /\ FlattenSeq(a) = fa[n + 1]
                /\ \A i \in 1 .. n + 1 : fa[i] = IF i = 1 THEN a[i] ELSE fa[i - 1] \o a[i]
  <2>1. Len(a) \in Nat \ {0}
    BY <1>1
  <2>2. PICK fa : /\ FlattenSeq(a) = fa[Len(a)]
                  /\ \A i \in 1 .. Len(a) : fa[i] = IF i = 1 THEN a[i] ELSE fa[i - 1] \o a[i]
    BY <2>1, FlattenSteps
  <2>3. WITNESS fa
  <2>4. QED
    BY <1>1, <2>2
<1>3. CASE n = 0
  <2>1. g = <<>>
    BY <1>3
  <2>2. FlattenSeq(a) = x
    BY <1>1, <1>2, <1>3
  <2>3. QED
    BY <2>1, <2>2, FlattenEmpty DEF a
<1>4. CASE n # 0
  <2>0. Len(g) \in Nat \ {0}
    BY <1>1, <1>4
  <2>1. PICK fg : /\ FlattenSeq(g) = fg[n]
                  /\ \A i \in 1 .. n : fg[i] = IF i = 1 THEN g[i] ELSE fg[i - 1] \o g[i]
    BY <2>0, FlattenSteps
  <2> HIDE DEF n
  <2> DEFINE T == {i \in Nat : i \in 1 .. n => fa[i] = fg[i]}
  <2>2. T \in SUBSET Nat /\ 0 \in T
    OBVIOUS
  <2>3. ASSUME NEW i \in T PROVE i + 1 \in T
    <3>1. i \in Nat /\ (i \in 1 .. n => fa[i] = fg[i])
      OBVIOUS
    <3>2. ASSUME i + 1 \in 1 .. n PROVE fa[i + 1] = fg[i + 1]
      <4>1. i + 1 = 1 \/ i \in 1 .. n
        BY <3>1, <3>2, <1>1
      <4>2. i + 1 \in 1 .. n + 1 /\ (i + 1) - 1 = i
        BY <3>1, <3>2, <1>1
      <4>3. fa[i + 1] = IF i + 1 = 1 THEN a[i + 1] ELSE fa[i] \o a[i + 1]
        BY <4>2, <1>2
      <4>4. fg[i + 1] = IF i + 1 = 1 THEN g[i + 1] ELSE fg[i] \o g[i + 1]
        BY <4>2, <3>2, <2>1
      <4>5. QED
        BY <4>1, <4>3, <4>4, <3>1, <3>2, <1>1
    <3>3. QED
      BY <3>1, <3>2
  <2>4. fa[n] = fg[n]
    <3>1. n \in T
      <4> HIDE DEF T
      <4>1. QED
        BY <2>2, <2>3, <1>1, Induction
    <3>2. QED
      BY <3>1, <1>1, <1>4
  <2>5. fa[n + 1] = fa[n] \o a[n + 1]
    <3>1. n + 1 \in 1 .. n + 1 /\ n + 1 # 1 /\ (n + 1) - 1 = n
      BY <1>1, <1>4
    <3>2. QED
      BY <3>1, <1>2
  <2>6. QED
    BY <1>1, <1>2, <2>1, <2>4, <2>5 DEF a
<1>5. QED
  BY <1>3, <1>4

\* The number of elements in the first k sequences of g.
Before(g, k) == Len(FlattenSeq(SubSeq(g, 1, k)))

\* A sequence that is not empty ends in its last element.
LEMMA EndsInLast ==
    ASSUME NEW S, NEW g \in Seq(S), Len(g) # 0
    PROVE  LET h == SubSeq(g, 1, Len(g) - 1)
           IN /\ h \in Seq(S) /\ Len(h) = Len(g) - 1 /\ g[Len(g)] \in S
              /\ g = Append(h, g[Len(g)]) /\ \A i \in 1 .. Len(g) - 1 : h[i] = g[i]
<1> DEFINE h == SubSeq(g, 1, Len(g) - 1)
<1>0. Len(g) \in Nat /\ Len(g) - 1 \in 0 .. Len(g) /\ g[Len(g)] \in S
  OBVIOUS
<1>1. h \in Seq(S) /\ Len(h) = Len(g) - 1 /\ \A i \in 1 .. Len(g) - 1 : h[i] = g[i]
  BY <1>0, PrefixFacts
<1> HIDE DEF h
<1>2. Append(h, g[Len(g)]) = g
  <2>1. Append(h, g[Len(g)]) \in Seq(S) /\ Len(Append(h, g[Len(g)])) = Len(g)
    BY <1>0, <1>1
  <2>2. \A i \in 1 .. Len(g) : Append(h, g[Len(g)])[i] = g[i]
    BY <1>0, <1>1
  <2>3. QED
    BY <2>1, <2>2, SeqEqual
<1>3. QED
  BY <1>0, <1>1, <1>2 DEF h

\* The elements of the k-th sequence follow those of the ones before it.
LEMMA FlattenPlaces ==
    ASSUME NEW S
    PROVE  \A g \in Seq(Seq(S)) :
             /\ FlattenSeq(g) \in Seq(S) /\ Before(g, Len(g)) = Len(FlattenSeq(g))
             /\ Before(g, 0) = 0
             /\ \A k \in 1 .. Len(g) :
                  /\ Before(g, k - 1) \in Nat /\ Before(g, k) = Before(g, k - 1) + Len(g[k])
                  /\ Before(g, k) <= Len(FlattenSeq(g))
                  /\ \A i \in 1 .. Len(g[k]) :
                       FlattenSeq(g)[Before(g, k - 1) + i] = g[k][i]
<1> DEFINE Places(g) ==
             /\ FlattenSeq(g) \in Seq(S) /\ Before(g, Len(g)) = Len(FlattenSeq(g))
             /\ Before(g, 0) = 0
             /\ \A k \in 1 .. Len(g) :
                  /\ Before(g, k - 1) \in Nat /\ Before(g, k) = Before(g, k - 1) + Len(g[k])
                  /\ Before(g, k) <= Len(FlattenSeq(g))
                  /\ \A i \in 1 .. Len(g[k]) :
                       FlattenSeq(g)[Before(g, k - 1) + i] = g[k][i]
           has(n) == \A g \in Seq(Seq(S)) : Len(g) = n => Places(g)
           T == {n \in Nat : has(n)}
<1>0. \A g \in Seq(Seq(S)) : Before(g, 0) = 0
  <2>1. \A g \in Seq(Seq(S)) : SubSeq(g, 1, 0) = <<>>
    BY SubSeqEmpty
  <2>2. Len(<<>>) = 0
    OBVIOUS
  <2>3. QED
    BY <2>1, <2>2, FlattenEmpty DEF Before
<1>1. has(0)
  <2>1. ASSUME NEW g \in Seq(Seq(S)), Len(g) = 0 PROVE Places(g)
    <3>1. g = <<>>
      BY <2>1
    <3>2. FlattenSeq(g) = <<>>
      BY <3>1, FlattenEmpty
    <3>3. <<>> \in Seq(S) /\ Len(<<>>) = 0
      OBVIOUS
    <3>4. Before(g, 0) = 0 /\ Before(g, Len(g)) = 0
      <4>1. Before(g, 0) = 0
        BY <1>0
      <4>2. QED
        BY <2>1, <4>1, Zenon
    <3>5. FlattenSeq(g) \in Seq(S) /\ Len(FlattenSeq(g)) = 0
      BY <3>2, <3>3
    <3>6. \A k \in 1 .. Len(g) : FALSE
      BY <2>1
    <3>7. Before(g, Len(g)) = Len(FlattenSeq(g))
      BY <3>4, <3>5
    <3>8. QED
      BY <3>4, <3>5, <3>6, <3>7, Zenon
  <2> HIDE DEF Places
  <2>2. QED
    BY <2>1
<1>2. ASSUME NEW n \in Nat, has(n) PROVE has(n + 1)
  <2>1. n \in Nat
    OBVIOUS
  <2>2. ASSUME NEW g \in Seq(Seq(S)), Len(g) = n + 1 PROVE Places(g)
    <3> DEFINE h == SubSeq(g, 1, n)
               x == g[n + 1]
    <3>1. /\ h \in Seq(Seq(S)) /\ Len(h) = n /\ x \in Seq(S) /\ g = Append(h, x)
          /\ \A i \in 1 .. n : h[i] = g[i]
      <4>1. Len(g) # 0 /\ Len(g) - 1 = n
        BY <2>1, <2>2
      <4>2. QED
        BY <4>1, <2>2, EndsInLast
    <3>2. Places(h)
      <4> HIDE DEF Places, h
      <4>1. QED
        BY <1>2, <3>1
    <3> HIDE DEF h, x
    <3>3. FlattenSeq(g) = FlattenSeq(h) \o x
      BY <3>1, FlattenAppend
    <3>4. \A k \in 0 .. n : SubSeq(g, 1, k) = SubSeq(h, 1, k)
      <4>1. ASSUME NEW k \in 0 .. n PROVE SubSeq(g, 1, k) = SubSeq(h, 1, k)
        <5>1. k \in 0 .. Len(g) /\ k \in 0 .. Len(h) /\ k \in Nat
          BY <2>1, <2>2, <3>1
        <5>2. /\ SubSeq(g, 1, k) \in Seq(Seq(S)) /\ Len(SubSeq(g, 1, k)) = k
              /\ \A i \in 1 .. k : SubSeq(g, 1, k)[i] = g[i]
          BY <5>1, PrefixFacts
        <5>3. /\ SubSeq(h, 1, k) \in Seq(Seq(S)) /\ Len(SubSeq(h, 1, k)) = k
              /\ \A i \in 1 .. k : SubSeq(h, 1, k)[i] = h[i]
          BY <5>1, <3>1, PrefixFacts
        <5>4. \A i \in 1 .. k : h[i] = g[i]
          BY <2>1, <3>1
        <5>5. QED
          BY <5>2, <5>3, <5>4, SeqEqual
      <4>2. QED
        BY <4>1
    <3>5. SubSeq(g, 1, n + 1) = g
      BY <2>1, <2>2, SubSeqFull
    <3>6. /\ \A k \in 0 .. n : Before(g, k) = Before(h, k)
          /\ Before(g, n + 1) = Len(FlattenSeq(g))
          /\ Before(h, n) = Len(FlattenSeq(h))
      BY <3>1, <3>2, <3>4, <3>5 DEF Before
    <3>7. /\ FlattenSeq(h) \in Seq(S) /\ FlattenSeq(g) \in Seq(S)
          /\ Len(FlattenSeq(g)) = Len(FlattenSeq(h)) + Len(x)
          /\ \A i \in 1 .. Len(FlattenSeq(h)) : FlattenSeq(g)[i] = FlattenSeq(h)[i]
          /\ \A i \in 1 .. Len(x) : FlattenSeq(g)[Len(FlattenSeq(h)) + i] = x[i]
      BY <3>1, <3>2, <3>3
    <3>8. g[n + 1] = x
      BY DEF x
    <3>9. ASSUME NEW k \in 1 .. n + 1
          PROVE  /\ Before(g, k - 1) \in Nat /\ Before(g, k) = Before(g, k - 1) + Len(g[k])
                 /\ Before(g, k) <= Len(FlattenSeq(g))
                 /\ \A i \in 1 .. Len(g[k]) : FlattenSeq(g)[Before(g, k - 1) + i] = g[k][i]
      <4>1. CASE k = n + 1
        <5>1. k - 1 = n /\ n \in 0 .. n
          BY <4>1, <2>1
        <5>2. Len(FlattenSeq(h)) \in Nat /\ Len(x) \in Nat
          BY <3>1, <3>7
        <5>3. Before(g, k - 1) = Len(FlattenSeq(h)) /\ Before(g, k) = Len(FlattenSeq(g)) /\ g[k] = x
          BY <4>1, <5>1, <3>6, <3>8
        <5>4. Len(FlattenSeq(g)) = Len(FlattenSeq(h)) + Len(x)
          BY <3>7
        <5>5. \A i \in 1 .. Len(g[k]) : FlattenSeq(g)[Before(g, k - 1) + i] = g[k][i]
          BY <5>3, <3>7
        <5>6. Before(g, k - 1) \in Nat
          BY <5>2, <5>3
        <5>7. Before(g, k) = Before(g, k - 1) + Len(g[k])
          BY <5>3, <5>4
        <5>8. Before(g, k) <= Len(FlattenSeq(g))
          BY <5>2, <5>3, <5>4
        <5>9. QED
          BY <5>5, <5>6, <5>7, <5>8
      <4>2. CASE k # n + 1
        <5>1. k \in 1 .. n /\ k - 1 \in 0 .. n /\ k \in 0 .. n
          BY <4>2, <2>1
        <5>2. Before(g, k) = Before(h, k) /\ Before(g, k - 1) = Before(h, k - 1) /\ h[k] = g[k]
          BY <5>1, <3>6, <3>1
        <5>3. /\ Before(h, k - 1) \in Nat /\ Before(h, k) = Before(h, k - 1) + Len(h[k])
              /\ Before(h, k) <= Len(FlattenSeq(h))
              /\ \A i \in 1 .. Len(h[k]) : FlattenSeq(h)[Before(h, k - 1) + i] = h[k][i]
          BY <5>1, <3>2, <3>1
        <5>4. Len(FlattenSeq(h)) \in Nat /\ Len(x) \in Nat /\ Len(h[k]) \in Nat
          BY <3>1, <3>7, <5>1
        <5>5. \A i \in 1 .. Len(h[k]) : Before(h, k - 1) + i \in 1 .. Len(FlattenSeq(h))
          BY <5>3, <5>4
        <5>6. \A i \in 1 .. Len(g[k]) : FlattenSeq(g)[Before(g, k - 1) + i] = g[k][i]
          BY <5>2, <5>3, <5>5, <3>7
        <5>7. Before(g, k) <= Len(FlattenSeq(g))
          <6>1. Before(h, k) \in Nat /\ Before(h, k) <= Len(FlattenSeq(h))
            BY <5>3, <5>4
          <6>2. Len(FlattenSeq(g)) = Len(FlattenSeq(h)) + Len(x)
            BY <3>7
          <6>3. QED
            BY <5>2, <5>4, <6>1, <6>2
        <5>8. QED
          BY <5>2, <5>3, <5>6, <5>7
      <4>3. QED
        BY <4>1, <4>2
    <3>10. QED
      BY <1>0, <2>2, <3>6, <3>7, <3>9
  <2> HIDE DEF Places
  <2>3. QED
    BY <2>1, <2>2
<1>3. \A n \in Nat : has(n)
  <2> HIDE DEF has
  <2>1. T \in SUBSET Nat /\ 0 \in T /\ \A n \in T : n + 1 \in T
    BY <1>1, <1>2
  <2> HIDE DEF T
  <2>2. \A n \in Nat : n \in T
    BY <2>1, Induction
  <2>3. QED
    BY <2>2 DEF T
<1> HIDE DEF Places
<1>4. \A g \in Seq(Seq(S)) : Places(g)
  BY <1>3, LenProperties
<1>5. QED
  BY <1>4 DEF Places

LEMMA FlattenBounds ==
    ASSUME NEW S, NEW g \in Seq(Seq(S)), \A k \in 1 .. Len(g) : Len(g[k]) >= 1
    PROVE  \A k \in 0 .. Len(g) : /\ Before(g, k) \in Nat /\ k <= Before(g, k)
                                  /\ Before(g, k) <= Len(FlattenSeq(g))
<1> DEFINE has(k) == /\ Before(g, k) \in Nat /\ k <= Before(g, k)
                     /\ Before(g, k) <= Len(FlattenSeq(g))
           T == {k \in Nat : k \in 0 .. Len(g) => has(k)}
<1>1. Len(g) \in Nat /\ Len(FlattenSeq(g)) \in Nat /\ Before(g, 0) = 0
  BY FlattenPlaces
<1>2. ASSUME NEW k \in 1 .. Len(g), has(k - 1) PROVE has(k)
  <2>1. /\ Before(g, k) = Before(g, k - 1) + Len(g[k]) /\ Before(g, k) <= Len(FlattenSeq(g))
        /\ Len(g[k]) \in Nat /\ Len(g[k]) >= 1
    BY FlattenPlaces
  <2>2. k \in Nat /\ k - 1 \in Nat
    BY <1>1
  <2>3. QED
    BY <1>2, <2>1, <2>2
<1>3. has(0)
  BY <1>1
<1> HIDE DEF has
<1>4. T \in SUBSET Nat /\ 0 \in T
  BY <1>3
<1>5. ASSUME NEW k \in T PROVE k + 1 \in T
  <2>1. k + 1 \in 0 .. Len(g) => k \in 0 .. Len(g) /\ k + 1 \in 1 .. Len(g) /\ (k + 1) - 1 = k
    BY <1>1
  <2>2. QED
    BY <2>1, <1>2
<1> HIDE DEF T
<1>6. \A k \in Nat : k \in T
  BY <1>4, <1>5, Induction
<1>7. QED
  BY <1>6 DEF T, has

-----------------------------------------------------------------------------
(* The plan of a pipeline *)

IsGroup(g) ==
    /\ g \in Seq(Kinds) /\ Len(g) >= 1
    /\ IF Streams(g) THEN /\ \A i \in 1 .. Len(g) - 1 : g[i] \in Streamable
                         /\ Last(g) \in Streamable \cup Redirects
       ELSE Len(g) = 1

WellGrouped(gs) ==
    /\ gs \in Seq(Seq(Kinds)) /\ \A k \in 1 .. Len(gs) : IsGroup(gs[k])
    /\ \A k \in 1 .. Len(gs) - 1 :
         Last(gs[k]) \in Streamable => gs[k + 1][1] \notin Streamable \cup Redirects

LEMMA GroupAdded ==
    ASSUME NEW gs, WellGrouped(gs), NEW g, IsGroup(g),
           gs # <<>> /\ Last(gs[Len(gs)]) \in Streamable => g[1] \notin Streamable \cup Redirects
    PROVE  /\ WellGrouped(Append(gs, g)) /\ Append(gs, g) # <<>>
           /\ Append(gs, g)[Len(Append(gs, g))] = g
           /\ FlattenSeq(Append(gs, g)) = FlattenSeq(gs) \o g
<1> DEFINE a == Append(gs, g)
           n == Len(gs)
<1>1. gs \in Seq(Seq(Kinds)) /\ g \in Seq(Kinds) /\ n \in Nat
  BY DEF WellGrouped, IsGroup
<1>2. /\ a \in Seq(Seq(Kinds)) /\ a # <<>> /\ Len(a) = n + 1
      /\ \A i \in 1 .. n : a[i] = gs[i]
      /\ a[n + 1] = g
  BY <1>1, AppendProperties
<1>3. FlattenSeq(a) = FlattenSeq(gs) \o g
  BY <1>1, FlattenAppend
<1> HIDE DEF a
<1>4. ASSUME NEW k \in 1 .. n + 1 PROVE IsGroup(a[k])
  <2>1. k \in 1 .. n \/ k = n + 1
    BY <1>1
  <2>2. QED
    BY <1>2, <2>1 DEF WellGrouped
<1>5. ASSUME NEW k \in 1 .. n, Last(a[k]) \in Streamable
      PROVE  a[k + 1][1] \notin Streamable \cup Redirects
  <2>1. CASE k = n
    <3>1. gs # <<>> /\ a[k] = gs[n] /\ a[k + 1] = g
      BY <1>1, <1>2, <2>1
    <3>2. QED
      BY <1>5, <3>1
  <2>2. CASE k # n
    <3>1. k \in 1 .. n - 1 /\ k + 1 \in 1 .. n
      BY <1>1, <2>2
    <3>2. a[k] = gs[k] /\ a[k + 1] = gs[k + 1]
      BY <1>2, <3>1
    <3>3. QED
      BY <1>5, <3>1, <3>2 DEF WellGrouped
  <2>3. QED
    BY <2>1, <2>2
<1>6. Len(a) - 1 = n
  BY <1>1, <1>2
<1>7. WellGrouped(a)
  BY <1>2, <1>4, <1>5, <1>6 DEF WellGrouped
<1>8. QED
  BY <1>2, <1>3, <1>7 DEF a

LEMMA KindFacts == Streamable \subseteq Kinds /\ Redirects \subseteq Kinds
                   /\ Streamable \cap Redirects = {}
BY DEF Streamable, Kinds, Redirects, Commands

\* What plan() has once it has placed the first i steps of s.
Placed(p, s, i) ==
    /\ WellGrouped(p.groups) /\ p.current \in Seq(Streamable)
    /\ p.groups # <<>> => Last(p.groups[Len(p.groups)]) \notin Streamable
    /\ FlattenSeq(p.groups) \o p.current = SubSeq(s, 1, i)

\* Steps that stream are a group, and so are they with a redirect.
LEMMA CurrentIsGroup ==
    ASSUME NEW c \in Seq(Streamable)
    PROVE  /\ c \in Seq(Kinds)
           /\ c # <<>> => IsGroup(c) /\ c[1] \in Streamable /\ Last(c) \in Streamable
           /\ \A step \in Redirects : c # <<>> => /\ IsGroup(Append(c, step))
                                                /\ Last(Append(c, step)) = step
<1>1. c \in Seq(Kinds) /\ Len(c) \in Nat
  BY KindFacts
<1>2. ASSUME c # <<>>
      PROVE  IsGroup(c) /\ c[1] \in Streamable /\ Last(c) \in Streamable
  <2>1. Len(c) >= 1 /\ 1 \in 1 .. Len(c) /\ Len(c) \in 1 .. Len(c)
        /\ \A i \in 1 .. Len(c) : c[i] \in Streamable
    BY <1>2
  <2>2. QED
    BY <1>1, <2>1 DEF IsGroup, Last, Streams
<1>3. ASSUME NEW step \in Redirects, c # <<>>
      PROVE  IsGroup(Append(c, step)) /\ Last(Append(c, step)) = step
  <2> DEFINE g == Append(c, step)
             n == Len(c)
  <2>1. /\ g \in Seq(Kinds) /\ Len(g) = n + 1 /\ g[n + 1] = step
        /\ \A i \in 1 .. n : g[i] = c[i] /\ c[i] \in Streamable
    BY <1>1, KindFacts, AppendProperties
  <2>2. n >= 1 /\ (n + 1) - 1 = n /\ n + 1 >= 1
    BY <1>1, <1>3
  <2> HIDE DEF g, n
  <2>3. Last(g) = step
    BY <2>1 DEF Last
  <2>4. Streams(g) /\ Len(g) - 1 = n /\ Len(g) >= 1
    BY <2>1, <2>2 DEF Streams
  <2>5. IsGroup(g)
    BY <2>1, <2>3, <2>4 DEF IsGroup
  <2>6. QED
    BY <2>3, <2>5 DEF g
<1>4. QED
  BY <1>1, <1>2, <1>3

LEMMA AloneIsGroup ==
    ASSUME NEW step \in Kinds \ Streamable
    PROVE  IsGroup(<<step>>) /\ Last(<<step>>) = step /\ <<step>>[1] = step /\ <<step>> \in Seq(Kinds)
BY DEF IsGroup, Last, Streams

LEMMA NothingPlaced ==
    ASSUME NEW s \in Seq(Kinds)
    PROVE  Placed(Nothing, s, 0)
<1>1. SubSeq(s, 1, 0) = <<>>
  BY SubSeqEmpty
<1>2. <<>> \in Seq(Seq(Kinds)) /\ <<>> \in Seq(Streamable) /\ Len(<<>>) = 0 /\ <<>> \o <<>> = <<>>
  OBVIOUS
<1>3. WellGrouped(<<>>)
  BY <1>2 DEF WellGrouped
<1>4. QED
  BY <1>1, <1>2, <1>3, FlattenEmpty DEF Placed, Nothing

LEMMA IsPlaced ==
    ASSUME NEW s, NEW i, NEW gs, WellGrouped(gs), NEW c \in Seq(Streamable),
           gs # <<>> => Last(gs[Len(gs)]) \notin Streamable,
           FlattenSeq(gs) \o c = SubSeq(s, 1, i),
           NEW q, q = [groups |-> gs, current |-> c]
    PROVE  Placed(q, s, i) /\ q = [groups |-> q.groups, current |-> q.current]
<1>1. q.groups = gs /\ q.current = c
  OBVIOUS
<1>2. QED
  BY <1>1 DEF Placed

\* A group that ends with a step that does not stream leaves nothing for the next one.
LEMMA IsPlacedClosed ==
    ASSUME NEW s, NEW i, NEW gs, NEW hs, NEW g, WellGrouped(hs), hs[Len(hs)] = g,
           FlattenSeq(hs) = FlattenSeq(gs) \o g, FlattenSeq(gs) \o g = SubSeq(s, 1, i),
           FlattenSeq(gs) \o g \in Seq(Kinds), Last(g) \notin Streamable,
           NEW q, q = [groups |-> hs, current |-> <<>>]
    PROVE  Placed(q, s, i) /\ q = [groups |-> q.groups, current |-> q.current]
<1>1. <<>> \in Seq(Streamable)
  OBVIOUS
<1>2. FlattenSeq(hs) \o <<>> = SubSeq(s, 1, i)
  BY ConcatEmptySeq
<1>3. QED
  BY <1>1, <1>2, IsPlaced

LEMMA Associative ==
    \A u, v, w \in Seq(Kinds) : (u \o v) \o w = u \o (v \o w)
<1> SUFFICES ASSUME NEW u \in Seq(Kinds), NEW v \in Seq(Kinds), NEW w \in Seq(Kinds)
             PROVE  (u \o v) \o w = u \o (v \o w)
  OBVIOUS
<1>1. QED
  BY ConcatAssociative

LEMMA PlaceStep ==
    ASSUME NEW s \in Seq(Kinds), NEW i \in 1 .. Len(s), NEW p, Placed(p, s, i - 1),
           p = [groups |-> p.groups, current |-> p.current]
    PROVE  /\ Placed(Place(p, s[i]), s, i)
           /\ Place(p, s[i]) = [groups |-> Place(p, s[i]).groups, current |-> Place(p, s[i]).current]
<1> DEFINE gs == p.groups
           c == p.current
           step == s[i]
           q == Place(p, step)
<1>0. p = [groups |-> gs, current |-> c] /\ q = Place([groups |-> gs, current |-> c], step)
  OBVIOUS
<1>1. /\ step \in Kinds /\ WellGrouped(gs) /\ c \in Seq(Streamable) /\ c \in Seq(Kinds)
      /\ gs # <<>> => Last(gs[Len(gs)]) \notin Streamable
      /\ FlattenSeq(gs) \o c = SubSeq(s, 1, i - 1)
  BY CurrentIsGroup DEF Placed
<1>2. FlattenSeq(gs) \in Seq(Kinds)
  BY <1>1, FlattenPlaces DEF WellGrouped
<1>3. SubSeq(s, 1, i) = SubSeq(s, 1, i - 1) \o <<step>>
  <2>1. 1 \in 1 .. Len(s) /\ i \in 1 .. Len(s) /\ Len(s) \in Nat
    OBVIOUS
  <2>2. QED
    BY <2>1, SubSeqRecursiveSecond
<1>4. <<step>> \in Seq(Kinds)
  BY <1>1
<1>5. (FlattenSeq(gs) \o c) \o <<step>> = FlattenSeq(gs) \o (c \o <<step>>)
  <2>1. c \in Seq(Kinds)
    BY <1>1
  <2> HIDE DEF gs, c, step
  <2>2. QED
    BY <1>2, <1>4, <2>1, Associative
<1>6. c \o <<step>> = Append(c, step)
  BY <1>1, AppendIsConcat
<1> HIDE DEF gs, c, step, q
<1>7. CASE step \in Streamable
  <2>1. q = [groups |-> gs, current |-> Append(c, step)]
    BY <1>0, <1>7 DEF Place
  <2>2. Append(c, step) \in Seq(Streamable)
    BY <1>1, <1>7
  <2>3. FlattenSeq(gs) \o Append(c, step) = SubSeq(s, 1, i)
    BY <1>1, <1>3, <1>5, <1>6
  <2>4. QED
    BY <1>1, <2>1, <2>2, <2>3, IsPlaced DEF q, step
<1>8. CASE step \in Redirects /\ c # <<>>
  <2> DEFINE g == Append(c, step)
             hs == Append(gs, g)
  <2>1. q = [groups |-> hs, current |-> <<>>]
    BY <1>0, <1>8, KindFacts DEF Place
  <2>2. IsGroup(g) /\ Last(g) = step /\ g \in Seq(Kinds)
    BY <1>1, <1>8, CurrentIsGroup
  <2>3. FlattenSeq(gs) \o g = SubSeq(s, 1, i)
    BY <1>1, <1>3, <1>5, <1>6
  <2> HIDE DEF g
  <2>4. WellGrouped(hs) /\ hs[Len(hs)] = g /\ FlattenSeq(hs) = FlattenSeq(gs) \o g
    BY <1>1, <2>2, GroupAdded
  <2>5. FlattenSeq(gs) \o g \in Seq(Kinds) /\ Last(g) \notin Streamable
    BY <1>2, <1>8, <2>2, ConcatProperties, KindFacts
  <2> HIDE DEF hs
  <2>6. QED
    BY <2>1, <2>3, <2>4, <2>5, IsPlacedClosed DEF q, step
<1>9. CASE step \notin Streamable /\ c = <<>>
  <2> DEFINE g == <<step>>
             hs == Append(gs, g)
  <2>1. q = [groups |-> hs, current |-> <<>>]
    BY <1>0, <1>9 DEF Place
  <2>2. IsGroup(g) /\ Last(g) = step /\ g \in Seq(Kinds)
    BY <1>1, <1>9, AloneIsGroup
  <2>3. <<>> \o g = g
    BY <2>2, ConcatEmptySeq
  <2>4. FlattenSeq(gs) \o g = SubSeq(s, 1, i)
    BY <1>1, <1>3, <1>5, <1>9, <2>3
  <2> HIDE DEF g
  <2>5. WellGrouped(hs) /\ hs[Len(hs)] = g /\ FlattenSeq(hs) = FlattenSeq(gs) \o g
    BY <1>1, <2>2, GroupAdded
  <2>6. FlattenSeq(gs) \o g \in Seq(Kinds) /\ Last(g) \notin Streamable
    BY <1>2, <1>9, <2>2, ConcatProperties
  <2> HIDE DEF hs
  <2>7. QED
    BY <2>1, <2>4, <2>5, <2>6, IsPlacedClosed DEF q, step
<1>10. CASE step \notin Streamable \cup Redirects /\ c # <<>>
  <2> DEFINE fs == Append(gs, c)
             g == <<step>>
             hs == Append(fs, g)
  <2>1. q = [groups |-> hs, current |-> <<>>]
    BY <1>0, <1>10 DEF Place
  <2>2. IsGroup(c) /\ Last(c) \in Streamable
    BY <1>1, <1>10, CurrentIsGroup
  <2>3. IsGroup(g) /\ Last(g) = step /\ g[1] = step /\ g \in Seq(Kinds)
    BY <1>1, <1>10, AloneIsGroup
  <2>4. WellGrouped(fs) /\ fs # <<>> /\ fs[Len(fs)] = c /\ FlattenSeq(fs) = FlattenSeq(gs) \o c
    BY <1>1, <2>2, GroupAdded
  <2>5. FlattenSeq(fs) \o g = SubSeq(s, 1, i)
    BY <1>1, <1>3, <2>4
  <2> HIDE DEF fs, g
  <2>6. WellGrouped(hs) /\ hs[Len(hs)] = g /\ FlattenSeq(hs) = FlattenSeq(fs) \o g
    BY <1>10, <2>3, <2>4, GroupAdded
  <2>7. FlattenSeq(fs) \o g \in Seq(Kinds) /\ Last(g) \notin Streamable
    <3>1. FlattenSeq(fs) \in Seq(Kinds)
      BY <2>4, FlattenPlaces DEF WellGrouped
    <3>2. QED
      BY <1>10, <2>3, <3>1, ConcatProperties
  <2> HIDE DEF hs
  <2>8. QED
    BY <2>1, <2>5, <2>6, <2>7, IsPlacedClosed DEF q, step
<1>11. QED
  BY <1>7, <1>8, <1>9, <1>10

\* The plan of a pipeline has all its steps, in groups.
LEMMA PlanFacts ==
    ASSUME NEW s \in Seq(Kinds)
    PROVE  WellGrouped(Plan(s)) /\ FlattenSeq(Plan(s)) = s
<1> DEFINE n == Len(s)
<1>1. n \in Nat /\ DOMAIN s = 1 .. n
  OBVIOUS
<1>2. PICK acc : /\ acc[0] = Nothing
                 /\ \A i \in 1 .. n : acc[i] = Place(acc[i - 1], s[i])
                 /\ FoldLeft(Place, Nothing, s) = acc[n]
  BY <1>1, PlaceFold
<1> DEFINE has(i) == /\ Placed(acc[i], s, i)
                     /\ acc[i] = [groups |-> acc[i].groups, current |-> acc[i].current]
           T == {i \in Nat : i \in 0 .. n => has(i)}
<1>3. has(0)
  <2>1. Nothing = [groups |-> Nothing.groups, current |-> Nothing.current]
    BY DEF Nothing
  <2>2. QED
    BY <1>2, <2>1, NothingPlaced
<1>4. ASSUME NEW i \in 1 .. n, has(i - 1) PROVE has(i)
  BY <1>2, <1>4, PlaceStep
<1>5. has(n)
  <2> HIDE DEF has
  <2>1. T \in SUBSET Nat /\ 0 \in T
    BY <1>3
  <2>2. ASSUME NEW i \in T PROVE i + 1 \in T
    <3>1. i + 1 \in 0 .. n => i \in 0 .. n /\ i + 1 \in 1 .. n /\ (i + 1) - 1 = i
      BY <1>1
    <3>2. QED
      BY <3>1, <1>4
  <2> HIDE DEF T
  <2>3. \A i \in Nat : i \in T
    BY <2>1, <2>2, Induction
  <2>4. n \in T /\ n \in 0 .. n
    BY <1>1, <2>3
  <2>5. QED
    BY <2>4 DEF T
<1> DEFINE end == FoldLeft(Place, Nothing, s)
<1>6. /\ WellGrouped(end.groups) /\ end.current \in Seq(Streamable) /\ end.current \in Seq(Kinds)
      /\ end.groups # <<>> => Last(end.groups[Len(end.groups)]) \notin Streamable
      /\ FlattenSeq(end.groups) \o end.current = s
  <2>1. Placed(end, s, n) /\ SubSeq(s, 1, n) = s
    BY <1>2, <1>5, SubSeqFull
  <2> HIDE DEF end, n
  <2>2. /\ WellGrouped(end.groups) /\ end.current \in Seq(Streamable)
        /\ end.groups # <<>> => Last(end.groups[Len(end.groups)]) \notin Streamable
        /\ FlattenSeq(end.groups) \o end.current = s
    BY <2>1 DEF Placed
  <2>3. end.current \in Seq(Kinds)
    BY <2>2, CurrentIsGroup
  <2>4. QED
    BY <2>2, <2>3
<1>7. Plan(s) = IF end.current = <<>> THEN end.groups ELSE Append(end.groups, end.current)
  BY DEF Plan, Nothing
<1> HIDE DEF end
<1>8. CASE end.current = <<>>
  <2>1. FlattenSeq(end.groups) \in Seq(Kinds)
    BY <1>6, FlattenPlaces DEF WellGrouped
  <2>2. FlattenSeq(end.groups) = s
    BY <2>1, <1>6, <1>8, ConcatEmptySeq
  <2>3. QED
    BY <1>6, <1>7, <1>8, <2>2
<1>9. CASE end.current # <<>>
  <2>1. IsGroup(end.current)
    BY <1>6, <1>9, CurrentIsGroup
  <2>2. QED
    BY <1>6, <1>7, <1>9, <2>1, GroupAdded
<1>10. QED
  BY <1>8, <1>9

-----------------------------------------------------------------------------
(* The states of a run *)

Begun(s) ==
    /\ s \in Seq(Kinds) /\ Len(s) \in 1 .. MaxSteps
    /\ \/ s[1] \in Commands
       \/ s[1] = "source" /\ Len(s) >= 2 /\ s[2] \in Commands
    /\ \A i \in 2 .. Len(s) : s[i] # "source"

LEMMA PairBefore ==
    ASSUME NEW h \in Seq(Kinds), Len(h) = 2, NEW r \in Seq(Kinds), NEW n \in Nat, Len(r) = n
    PROVE  /\ h \o r \in Seq(Kinds) /\ Len(h \o r) = 2 + n
           /\ \A i \in 1 .. 2 + n : (h \o r)[i] = IF i <= 2 THEN h[i] ELSE r[i - 2]
<1>1. /\ h \o r \in Seq(Kinds) /\ Len(h \o r) = Len(h) + Len(r)
      /\ \A i \in 1 .. Len(h) + Len(r) : (h \o r)[i] = IF i <= Len(h) THEN h[i] ELSE r[i - Len(h)]
  BY ConcatProperties, Zenon
<1>2. QED
  BY <1>1, Zenon

LEMMA PipelineFacts == \A s : s \in Pipelines <=> Begun(s)
<1>0. MaxSteps \in Nat \ {0} /\ Commands \subseteq Kinds \ {"source"} /\ "source" \in Kinds
  BY ExecutorAssumption DEF Commands, Kinds, Streamable
<1> DEFINE Short(n) == [1 .. n -> Kinds \ {"source"}]
<1>9. \A s : s \in Pipelines <=>
              \/ \E c \in Commands, n \in 0 .. MaxSteps - 1 : \E r \in Short(n) : s = <<c>> \o r
              \/ \E c \in Commands, n \in 0 .. MaxSteps - 2 : \E r \in Short(n) : s = <<"source", c>> \o r
  <2> DEFINE U == UNION {Short(n) : n \in 0 .. MaxSteps - 1}
             V == UNION {Short(n) : n \in 0 .. MaxSteps - 2}
  <2>1. Pipelines = {<<c>> \o r : c \in Commands, r \in U} \cup {<<"source", c>> \o r : c \in Commands, r \in V}
    BY DEF Pipelines
  <2> HIDE DEF Short
  <2>2. /\ \A r : r \in U <=> \E n \in 0 .. MaxSteps - 1 : r \in Short(n)
        /\ \A r : r \in V <=> \E n \in 0 .. MaxSteps - 2 : r \in Short(n)
    BY Zenon
  <2> HIDE DEF U, V
  <2>3. \A s : s \in Pipelines <=> \/ \E c \in Commands, r \in U : s = <<c>> \o r
                                   \/ \E c \in Commands, r \in V : s = <<"source", c>> \o r
    BY <2>1
  <2>4. QED
    BY <2>2, <2>3, Zenon
<1>1. ASSUME NEW c \in Commands, NEW n \in 0 .. MaxSteps - 1, NEW r \in [1 .. n -> Kinds \ {"source"}]
      PROVE  Begun(<<c>> \o r)
  <2>1. n \in Nat /\ r \in Seq(Kinds) /\ Len(r) = n /\ \A i \in 1 .. n : r[i] # "source"
    BY <1>0
  <2>2. <<c>> \in Seq(Kinds) /\ Len(<<c>>) = 1 /\ <<c>>[1] = c
    BY <1>0
  <2>3. /\ <<c>> \o r \in Seq(Kinds) /\ Len(<<c>> \o r) = 1 + n
        /\ (<<c>> \o r)[1] = c /\ \A i \in 2 .. 1 + n : (<<c>> \o r)[i] = r[i - 1]
    BY <2>1, <2>2
  <2>4. 1 + n \in 1 .. MaxSteps /\ \A i \in 2 .. 1 + n : i - 1 \in 1 .. n
    BY <1>0, <2>1
  <2>5. QED
    BY <2>1, <2>3, <2>4 DEF Begun
<1>2. ASSUME NEW c \in Commands, NEW n \in 0 .. MaxSteps - 2, NEW r \in [1 .. n -> Kinds \ {"source"}]
      PROVE  Begun(<<"source", c>> \o r)
  <2> DEFINE h == <<"source", c>>
  <2>1. n \in Nat /\ r \in Seq(Kinds) /\ Len(r) = n /\ \A i \in 1 .. n : r[i] # "source"
    BY <1>0
  <2>2. h \in Seq(Kinds) /\ Len(h) = 2 /\ h[1] = "source" /\ h[2] = c
    BY <1>0
  <2> HIDE DEF h
  <2>3. /\ h \o r \in Seq(Kinds) /\ Len(h \o r) = 2 + n
        /\ (h \o r)[1] = "source" /\ (h \o r)[2] = c
        /\ \A i \in 3 .. 2 + n : (h \o r)[i] = r[i - 2]
    <3>1. /\ h \o r \in Seq(Kinds) /\ Len(h \o r) = 2 + n
          /\ \A i \in 1 .. 2 + n : (h \o r)[i] = IF i <= 2 THEN h[i] ELSE r[i - 2]
      BY <2>1, <2>2, PairBefore, Zenon
    <3>2. 1 \in 1 .. 2 + n /\ 2 \in 1 .. 2 + n /\ \A i \in 3 .. 2 + n : i \in 1 .. 2 + n /\ ~(i <= 2)
      BY <2>1
    <3>3. QED
      BY <2>2, <3>1, <3>2
  <2>4. 2 + n \in 1 .. MaxSteps /\ \A i \in 2 .. 2 + n : i = 2 \/ (i \in 3 .. 2 + n /\ i - 2 \in 1 .. n)
    BY <1>0, <2>1
  <2>5. c # "source" /\ 2 + n >= 2
    BY <1>0, <2>1
  <2>6. Begun(h \o r)
    BY <2>1, <2>3, <2>4, <2>5 DEF Begun
  <2>7. QED
    BY <2>6 DEF h
<1>3. ASSUME NEW s, Begun(s) PROVE s \in Pipelines
  <2>1. s \in Seq(Kinds) /\ Len(s) \in 1 .. MaxSteps /\ \A i \in 2 .. Len(s) : s[i] # "source"
    BY <1>3 DEF Begun
  <2>2. CASE s[1] \in Commands
    <3> DEFINE n == Len(s) - 1
               r == [i \in 1 .. n |-> s[i + 1]]
    <3>1. n \in 0 .. MaxSteps - 1 /\ r \in [1 .. n -> Kinds \ {"source"}]
      BY <1>0, <2>1
    <3>2. <<s[1]>> \o r = s
      <4>1. r \in Seq(Kinds) /\ Len(r) = n /\ <<s[1]>> \in Seq(Kinds) /\ Len(<<s[1]>>) = 1
        BY <1>0, <2>1
      <4>2. <<s[1]>> \o r \in Seq(Kinds) /\ Len(<<s[1]>> \o r) = Len(s)
        BY <4>1, <2>1
      <4>3. \A i \in 1 .. Len(s) : (<<s[1]>> \o r)[i] = s[i]
        BY <4>1, <2>1
      <4>4. QED
        BY <2>1, <4>2, <4>3, SeqEqual
    <3> HIDE DEF n, r
    <3>3. QED
      BY <2>2, <3>1, <3>2, <1>9
  <2>3. CASE s[1] = "source" /\ Len(s) >= 2 /\ s[2] \in Commands
    <3> DEFINE n == Len(s) - 2
               r == [i \in 1 .. n |-> s[i + 2]]
               h == <<"source", s[2]>>
    <3>1. n \in 0 .. MaxSteps - 2 /\ r \in [1 .. n -> Kinds \ {"source"}]
      BY <1>0, <2>1, <2>3
    <3>2. h \o r = s
      <4>1. /\ r \in Seq(Kinds) /\ Len(r) = n /\ h \in Seq(Kinds) /\ Len(h) = 2
            /\ h[1] = s[1] /\ h[2] = s[2] /\ 2 + n = Len(s) /\ n \in Nat
            /\ \A i \in 1 .. n : r[i] = s[i + 2]
        BY <1>0, <2>1, <2>3
      <4> HIDE DEF n, r, h
      <4>2. /\ h \o r \in Seq(Kinds) /\ Len(h \o r) = 2 + n
            /\ \A i \in 1 .. 2 + n : (h \o r)[i] = IF i <= 2 THEN h[i] ELSE r[i - 2]
        BY <4>1, PairBefore, Zenon
      <4>3. \A i \in 1 .. 2 + n : i = 1 \/ i = 2 \/ (~(i <= 2) /\ i - 2 \in 1 .. n /\ (i - 2) + 2 = i)
        BY <4>1
      <4>4. \A i \in 1 .. 2 + n : (h \o r)[i] = s[i]
        BY <4>1, <4>2, <4>3
      <4>5. QED
        BY <2>1, <4>1, <4>2, <4>4, SeqEqual
    <3>3. n \in 0 .. MaxSteps - 2 /\ r \in Short(n) /\ <<"source", s[2]>> \o r = s
      BY <3>1, <3>2
    <3> HIDE DEF n, r, Short
    <3>4. QED
      BY <2>3, <3>3, <1>9
  <2>4. QED
    BY <1>3, <2>2, <2>3 DEF Begun
<1>4. ASSUME NEW s, s \in Pipelines PROVE Begun(s)
  <2> HIDE DEF Short
  <2>1. CASE \E c \in Commands, n \in 0 .. MaxSteps - 1 : \E r \in Short(n) : s = <<c>> \o r
    BY <1>1, <2>1, Zenon DEF Short
  <2>2. CASE \E c \in Commands, n \in 0 .. MaxSteps - 2 : \E r \in Short(n) : s = <<"source", c>> \o r
    BY <1>2, <2>2, Zenon DEF Short
  <2>3. QED
    BY <1>4, <1>9, <2>1, <2>2
<1>5. QED
  BY <1>3, <1>4

PlanInv ==
    /\ steps \in Pipelines /\ pc \in {"build", "loop", "over", "raised"}
    /\ ignore_sigpipe \in BOOLEAN /\ stopped \in BOOLEAN
    /\ WellGrouped(groups)
    /\ IF pc = "build" THEN groups = <<>> ELSE FlattenSeq(groups) = steps

LEMMA PlanInit == Init => PlanInv
<1> SUFFICES ASSUME Init PROVE PlanInv
  OBVIOUS
<1>1. PICK c \in Commands : steps = <<c>>
  BY DEF Init
<1>2. Begun(<<c>>)
  BY ExecutorAssumption DEF Begun, Kinds, Streamable
<1>3. WellGrouped(<<>>)
  BY DEF WellGrouped
<1>4. QED
  BY <1>1, <1>2, <1>3, PipelineFacts DEF Init, PlanInv

LEMMA PlanStep == PlanInv /\ [Next]_vars => PlanInv'
<1> SUFFICES ASSUME PlanInv, [Next]_vars PROVE PlanInv'
  OBVIOUS
<1>0. Begun(steps)
  BY PipelineFacts DEF PlanInv
<1>1. ASSUME NEW new, Building(new), Begun(new) PROVE PlanInv'
  BY <1>1, PipelineFacts DEF Building, PlanInv
<1>2. CASE Then
  <2>1. PICK step \in Kinds \ (Commands \cup {"source"}) : Building(Append(steps, step))
    BY <1>2 DEF Then
  <2> DEFINE new == Append(steps, step)
  <2>2. steps \in Seq(Kinds) /\ Len(steps) \in Nat /\ Len(steps) >= 1 /\ step \in Kinds /\ step # "source"
    BY <1>0, <2>1 DEF Begun
  <2>3. /\ new \in Seq(Kinds) /\ Len(new) = Len(steps) + 1 /\ new[Len(steps) + 1] = step
        /\ \A i \in 1 .. Len(steps) : new[i] = steps[i]
    BY <2>2, AppendProperties
  <2>4. Len(new) <= MaxSteps
    BY <2>1 DEF Building
  <2> HIDE DEF new
  <2>5. Begun(new)
    <3>1. Len(new) \in 1 .. MaxSteps
      BY <2>2, <2>3, <2>4, ExecutorAssumption
    <3>2. 1 \in 1 .. Len(steps) /\ (Len(steps) >= 2 => 2 \in 1 .. Len(steps) /\ Len(new) >= 2)
      BY <2>2, <2>3
    <3>3. \A i \in 2 .. Len(new) : new[i] # "source"
      <4>1. ASSUME NEW i \in 2 .. Len(new) PROVE new[i] # "source"
        <5>1. i = Len(steps) + 1 \/ (i \in 2 .. Len(steps) /\ i \in 1 .. Len(steps))
          BY <2>2, <2>3
        <5>2. QED
          BY <5>1, <2>2, <2>3, <1>0 DEF Begun
      <4>2. QED
        BY <4>1
    <3>4. QED
      BY <1>0, <2>3, <3>1, <3>2, <3>3 DEF Begun
  <2>6. QED
    BY <1>1, <2>1, <2>5 DEF new
<1>3. CASE Source
  <2> DEFINE new == <<"source">> \o steps
  <2>1. Building(new) /\ steps[1] # "source"
    BY <1>3 DEF Source
  <2>2. /\ steps \in Seq(Kinds) /\ Len(steps) \in Nat /\ Len(steps) >= 1 /\ "source" \in Kinds
        /\ steps[1] \in Commands /\ \A i \in 2 .. Len(steps) : steps[i] # "source"
    BY <1>0, <2>1 DEF Begun, Kinds, Streamable
  <2>3. <<"source">> \in Seq(Kinds) /\ Len(<<"source">>) = 1 /\ <<"source">>[1] = "source"
    BY <2>2
  <2>4. /\ new \in Seq(Kinds) /\ Len(new) = Len(steps) + 1 /\ new[1] = "source"
        /\ \A i \in 2 .. Len(steps) + 1 : new[i] = steps[i - 1]
    BY <2>2, <2>3
  <2>5. Len(new) <= MaxSteps
    BY <2>1 DEF Building
  <2> HIDE DEF new
  <2>6. Begun(new)
    <3>1. Len(new) \in 1 .. MaxSteps /\ Len(new) >= 2 /\ new[2] = steps[1]
      BY <2>2, <2>4, <2>5, ExecutorAssumption
    <3>2. \A i \in 2 .. Len(new) : new[i] # "source"
      <4>1. ASSUME NEW i \in 2 .. Len(new) PROVE new[i] # "source"
        <5>1. new[i] = steps[i - 1] /\ (i - 1 = 1 \/ i - 1 \in 2 .. Len(steps))
          BY <2>2, <2>4
        <5>2. QED
          BY <5>1, <2>1, <2>2
      <4>2. QED
        BY <4>1
    <3>3. QED
      BY <2>2, <2>4, <3>1, <3>2 DEF Begun
  <2>7. QED
    BY <1>1, <2>1, <2>6
<1>4. CASE Pipe
  <2>1. PICK other \in Others : "source" \notin Range(other) /\ Building(steps \o other)
    BY <1>4 DEF Pipe
  <2> DEFINE new == steps \o other
  <2>2. /\ other \in Seq(Kinds) /\ Len(other) \in Nat
        /\ \A i \in 1 .. Len(other) : other[i] # "source"
    <3>1. {"strict", "lenient", "source", "collect"} \subseteq Kinds
      BY DEF Kinds, Streamable, Commands
    <3>2. (\E c \in {"strict", "lenient"} : other = <<c>>) \/ other = <<"lenient", "collect">>
            \/ other = <<"source", "strict">>
      BY DEF Others, Commands
    <3>3. other \in Seq(Kinds)
      <4>1. \A a, b \in Kinds : <<a>> \in Seq(Kinds) /\ <<a, b>> \in Seq(Kinds)
        OBVIOUS
      <4>2. "strict" \in Kinds /\ "lenient" \in Kinds /\ "source" \in Kinds /\ "collect" \in Kinds
        BY <3>1
      <4>3. QED
        BY <3>2, <4>1, <4>2
    <3>4. QED
      BY <3>3, <2>1 DEF Range
  <2>3. steps \in Seq(Kinds) /\ Len(steps) \in Nat /\ Len(steps) >= 1
    BY <1>0 DEF Begun
  <2>4. /\ new \in Seq(Kinds) /\ Len(new) = Len(steps) + Len(other)
        /\ \A i \in 1 .. Len(steps) + Len(other) :
             new[i] = IF i <= Len(steps) THEN steps[i] ELSE other[i - Len(steps)]
    BY <2>2, <2>3, ConcatProperties
  <2>5. Len(new) <= MaxSteps
    BY <2>1 DEF Building
  <2> HIDE DEF new
  <2>6. Begun(new)
    <3>1. /\ Len(new) \in 1 .. MaxSteps /\ new[1] = steps[1]
          /\ Len(steps) >= 2 => Len(new) >= 2 /\ new[2] = steps[2]
      BY <2>2, <2>3, <2>4, <2>5, ExecutorAssumption
    <3>2. \A i \in 2 .. Len(new) : new[i] # "source"
      <4>1. ASSUME NEW i \in 2 .. Len(new) PROVE new[i] # "source"
        <5>1. CASE i <= Len(steps)
          <6>1. i \in 2 .. Len(steps) /\ new[i] = steps[i]
            BY <5>1, <2>2, <2>3, <2>4
          <6>2. QED
            BY <6>1, <1>0 DEF Begun
        <5>2. CASE i > Len(steps)
          <6>1. i - Len(steps) \in 1 .. Len(other) /\ new[i] = other[i - Len(steps)]
            BY <5>2, <2>2, <2>3, <2>4
          <6>2. QED
            BY <6>1, <2>2
        <5>3. QED
          BY <5>1, <5>2, <2>3
      <4>2. QED
        BY <4>1
    <3>3. QED
      BY <1>0, <2>4, <3>1, <3>2 DEF Begun
  <2>7. QED
    BY <1>1, <2>1, <2>6 DEF new
<1>5. CASE Run
  <2>1. WellGrouped(Plan(steps)) /\ FlattenSeq(Plan(steps)) = steps
    BY <1>0, PlanFacts DEF Begun
  <2>2. QED
    BY <1>5, <2>1 DEF Run, PlanInv
<1>6. ASSUME pc \in {"loop", "over", "raised"}, pc' \in {"loop", "over", "raised"},
             UNCHANGED given, stopped' \in BOOLEAN
      PROVE  PlanInv'
  BY <1>6 DEF PlanInv, given
<1>7. ASSUME NEW r, NEW rcs, After(r, rcs), pc = "loop" PROVE pc' \in {"loop", "over"}
  BY <1>7 DEF After, Proceed, FailsAt
<1>8. CASE BuildFails
  BY <1>6, <1>7, <1>8 DEF BuildFails, Ends, Begins, PlanInv
<1>9. CASE StreamEnds
  BY <1>6, <1>7, <1>9 DEF StreamEnds, Begins, PlanInv
<1>10. CASE Each
  BY <1>6, <1>7, <1>10 DEF Each, Ends, Begins, PlanInv
<1>11. CASE Buffered
  BY <1>6, <1>7, <1>11 DEF Buffered, Ends, Begins, PlanInv
<1>12. CASE RedirectBuffered
  BY <1>6, <1>7, <1>12 DEF RedirectBuffered, Ends, Begins, PlanInv
<1>13. CASE Raises \/ Return \/ Stop
  BY <1>6, <1>13 DEF Raises, Return, Stop, Begins, PlanInv
<1>14. CASE UNCHANGED vars
  BY <1>14 DEF PlanInv, vars, given
<1>15. QED
  BY <1>2, <1>3, <1>4, <1>5, <1>8, <1>9, <1>10, <1>11, <1>12, <1>13, <1>14 DEF Next

\* plan() cuts every pipeline that the builder methods can make into groups that are the
\* pipeline again, in order: the steps that stream together, with at most one redirect at
\* their end, the others alone, and no two groups where one would do.
THEOREM PlansInGroups == Spec => []PlannedInGroups
<1>1. PlanInv => PlannedInGroups
  BY LenProperties DEF PlanInv, PlannedInGroups, WellGrouped, IsGroup
<1>2. QED
  BY <1>1, PlanInit, PlanStep, PTL DEF Spec

-----------------------------------------------------------------------------
(* What a group does to the run *)

\* The rows and the ends of a run; until it is over no step failed, and offset is where
\* the next group begins.
Rows ==
    /\ text \in Texts /\ nbytes \in Texts
    /\ profile \in Seq(Row) /\ Len(profile) <= Len(groups)
    /\ offset \in 0 .. Len(steps) /\ failed \in 0 .. Len(steps)
    /\ returncode \in Exits \cup {0, 1} /\ (returncode = 0 <=> failed = 0)
    /\ pc = "build" => profile = <<>>
    /\ pc # "over" => failed = 0 /\ offset = Before(groups, Len(profile))

\* Where a group that runs is in its pipeline.
LEMMA ChunkFacts ==
    ASSUME PlanInv, Rows, pc = "loop", position <= Len(groups)
    PROVE  /\ position \in 1 .. Len(groups) /\ position \in 1 .. MaxSteps
           /\ IsGroup(chunk) /\ Len(chunk) \in Nat \ {0} /\ DOMAIN chunk = 1 .. Len(chunk)
           /\ offset \in Nat /\ offset = Before(groups, position - 1) /\ Len(steps) \in Nat
           /\ offset + Len(chunk) = Before(groups, position) /\ offset + Len(chunk) <= Len(steps)
           /\ \A i \in 1 .. Len(chunk) : steps[offset + i] = chunk[i]
<1>1. /\ groups \in Seq(Seq(Kinds)) /\ FlattenSeq(groups) = steps
      /\ \A k \in 1 .. Len(groups) : IsGroup(groups[k])
  BY DEF PlanInv, WellGrouped
<1>2. Len(profile) \in Nat /\ position \in 1 .. Len(groups) /\ position - 1 = Len(profile)
  BY <1>1 DEF position, Rows
<1>3. Len(steps) \in 1 .. MaxSteps
  BY PipelineFacts DEF PlanInv, Begun
<1>4. \A k \in 1 .. Len(groups) : Len(groups[k]) >= 1
  BY <1>1 DEF IsGroup
<1>5. \A k \in 0 .. Len(groups) : Before(groups, k) \in Nat /\ k <= Before(groups, k)
                                 /\ Before(groups, k) <= Len(steps)
  BY <1>1, <1>4, FlattenBounds
<1>6. \A k \in 1 .. Len(groups) :
        /\ Before(groups, k) = Before(groups, k - 1) + Len(groups[k])
        /\ \A i \in 1 .. Len(groups[k]) : steps[Before(groups, k - 1) + i] = groups[k][i]
  BY <1>1, FlattenPlaces
<1>7. chunk = groups[position] /\ IsGroup(chunk)
  BY <1>1, <1>2 DEF chunk
<1>8. Len(chunk) \in Nat \ {0} /\ DOMAIN chunk = 1 .. Len(chunk)
  BY <1>7 DEF IsGroup
<1>9. offset = Before(groups, position - 1)
  BY <1>2 DEF Rows
<1>10. position \in 0 .. Len(groups) /\ position - 1 \in 0 .. Len(groups) /\ Len(groups) \in Nat
  BY <1>1, <1>2
<1>11. position \in 1 .. MaxSteps
  <2>1. position <= Before(groups, position) /\ Before(groups, position) <= Len(steps)
        /\ Before(groups, position) \in Nat
    BY <1>5, <1>10
  <2>2. QED
    BY <2>1, <1>2, <1>3, <1>10, ExecutorAssumption
<1>12. offset \in Nat /\ offset + Len(chunk) = Before(groups, position) /\ Before(groups, position) <= Len(steps)
  BY <1>2, <1>5, <1>6, <1>7, <1>9, <1>10
<1>13. \A i \in 1 .. Len(chunk) : steps[offset + i] = chunk[i]
  BY <1>2, <1>6, <1>7, <1>9
<1>14. QED
  BY <1>2, <1>3, <1>7, <1>8, <1>9, <1>11, <1>12, <1>13

LEMMA LeastOf ==
    ASSUME NEW T \in SUBSET Nat, T # {}
    PROVE  Min(T) \in T /\ \A y \in T : Min(T) <= y
BY LeastNumber DEF Min

\* The verdict on the processes of a group.
Rejected(rcs, ok, ign) == {i \in DOMAIN rcs : ~Accepted(rcs[i], ok[i], ign)}

LEMMA StatusFacts ==
    ASSUME NEW n \in Nat, NEW P \in SUBSET (1 .. n), NEW rcs \in [P -> Exits], NEW ok, NEW ign
    PROVE  /\ Rejected(rcs, ok, ign) = {} =>
                Status(rcs, ok, ign) = [returncode |-> 0, failed |-> 0]
           /\ Rejected(rcs, ok, ign) # {} =>
                /\ Min(Rejected(rcs, ok, ign)) \in P
                /\ Min(Rejected(rcs, ok, ign)) \in Rejected(rcs, ok, ign)
                /\ Status(rcs, ok, ign) = [returncode |-> rcs[Min(Rejected(rcs, ok, ign))],
                                          failed |-> Min(Rejected(rcs, ok, ign))]
<1>1. Rejected(rcs, ok, ign) \subseteq P
  BY DEF Rejected
<1>2. P \in SUBSET Nat
  OBVIOUS
<1>3. Status(rcs, ok, ign) = IF Rejected(rcs, ok, ign) = {} THEN [returncode |-> 0, failed |-> 0]
                             ELSE [returncode |-> rcs[Min(Rejected(rcs, ok, ign))],
                                   failed |-> Min(Rejected(rcs, ok, ign))]
  BY DEF Status, Rejected
<1>4. QED
  BY <1>1, <1>2, <1>3, LeastOf

LEMMA OfSetFacts ==
    ASSUME NEW ns, NEW default
    PROVE  /\ ns = {} => OfSet(ns, default) = default
           /\ ns # {} => OfSet(ns, default) \in ns
BY DEF OfSet

\* What run_group() can return: if it failed, the step at fault is not a collect(); else
\* its bytes are those of the texts.
OutcomeOK(r) ==
    /\ r.output \in Texts /\ r.returncode \in Exits \cup {0, 1} /\ r.failed \in 0 .. Len(chunk)
    /\ r.bytes_in \subseteq Texts /\ r.bytes_out \subseteq Texts
    /\ r.returncode # 0 => chunk[IF r.failed = 0 THEN Len(chunk) ELSE r.failed] # "collect"
    /\ r.returncode = 0 =>
         /\ chunk[1] # "source" => r.bytes_in \subseteq {text}
         /\ ~ToFile => /\ r.bytes_out \subseteq {r.output}
                       /\ r.bytes_out = {} =>
                            r.output = text /\ r.bytes_in = {} /\ chunk[1] # "source"

Ran == /\ pc = "loop" /\ position <= Len(groups)
       /\ UNCHANGED <<given, stopped>>
       /\ \E r, rcs : OutcomeOK(r) /\ After(r, rcs)

LEMMA FailsOK ==
    ASSUME NEW i \in 0 .. Len(chunk), chunk[IF i = 0 THEN Len(chunk) ELSE i] # "collect"
    PROVE  OutcomeOK(Fail(i))
BY ExecutorAssumption DEF OutcomeOK, Fail, Outcome, Texts

\* Every group that runs does what Ran says.
LEMMA GroupRuns ==
    ASSUME PlanInv, Rows,
           BuildFails \/ StreamEnds \/ Each \/ Buffered \/ RedirectBuffered
    PROVE  Ran
<1>1. pc = "loop" /\ position <= Len(groups)
  BY DEF BuildFails, StreamEnds, Each, Buffered, RedirectBuffered, Begins
<1>2. /\ IsGroup(chunk) /\ Len(chunk) \in Nat \ {0} /\ DOMAIN chunk = 1 .. Len(chunk)
      /\ 1 \in 1 .. Len(chunk) /\ Len(chunk) \in 1 .. Len(chunk)
  BY <1>1, ChunkFacts
<1>3. text \in Texts /\ MaxText \in Nat /\ 0 \in Texts
  BY ExecutorAssumption DEF Rows, Texts
<1>4. UNCHANGED <<given, stopped>>
  BY DEF BuildFails, StreamEnds, Each, Buffered, RedirectBuffered
<1>5. ASSUME NEW r, NEW rcs, OutcomeOK(r), After(r, rcs) PROVE Ran
  BY <1>1, <1>4, <1>5 DEF Ran
<1>6. ASSUME NEW i \in 0 .. Len(chunk), chunk[IF i = 0 THEN Len(chunk) ELSE i] # "collect", Ends(Fail(i))
      PROVE  Ran
  BY <1>5, <1>6, FailsOK DEF Ends
<1>7. CASE BuildFails
  <2>1. CASE chunk[1] = "source" /\ Ends(Fail(1))
    <3>1. 1 \in 0 .. Len(chunk)
      BY <1>2
    <3>2. QED
      BY <2>1, <3>1, <1>6
  <2>2. CASE Sink \in Redirects /\ Ends(Fail(Len(chunk)))
    <3>1. Len(chunk) \in 0 .. Len(chunk) /\ Len(chunk) # 0 /\ chunk[Len(chunk)] # "collect"
      BY <1>2, <2>2 DEF Sink, Last, Redirects
    <3>2. QED
      BY <2>2, <3>1, <1>6
  <2>3. CASE \E i \in DOMAIN chunk : chunk[i] \in Commands \cup {"bridge"} /\ Ends(Fail(i))
    <3>1. PICK i \in 1 .. Len(chunk) : chunk[i] \in Commands \cup {"bridge"} /\ Ends(Fail(i))
      BY <1>2, <2>3
    <3>2. i \in 0 .. Len(chunk) /\ i # 0 /\ chunk[i] # "collect"
      BY <1>2, <3>1 DEF Commands
    <3>3. QED
      BY <3>1, <3>2, <1>6
  <2>4. QED
    BY <1>7, <2>1, <2>2, <2>3 DEF BuildFails
<1>8. CASE StreamEnds
  <2>1. PICK fed \in Texts, out \in Texts, rcs \in [Processes -> Exits] :
          LET status == Status(rcs, OkOf, ignore_sigpipe)
          IN /\ chunk[1] # "source" => fed = text
             /\ After(Outcome(IF ToFile THEN 0 ELSE out, status.returncode, status.failed,
                              {fed}, {out}), rcs)
    BY <1>8 DEF StreamEnds
  <2> DEFINE status == Status(rcs, OkOf, ignore_sigpipe)
             bad == Rejected(rcs, OkOf, ignore_sigpipe)
             r == Outcome(IF ToFile THEN 0 ELSE out, status.returncode, status.failed, {fed}, {out})
  <2>2. Processes \in SUBSET (1 .. Len(chunk)) /\ \A i \in Processes : chunk[i] \in Commands
    BY <1>2 DEF Processes
  <2>3. /\ bad = {} => status = [returncode |-> 0, failed |-> 0]
        /\ bad # {} => /\ Min(bad) \in Processes
                      /\ status = [returncode |-> rcs[Min(bad)], failed |-> Min(bad)]
    BY <1>2, <2>2, StatusFacts
  <2> HIDE DEF status
  <2>4. /\ status.returncode \in Exits \cup {0, 1} /\ status.failed \in 0 .. Len(chunk)
        /\ status.returncode # 0 => status.failed \in Processes /\ status.failed # 0
    <3>1. CASE bad = {}
      BY <1>2, <2>3, <3>1
    <3>2. CASE bad # {}
      <4> DEFINE m == Min(bad)
      <4>1. m \in Processes /\ status.returncode = rcs[m] /\ status.failed = m
        BY <2>3, <3>2
      <4> HIDE DEF m
      <4>2. m \in 1 .. Len(chunk) /\ rcs[m] \in Exits
        BY <2>2, <4>1
      <4>3. QED
        BY <1>2, <4>1, <4>2
    <3>3. QED
      BY <3>1, <3>2
  <2>5. /\ r.output = (IF ToFile THEN 0 ELSE out) /\ r.returncode = status.returncode
        /\ r.failed = status.failed /\ r.bytes_in = {fed} /\ r.bytes_out = {out}
    BY DEF Outcome
  <2>6. After(r, rcs) /\ (chunk[1] # "source" => fed = text)
    BY <2>1 DEF status
  <2> HIDE DEF r
  <2>7. r.returncode # 0 => chunk[IF r.failed = 0 THEN Len(chunk) ELSE r.failed] # "collect"
    BY <2>2, <2>4, <2>5 DEF Commands
  <2>8. OutcomeOK(r)
    BY <1>3, <2>4, <2>5, <2>6, <2>7 DEF OutcomeOK
  <2>9. QED
    BY <1>5, <2>6, <2>8
<1>9. CASE Each
  <2>1. PICK out \in Texts, code \in {0, 1} : Ends(Outcome(out, code, 0, {}, {out}))
    BY <1>9 DEF Each
  <2>2. chunk[1] = "each" /\ Len(chunk) = 1
    BY <1>2, <1>9 DEF Each, Begins, IsGroup, Streams, Streamable, Commands
  <2> DEFINE r == Outcome(out, code, 0, {}, {out})
  <2>3. /\ r.output = out /\ r.returncode = code /\ r.failed = 0 /\ r.bytes_in = {} /\ r.bytes_out = {out}
    BY DEF Outcome
  <2> HIDE DEF r
  <2>4. OutcomeOK(r)
    BY <1>2, <2>2, <2>3 DEF OutcomeOK
  <2>5. QED
    BY <1>5, <2>1, <2>4 DEF Ends, r
<1>10. ASSUME NEW t \in Texts, ~ToFile => t = text, chunk[1] # "source", Ends(Passes(t))
       PROVE  Ran
  <2> DEFINE r == Passes(t)
  <2>1. /\ r.output = t /\ r.returncode = 0 /\ r.failed = 0 /\ r.bytes_in = {} /\ r.bytes_out = {}
    BY DEF Passes, Outcome
  <2> HIDE DEF r
  <2>2. OutcomeOK(r)
    BY <1>2, <1>10, <2>1 DEF OutcomeOK
  <2>3. QED
    BY <1>5, <1>10, <2>2 DEF Ends, r
<1>11. CASE Buffered
  <2>1. chunk[1] \in {"collect", "capture"} /\ Len(chunk) = 1
    BY <1>2, <1>11 DEF Buffered, Begins, IsGroup, Streams, Streamable, Commands
  <2>2. CASE Ends(Passes(text))
    BY <1>3, <1>10, <2>1, <2>2
  <2>3. CASE chunk[1] = "capture" /\ Ends(Fail(0))
    <3>1. 0 \in 0 .. Len(chunk)
      BY <1>2
    <3>2. QED
      BY <1>6, <2>1, <2>3, <3>1
  <2>4. QED
    BY <1>11, <2>2, <2>3 DEF Buffered
<1>12. CASE RedirectBuffered
  <2>1. chunk[1] \in Redirects /\ chunk[1] # "source" /\ chunk[1] # "collect" /\ Len(chunk) = 1
    BY <1>2, <1>12 DEF RedirectBuffered, Begins, IsGroup, Streams, Streamable, Commands, Redirects
  <2>2. CASE Ends(Passes(IF ToFile THEN 0 ELSE text))
    BY <1>3, <1>10, <2>1, <2>2
  <2>3. CASE Ends(Fail(0))
    <3>1. 0 \in 0 .. Len(chunk)
      BY <1>2
    <3>2. QED
      BY <1>6, <2>1, <2>3, <3>1
  <2>4. QED
    BY <1>12, <2>2, <2>3 DEF RedirectBuffered
<1>13. QED
  BY <1>7, <1>8, <1>9, <1>11, <1>12

\* The row of a group that ran.
LEMMA RanFacts ==
    ASSUME PlanInv, Rows, Ran
    PROVE  \E r, rcs :
             /\ OutcomeOK(r) /\ After(r, rcs)
             /\ RowOf(r) \in Row
             /\ profile' = Append(profile, RowOf(r)) /\ profile' \in Seq(Row)
             /\ Len(profile') = position /\ profile'[position] = RowOf(r)
             /\ \A k \in 1 .. Len(profile) : profile'[k] = profile[k]
             /\ r.returncode = 0 =>
                  /\ pc' = "loop" /\ failed' = 0 /\ returncode' = 0
                  /\ offset' = Before(groups, position)
             /\ r.returncode # 0 =>
                  /\ pc' = "over" /\ returncode' = r.returncode /\ offset' = offset
                  /\ failed' - offset \in 1 .. Len(chunk) /\ steps[failed'] # "collect"
                  /\ failed' \in 1 .. Len(steps)
                  /\ r.failed # 0 => failed' = offset + r.failed
<1>1. PICK r, rcs : OutcomeOK(r) /\ After(r, rcs)
  BY DEF Ran
<1>2. /\ IsGroup(chunk) /\ Len(chunk) \in Nat \ {0}
      /\ offset \in Nat /\ Len(steps) \in Nat
      /\ offset + Len(chunk) = Before(groups, position) /\ offset + Len(chunk) <= Len(steps)
      /\ \A i \in 1 .. Len(chunk) : steps[offset + i] = chunk[i]
  BY ChunkFacts DEF Ran
<1>3. RowOf(r) \in Row
  <2>1. OfSet(r.bytes_in, nbytes) \in Texts
    BY <1>1, OfSetFacts DEF OutcomeOK, Rows
  <2>2. OfSet(r.bytes_out, OfSet(r.bytes_in, nbytes)) \in Texts
    BY <1>1, <2>1, OfSetFacts DEF OutcomeOK
  <2>3. QED
    BY <1>1, <2>1, <2>2 DEF RowOf, Row, OutcomeOK, Rows
<1>4. /\ profile' = Append(profile, RowOf(r)) /\ profile' \in Seq(Row)
      /\ Len(profile') = position /\ profile'[position] = RowOf(r)
      /\ \A k \in 1 .. Len(profile) : profile'[k] = profile[k]
  <2>1. profile' = Append(profile, RowOf(r)) /\ profile \in Seq(Row)
    BY <1>1 DEF After, Record, Rows
  <2>2. QED
    BY <1>3, <2>1, AppendProperties DEF position
<1>5. r.returncode = 0 =>
        /\ pc' = "loop" /\ failed' = 0 /\ returncode' = 0
        /\ offset' = Before(groups, position)
  BY <1>1, <1>2 DEF After, Proceed, Ran, Rows
<1>6. ASSUME r.returncode # 0
      PROVE  /\ pc' = "over" /\ returncode' = r.returncode /\ offset' = offset
             /\ failed' - offset \in 1 .. Len(chunk) /\ steps[failed'] # "collect"
             /\ failed' \in 1 .. Len(steps)
             /\ r.failed # 0 => failed' = offset + r.failed
  <2> DEFINE i == IF r.failed = 0 THEN Len(chunk) ELSE r.failed
  <2>1. pc' = "over" /\ returncode' = r.returncode /\ offset' = offset /\ failed' = offset + i
    BY <1>1, <1>6 DEF After, Proceed, FailsAt
  <2>2. i \in 1 .. Len(chunk) /\ chunk[i] # "collect" /\ (r.failed # 0 => i = r.failed)
    BY <1>1, <1>2, <1>6 DEF OutcomeOK
  <2> HIDE DEF i
  <2>3. offset + i \in 1 .. Len(steps) /\ (offset + i) - offset = i /\ steps[offset + i] = chunk[i]
    BY <1>2, <2>2
  <2>4. QED
    BY <2>1, <2>2, <2>3
<1>7. QED
  BY <1>1, <1>3, <1>4, <1>5, <1>6

\* The steps that run no group.
Idle == /\ UNCHANGED <<rows, ends, stderr, filed>>
        /\ pc # "build" => UNCHANGED given
        /\ pc' = "build" => pc = "build"
        /\ pc' = "loop" => pc \in {"build", "loop"}
        /\ pc = "over" => pc' = "over"

LEMMA IdleOrRuns ==
    ASSUME PlanInv, [Next]_vars
    PROVE  BuildFails \/ StreamEnds \/ Each \/ Buffered \/ RedirectBuffered \/ Idle
<1>1. CASE Then
  BY <1>1 DEF Then, Building, Idle
<1>2. CASE Source
  BY <1>2 DEF Source, Building, Idle
<1>3. CASE Pipe
  BY <1>3 DEF Pipe, Building, Idle
<1>4. CASE Run
  BY <1>4 DEF Run, Idle
<1>5. CASE Raises
  BY <1>5 DEF Raises, Begins, Idle
<1>6. CASE Return
  BY <1>6 DEF Return, Idle
<1>7. CASE Stop
  BY <1>7 DEF Stop, Idle
<1>8. CASE UNCHANGED vars
  BY <1>8 DEF vars, Idle
<1>9. QED
  BY <1>1, <1>2, <1>3, <1>4, <1>5, <1>6, <1>7, <1>8 DEF Next

LEMMA RowsInit == Init => Rows
<1> SUFFICES ASSUME Init PROVE Rows
  OBVIOUS
<1>1. /\ text = 0 /\ nbytes = 0 /\ offset = 0 /\ profile = <<>> /\ returncode = 0 /\ failed = 0
      /\ groups = <<>> /\ pc = "build"
  BY DEF Init
<1>2. PICK c : steps = <<c>>
  BY DEF Init
<1>3. 0 \in Texts /\ Len(steps) \in Nat /\ <<>> \in Seq(Row) /\ Len(<<>>) = 0
  BY <1>2, ExecutorAssumption DEF Texts
<1>4. Before(<<>>, 0) = 0
  <2>1. SubSeq(<<>>, 1, 0) = <<>> /\ Len(<<>>) = 0
    BY SubSeqEmpty
  <2>2. QED
    BY <2>1, FlattenEmpty DEF Before
<1>5. QED
  BY <1>1, <1>3, <1>4 DEF Rows

LEMMA RowsStep ==
    ASSUME PlanInv, PlanInv', Rows, [Next]_vars
    PROVE  Rows'
<1>1. CASE Ran
  <2>1. PICK r, rcs :
          /\ OutcomeOK(r) /\ After(r, rcs) /\ RowOf(r) \in Row /\ profile' \in Seq(Row)
          /\ Len(profile') = position
          /\ r.returncode = 0 =>
                  /\ pc' = "loop" /\ failed' = 0 /\ returncode' = 0
                  /\ offset' = Before(groups, position)
          /\ r.returncode # 0 =>
                  /\ pc' = "over" /\ returncode' = r.returncode /\ offset' = offset
                  /\ failed' \in 1 .. Len(steps)
    BY <1>1, RanFacts
  <2>2. text' \in Texts /\ nbytes' \in Texts
    BY <2>1 DEF After, Record, OutcomeOK, Row
  <2>3. groups' = groups /\ steps' = steps /\ position <= Len(groups) /\ position # 0
    BY <1>1 DEF Ran, given, position, Rows
  <2>4. Before(groups, position) \in 0 .. Len(steps) /\ Len(steps) \in Nat
    BY <1>1, ChunkFacts DEF Ran
  <2>5. position # 0 => profile' # <<>>
    BY <2>1
  <2>6. CASE r.returncode = 0
    BY <2>1, <2>2, <2>3, <2>4, <2>5, <2>6 DEF Rows
  <2>7. CASE r.returncode # 0
    <3>1. returncode' \in Exits \cup {0, 1} /\ returncode' # 0 /\ failed' # 0
      BY <2>1, <2>7 DEF OutcomeOK
    <3>2. offset' \in 0 .. Len(steps) /\ failed' \in 0 .. Len(steps)
      BY <2>1, <2>4, <2>7 DEF Rows
    <3>3. QED
      BY <2>1, <2>2, <2>3, <2>5, <2>7, <3>1, <3>2 DEF Rows
  <2>8. QED
    BY <2>6, <2>7
<1>2. CASE Idle
  <2>1. /\ UNCHANGED <<text, nbytes, profile, offset, failed, returncode>>
        /\ pc # "build" => UNCHANGED <<steps, groups>>
        /\ pc' = "build" => pc = "build"
        /\ pc = "over" => pc' = "over"
    BY <1>2 DEF Idle, rows, ends, given
  <2>2. CASE pc = "build"
    <3>1. /\ Before(groups, 0) = 0 /\ Before(groups', 0) = 0
          /\ Len(groups') \in Nat /\ Len(steps') \in Nat
      BY FlattenPlaces, PipelineFacts DEF PlanInv, WellGrouped, Begun
    <3>2. profile = <<>> /\ Len(profile) = 0 /\ failed = 0 /\ offset = Before(groups, Len(profile))
      BY <2>2 DEF Rows
    <3>3. profile' = <<>> /\ Len(profile') = 0 /\ failed' = 0 /\ offset' = 0
      BY <2>1, <3>1, <3>2
    <3>4. offset' = Before(groups', Len(profile'))
      BY <3>1, <3>3
    <3>5. QED
      BY <2>1, <3>1, <3>3, <3>4 DEF Rows
  <2>3. CASE pc # "build"
    <3>1. UNCHANGED <<text, nbytes, profile, offset, failed, returncode, steps, groups>>
      BY <2>1, <2>3
    <3>2. QED
      BY <2>1, <2>3, <3>1 DEF Rows
  <2>4. QED
    BY <2>2, <2>3
<1>3. QED
  BY <1>1, <1>2, IdleOrRuns, GroupRuns

-----------------------------------------------------------------------------
(* The bytes *)

\* Until a redirect takes the text, the cached size is that of the text.
Bytes ==
    /\ BytesCounted
    /\ pc \in {"build", "loop"} /\ (\A j \in 1 .. Len(profile) : Last(groups[j]) \notin FileSinks)
         => nbytes = text

LEMMA BytesStep ==
    ASSUME PlanInv, Rows, Rows', Bytes, [Next]_vars
    PROVE  Bytes'
<1>1. CASE Ran
  <2>1. PICK r, rcs :
          /\ OutcomeOK(r) /\ After(r, rcs) /\ profile' \in Seq(Row)
          /\ Len(profile') = position /\ profile'[position] = RowOf(r)
          /\ \A k \in 1 .. Len(profile) : profile'[k] = profile[k]
          /\ r.returncode # 0 => pc' = "over" /\ failed' \in 1 .. Len(steps)
    BY <1>1, RanFacts
  <2>2. /\ groups' = groups /\ pc = "loop" /\ failed = 0
        /\ Len(profile) \in Nat /\ position = Len(profile) + 1
        /\ DOMAIN profile = 1 .. Len(profile) /\ DOMAIN profile' = 1 .. position
    BY <1>1, <2>1 DEF Ran, given, Rows, position
  <2> DEFINE NoFile(k) == \A j \in 1 .. k - 1 : Last(groups[j]) \notin FileSinks
  <2>3. ASSUME NEW k \in 1 .. Len(profile), NoFile(k)
        PROVE  /\ groups[k][1] # "source" => profile'[k].bytes_in = profile'[k].lines_in
               /\ Last(groups[k]) \notin FileSinks => profile'[k].bytes_out = profile'[k].lines_out
    BY <2>1, <2>2, <2>3 DEF Bytes, BytesCounted
  <2>4. ASSUME NoFile(position), r.returncode = 0
        PROVE  /\ chunk[1] # "source" => RowOf(r).bytes_in = RowOf(r).lines_in
               /\ ~ToFile => RowOf(r).bytes_out = RowOf(r).lines_out /\ nbytes' = text'
    <3>1. nbytes = text
      BY <2>2, <2>4 DEF Bytes
    <3>2. chunk[1] # "source" => OfSet(r.bytes_in, nbytes) = text
      BY <2>1, <2>4, <3>1, OfSetFacts DEF OutcomeOK
    <3>3. ~ToFile => OfSet(r.bytes_out, OfSet(r.bytes_in, nbytes)) = r.output
      <4>1. CASE r.bytes_out = {}
        BY <2>1, <2>4, <3>2, <4>1, OfSetFacts DEF OutcomeOK
      <4>2. CASE r.bytes_out # {}
        BY <2>1, <2>4, <4>2, OfSetFacts DEF OutcomeOK
      <4>3. QED
        BY <4>1, <4>2
    <3>4. text' = r.output /\ nbytes' = RowOf(r).bytes_out
      BY <2>1 DEF After, Record
    <3>5. QED
      BY <3>2, <3>3, <3>4 DEF RowOf
  <2>5. chunk = groups[position] /\ (ToFile <=> Last(groups[position]) \in FileSinks)
    BY DEF chunk, ToFile, Sink
  <2>6. BytesCounted'
    <3>1. ASSUME NEW k \in 1 .. position, k < position \/ failed' = 0, NoFile(k)
          PROVE  /\ groups[k][1] # "source" => profile'[k].bytes_in = profile'[k].lines_in
                 /\ Last(groups[k]) \notin FileSinks => profile'[k].bytes_out = profile'[k].lines_out
      <4>1. CASE k = position
        <5>1. r.returncode = 0
          BY <2>1, <2>2, <3>1, <4>1
        <5>2. QED
          BY <2>1, <2>4, <2>5, <3>1, <4>1, <5>1
      <4>2. CASE k # position
        <5>1. k \in 1 .. Len(profile)
          BY <2>2, <4>2
        <5>2. QED
          BY <2>3, <3>1, <5>1
      <4>3. QED
        BY <4>1, <4>2
    <3>2. QED
      BY <2>1, <2>2, <3>1 DEF BytesCounted
  <2>7. ASSUME pc' \in {"build", "loop"}, \A j \in 1 .. position : Last(groups[j]) \notin FileSinks
        PROVE  nbytes' = text'
    <3>1. r.returncode = 0
      BY <2>1, <2>7
    <3>2. NoFile(position) /\ ~ToFile
      BY <2>2, <2>5, <2>7
    <3>3. QED
      BY <2>4, <3>1, <3>2
  <2>8. QED
    BY <2>1, <2>2, <2>6, <2>7 DEF Bytes
<1>2. CASE Idle
  <2>1. /\ UNCHANGED <<text, nbytes, profile, failed>>
        /\ pc # "build" => groups' = groups
        /\ pc' \in {"build", "loop"} => pc \in {"build", "loop"}
    BY <1>2 DEF Idle, rows, ends, given
  <2>2. CASE pc = "build"
    <3>1. profile = <<>> /\ profile' = <<>> /\ DOMAIN profile' = {} /\ Len(profile) = 0
      BY <2>1, <2>2 DEF Rows
    <3>2. \A j \in 1 .. Len(profile) : FALSE
      BY <3>1
    <3>3. nbytes' = text'
      BY <2>1, <2>2, <3>2 DEF Bytes
    <3>4. QED
      BY <3>1, <3>3 DEF Bytes, BytesCounted
  <2>3. CASE pc # "build"
    <3>1. UNCHANGED <<text, nbytes, profile, failed, groups>>
      BY <2>1, <2>3
    <3>2. QED
      BY <2>1, <3>1 DEF Bytes, BytesCounted
  <2>4. QED
    BY <2>2, <2>3
<1>3. QED
  BY <1>1, <1>2, IdleOrRuns, GroupRuns

\* While no group failed and no redirect took the text, the byte counts that execute() and
\* the groups keep apart from the text are those of the text: the cached size that a group
\* without counts inherits is never that of an older text.
THEOREM CountsBytes == Spec => []BytesCounted
<1>1. Init => Bytes
  <2> SUFFICES ASSUME Init PROVE Bytes
    OBVIOUS
  <2>1. profile = <<>> /\ DOMAIN profile = {} /\ nbytes = 0 /\ text = 0
    BY DEF Init
  <2>2. QED
    BY <2>1 DEF Bytes, BytesCounted
<1>2. PlanInv /\ Rows /\ Bytes /\ [Next]_vars => (PlanInv /\ Rows /\ Bytes)'
  BY PlanStep, RowsStep, BytesStep
<1>3. Bytes => BytesCounted
  BY DEF Bytes
<1>4. QED
  BY <1>1, <1>2, <1>3, PlanInit, RowsInit, PTL DEF Spec

-----------------------------------------------------------------------------
(* The stderr *)

Held ==
    /\ stderr \in Seq(1 .. Len(profile)) /\ filed \in Seq(1 .. Len(profile))
    /\ IsInjective(filed) /\ IsInjective(stderr)
    /\ TargetFailed \/ IsInjective(filed \o stderr)
    /\ \A k \in 1 .. Len(profile) : k < Len(profile) \/ failed = 0 =>
         /\ Streams(groups[k]) => k \in ToSet(filed) \cup ToSet(stderr)
         /\ Last(groups[k]) \in {"errors", "both"} => \A j \in ToSet(stderr) : j > k

\* What a group does to the stderr: left, it leaves its own; opened, it opened a target.
Filing(left, opened) ==
    /\ stderr' \in Seq(1 .. position) /\ filed' \in Seq(1 .. position)
    /\ IsInjective(filed' \o stderr')
    /\ ToSet(filed) \cup ToSet(stderr) \subseteq ToSet(filed') \cup ToSet(stderr')
    /\ left => position \in ToSet(filed') \cup ToSet(stderr')
    /\ ToSet(stderr') \subseteq IF opened THEN {} ELSE ToSet(stderr) \cup {position}

\* A target that was not written to its end has a part of what was collected, which stays.
Tears ==
    /\ stderr' = stderr
    /\ \E n \in 0 .. Len(stderr) : filed' = filed \o SubSeq(stderr, 1, n)
    /\ failed' = offset' + Len(groups'[Len(profile')])
    /\ Last(groups'[Len(profile')]) \in {"errors", "both"}

\* The parts of a sequence without repetitions have none.
LEMMA InjectiveParts ==
    ASSUME NEW S, NEW f \in Seq(S), NEW s \in Seq(S), IsInjective(f \o s), NEW n \in 0 .. Len(s)
    PROVE  /\ f \o SubSeq(s, 1, n) \in Seq(S) /\ IsInjective(f \o SubSeq(s, 1, n))
           /\ IsInjective(f) /\ IsInjective(s)
           /\ ToSet(f) \subseteq ToSet(f \o SubSeq(s, 1, n))
<1> DEFINE c == f \o s
           t == SubSeq(s, 1, n)
           d == f \o t
           m == Len(f)
<1>1. /\ m \in Nat /\ Len(s) \in Nat /\ n \in Nat /\ n <= Len(s)
      /\ DOMAIN f = 1 .. m /\ DOMAIN s = 1 .. Len(s)
  OBVIOUS
<1>2. /\ t \in Seq(S) /\ Len(t) = n /\ \A i \in 1 .. n : t[i] = s[i]
  BY <1>1
<1>3. /\ DOMAIN c = 1 .. m + Len(s) /\ \A i \in 1 .. m : c[i] = f[i]
      /\ \A i \in 1 .. Len(s) : c[m + i] = s[i]
  BY <1>1
<1> HIDE DEF t
<1>4. /\ d \in Seq(S) /\ DOMAIN d = 1 .. m + n /\ \A i \in 1 .. m : d[i] = f[i]
      /\ \A i \in 1 .. n : d[m + i] = t[i]
  BY <1>1, <1>2
<1>5. \A i, j \in 1 .. m + Len(s) : c[i] = c[j] => i = j
  BY <1>3 DEF IsInjective
<1> HIDE DEF c, d, m
<1>6. \A i \in 1 .. m + n : d[i] = c[i] /\ i \in 1 .. m + Len(s)
  <2> SUFFICES ASSUME NEW i \in 1 .. m + n PROVE d[i] = c[i] /\ i \in 1 .. m + Len(s)
    OBVIOUS
  <2>1. CASE i \in 1 .. m
    BY <1>1, <1>3, <1>4, <2>1
  <2>2. CASE i \notin 1 .. m
    <3>1. i - m \in 1 .. n /\ i - m \in 1 .. Len(s) /\ m + (i - m) = i
      BY <1>1, <2>2
    <3>2. d[m + (i - m)] = t[i - m] /\ c[m + (i - m)] = s[i - m] /\ t[i - m] = s[i - m]
      BY <1>2, <1>3, <1>4, <3>1
    <3>3. d[i] = c[i]
      BY <3>1, <3>2
    <3>4. QED
      BY <1>1, <3>3
  <2>3. QED
    BY <2>1, <2>2
<1>7. IsInjective(d)
  BY <1>4, <1>5, <1>6 DEF IsInjective
<1>8. IsInjective(f)
  <2>1. \A i \in 1 .. m : f[i] = c[i] /\ i \in 1 .. m + Len(s)
    BY <1>1, <1>3
  <2>2. QED
    BY <1>1, <1>5, <2>1 DEF IsInjective
<1>9. IsInjective(s)
  <2>1. \A i \in 1 .. Len(s) : s[i] = c[m + i] /\ m + i \in 1 .. m + Len(s)
    BY <1>1, <1>3
  <2>2. ASSUME NEW i \in 1 .. Len(s), NEW j \in 1 .. Len(s), s[i] = s[j] PROVE i = j
    <3>1. m + i = m + j
      BY <1>5, <2>1, <2>2
    <3>2. QED
      BY <1>1, <3>1
  <2>3. QED
    BY <1>1, <2>2 DEF IsInjective
<1>10. ToSet(f) \subseteq ToSet(d)
  <2>1. \A i \in 1 .. m : i \in 1 .. m + n
    BY <1>1
  <2>2. QED
    BY <1>1, <1>4, <2>1 DEF ToSet
<1>11. QED
  BY <1>4, <1>7, <1>8, <1>9, <1>10 DEF d, t

LEMMA SetOfConcat ==
    ASSUME NEW S, NEW s \in Seq(S), NEW t \in Seq(S)
    PROVE  ToSet(s \o t) = ToSet(s) \cup ToSet(t)
<1>1. \A x : ToSet(x) = Range(x)
  BY DEF ToSet, Range
<1>2. Range(s \o t) = Range(s) \cup Range(t)
  BY RangeConcatenation
<1>3. QED
  BY <1>1, <1>2

LEMMA AppendSet ==
    ASSUME NEW S, NEW s \in Seq(S), NEW e \in S
    PROVE  /\ ToSet(Append(s, e)) = ToSet(s) \cup {e}
           /\ IsInjective(s) /\ e \notin ToSet(s) => IsInjective(Append(s, e))
<1> DEFINE c == Append(s, e)
           n == Len(s)
<1>1. n \in Nat /\ DOMAIN s = 1 .. n
  OBVIOUS
<1>2. c \in Seq(S) /\ Len(c) = n + 1 /\ c[n + 1] = e /\ \A i \in 1 .. n : c[i] = s[i]
  BY AppendProperties
<1>3. DOMAIN c = 1 .. n + 1
  BY <1>2
<1> HIDE DEF c, n
<1>4. /\ n + 1 \in 1 .. n + 1 /\ \A i \in 1 .. n : i \in 1 .. n + 1
      /\ \A i \in 1 .. n + 1 : i = n + 1 \/ i \in 1 .. n
  BY <1>1
<1>5. ToSet(c) = ToSet(s) \cup {e}
  BY <1>1, <1>2, <1>3, <1>4 DEF ToSet
<1>6. ASSUME IsInjective(s), e \notin ToSet(s) PROVE IsInjective(c)
  <2>1. \A i \in 1 .. n : s[i] # e
    BY <1>1, <1>6 DEF ToSet
  <2>2. \A i, j \in 1 .. n : s[i] = s[j] => i = j
    BY <1>1, <1>6 DEF IsInjective
  <2>3. ASSUME NEW i \in 1 .. n + 1, NEW j \in 1 .. n + 1, c[i] = c[j] PROVE i = j
    BY <1>2, <1>4, <2>1, <2>2, <2>3
  <2>4. QED
    BY <1>3, <2>3 DEF IsInjective
<1>7. QED
  BY <1>5, <1>6 DEF c

LEMMA ConcatAppend ==
    ASSUME NEW S, NEW s \in Seq(S), NEW t \in Seq(S), NEW e \in S
    PROVE  s \o Append(t, e) = (s \o t) \o <<e>>
<1>1. Append(t, e) = t \o <<e>> /\ <<e>> \in Seq(S)
  BY AppendIsConcat
<1>2. \A u \in Seq(S) : (s \o t) \o u = s \o (t \o u)
  BY ConcatAssociative
<1>3. QED
  BY <1>1, <1>2

\* What Filing needs of f and s, the stderr in files and in the Result, when group e leaves its own.
Extends(e, f, s) ==
    /\ s \in Seq(1 .. e) /\ f \in Seq(1 .. e) /\ <<>> \in Seq(1 .. e)
    /\ f \o s \in Seq(1 .. e) /\ (f \o s) \o <<>> = f \o s
    /\ ToSet(f \o s) = ToSet(f) \cup ToSet(s) /\ ToSet(<<>>) = {}
    /\ Append(s, e) \in Seq(1 .. e)
    /\ ToSet(Append(s, e)) = ToSet(s) \cup {e}
    /\ f \o Append(s, e) = (f \o s) \o <<e>>
    /\ (f \o s) \o <<e>> \in Seq(1 .. e)
    /\ ((f \o s) \o <<e>>) \o <<>> = (f \o s) \o <<e>>
    /\ ToSet((f \o s) \o <<e>>) = ToSet(f) \cup ToSet(s) \cup {e}
    /\ IsInjective((f \o s) \o <<e>>)

LEMMA StderrSeqs ==
    ASSUME NEW n \in Nat, NEW e, e = n + 1,
           NEW s \in Seq(1 .. n), NEW f \in Seq(1 .. n), IsInjective(f \o s)
    PROVE  Extends(e, f, s)
<1> DEFINE S == 1 .. e
           a == f \o s
           b == a \o <<e>>
           c == Append(s, e)
<1>1. /\ s \in Seq(S) /\ f \in Seq(S) /\ <<>> \in Seq(S) /\ e \in S
      /\ e \notin ToSet(f) /\ e \notin ToSet(s)
  <2>1. 1 .. n \subseteq S /\ e \in S /\ e \notin 1 .. n
    OBVIOUS
  <2>2. ToSet(f) \subseteq 1 .. n /\ ToSet(s) \subseteq 1 .. n
    BY DEF ToSet
  <2>3. QED
    BY <2>1, <2>2, SeqMonotonic
<1> HIDE DEF S
<1>2. <<e>> \in Seq(S) /\ a \in Seq(S)
  BY <1>1
<1>3. ToSet(a) = ToSet(f) \cup ToSet(s)
  BY <1>1, SetOfConcat
<1>4. c = s \o <<e>> /\ c \in Seq(S) /\ ToSet(c) = ToSet(s) \cup {e}
  BY <1>1, AppendIsConcat, AppendProperties, AppendSet
<1>5. f \o c = b
  BY <1>1, ConcatAppend
<1> HIDE DEF c
<1>6. IsInjective(a)
  OBVIOUS
<1> HIDE DEF a
<1>7. /\ b = Append(a, e) /\ b \in Seq(S) /\ ToSet(b) = ToSet(a) \cup {e}
      /\ IsInjective(b)
  <2>1. Append(a, e) = b
    BY <1>1, <1>2, AppendIsConcat, Zenon
  <2>2. Append(a, e) \in Seq(S)
    BY <1>1, <1>2, AppendProperties
  <2>3. ToSet(Append(a, e)) = ToSet(a) \cup {e} /\ IsInjective(Append(a, e))
    BY <1>1, <1>2, <1>3, <1>6, AppendSet
  <2> HIDE DEF b
  <2>4. QED
    BY <2>1, <2>2, <2>3, Zenon
<1> HIDE DEF b
<1>8. a \o <<>> = a /\ b \o <<>> = b
  BY <1>2, <1>7, ConcatEmptySeq
<1>9. ToSet(<<>>) = {}
  BY DEF ToSet
<1>10. QED
  BY <1>1, <1>2, <1>3, <1>4, <1>5, <1>7, <1>8, <1>9 DEF a, b, c, S, Extends

LEMMA FilingFacts ==
    ASSUME Rows, Held, failed = 0
    PROVE  /\ UNCHANGED <<stderr, filed>> => Filing(FALSE, FALSE)
           /\ filed' = filed \o stderr /\ stderr' = <<>> => Filing(FALSE, TRUE)
           /\ filed' = filed /\ stderr' = Append(stderr, position) => Filing(TRUE, FALSE)
           /\ filed' = (filed \o stderr) \o <<position>> /\ stderr' = <<>> => Filing(TRUE, TRUE)
<1> DEFINE n == Len(profile)
<1>1. n \in Nat /\ position = n + 1 /\ stderr \in Seq(1 .. n) /\ filed \in Seq(1 .. n)
      /\ IsInjective(filed \o stderr)
  BY DEF Rows, Held, position, TargetFailed
<1> HIDE DEF n
<1> DEFINE a == filed \o stderr
           S == 1 .. position
<1>2. /\ stderr \in Seq(S) /\ filed \in Seq(S) /\ <<>> \in Seq(S)
      /\ a \in Seq(S) /\ a \o <<>> = a
      /\ ToSet(a) = ToSet(filed) \cup ToSet(stderr) /\ ToSet(<<>>) = {}
      /\ Append(stderr, position) \in Seq(S)
      /\ ToSet(Append(stderr, position)) = ToSet(stderr) \cup {position}
      /\ filed \o Append(stderr, position) = a \o <<position>>
      /\ a \o <<position>> \in Seq(S)
      /\ (a \o <<position>>) \o <<>> = a \o <<position>>
      /\ ToSet(a \o <<position>>) = ToSet(filed) \cup ToSet(stderr) \cup {position}
      /\ IsInjective(a \o <<position>>)
  <2>1. Extends(position, filed, stderr)
    BY <1>1, StderrSeqs
  <2>2. QED
    BY <2>1 DEF Extends
<1>3. IsInjective(a)
  BY <1>1
<1>4. ASSUME UNCHANGED <<stderr, filed>> PROVE Filing(FALSE, FALSE)
  <2>1. filed' = filed /\ stderr' = stderr /\ IsInjective(filed' \o stderr')
    BY <1>1, <1>4
  <2>2. QED
    BY <1>2, <2>1 DEF Filing
<1>5. ASSUME filed' = a, stderr' = <<>> PROVE Filing(FALSE, TRUE)
  <2>1. IsInjective(filed' \o stderr')
    BY <1>2, <1>3, <1>5, Zenon
  <2> HIDE DEF a
  <2>2. QED
    BY <1>2, <1>5, <2>1 DEF Filing
<1>6. ASSUME filed' = filed, stderr' = Append(stderr, position) PROVE Filing(TRUE, FALSE)
  <2>1. IsInjective(filed' \o stderr')
    BY <1>2, <1>6, Zenon
  <2>2. QED
    BY <1>2, <1>6, <2>1 DEF Filing
<1>7. ASSUME filed' = a \o <<position>>, stderr' = <<>> PROVE Filing(TRUE, TRUE)
  <2>1. IsInjective(filed' \o stderr')
    BY <1>2, <1>7, Zenon
  <2> HIDE DEF a
  <2>2. QED
    BY <1>2, <1>7, <2>1 DEF Filing
<1>8. QED
  BY <1>4, <1>5, <1>6, <1>7

\* A group that fails need not leave its stderr.
LEMMA FailsFails ==
    ASSUME Rows', NEW i, Ends(Fail(i))
    PROVE  failed' # 0
BY DEF Rows, Ends, After, Proceed, FailsAt, Fail, Outcome

LEMMA GroupFiles ==
    ASSUME PlanInv, Rows, Rows', Held,
           BuildFails \/ StreamEnds \/ Each \/ Buffered \/ RedirectBuffered
    PROVE  \/ Tears
           \/ \E left, opened \in BOOLEAN :
                /\ Filing(left, opened)
                /\ failed' = 0 => (Streams(chunk) => left) /\ (ErrsToFile => opened)
<1> DEFINE Goal == \/ Tears
                   \/ \E left, opened \in BOOLEAN :
                        /\ Filing(left, opened)
                        /\ failed' = 0 => (Streams(chunk) => left) /\ (ErrsToFile => opened)
<1>1. ASSUME NEW left \in BOOLEAN, NEW opened \in BOOLEAN, Filing(left, opened),
             failed' = 0 => (Streams(chunk) => left) /\ (ErrsToFile => opened)
      PROVE  Goal
  BY <1>1
<1> HIDE DEF Goal
<1>2. failed = 0
  BY GroupRuns DEF Ran, Rows
<1>3. /\ UNCHANGED <<stderr, filed>> => Filing(FALSE, FALSE)
      /\ OpenSinks /\ ErrsToFile => Filing(FALSE, TRUE)
      /\ OpenSinks /\ ~ErrsToFile => Filing(FALSE, FALSE)
  BY <1>2, FilingFacts DEF OpenSinks
<1>4. (UNCHANGED <<stderr, filed>> \/ OpenSinks) /\ failed' # 0 => Goal
  BY <1>1, <1>3
<1>5. pc = "loop" /\ position <= Len(groups)
  BY DEF BuildFails, StreamEnds, Each, Buffered, RedirectBuffered, Begins
<1>6. IsGroup(chunk)
  BY <1>5, ChunkFacts
<1>7. ASSUME NEW i \in {0, Len(chunk)}, SinksFail, Ends(Fail(i)) PROVE Goal
  <2>1. failed' # 0
    BY <1>7, FailsFails
  <2>2. CASE ErrsToFile
    <3>1. stderr' = stderr /\ \E n \in 0 .. Len(stderr) : filed' = filed \o SubSeq(stderr, 1, n)
      BY <1>7, <2>2 DEF SinksFail
    <3>2. failed' = offset + Len(chunk) /\ offset' = offset /\ profile' = Append(profile, RowOf(Fail(i)))
      <4> DEFINE r == Fail(i)
      <4>1. r.returncode = 1 /\ r.failed = i
        BY DEF Fail, Outcome
      <4>2. profile' = Append(profile, RowOf(r)) /\ Proceed(r)
        BY <1>7 DEF Ends, After, Record
      <4>3. offset' = offset /\ failed' = offset + (IF i = 0 THEN Len(chunk) ELSE i)
        BY <4>1, <4>2 DEF Proceed, FailsAt
      <4>4. QED
        BY <4>2, <4>3
    <3>3. Len(profile') = position /\ groups' = groups
      <4>1. profile \in Seq(Row)
        BY DEF Rows
      <4>2. Len(profile') = position
        BY <3>2, <4>1 DEF position
      <4>3. groups' = groups
        BY GroupRuns DEF Ran, given
      <4>4. QED
        BY <4>2, <4>3
    <3>4. Last(chunk) \in {"errors", "both"}
      BY <2>2 DEF ErrsToFile, Sink
    <3>5. Tears
      BY <3>1, <3>2, <3>3, <3>4 DEF Tears, chunk
    <3>6. QED
      BY <3>5 DEF Goal
  <2>3. CASE ~ErrsToFile
    <3>1. stderr' = stderr /\ filed' = filed \o SubSeq(stderr, 1, 0)
      BY <1>7, <2>3 DEF SinksFail
    <3>2. SubSeq(stderr, 1, 0) = <<>> /\ filed \o <<>> = filed
      BY DEF Held
    <3>3. QED
      BY <1>4, <2>1, <3>1, <3>2
  <2>4. QED
    BY <2>2, <2>3
<1>8. ASSUME BuildFails PROVE Goal
  <2>1. failed' # 0
    BY <1>8, FailsFails DEF BuildFails
  <2>2. \/ UNCHANGED <<stderr, filed>> \/ OpenSinks
        \/ SinksFail /\ Ends(Fail(Len(chunk)))
    BY <1>8 DEF BuildFails
  <2>3. ASSUME SinksFail, Ends(Fail(Len(chunk))) PROVE Goal
    BY <1>4, <1>7, <2>1, <2>3
  <2>4. QED
    BY <1>4, <2>1, <2>2, <2>3
<1>9. CASE StreamEnds
  <2>1. CASE ErrsToFile
    <3>1. Filing(TRUE, TRUE)
      BY <1>9, <2>1, <1>2, FilingFacts DEF StreamEnds
    <3>2. QED
      BY <1>1, <3>1
  <2>2. CASE ~ErrsToFile
    <3>1. Filing(TRUE, FALSE)
      BY <1>9, <2>2, <1>2, FilingFacts DEF StreamEnds
    <3>2. QED
      BY <1>1, <2>2, <3>1
  <2>3. QED
    BY <2>1, <2>2
<1>10. ASSUME chunk[1] \in {"each", "collect", "capture"} PROVE ~Streams(chunk) /\ ~ErrsToFile
  BY <1>6, <1>10 DEF IsGroup, Streams, Streamable, Commands, ErrsToFile, Sink, Last
<1>11. CASE Each
  <2>1. ~Streams(chunk) /\ ~ErrsToFile
    BY <1>10, <1>11 DEF Each, Begins
  <2>2. Filing(FALSE, FALSE) \/ Filing(TRUE, FALSE)
    BY <1>11, <1>2, FilingFacts DEF Each
  <2>3. QED
    BY <1>1, <2>1, <2>2
<1>12. CASE Buffered
  BY <1>1, <1>3, <1>10, <1>12 DEF Buffered, Begins
<1>13. CASE RedirectBuffered
  <2>1. ~Streams(chunk)
    BY <1>13 DEF RedirectBuffered, Begins, Streams, Streamable, Commands, Redirects
  <2>2. CASE OpenSinks
    BY <1>1, <1>3, <2>1, <2>2
  <2>3. ASSUME SinksFail, Ends(Fail(0)) PROVE Goal
    BY <1>7, <2>3
  <2>4. QED
    BY <1>13, <2>2, <2>3 DEF RedirectBuffered, Goal
<1>14. QED
  BY <1>8, <1>9, <1>11, <1>12, <1>13 DEF Goal

LEMMA HeldStep ==
    ASSUME PlanInv, Rows, Rows', Held, [Next]_vars
    PROVE  Held'
<1>0. CASE /\ BuildFails \/ StreamEnds \/ Each \/ Buffered \/ RedirectBuffered
           /\ Tears
  <2>1. Ran
    BY <1>0, GroupRuns
  <2>2. Len(profile') = position
    BY <2>1, RanFacts
  <2>3. /\ groups' = groups /\ pc = "loop" /\ failed = 0 /\ position <= Len(groups)
        /\ Len(profile) \in Nat /\ position = Len(profile) + 1 /\ chunk = groups[position]
    BY <2>1 DEF Ran, given, Rows, position, chunk
  <2>4. offset' + Len(chunk) # 0
    <3>1. offset' \in Nat
      BY DEF Rows
    <3>2. Len(chunk) \in Nat \ {0}
      BY <2>3, ChunkFacts
    <3>3. QED
      BY <3>1, <3>2
  <2>5. failed' # 0 /\ TargetFailed'
    BY <1>0, <2>2, <2>3, <2>4 DEF Tears, TargetFailed
  <2>6. PICK n \in 0 .. Len(stderr) : filed' = filed \o SubSeq(stderr, 1, n)
    BY <1>0 DEF Tears
  <2>7. /\ stderr \in Seq(1 .. position) /\ filed \in Seq(1 .. position)
        /\ IsInjective(filed \o stderr)
    <3>1. 1 .. Len(profile) \subseteq 1 .. position
      BY <2>3
    <3>2. QED
      BY <2>3, <3>1, SeqMonotonic DEF Held, TargetFailed
  <2>8. /\ filed' \in Seq(1 .. position) /\ IsInjective(filed') /\ IsInjective(stderr)
        /\ ToSet(filed) \subseteq ToSet(filed')
    BY <2>6, <2>7, InjectiveParts
  <2>9. \A k \in 1 .. position : k < position \/ failed' = 0 => k \in 1 .. Len(profile) /\ k < position
    BY <2>3, <2>5
  <2>10. stderr' = stderr
    BY <1>0 DEF Tears
  <2>11. ASSUME NEW k \in 1 .. position, k < position \/ failed' = 0
         PROVE  /\ Streams(groups[k]) => k \in ToSet(filed') \cup ToSet(stderr')
                /\ Last(groups[k]) \in {"errors", "both"} => \A j \in ToSet(stderr') : j > k
    BY <2>3, <2>8, <2>9, <2>10, <2>11 DEF Held
  <2>12. QED
    BY <2>2, <2>3, <2>5, <2>7, <2>8, <2>10, <2>11 DEF Held
<1>1. CASE /\ BuildFails \/ StreamEnds \/ Each \/ Buffered \/ RedirectBuffered
           /\ ~Tears
  <2>1. PICK left, opened \in BOOLEAN :
             /\ Filing(left, opened)
             /\ failed' = 0 => (Streams(chunk) => left) /\ (ErrsToFile => opened)
    BY <1>1, GroupFiles
  <2>2. Ran
    BY <1>1, GroupRuns
  <2>3. Len(profile') = position
    BY <2>2, RanFacts
  <2>4. /\ groups' = groups /\ pc = "loop" /\ failed = 0
        /\ Len(profile) \in Nat /\ position = Len(profile) + 1
        /\ chunk = groups[position] /\ (ErrsToFile <=> Last(groups[position]) \in {"errors", "both"})
    BY <2>2 DEF Ran, given, Rows, position, chunk, ErrsToFile, Sink
  <2>5. ToSet(stderr) \subseteq 1 .. Len(profile)
    BY DEF Held, ToSet
  <2>6. ASSUME NEW k \in 1 .. position, k < position \/ failed' = 0
        PROVE  /\ Streams(groups[k]) => k \in ToSet(filed') \cup ToSet(stderr')
               /\ Last(groups[k]) \in {"errors", "both"} => \A j \in ToSet(stderr') : j > k
    <3>1. CASE k = position
      <4>1. failed' = 0
        BY <2>4, <2>6, <3>1
      <4>2. Streams(groups[k]) => k \in ToSet(filed') \cup ToSet(stderr')
        BY <2>1, <2>4, <3>1, <4>1 DEF Filing
      <4>3. Last(groups[k]) \in {"errors", "both"} => ToSet(stderr') = {}
        BY <2>1, <2>4, <3>1, <4>1 DEF Filing
      <4>4. QED
        BY <4>2, <4>3
    <3>2. CASE k # position
      <4>1. k \in 1 .. Len(profile) /\ k < position
        BY <2>4, <3>2
      <4>2. /\ Streams(groups[k]) => k \in ToSet(filed) \cup ToSet(stderr)
            /\ Last(groups[k]) \in {"errors", "both"} => \A j \in ToSet(stderr) : j > k
        BY <2>4, <4>1 DEF Held
      <4>3. /\ ToSet(filed) \cup ToSet(stderr) \subseteq ToSet(filed') \cup ToSet(stderr')
            /\ ToSet(stderr') \subseteq ToSet(stderr) \cup {position}
        BY <2>1 DEF Filing
      <4>4. QED
        BY <2>4, <4>1, <4>2, <4>3
    <3>3. QED
      BY <3>1, <3>2
  <2>7. /\ stderr' \in Seq(1 .. position) /\ filed' \in Seq(1 .. position)
        /\ IsInjective(filed' \o stderr') /\ IsInjective(filed') /\ IsInjective(stderr')
    <3>1. /\ stderr' \in Seq(1 .. position) /\ filed' \in Seq(1 .. position)
          /\ IsInjective(filed' \o stderr')
      BY <2>1 DEF Filing
    <3>2. 0 \in 0 .. Len(stderr')
      BY <3>1
    <3>3. QED
      BY <3>1, <3>2, InjectiveParts
  <2>8. QED
    BY <2>3, <2>4, <2>6, <2>7 DEF Held
<1>2. CASE Idle
  <2>1. /\ UNCHANGED <<profile, failed, offset, stderr, filed>>
        /\ pc # "build" => groups' = groups
    BY <1>2 DEF Idle, rows, ends, given
  <2>2. CASE pc = "build"
    <3>1. failed = 0 /\ \A k \in 1 .. Len(profile) : FALSE
      BY <2>2 DEF Rows
    <3>2. QED
      BY <2>1, <3>1 DEF Held, TargetFailed
  <2>3. CASE pc # "build"
    <3>1. UNCHANGED <<profile, failed, offset, stderr, filed, groups>>
      BY <2>1, <2>3
    <3>2. QED
      BY <3>1 DEF Held, TargetFailed
  <2>4. QED
    BY <2>2, <2>3
<1>3. QED
  BY <1>0, <1>1, <1>2, IdleOrRuns

LEMMA HeldInit == Init => Held
<1> SUFFICES ASSUME Init PROVE Held
  OBVIOUS
<1>1. profile = <<>> /\ Len(profile) = 0 /\ stderr = <<>> /\ filed = <<>>
  BY DEF Init
<1>2. <<>> \in Seq(1 .. 0) /\ <<>> \o <<>> = <<>> /\ DOMAIN <<>> = {}
  OBVIOUS
<1>3. IsInjective(<<>>)
  BY <1>2 DEF IsInjective
<1>4. \A k \in 1 .. Len(profile) : FALSE
  BY <1>1
<1>5. QED
  BY <1>1, <1>2, <1>3, <1>4 DEF Held

\* However groups leave stderr, open targets for it or fail while they do, each stderr is
\* in the Result or in one file, never in both but for what a failed write left in its
\* target; none is lost; and no group's stderr stays in the Result behind a target that was
\* opened after it.
THEOREM KeepsStderr == Spec => []StderrInOnePlace
<1>1. PlanInv /\ Rows /\ Held /\ [Next]_vars => (PlanInv /\ Rows /\ Held)'
  BY PlanStep, RowsStep, HeldStep
<1>2. Rows /\ Held => StderrInOnePlace
  <2> SUFFICES ASSUME Rows, Held PROVE StderrInOnePlace
    OBVIOUS
  <2>1. Len(profile) \in Nat /\ DOMAIN profile = 1 .. Len(profile)
    BY DEF Rows
  <2>2. \A k \in 1 .. Len(profile) - 1 : k \in 1 .. Len(profile) /\ k < Len(profile)
    BY <2>1
  <2>3. QED
    BY <2>1, <2>2 DEF Held, StderrInOnePlace
<1>3. QED
  BY <1>1, <1>2, PlanInit, RowsInit, HeldInit, PTL DEF Spec

\* Every state has its type, which bounds offset and failed_step by the pipeline and the
\* profile by the plan, and the groups of a plan are those of its pipeline.
THEOREM TypesAndPlan == Spec => []Inv
<1>1. PlanInv /\ Rows /\ Held /\ [Next]_vars => (PlanInv /\ Rows /\ Held)'
  BY PlanStep, RowsStep, HeldStep
<1>2. PlanInv /\ Rows /\ Held => Inv
  <2> SUFFICES ASSUME PlanInv, Rows, Held PROVE Inv
    OBVIOUS
  <2>1. groups \in Seq(Seq(Kinds)) /\ Len(steps) \in 1 .. MaxSteps
    BY PipelineFacts DEF PlanInv, WellGrouped, Begun
  <2>2. Len(groups) <= MaxSteps
    <3>1. CASE pc = "build"
      <4>1. Len(groups) = 0
        BY <3>1 DEF PlanInv
      <4>2. QED
        BY <4>1, ExecutorAssumption
    <3>2. CASE pc # "build"
      <4>1. \A k \in 1 .. Len(groups) : Len(groups[k]) >= 1
        BY DEF PlanInv, WellGrouped, IsGroup
      <4>2. Len(groups) \in Nat /\ Len(groups) \in 0 .. Len(groups)
        BY <2>1
      <4>3. /\ Before(groups, Len(groups)) \in Nat /\ Len(groups) <= Before(groups, Len(groups))
            /\ Before(groups, Len(groups)) <= Len(FlattenSeq(groups))
        BY <2>1, <4>1, <4>2, FlattenBounds
      <4>4. FlattenSeq(groups) = steps
        BY <3>2 DEF PlanInv
      <4>5. QED
        BY <2>1, <4>2, <4>3, <4>4, ExecutorAssumption
    <3>3. QED
      BY <3>1, <3>2
  <2>3. Len(profile) \in Nat /\ Len(profile) <= MaxSteps /\ Len(groups) \in Nat
    BY <2>1, <2>2, ExecutorAssumption DEF Rows
  <2>4. stderr \in Seq(1 .. MaxSteps) /\ filed \in Seq(1 .. MaxSteps)
    <3>1. 1 .. Len(profile) \subseteq 1 .. MaxSteps
      BY <2>3, ExecutorAssumption
    <3>2. QED
      BY <3>1, SeqMonotonic DEF Held
  <2>5. \A k \in DOMAIN profile : profile[k] \in Row
    BY DEF Rows
  <2>6. TypeOK
    BY <2>4, <2>5 DEF PlanInv, Rows, TypeOK
  <2>7. PlannedInGroups
    BY LenProperties DEF PlanInv, PlannedInGroups, WellGrouped, IsGroup
  <2>8. QED
    BY <2>6, <2>7 DEF Inv
<1>3. QED
  BY <1>1, <1>2, PlanInit, RowsInit, HeldInit, PTL DEF Spec

-----------------------------------------------------------------------------
(* The failure that is reported *)

\* Every tool accepts an exit of 0.
ZeroIsOk == \A c \in Commands : 0 \in OkCodes[c]

Reported == FailureReported /\ (pc = "build" => exits = <<>>)

\* The processes of the last group that really failed.
Bad == {i \in DOMAIN exits : ~Harmless(Len(profile), i)}

\* What a streaming group reports of its processes.
LEMMA StreamReports ==
    ASSUME ZeroIsOk, PlanInv, Rows, StreamEnds, Len(profile') = position
    PROVE  IF Bad' = {} THEN returncode' = 0
           ELSE /\ returncode' = exits'[Min(Bad')] /\ pc' = "over"
                /\ failed' = offset + Min(Bad')
<1>1. pc = "loop" /\ position <= Len(groups) /\ groups' = groups /\ ignore_sigpipe' = ignore_sigpipe
  BY DEF StreamEnds, Begins, given
<1>2. Len(chunk) \in Nat \ {0} /\ DOMAIN chunk = 1 .. Len(chunk) /\ offset \in Nat
  BY <1>1, ChunkFacts
<1>3. Processes \in SUBSET (1 .. Len(chunk)) /\ \A i \in Processes : chunk[i] \in Commands
  BY <1>2 DEF Processes
<1>4. PICK fed \in Texts, out \in Texts, rcs \in [Processes -> Exits] :
        LET status == Status(rcs, OkOf, ignore_sigpipe)
        IN After(Outcome(IF ToFile THEN 0 ELSE out, status.returncode, status.failed,
                         {fed}, {out}), rcs)
  BY DEF StreamEnds
<1> DEFINE status == Status(rcs, OkOf, ignore_sigpipe)
           bad == Rejected(rcs, OkOf, ignore_sigpipe)
           r == Outcome(IF ToFile THEN 0 ELSE out, status.returncode, status.failed, {fed}, {out})
           m == Min(bad)
<1>5. /\ bad = {} => status = [returncode |-> 0, failed |-> 0]
      /\ bad # {} => /\ m \in Processes /\ m \in bad
                    /\ status = [returncode |-> rcs[m], failed |-> m]
  BY <1>2, <1>3, StatusFacts
<1>6. After(r, rcs)
  BY <1>4
<1>7. exits' = rcs /\ Proceed(r)
  BY <1>6 DEF After
<1>8. Bad' = bad
  <2>1. \A i \in Processes : OkOf[i] = OkCodes[chunk[i]] /\ 0 \in OkCodes[chunk[i]]
    BY <1>3 DEF OkOf, ZeroIsOk
  <2>2. groups'[Len(profile')] = chunk
    BY <1>1 DEF chunk
  <2>3. \A i \in Processes : Harmless(Len(profile), i)' <=> Accepted(rcs[i], OkOf[i], ignore_sigpipe)
    BY <1>1, <1>7, <2>1, <2>2 DEF Harmless, Accepted
  <2>4. DOMAIN rcs = Processes /\ DOMAIN exits' = Processes
    BY <1>7
  <2>5. Bad' = {i \in DOMAIN exits' : ~Harmless(Len(profile), i)'}
    BY DEF Bad
  <2>6. QED
    BY <2>3, <2>4, <2>5 DEF Rejected
<1>9. r.returncode = status.returncode /\ r.failed = status.failed
  BY DEF Outcome
<1> HIDE DEF r, status
<1>10. ASSUME bad = {} PROVE returncode' = 0
  <2>1. r.returncode = 0
    BY <1>5, <1>9, <1>10
  <2>2. QED
    BY <1>1, <1>7, <2>1 DEF Proceed, Rows
<1>11. ASSUME bad # {}
       PROVE  returncode' = rcs[m] /\ pc' = "over" /\ failed' = offset + m
  <2>1. m \in bad /\ m \in 1 .. Len(chunk) /\ m \in Processes /\ r.returncode = rcs[m] /\ r.failed = m
    BY <1>3, <1>5, <1>9, <1>11
  <2>2. rcs[m] # 0 /\ m # 0
    <3>1. ~Accepted(rcs[m], OkOf[m], ignore_sigpipe)
      BY <2>1 DEF Rejected
    <3>2. 0 \in OkOf[m]
      BY <1>3, <2>1 DEF OkOf, ZeroIsOk
    <3> HIDE DEF m
    <3>3. QED
      BY <2>1, <3>1, <3>2 DEF Accepted
  <2> HIDE DEF m
  <2>3. QED
    BY <1>7, <2>1, <2>2 DEF Proceed, FailsAt
<1> HIDE DEF bad
<1>12. QED
  BY <1>7, <1>8, <1>10, <1>11

LEMMA ReportStep ==
    ASSUME ZeroIsOk, PlanInv, Rows, Reported, [Next]_vars
    PROVE  Reported'
<1>1. CASE BuildFails \/ StreamEnds \/ Each \/ Buffered \/ RedirectBuffered
  <2>1. Ran
    BY <1>1, GroupRuns
  <2>2. /\ pc = "loop" /\ position <= Len(groups)
        /\ groups' = groups /\ steps' = steps /\ ignore_sigpipe' = ignore_sigpipe
    BY <2>1 DEF Ran, given
  <2>3. /\ Len(profile') = position /\ pc' # "build"
        /\ failed' # 0 => failed' - offset \in 1 .. Len(chunk) /\ steps[failed'] # "collect"
    BY <2>1, RanFacts
  <2>4. DOMAIN chunk = 1 .. Len(chunk) /\ offset = Before(groups, position - 1)
    BY <2>2, ChunkFacts
  <2> DEFINE before == Len(FlattenSeq(SubSeq(groups', 1, Len(profile') - 1)))
  <2>5. before = offset
    BY <2>2, <2>3, <2>4 DEF Before
  <2>6. exits' # <<>> =>
          IF Bad' = {} THEN returncode' = 0
          ELSE /\ returncode' = exits'[Min(Bad')] /\ pc' = "over"
               /\ failed' = before + Min(Bad')
    <3>1. CASE StreamEnds
      <4> HIDE DEF before
      <4>1. QED
        BY <2>3, <2>5, <3>1, StreamReports
    <3>2. CASE BuildFails \/ Each \/ Buffered \/ RedirectBuffered
      <4>1. exits' = <<>>
        BY <3>2 DEF BuildFails, Each, Buffered, RedirectBuffered, Ends, After
      <4>2. QED
        BY <4>1
    <3>3. QED
      BY <1>1, <3>1, <3>2
  <2>7. failed' # 0 => failed' - before \in DOMAIN groups'[Len(profile')] /\ steps'[failed'] # "collect"
    BY <2>2, <2>3, <2>4, <2>5 DEF chunk
  <2> HIDE DEF before
  <2>8. FailureReported'
    BY <2>6, <2>7 DEF FailureReported, Bad, before
  <2>9. QED
    BY <2>3, <2>8 DEF Reported
<1>2. CASE Idle
  <2>1. /\ profile' = profile /\ returncode' = returncode /\ failed' = failed /\ exits' = exits
        /\ pc' = "build" => pc = "build"
        /\ pc = "over" => pc' = "over"
    BY <1>2 DEF Idle, rows, ends
  <2>2. CASE pc = "build"
    <3>1. failed' = 0 /\ exits' = <<>>
      BY <2>1, <2>2 DEF Rows, Reported
    <3>2. QED
      BY <3>1 DEF Reported, FailureReported
  <2>3. CASE pc # "build"
    <3>1. groups' = groups /\ steps' = steps /\ ignore_sigpipe' = ignore_sigpipe /\ pc' # "build"
      BY <1>2, <2>1, <2>3 DEF Idle, given
    <3>2. \A k, i : Harmless(k, i)' <=> Harmless(k, i)
      BY <2>1, <3>1 DEF Harmless
    <3>3. FailureReported'
      BY <2>1, <3>1, <3>2 DEF Reported, FailureReported
    <3>4. QED
      BY <3>1, <3>3 DEF Reported
  <2>4. QED
    BY <2>2, <2>3
<1>3. QED
  BY <1>1, <1>2, IdleOrRuns

\* If every tool accepts an exit of 0, as all do that leave ok_codes alone: failed_step is
\* a step of the last group and never a collect(), and a streaming group ends the run with
\* the first of its processes that really failed, or lets it go on if none did.  Without
\* the assumption it is false: see the finding about ok_codes without 0.
THEOREM ReportsFailure ==
    ASSUME ZeroIsOk
    PROVE  Spec => []FailureReported
<1>1. PlanInv /\ Rows /\ Reported /\ [Next]_vars => (PlanInv /\ Rows /\ Reported)'
  BY PlanStep, RowsStep, ReportStep
<1>2. Init => Reported
  BY DEF Init, Reported, FailureReported
<1>3. Reported => FailureReported
  BY DEF Reported
<1>4. QED
  BY <1>1, <1>2, <1>3, PlanInit, RowsInit, PTL DEF Spec
=============================================================================
