--------------------------- MODULE EachRunProofs ---------------------------
(* Theorems about EachRun, for any number of lines and of threads. *)
EXTENDS EachRun, SequenceTheorems, WellFoundedInduction, TLAPS

Rest == Paired /\ OneAtATime /\ Accounted /\ InOrder

\* The lines are numbers.
LEMMA LineNumbers ==
    /\ Count \in Nat
    /\ \A i : i \in Lines <=> i \in Int /\ 1 <= i /\ i <= Count
BY EachAssumption DEF Lines

\* each() begins with no line under way.
LEMMA InvInit == Init => TypeOK /\ Rest
<1> SUFFICES ASSUME Init PROVE TypeOK /\ Rest
  OBVIOUS
<1> USE EachAssumption, LineNumbers DEF Init
<1>1. next \in 1 .. Count + 1 /\ raising \in 0 .. Count + 1
  OBVIOUS
<1>2. TypeOK
  BY <1>1 DEF TypeOK
<1>3. Paired /\ OneAtATime /\ Accounted /\ InOrder
  BY DEF Paired, OneAtATime, Accounted, InOrder
<1> QED
  BY <1>2, <1>3 DEF Rest

\* Every step keeps the types.
LEMMA TypeStep == TypeOK /\ [Next]_vars => TypeOK'
<1> SUFFICES ASSUME TypeOK, [Next]_vars PROVE TypeOK'
  OBVIOUS
<1> USE LineNumbers DEF TypeOK, Goes, threadVars
<1>1. ASSUME NEW i \in Lines, Take(i) PROVE TypeOK'
  BY <1>1 DEF Take
<1>2. ASSUME NEW i \in Lines, Check(i) PROVE TypeOK'
  BY <1>2 DEF Check
<1>3. ASSUME NEW i \in Lines, Callback(i) PROVE TypeOK'
  BY <1>3 DEF Callback
<1>4. ASSUME NEW i \in Lines, Ends(i) PROVE TypeOK'
  BY <1>4 DEF Ends
<1>5. ASSUME NEW i \in Lines, Settle(i) PROVE TypeOK'
  BY <1>5 DEF Settle
<1>6. CASE SerialNext
  BY <1>6 DEF SerialNext
<1>7. CASE SerialRaises
  BY <1>7 DEF SerialRaises
<1>8. CASE SerialEnds
  BY <1>8 DEF SerialEnds
<1>9. CASE Submit
  BY <1>9 DEF Submit
<1>10. CASE SubmitRaises
  BY <1>10 DEF SubmitRaises
<1>11. CASE Submitted
  BY <1>11 DEF Submitted
<1>12. CASE Wait
  BY <1>12 DEF Wait
<1>13. CASE Scan
  <2>1. next' \in 1 .. Count + 1
    BY <1>13 DEF Scan
  <2>2. raising' \in 0 .. Count + 1
    BY <1>13 DEF Scan
  <2>3. pc' \in {"scan", "leave", "cancel"} /\ cancel' \in BOOLEAN /\ stopped' \in BOOLEAN
    BY <1>13 DEF Scan
  <2>4. line' = line /\ results' = results /\ workers' = workers
    BY <1>13 DEF Scan
  <2> QED
    BY <2>1, <2>2, <2>3, <2>4
<1>14. CASE CancelFutures
  BY <1>14 DEF CancelFutures
<1>15. CASE AbortAll
  BY <1>15 DEF AbortAll
<1>16. CASE Leave
  BY <1>16 DEF Leave
<1>17. CASE Stop
  BY <1>17 DEF Stop
<1>18. CASE UNCHANGED vars
  BY <1>18 DEF vars
<1> QED
  BY <1>1, <1>2, <1>3, <1>4, <1>5, <1>6, <1>7, <1>8, <1>9, <1>10, <1>11, <1>12, <1>13, <1>14, <1>15, <1>16, <1>17, <1>18
  DEF Next, EachStep, LineStep

\* Every step of a line, of each() and of stop() keeps the rest of the invariant.
LEMMA RestStep == TypeOK /\ Rest /\ [Next]_vars => Rest'
<1> SUFFICES ASSUME TypeOK, Rest, [Next]_vars PROVE Rest'
  OBVIOUS
<1> USE LineNumbers DEF TypeOK, Rest, Paired, OneAtATime, Accounted, InOrder, Goes, Serial, Ended,
        Idle, threadVars
<1>1. ASSUME NEW i \in Lines, Take(i) PROVE Rest'
  BY <1>1 DEF Take
<1>2. ASSUME NEW i \in Lines, Check(i) PROVE Rest'
  BY <1>2 DEF Check
<1>3. ASSUME NEW i \in Lines, Callback(i) PROVE Rest'
  BY <1>3 DEF Callback
<1>4. ASSUME NEW i \in Lines, Ends(i) PROVE Rest'
  <2>1. Paired'
    BY <1>4 DEF Ends
  <2>2. OneAtATime'
    BY <1>4 DEF Ends
  <2>3. Accounted'
    BY <1>4 DEF Ends
  <2>4. InOrder'
    BY <1>4 DEF Ends
  <2> QED
    BY <2>1, <2>2, <2>3, <2>4 DEF Rest
<1>5. ASSUME NEW i \in Lines, Settle(i) PROVE Rest'
  BY <1>5 DEF Settle
<1>6. CASE SerialNext
  <2>1. Paired'
    BY <1>6 DEF SerialNext, Active
  <2>2. OneAtATime'
    BY <1>6 DEF SerialNext, Active
  <2>3. Accounted'
    BY <1>6 DEF SerialNext, Active
  <2>4. InOrder'
    BY <1>6 DEF SerialNext, Active
  <2> QED
    BY <2>1, <2>2, <2>3, <2>4 DEF Rest
<1>7. CASE SerialRaises
  BY <1>7 DEF SerialRaises
<1>8. CASE SerialEnds
  <2>1. Paired'
    BY <1>8 DEF SerialEnds, Active
  <2>2. OneAtATime'
    BY <1>8 DEF SerialEnds, Active
  <2>3. Accounted'
    BY <1>8 DEF SerialEnds, Active
  <2>4. InOrder'
    BY <1>8 DEF SerialEnds, Active
  <2> QED
    BY <2>1, <2>2, <2>3, <2>4 DEF Rest
<1>9. CASE Submit
  <2>1. Paired'
    BY <1>9 DEF Submit
  <2>2. OneAtATime'
    BY <1>9 DEF Submit
  <2>3. Accounted'
    BY <1>9 DEF Submit
  <2>4. InOrder'
    BY <1>9 DEF Submit
  <2> QED
    BY <2>1, <2>2, <2>3, <2>4 DEF Rest
<1>10. CASE SubmitRaises
  <2>1. Paired'
    BY <1>10 DEF SubmitRaises
  <2>2. OneAtATime'
    BY <1>10 DEF SubmitRaises
  <2>3. Accounted'
    BY <1>10 DEF SubmitRaises
  <2>4. InOrder'
    BY <1>10 DEF SubmitRaises
  <2> QED
    BY <2>1, <2>2, <2>3, <2>4 DEF Rest
<1>11. CASE Submitted
  BY <1>11 DEF Submitted
<1>12. CASE Wait
  BY <1>12 DEF Wait
<1>13. CASE Scan
  <2>1. Paired'
    BY <1>13 DEF Scan
  <2>2. OneAtATime'
    BY <1>13 DEF Scan
  <2>3. Accounted'
    BY <1>13 DEF Scan
  <2>4. InOrder'
    BY <1>13 DEF Scan
  <2> QED
    BY <2>1, <2>2, <2>3, <2>4 DEF Rest
<1>14. CASE CancelFutures
  BY <1>14 DEF CancelFutures
<1>15. CASE AbortAll
  BY <1>15 DEF AbortAll
<1>16. CASE Leave
  BY <1>16 DEF Leave
<1>17. CASE Stop
  BY <1>17 DEF Stop
<1>18. CASE UNCHANGED vars
  BY <1>18 DEF vars
<1> QED
  BY <1>1, <1>2, <1>3, <1>4, <1>5, <1>6, <1>7, <1>8, <1>9, <1>10, <1>11, <1>12, <1>13, <1>14, <1>15, <1>16, <1>17, <1>18
  DEF Next, EachStep, LineStep

\* The inductive invariant of each().
THEOREM Invariant == Spec => []Inv
<1>1. TypeOK /\ Rest => Inv
  BY DEF Rest, Inv
<1> QED
  BY <1>1, InvInit, TypeStep, RestStep, PTL DEF Spec

\* No exception of a line is lost, on whatever thread and however late it is raised.
THEOREM ErrorsComeOut == Spec => []NoErrorLost
<1>1. Inv => NoErrorLost
  BY DEF Inv, Accounted, NoErrorLost, Returned
<1> QED
  BY <1>1, Invariant, PTL

\* When each() is over no thread runs a line, and if it raises the run is stopped.
THEOREM ThreadsAreQuiet == Spec => []QuietWhenOver
<1>1. Inv => QuietWhenOver
  BY DEF Inv, Accounted, QuietWhenOver, Idle, Active
<1> QED
  BY <1>1, Invariant, PTL

-----------------------------------------------------------------------------
(* The merge of the results *)

\* A set of numbers that is not empty has a least one.
LEMMA LeastNumber ==
    ASSUME NEW T \in SUBSET Nat, T # {}
    PROVE  \E n \in T : \A m \in T : n <= m
<1> DEFINE R == {ss \in Nat \X Nat : ss[1] < ss[2]}
<1>1. IsWellFoundedOn(R, Nat)
  BY NatLessThanWellFounded DEF OpToRel
<1>2. \A m, n \in T : m < n => <<m, n>> \in R
  OBVIOUS
<1> HIDE DEF R
<1>3. PICK n \in T : \A m \in T : <<m, n>> \notin R
  BY <1>1, WFMin
<1>4. \A m \in T : ~(m < n)
  BY <1>2, <1>3
<1>5. \A m \in T : m \in Nat /\ n \in Nat
  OBVIOUS
<1>6. QED
  BY <1>4, <1>5

\* A set of numbers with 0 and the successor of each of its numbers has all of them.
LEMMA Induction ==
    ASSUME NEW T \in SUBSET Nat, 0 \in T, \A n \in T : n + 1 \in T
    PROVE  \A n \in Nat : n \in T
<1> SUFFICES ASSUME Nat \ T # {} PROVE FALSE
  OBVIOUS
<1>1. PICK n \in Nat \ T : \A m \in Nat \ T : n <= m
  BY LeastNumber
<1>2. n - 1 \in Nat /\ n - 1 \in T
  BY <1>1
<1>3. QED
  BY <1>1, <1>2

\* FoldLeft applies MergeLine to one line after the other.
LEMMA MergeFold ==
    ASSUME NEW n \in Nat, NEW s, DOMAIN s = 1 .. n
    PROVE  \E acc : /\ acc[0] = <<>>
                    /\ \A i \in 1 .. n : acc[i] = MergeLine(acc[i - 1], s[i])
                    /\ FoldLeft(MergeLine, <<>>, s) = acc[n]
<1> DEFINE nxt(f, S) == IF S = {} THEN <<>> ELSE MergeLine(f[S \ {Max(S)}], s[Max(S)])
           has(k) == \E f : \A S \in SUBSET (1 .. k) : f[S] = nxt(f, S)
           T == {k \in Nat : has(k)}
<1>1. 0 \in T
  <2>1. \A S \in SUBSET (1 .. 0) : S = {}
    OBVIOUS
  <2>2. \A S \in SUBSET (1 .. 0) : [R \in SUBSET (1 .. 0) |-> <<>>][S] = nxt([R \in SUBSET (1 .. 0) |-> <<>>], S)
    BY <2>1
  <2>3. QED
    BY <2>2
<1>2. ASSUME NEW k \in T PROVE k + 1 \in T
  <2>1. k \in Nat
    OBVIOUS
  <2>2. PICK f : \A S \in SUBSET (1 .. k) : f[S] = nxt(f, S)
    OBVIOUS
  <2> DEFINE g == [S \in SUBSET (1 .. k + 1) |->
                     IF k + 1 \in S THEN MergeLine(f[S \ {k + 1}], s[k + 1]) ELSE f[S]]
  <2> HIDE DEF T
  <2>3. ASSUME NEW S \in SUBSET (1 .. k + 1) PROVE g[S] = nxt(g, S)
    <3>1. CASE k + 1 \in S
      <4>1. Max(S) = k + 1
        <5>1. \A y \in S : y <= k + 1 /\ y \in Nat
          BY <2>1
        <5>2. k + 1 \in S /\ \A x \in S : (\A y \in S : x >= y) => x = k + 1
          BY <5>1, <3>1, <2>1
        <5>3. \E x \in S : \A y \in S : x >= y
          BY <5>1, <3>1, <2>1
        <5>4. QED
          BY <5>2, <5>3 DEF Max
      <4>2. S \ {k + 1} \in SUBSET (1 .. k) /\ S \ {k + 1} \in SUBSET (1 .. k + 1)
        BY <2>1
      <4>3. g[S \ {k + 1}] = f[S \ {k + 1}]
        BY <4>2
      <4>4. g[S] = MergeLine(f[S \ {k + 1}], s[k + 1]) /\ S # {}
        BY <3>1
      <4>5. QED
        BY <4>1, <4>3, <4>4
    <3>2. CASE k + 1 \notin S
      <4>1. S \in SUBSET (1 .. k)
        BY <3>2, <2>1
      <4>2. g[S] = f[S]
        BY <3>2
      <4>3. g[S \ {Max(S)}] = f[S \ {Max(S)}]
        <5> DEFINE R == S \ {Max(S)}
        <5>1. R \in SUBSET (1 .. k + 1) /\ k + 1 \notin R
          BY <3>2
        <5> HIDE DEF R
        <5>2. g[R] = f[R]
          BY <5>1
        <5>3. QED
          BY <5>2 DEF R
      <4>4. f[S] = nxt(f, S)
        BY <2>2, <4>1
      <4> HIDE DEF g
      <4>5. QED
        BY <4>2, <4>3, <4>4
    <3>3. QED
      BY <3>1, <3>2
  <2> HIDE DEF g
  <2>4. has(k + 1)
    BY <2>3
  <2>5. k + 1 \in Nat
    BY <2>1
  <2> HIDE DEF has
  <2>6. QED
    BY <2>4, <2>5 DEF T
<1>3. n \in T
  <2> HIDE DEF T
  <2>1. T \in SUBSET Nat
    BY DEF T
  <2>2. QED
    BY <1>1, <1>2, <2>1, Induction
<1> DEFINE Iter(f) == f = [S \in SUBSET (1 .. n) |-> nxt(f, S)]
<1>4. \E f : Iter(f)
  <2>1. PICK f : \A S \in SUBSET (1 .. n) : f[S] = nxt(f, S)
    BY <1>3
  <2> DEFINE g == [S \in SUBSET (1 .. n) |-> f[S]]
  <2>2. ASSUME NEW S \in SUBSET (1 .. n) PROVE g[S] = nxt(g, S)
    <3>1. S \ {Max(S)} \in SUBSET (1 .. n)
      OBVIOUS
    <3>2. g[S] = f[S] /\ g[S \ {Max(S)}] = f[S \ {Max(S)}]
      BY <3>1
    <3>3. f[S] = nxt(f, S)
      BY <2>1
    <3> HIDE DEF g
    <3>4. QED
      BY <3>2, <3>3
  <2>3. Iter(g)
    BY <2>2
  <2>4. QED
    BY <2>3
<1> DEFINE iter == CHOOSE f : Iter(f)
<1>5. FoldLeft(MergeLine, <<>>, s) = iter[1 .. n]
  BY DEF FoldLeft, MapThenFoldSet
<1>6. \A S \in SUBSET (1 .. n) : iter[S] = nxt(iter, S)
  <2>1. Iter(iter)
    BY <1>4
  <2> HIDE DEF iter
  <2>2. QED
    BY <2>1
<1> HIDE DEF iter
<1> DEFINE acc == [i \in 0 .. n |-> iter[1 .. i]]
<1>7. acc[0] = <<>>
  <2>1. 1 .. 0 = {} /\ 1 .. 0 \in SUBSET (1 .. n)
    OBVIOUS
  <2>2. iter[1 .. 0] = <<>>
    BY <1>6, <2>1
  <2>3. QED
    BY <2>2
<1>8. ASSUME NEW i \in 1 .. n PROVE acc[i] = MergeLine(acc[i - 1], s[i])
  <2>1. /\ i \in 1 .. i /\ \A x \in 1 .. i : i >= x
        /\ \A x \in 1 .. i : (\A y \in 1 .. i : x >= y) => x = i
    OBVIOUS
  <2>2. Max(1 .. i) = i
    BY <2>1 DEF Max
  <2>3. (1 .. i) \ {i} = 1 .. i - 1 /\ 1 .. i \in SUBSET (1 .. n) /\ 1 .. i # {}
    OBVIOUS
  <2>4. iter[1 .. i] = MergeLine(iter[1 .. i - 1], s[i])
    BY <1>6, <2>2, <2>3
  <2>5. acc[i] = iter[1 .. i] /\ acc[i - 1] = iter[1 .. i - 1]
    OBVIOUS
  <2>6. QED
    BY <2>4, <2>5
<1>9. FoldLeft(MergeLine, <<>>, s) = acc[n]
  BY <1>5
<1>10. QED
  BY <1>7, <1>8, <1>9


\* What the loop of merge_lines() has once it has been at the first n results.
Takes(ms, n) ==
    /\ ms \in Seq(1 .. n)
    /\ ToSet(ms) = {j \in 1 .. n : /\ results[j] # "none"
                                   /\ \A f \in 1 .. n : results[f] = "failed" => j <= f}
    /\ \A k \in 1 .. Len(ms) - 1 : ms[k] < ms[k + 1]
    /\ (\E f \in 1 .. n : results[f] = "failed") =>
         ms # <<>> /\ results[ms[Len(ms)]] = "failed"
    /\ (\A j \in 1 .. n : results[j] = "ok") => ms = [j \in 1 .. n |-> j]

LEMMA MergeStep ==
    ASSUME NEW i \in Nat \ {0}, NEW a, Takes(a, i - 1)
    PROVE  Takes(MergeLine(a, i), i)
<1>1. /\ a \in Seq(1 .. i - 1) /\ a \in Seq(1 .. i) /\ Len(a) \in Nat /\ DOMAIN a = 1 .. Len(a)
      /\ \A k \in 1 .. Len(a) : a[k] \in 1 .. i - 1
      /\ \A j : j \in 1 .. i <=> j \in 1 .. i - 1 \/ j = i
  <2>1. 1 .. i - 1 \subseteq 1 .. i
    OBVIOUS
  <2>2. QED
    BY <2>1, SeqMonotonic DEF Takes
<1>2. ToSet(a) = {a[k] : k \in 1 .. Len(a)}
  BY <1>1 DEF ToSet
<1>3. (\E k \in DOMAIN a : results[a[k]] = "failed") <=> \E f \in 1 .. i - 1 : results[f] = "failed"
  <2>1. a # <<>> => Len(a) \in 1 .. Len(a)
    BY <1>1, EmptySeq
  <2>2. QED
    BY <1>1, <2>1 DEF Takes
<1>4. CASE results[i] = "none" \/ \E f \in 1 .. i - 1 : results[f] = "failed"
  <2>1. MergeLine(a, i) = a
    BY <1>3, <1>4 DEF MergeLine
  <2>2. {j \in 1 .. i : results[j] # "none" /\ \A f \in 1 .. i : results[f] = "failed" => j <= f}
        = {j \in 1 .. i - 1 : results[j] # "none" /\ \A f \in 1 .. i - 1 : results[f] = "failed" => j <= f}
    <3>1. \A j \in 1 .. i - 1 : j <= i
      OBVIOUS
    <3>2. \A f \in 1 .. i - 1 : ~(i <= f)
      OBVIOUS
    <3>3. QED
      BY <1>1, <1>4, <3>1, <3>2
  <2>3. (\E f \in 1 .. i : results[f] = "failed") => \E f \in 1 .. i - 1 : results[f] = "failed"
    BY <1>1, <1>4
  <2>4. ~\A j \in 1 .. i : results[j] = "ok"
    BY <1>1, <1>4
  <2>5. Takes(a, i)
    <3>1. a \in Seq(1 .. i) /\ \A k \in 1 .. Len(a) - 1 : a[k] < a[k + 1]
      BY <1>1 DEF Takes
    <3>2. ToSet(a) = {j \in 1 .. i : /\ results[j] # "none"
                                     /\ \A f \in 1 .. i : results[f] = "failed" => j <= f}
      BY <2>2 DEF Takes
    <3>3. (\E f \in 1 .. i : results[f] = "failed") => a # <<>> /\ results[a[Len(a)]] = "failed"
      BY <2>3 DEF Takes
    <3>4. QED
      BY <2>4, <3>1, <3>2, <3>3 DEF Takes
  <2>6. QED
    BY <2>1, <2>5
<1>5. CASE results[i] # "none" /\ ~\E f \in 1 .. i - 1 : results[f] = "failed"
  <2> DEFINE b == Append(a, i)
             n == Len(a)
  <2>1. MergeLine(a, i) = b
    BY <1>3, <1>5 DEF MergeLine
  <2>2. /\ b \in Seq(1 .. i) /\ Len(b) = n + 1 /\ b[n + 1] = i /\ b # <<>>
        /\ \A k \in 1 .. n : b[k] = a[k]
    BY <1>1, AppendProperties
  <2>3. n \in Nat /\ n + 1 - 1 = n /\ DOMAIN b = 1 .. n + 1
        /\ \A k : k \in 1 .. n + 1 <=> k \in 1 .. n \/ k = n + 1
    BY <1>1, <2>2
  <2> HIDE DEF b, n
  <2>4. ToSet(b) = ToSet(a) \cup {i}
    BY <1>2, <2>2, <2>3 DEF ToSet, n
  <2>5. ToSet(b) = {j \in 1 .. i : /\ results[j] # "none"
                                   /\ \A f \in 1 .. i : results[f] = "failed" => j <= f}
    <3>1. ToSet(a) = {j \in 1 .. i - 1 : results[j] # "none"}
      BY <1>5 DEF Takes
    <3>2. \A j \in 1 .. i : j <= i
      OBVIOUS
    <3>3. QED
      BY <1>1, <1>5, <2>4, <3>1, <3>2
  <2>6. ASSUME NEW k \in 1 .. n PROVE b[k] < b[k + 1]
    <3>1. CASE k = n
      <4>1. b[k] \in 1 .. i - 1 /\ b[k + 1] = i
        BY <1>1, <2>2, <3>1 DEF n
      <4>2. QED
        BY <4>1
    <3>2. CASE k # n
      <4>1. k \in 1 .. n - 1 /\ k + 1 \in 1 .. n
        BY <2>3, <3>2
      <4>2. a[k] < a[k + 1]
        BY <4>1 DEF Takes, n
      <4>3. QED
        BY <2>2, <4>1, <4>2
    <3>3. QED
      BY <3>1, <3>2
  <2>7. (\E f \in 1 .. i : results[f] = "failed") => results[b[Len(b)]] = "failed"
    BY <1>1, <1>5, <2>2
  <2>8. ASSUME \A j \in 1 .. i : results[j] = "ok" PROVE b = [j \in 1 .. i |-> j]
    <3>1. a = [j \in 1 .. i - 1 |-> j]
      BY <1>1, <2>8 DEF Takes
    <3>2. n = i - 1
      <4>1. DOMAIN a = 1 .. i - 1
        BY <3>1
      <4>2. i - 1 \in Nat
        OBVIOUS
      <4>3. QED
        BY <1>1, <4>1, <4>2, LenProperties DEF n
    <3>3. \A k \in 1 .. i : b[k] = k
      BY <1>1, <2>2, <3>1, <3>2
    <3>4. DOMAIN b = 1 .. i /\ b = [k \in DOMAIN b |-> b[k]]
      BY <2>2, <2>3, <3>2
    <3>5. QED
      BY <3>3, <3>4
  <2>9. QED
    BY <2>1, <2>2, <2>3, <2>5, <2>6, <2>7, <2>8 DEF Takes
<1>6. QED
  BY <1>4, <1>5

LEMMA MergeTakes == Takes(Merge, Count)
<1> DEFINE s == [i \in Lines |-> i]
<1>1. Count \in Nat /\ DOMAIN s = 1 .. Count /\ \A i \in 1 .. Count : s[i] = i
  BY EachAssumption DEF Lines
<1> HIDE DEF s
<1>2. PICK acc : /\ acc[0] = <<>>
                 /\ \A i \in 1 .. Count : acc[i] = MergeLine(acc[i - 1], s[i])
                 /\ FoldLeft(MergeLine, <<>>, s) = acc[Count]
  BY <1>1, MergeFold
<1> DEFINE T == {n \in Nat : n \in 0 .. Count => Takes(acc[n], n)}
<1>3. 0 \in T
  <2>1. Takes(<<>>, 0)
    <3>1. 1 .. 0 = {} /\ DOMAIN <<>> = {} /\ Len(<<>>) = 0 /\ <<>> \in Seq(1 .. 0)
      OBVIOUS
    <3>2. ToSet(<<>>) = {}
      BY DEF ToSet
    <3>3. <<>> = [j \in 1 .. 0 |-> j]
      OBVIOUS
    <3>4. QED
      BY <3>1, <3>2, <3>3 DEF Takes
  <2>2. QED
    BY <1>2, <2>1
<1>4. ASSUME NEW n \in Nat, n \in T PROVE n + 1 \in T
  <2>1. CASE n + 1 \in 0 .. Count
    <3>1. n \in 0 .. Count /\ n + 1 \in 1 .. Count /\ n + 1 - 1 = n /\ n + 1 \in Nat \ {0}
      BY <1>1, <2>1
    <3>2. acc[n + 1] = MergeLine(acc[n], n + 1)
      BY <1>1, <1>2, <3>1
    <3>3. Takes(acc[n], n)
      BY <1>4, <3>1
    <3> HIDE DEF T
    <3>4. Takes(acc[n + 1], n + 1)
      BY <3>1, <3>2, <3>3, MergeStep
    <3>5. QED
      BY <3>1, <3>4 DEF T
  <2>2. CASE n + 1 \notin 0 .. Count
    BY <2>2
  <2>3. QED
    BY <2>1, <2>2
<1>5. Count \in T
  <2>1. T \in SUBSET Nat
    OBVIOUS
  <2> HIDE DEF T
  <2>2. QED
    BY <1>1, <1>3, <1>4, <2>1, Induction
<1>6. Count \in 0 .. Count
  BY <1>1
<1>7. QED
  BY <1>2, <1>5, <1>6 DEF Merge, s

\* A cancelled pool has an outcome that failed, or each() raises.
Called ==
    /\ cancel => raising # 0 \/ \E i \in Lines : results[i] = "failed"
    /\ \A i \in Lines : line[i] = "cancelled" => raising # 0

LEMMA CalledStep == TypeOK /\ Rest /\ Called /\ [Next]_vars => Called'
<1> SUFFICES ASSUME TypeOK, Rest, Called, [Next]_vars PROVE Called'
  OBVIOUS
<1> USE LineNumbers DEF TypeOK, Called, Goes, threadVars
<1>1. ASSUME NEW i \in Lines, Take(i) PROVE Called'
  BY <1>1 DEF Take
<1>2. ASSUME NEW i \in Lines, Check(i) PROVE Called'
  BY <1>2 DEF Check
<1>3. ASSUME NEW i \in Lines, Callback(i) PROVE Called'
  BY <1>3 DEF Callback
<1>4. ASSUME NEW i \in Lines, Ends(i) PROVE Called'
  <2>1. results[i] = "none"
    BY <1>4 DEF Ends, Rest, Paired
  <2>2. QED
    BY <1>4, <2>1 DEF Ends
<1>5. ASSUME NEW i \in Lines, Settle(i) PROVE Called'
  BY <1>5 DEF Settle
<1>6. CASE SerialNext
  <2>1. next \in Lines
    BY <1>6 DEF SerialNext
  <2>2. QED
    BY <1>6, <2>1 DEF SerialNext
<1>7. CASE SerialRaises
  BY <1>7 DEF SerialRaises
<1>8. CASE SerialEnds \/ Submitted \/ Wait \/ Leave \/ Stop
  BY <1>8 DEF SerialEnds, Submitted, Wait, Leave, Stop
<1>9. CASE Submit
  BY <1>9 DEF Submit
<1>10. CASE SubmitRaises
  BY <1>10 DEF SubmitRaises
<1>11. CASE Scan
  BY <1>11 DEF Scan
<1>12. CASE CancelFutures
  BY <1>12 DEF CancelFutures, Rest, Accounted
<1>13. CASE AbortAll
  BY <1>13 DEF AbortAll, Rest, Accounted
<1>14. CASE UNCHANGED vars
  BY <1>14 DEF vars
<1>15. QED
  BY <1>1, <1>2, <1>3, <1>4, <1>5, <1>6, <1>7, <1>8, <1>9, <1>10, <1>11, <1>12, <1>13, <1>14
     DEF Next, EachStep, LineStep

\* Nothing changes once each() is over.
LEMMA OverStops == Rest /\ pc = "over" /\ [Next]_vars => UNCHANGED vars
<1> SUFFICES ASSUME Rest, pc = "over", [Next]_vars PROVE UNCHANGED vars
  OBVIOUS
<1>1. \A i \in Lines : line[i] \in {"new", "done", "skipped", "raised", "cancelled"}
  BY DEF Rest, Accounted, Idle
<1>2. ASSUME NEW i \in Lines PROVE ~LineStep(i)
  BY <1>1 DEF LineStep, Take, Check, Callback, Ends, Settle
<1>3. ~EachStep /\ ~SubmitRaises /\ ~Stop
  BY DEF EachStep, SerialNext, SerialRaises, SerialEnds, Submit, Submitted, Wait, Scan,
         CancelFutures, Leave, AbortAll, SubmitRaises, Stop
<1>4. QED
  BY <1>2, <1>3 DEF Next

LEMMA ReportStep ==
    ASSUME TypeOK, Rest, Called, FirstFailureReported, [Next]_vars
    PROVE  FirstFailureReported'
<1>1. CASE pc = "over"
  <2>1. UNCHANGED vars
    BY <1>1, OverStops
  <2>2. QED
    BY <2>1 DEF FirstFailureReported, Returned, vars, threadVars
<1>2. CASE pc # "over" /\ Returned'
  <2>1. Leave /\ raising = 0 /\ merged' = Merge /\ UNCHANGED <<line, cancel, results, stopped>>
    <3>1. pc' = "over" /\ raising' = 0
      BY <1>2 DEF Returned
    <3>2. ~AbortAll
      BY <3>1 DEF AbortAll, Rest, Accounted
    <3>3. Leave
      BY <1>2, <3>1, <3>2 DEF Next, EachStep, LineStep, Take, Check, Callback, Ends, Settle,
         SerialNext, SerialRaises, SerialEnds, Submit, SubmitRaises, Submitted, Wait, Scan,
         CancelFutures, Stop, vars
    <3>4. QED
      BY <3>1, <3>3 DEF Leave, threadVars
  <2>2. Takes(merged', Count)
    BY <2>1, MergeTakes
  <2>3. ASSUME \A i \in Lines : results[i] # "failed", ~stopped, NEW i \in Lines
        PROVE  results[i] = "ok"
    <3>1. ~cancel /\ line[i] # "cancelled"
      BY <2>1, <2>3 DEF Called
    <3>2. line[i] # "skipped"
      BY <2>3, <3>1 DEF Rest, Paired
    <3>3. line[i] \in {"done", "skipped", "cancelled"}
      BY <2>1 DEF Leave, Rest, Accounted
    <3>4. results[i] # "none"
      BY <3>1, <3>2, <3>3 DEF Rest, Paired
    <3>5. QED
      BY <2>3, <3>4 DEF TypeOK
  <2>4. QED
    BY <2>1, <2>2, <2>3 DEF Takes, FirstFailureReported, Lines
<1>3. CASE ~Returned'
  BY <1>3 DEF FirstFailureReported
<1>4. QED
  BY <1>1, <1>2, <1>3

\* Whatever the pool's threads do and in whatever order the lines end, each() without an
\* exception reports the first failure in input order with every success before it, and
\* without a failure and a stop the output of every line, in input order.
THEOREM FirstFailureIsReported == Spec => []FirstFailureReported
<1>1. Init => Called /\ FirstFailureReported
  <2> SUFFICES ASSUME Init PROVE Called /\ FirstFailureReported
    OBVIOUS
  <2>1. QED
    BY DEF Init, Called, FirstFailureReported, Returned
<1>2. TypeOK /\ Rest /\ Called /\ FirstFailureReported /\ [Next]_vars
        => (TypeOK /\ Rest /\ Called /\ FirstFailureReported)'
  BY TypeStep, RestStep, CalledStep, ReportStep
<1>3. QED
  BY <1>1, <1>2, InvInit, PTL DEF Spec
=============================================================================
