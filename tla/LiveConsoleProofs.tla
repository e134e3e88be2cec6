------------------------- MODULE LiveConsoleProofs -------------------------
(***************************************************************************)
(* Theorems about LiveConsole, for any number of jobs, sources, lines and  *)
(* messages, and any height of the terminal: first blocks mode, where the  *)
(* renderer and close() take what is committed; then what every mode       *)
(* retains and how high the live area is; then what grouped and lines mode *)
(* show.                                                                   *)
(***************************************************************************)
EXTENDS LiveConsole, SequenceTheorems, FiniteSetTheorems, TLAPS

Row == ({"ok", "failed"} \X Jobs) \cup ({"line"} \X Sources \X Nat) \cup ({"message"} \X Nat)

Rows ==
    /\ screen \in Seq(Row) /\ commits \in Seq(Row) /\ log \in Seq(Row)
    /\ frame.commits \in Seq(Row)
    /\ lines \in [Jobs -> Seq(Row)]
    /\ sent \in [Sources -> Nat] /\ said \in Nat

\* Whose turn it is to write: the renderer's, then close()'s.
Turns ==
    /\ renderer \in {"idle", "writing", "over"}
    /\ closer \in {"open", "stopping", "last", "writing", "closed"}
    /\ closer \in {"last", "writing", "closed"} => renderer = "over"
    /\ renderer # "writing" /\ closer # "writing" => frame.commits = <<>>
    /\ closer = "writing" => frame.rows = 0
    /\ closer = "closed" => drawn = 0
    /\ job \in [Jobs -> {"none", "running", "ok", "failed"}]
    /\ closer # "open" => \A j \in Jobs : job[j] # "running"

Kept == ~broken => (screen \o frame.commits) \o commits = log

Summary(j) == <<job[j], j>>

\* The summary of a finished job is on its way to the screen.
Summed ==
    \A j \in Jobs : Ended(j) =>
      /\ Summary(j) \in ToSet(log)
      /\ ~broken /\ closer = "writing" => Summary(j) \in ToSet(screen \o frame.commits)
      /\ ~broken /\ closer = "closed" => Summary(j) \in ToSet(screen)

IInv == mode = "blocks" => Rows /\ Turns /\ Kept /\ Summed

-----------------------------------------------------------------------------

\* What a block retains of its lines are lines.
LEMMA LastOfSeq ==
    ASSUME NEW T, NEW s \in Seq(T), NEW n \in Nat \ {0}
    PROVE  LastOf(n, s) \in Seq(T)
<1>1. CASE Len(s) <= n
  BY <1>1 DEF LastOf
<1>2. CASE Len(s) > n
  <2>1. /\ Len(s) - n + 1 \in Int /\ Len(s) \in Int
        /\ \A i \in Len(s) - n + 1 .. Len(s) : s[i] \in T
    BY <1>2, ElementOfSeq, LenProperties
  <2>2. SubSeq(s, Len(s) - n + 1, Len(s)) \in Seq(T)
    BY <2>1, SubSeqProperties
  <2>3. QED
    BY <1>2, <2>2, LenProperties DEF LastOf
<1>3. QED
  BY <1>1, <1>2, LenProperties

\* What is in one of two sequences is in the two of them together.
LEMMA InEither ==
    ASSUME NEW T, NEW s \in Seq(T), NEW t \in Seq(T), NEW x, x \in ToSet(s) \/ x \in ToSet(t)
    PROVE  x \in ToSet(s \o t)
<1> USE LenProperties, ConcatProperties DEF ToSet
<1>1. CASE x \in ToSet(s)
  <2>1. PICK i \in 1 .. Len(s) : x = s[i]
    BY <1>1
  <2>2. i \in 1 .. Len(s \o t) /\ (s \o t)[i] = x
    BY <2>1
  <2>3. QED
    BY <2>2
<1>2. CASE x \in ToSet(t)
  <2>1. PICK i \in 1 .. Len(t) : x = t[i]
    BY <1>2
  <2>2. Len(s) + i \in 1 .. Len(s \o t) /\ (s \o t)[Len(s) + i] = x
    BY <2>1
  <2>3. QED
    BY <2>2
<1>3. QED
  BY <1>1, <1>2

\* The lines that a write completes.
LEMMA LinesAreRows ==
    ASSUME NEW s \in Sources, sent[s] \in Nat, NEW n \in Nat
    PROVE  NewLines(s, n) \in Seq(Row)
<1>1. PICK before \in Nat : before = sent[s] \div 2
  OBVIOUS
<1>2. PICK m \in Nat : m = ((sent[s] + n) \div 2) - (sent[s] \div 2)
  OBVIOUS
<1>3. NewLines(s, n) = [k \in 1 .. m |-> Line(s, before + k)]
  BY <1>1, <1>2 DEF NewLines
<1>4. \A k \in 1 .. m : Line(s, before + k) \in Row
  BY DEF Line, Row
<1>5. [k \in 1 .. m |-> Line(s, before + k)] \in Seq(Row)
  BY <1>4
<1>6. QED
  BY <1>3, <1>5

\* What a job adds in blocks mode are rows, of lines.
LEMMA AddRows ==
    ASSUME mode = "blocks", Rows, NEW j \in Jobs, NEW new \in Seq(Row), Add(j, new)
    PROVE  /\ lines' \in [Jobs -> Seq(Row)]
           /\ UNCHANGED <<screen, broken>>
<1>1. Keep \in Nat \ {0}
  BY ConsoleAssumption
<1>2. lines[j] \in Seq(Row) /\ LastOf(Keep, new) \in Seq(Row)
  BY <1>1, LastOfSeq DEF Rows
<1>3. LastOf(Keep, lines[j] \o LastOf(Keep, new)) \in Seq(Row)
  BY <1>1, <1>2, LastOfSeq, ConcatProperties
<1>4. /\ lines' = [lines EXCEPT ![j] = LastOf(Keep, lines[j] \o LastOf(Keep, new))]
      /\ UNCHANGED <<screen, broken>>
  BY DEF Add
<1>5. QED
  BY <1>3, <1>4 DEF Rows

\* The console begins with an empty screen.
LEMMA InvInit == Init => IInv
<1> SUFFICES ASSUME Init, mode = "blocks" PROVE Rows /\ Turns /\ Kept /\ Summed
  BY DEF IInv
<1>1. Rows
  BY DEF Init, Rows, NoFrame
<1>2. Turns
  BY DEF Init, Turns, NoFrame
<1>3. Kept
  BY DEF Init, Kept, NoFrame
<1>4. Summed
  BY DEF Init, Summed, Ended
<1>5. QED
  BY <1>1, <1>2, <1>3, <1>4

\* What is committed, retained and shown are rows.
LEMMA RowsStep == mode = "blocks" /\ Rows /\ [Next]_vars => Rows'
<1> SUFFICES ASSUME mode = "blocks", Rows, [Next]_vars PROVE Rows'
  OBVIOUS
<1> USE DEF Rows, sourceVars, jobVars, areaVars, modelVars
<1>1. ASSUME NEW j \in Jobs, Start(j) PROVE Rows'
  BY <1>1 DEF Start
<1>2. ASSUME NEW j \in Jobs, NEW rc \in {"ok", "failed"}, Finish(j, rc) PROVE Rows'
  <2>1. <<rc, j>> \in Row /\ lines[j] \in Seq(Row)
    BY DEF Row
  <2>2. <<<<rc, j>>>> \o (IF rc = "failed" THEN lines[j] ELSE <<>>) \in Seq(Row)
    BY <2>1, ConcatProperties
  <2>3. PICK new \in Seq(Row) : /\ commits' = commits \o new /\ log' = log \o new
                                /\ UNCHANGED <<lines, screen>>
    BY <1>2, <2>2 DEF Finish, Commit
  <2>4. commits' \in Seq(Row) /\ log' \in Seq(Row)
    BY <2>3, ConcatProperties
  <2>5. QED
    BY <1>2, <2>3, <2>4 DEF Finish
<1>3. ASSUME NEW s \in Sources, Open(s) PROVE Rows'
  BY <1>3 DEF Open
<1>4. ASSUME NEW s \in Sources, WriteBytes(s) PROVE Rows'
  <2>1. JobOf[s] \in Jobs /\ Pieces[s] \in Nat /\ sent[s] \in Nat
    BY ConsoleAssumption
  <2>2. PICK n \in 1 .. Pieces[s] - sent[s] :
          sent' = [sent EXCEPT ![s] = sent[s] + n] /\ Add(JobOf[s], NewLines(s, n))
    BY <1>4 DEF WriteBytes
  <2>3. n \in Nat /\ sent[s] + n \in Nat
    BY <2>1, <2>2
  <2>4. lines' \in [Jobs -> Seq(Row)] /\ UNCHANGED <<screen, broken>>
    BY <2>1, <2>2, <2>3, LinesAreRows, AddRows
  <2>5. sent' \in [Sources -> Nat]
    BY <2>2, <2>3
  <2>6. QED
    BY <1>4, <2>4, <2>5 DEF WriteBytes
<1>5. ASSUME NEW s \in Sources, Done(s) PROVE Rows'
  <2>1. JobOf[s] \in Jobs /\ sent[s] \in Nat
    BY ConsoleAssumption
  <2>2. Line(s, sent[s] \div 2 + 1) \in Row
    BY <2>1 DEF Line, Row
  <2>3. (IF Partial(s) THEN <<Line(s, sent[s] \div 2 + 1)>> ELSE <<>>) \in Seq(Row)
    BY <2>2
  <2>4. lines' \in [Jobs -> Seq(Row)] /\ UNCHANGED <<screen, broken>>
    BY <1>5, <2>1, <2>3, AddRows DEF Done
  <2>5. QED
    BY <1>5, <2>4 DEF Done
<1>6. CASE Message
  <2>1. <<"message", said'>> \in Row
    BY <1>6 DEF Message, Row
  <2>2. QED
    BY <1>6, <2>1, ConcatProperties DEF Message, Commit
<1>7. CASE RenderSnapshot
  BY <1>7 DEF RenderSnapshot, Swap
<1>8. CASE RenderDraw
  <2>1. screen' = screen \/ screen' = screen \o frame.commits
    BY <1>8 DEF RenderDraw, Draw, Write
  <2>2. frame'.commits = <<>>
    BY <1>8 DEF RenderDraw, Draw, NoFrame
  <2>3. screen' \in Seq(Row)
    BY <2>1, ConcatProperties
  <2>4. QED
    BY <1>8, <2>2, <2>3, EmptySeq DEF RenderDraw
<1>9. CASE RendererEnds
  BY <1>9 DEF RendererEnds
<1>10. CASE CloseStart
  BY <1>10 DEF CloseStart
<1>11. CASE CloseJoin
  BY <1>11 DEF CloseJoin
<1>12. CASE CloseSnapshot
  BY <1>12 DEF CloseSnapshot, Swap
<1>13. CASE CloseDraw
  <2>1. screen' = screen \/ screen' = screen \o frame.commits
    BY <1>13 DEF CloseDraw, Draw, Write
  <2>2. frame'.commits = <<>>
    BY <1>13 DEF CloseDraw, Draw, NoFrame
  <2>3. screen' \in Seq(Row)
    BY <2>1, ConcatProperties
  <2>4. QED
    BY <1>13, <2>2, <2>3, EmptySeq DEF CloseDraw
<1>14. CASE UNCHANGED vars
  BY <1>14 DEF vars
<1> QED
  BY <1>1, <1>2, <1>3, <1>4, <1>5, <1>6, <1>7, <1>8, <1>9, <1>10, <1>11, <1>12, <1>13, <1>14 DEF Next

\* The renderer ends before close() writes, and no job is running by then.
LEMMA TurnsStep == mode = "blocks" /\ Turns /\ [Next]_vars => Turns'
<1> SUFFICES ASSUME mode = "blocks", Turns, [Next]_vars PROVE Turns'
  OBVIOUS
<1> USE DEF Turns, sourceVars, jobVars, areaVars, modelVars
<1>1. ASSUME NEW j \in Jobs, Start(j) PROVE Turns'
  BY <1>1 DEF Start
<1>2. ASSUME NEW j \in Jobs, NEW rc \in {"ok", "failed"}, Finish(j, rc) PROVE Turns'
  BY <1>2 DEF Finish
<1>3. ASSUME NEW s \in Sources, Open(s) PROVE Turns'
  BY <1>3 DEF Open
<1>4. ASSUME NEW s \in Sources, WriteBytes(s) PROVE Turns'
  BY <1>4 DEF WriteBytes
<1>5. ASSUME NEW s \in Sources, Done(s) PROVE Turns'
  BY <1>5 DEF Done
<1>6. CASE Message
  BY <1>6 DEF Message
<1>7. CASE RenderSnapshot
  BY <1>7 DEF RenderSnapshot, Swap
<1>8. CASE RenderDraw
  BY <1>8 DEF RenderDraw, Draw, NoFrame
<1>9. CASE RendererEnds
  BY <1>9 DEF RendererEnds
<1>10. CASE CloseStart
  BY <1>10 DEF CloseStart
<1>11. CASE CloseJoin
  BY <1>11 DEF CloseJoin
<1>12. CASE CloseSnapshot
  BY <1>12 DEF CloseSnapshot, Swap
<1>13. CASE CloseDraw
  BY <1>13 DEF CloseDraw, Draw, NoFrame
<1>14. CASE UNCHANGED vars
  BY <1>14 DEF vars
<1> QED
  BY <1>1, <1>2, <1>3, <1>4, <1>5, <1>6, <1>7, <1>8, <1>9, <1>10, <1>11, <1>12, <1>13, <1>14 DEF Next

\* What is committed is on the screen, about to be drawn, or waiting, in this order.
LEMMA KeptStep == mode = "blocks" /\ Rows /\ Turns /\ Kept /\ [Next]_vars => Kept'
<1> SUFFICES ASSUME mode = "blocks", Rows, Turns, Kept, [Next]_vars PROVE Kept'
  OBVIOUS
<1>1. ASSUME NEW j \in Jobs, Start(j) PROVE Kept'
  BY <1>1 DEF Start, Kept, modelVars, areaVars
<1>2. ASSUME NEW j \in Jobs, NEW rc \in {"ok", "failed"}, Finish(j, rc) PROVE Kept'
  <2>1. PICK new \in Seq(Row) : /\ commits' = commits \o new /\ log' = log \o new
                                /\ UNCHANGED <<screen, broken, frame>>
    <3>1. <<<<rc, j>>>> \o (IF rc = "failed" THEN lines[j] ELSE <<>>) \in Seq(Row)
      BY ConcatProperties DEF Rows, Row
    <3>2. QED
      BY <1>2, <3>1 DEF Finish, Commit, areaVars
  <2>2. PICK before \in Seq(Row) : before = screen \o frame.commits
    BY ConcatProperties DEF Rows
  <2>3. commits \in Seq(Row)
    BY DEF Rows
  <2>4. before \o (commits \o new) = (before \o commits) \o new
    BY <2>3, ConcatAssociative
  <2>5. QED
    BY <2>1, <2>2, <2>4 DEF Kept
<1>3. ASSUME NEW s \in Sources, Open(s) PROVE Kept'
  BY <1>3 DEF Open, Kept, modelVars, areaVars
<1>4. ASSUME NEW s \in Sources, WriteBytes(s) PROVE Kept'
  <2>1. UNCHANGED <<screen, broken>>
    BY <1>4 DEF WriteBytes, Add
  <2>2. QED
    BY <1>4, <2>1 DEF WriteBytes, Kept, modelVars, areaVars
<1>5. ASSUME NEW s \in Sources, Done(s) PROVE Kept'
  <2>1. UNCHANGED <<screen, broken>>
    BY <1>5 DEF Done, Add
  <2>2. QED
    BY <1>5, <2>1 DEF Done, Kept, modelVars, areaVars
<1>6. CASE Message
  <2>1. PICK new \in Seq(Row) : /\ commits' = commits \o new /\ log' = log \o new
                                /\ UNCHANGED <<screen, broken, frame>>
    <3>1. <<<<"message", said'>>>> \in Seq(Row)
      BY <1>6 DEF Message, Rows, Row
    <3>2. QED
      BY <1>6, <3>1 DEF Message, Commit, areaVars
  <2>2. PICK before \in Seq(Row) : before = screen \o frame.commits
    BY ConcatProperties DEF Rows
  <2>3. commits \in Seq(Row)
    BY DEF Rows
  <2>4. before \o (commits \o new) = (before \o commits) \o new
    BY <2>3, ConcatAssociative
  <2>5. QED
    BY <2>1, <2>2, <2>4 DEF Kept
<1>7. CASE RenderSnapshot
  <2>1. frame.commits = <<>> /\ frame'.commits = commits /\ commits' = <<>>
    BY <1>7 DEF RenderSnapshot, Swap, Turns
  <2>2. (screen \o frame'.commits) \o commits' = (screen \o frame.commits) \o commits
    BY <2>1, ConcatProperties, ConcatEmptySeq DEF Rows
  <2>3. QED
    BY <1>7, <2>1, <2>2 DEF RenderSnapshot, Kept
<1>8. CASE RenderDraw
  <2>1. SUFFICES ASSUME ~broken' PROVE (screen' \o frame'.commits) \o commits' = log'
    BY DEF Kept
  <2>2. ~broken /\ screen' = screen \o frame.commits
    <3>1. frame.commits = <<>> => screen \o frame.commits = screen
      BY ConcatEmptySeq DEF Rows
    <3>2. QED
      BY <1>8, <2>1, <3>1 DEF RenderDraw, Draw, Write
  <2>3. frame'.commits = <<>> /\ commits' = commits /\ log' = log
    BY <1>8 DEF RenderDraw, Draw, NoFrame, modelVars
  <2>4. screen' \o frame'.commits = screen \o frame.commits
    BY <2>2, <2>3, ConcatEmptySeq, ConcatProperties DEF Rows
  <2>5. QED
    BY <2>2, <2>3, <2>4 DEF Kept
<1>9. CASE RendererEnds
  BY <1>9 DEF RendererEnds, Kept, modelVars, areaVars
<1>10. CASE CloseStart
  BY <1>10 DEF CloseStart, Kept, modelVars, areaVars
<1>11. CASE CloseJoin
  BY <1>11 DEF CloseJoin, Kept, modelVars, areaVars
<1>12. CASE CloseSnapshot
  <2>1. frame.commits = <<>> /\ frame'.commits = commits /\ commits' = <<>>
    BY <1>12 DEF CloseSnapshot, Swap, Turns
  <2>2. (screen \o frame'.commits) \o commits' = (screen \o frame.commits) \o commits
    BY <2>1, ConcatProperties, ConcatEmptySeq DEF Rows
  <2>3. QED
    BY <1>12, <2>1, <2>2 DEF CloseSnapshot, Kept
<1>13. CASE CloseDraw
  <2>1. SUFFICES ASSUME ~broken' PROVE (screen' \o frame'.commits) \o commits' = log'
    BY DEF Kept
  <2>2. ~broken /\ screen' = screen \o frame.commits
    <3>1. frame.commits = <<>> => screen \o frame.commits = screen
      BY ConcatEmptySeq DEF Rows
    <3>2. QED
      BY <1>13, <2>1, <3>1 DEF CloseDraw, Draw, Write
  <2>3. frame'.commits = <<>> /\ commits' = commits /\ log' = log
    BY <1>13 DEF CloseDraw, Draw, NoFrame, modelVars
  <2>4. screen' \o frame'.commits = screen \o frame.commits
    BY <2>2, <2>3, ConcatEmptySeq, ConcatProperties DEF Rows
  <2>5. QED
    BY <2>2, <2>3, <2>4 DEF Kept
<1>14. CASE UNCHANGED vars
  BY <1>14 DEF vars, Kept, modelVars, areaVars
<1> QED
  BY <1>1, <1>2, <1>3, <1>4, <1>5, <1>6, <1>7, <1>8, <1>9, <1>10, <1>11, <1>12, <1>13, <1>14 DEF Next

\* The summary of a job is committed with its end, and close() waits for all of them.
LEMMA SummedStep == mode = "blocks" /\ Rows /\ Turns /\ Kept /\ Summed /\ [Next]_vars => Summed'
<1> SUFFICES ASSUME mode = "blocks", Rows, Turns, Kept, Summed, [Next]_vars PROVE Summed'
  OBVIOUS
<1>1. ASSUME NEW j \in Jobs, Start(j) PROVE Summed'
  <2>1. closer = "open" /\ job' = [job EXCEPT ![j] = "running"] /\ UNCHANGED <<log, closer>>
    BY <1>1 DEF Start, areaVars
  <2>2. job'[j] = "running" /\ \A k \in Jobs \ {j} : job'[k] = job[k]
    BY <2>1 DEF Turns
  <2>3. QED
    BY <2>1, <2>2 DEF Summed, Ended, Summary
<1>2. ASSUME NEW j \in Jobs, NEW rc \in {"ok", "failed"}, Finish(j, rc) PROVE Summed'
  <2>1. <<<<rc, j>>>> \in Seq(Row) /\ lines[j] \in Seq(Row) /\ <<rc, j>> \in ToSet(<<<<rc, j>>>>)
    BY DEF Rows, Row, ToSet
  <2>2. PICK more \in Seq(Row) : log' = log \o (<<<<rc, j>>>> \o more)
    <3>1. (IF rc = "failed" THEN lines[j] ELSE <<>>) \in Seq(Row)
      BY <2>1, EmptySeq
    <3>2. log' = log \o (<<<<rc, j>>>> \o (IF rc = "failed" THEN lines[j] ELSE <<>>))
      BY <1>2 DEF Finish, Commit
    <3>3. QED
      BY <3>1, <3>2
  <2>3. <<rc, j>> \in ToSet(<<<<rc, j>>>> \o more)
    BY <2>1, InEither
  <2>4. /\ <<rc, j>> \in ToSet(log') /\ \A x \in ToSet(log) : x \in ToSet(log')
    BY <2>1, <2>2, <2>3, InEither, ConcatProperties DEF Rows
  <2>5. job' = [job EXCEPT ![j] = rc] /\ closer' = closer /\ closer = "open"
    BY <1>2 DEF Finish, areaVars, Turns
  <2>6. job'[j] = rc /\ \A k \in Jobs \ {j} : job'[k] = job[k]
    BY <2>5 DEF Turns
  <2>7. QED
    BY <2>4, <2>5, <2>6 DEF Summed, Ended, Summary
<1>3. ASSUME NEW s \in Sources, Open(s) PROVE Summed'
  <2>1. UNCHANGED <<job, log, screen, broken, frame, closer>>
    BY <1>3 DEF Open, Add, jobVars, modelVars, areaVars, sourceVars
  <2>2. QED
    BY <2>1 DEF Summed, Ended, Summary
<1>4. ASSUME NEW s \in Sources, WriteBytes(s) PROVE Summed'
  <2>1. UNCHANGED <<job, log, screen, broken, frame, closer>>
    BY <1>4 DEF WriteBytes, Add, jobVars, modelVars, areaVars, sourceVars
  <2>2. QED
    BY <2>1 DEF Summed, Ended, Summary
<1>5. ASSUME NEW s \in Sources, Done(s) PROVE Summed'
  <2>1. UNCHANGED <<job, log, screen, broken, frame, closer>>
    BY <1>5 DEF Done, Add, jobVars, modelVars, areaVars, sourceVars
  <2>2. QED
    BY <2>1 DEF Summed, Ended, Summary
<1>6. CASE Message
  <2>1. <<<<"message", said'>>>> \in Seq(Row)
    BY <1>6 DEF Message, Rows, Row
  <2>2. \A x \in ToSet(log) : x \in ToSet(log')
    BY <1>6, <2>1, InEither DEF Message, Commit, Rows
  <2>3. UNCHANGED <<job, screen, broken, frame, closer>>
    BY <1>6 DEF Message, jobVars, areaVars
  <2>4. QED
    BY <2>2, <2>3 DEF Summed, Ended, Summary
<1>7. CASE RenderSnapshot
  <2>1. UNCHANGED <<job, log, closer>> /\ closer = "open"
    BY <1>7 DEF RenderSnapshot, jobVars
  <2>2. QED
    BY <2>1 DEF Summed, Ended, Summary
<1>8. CASE RenderDraw
  <2>1. UNCHANGED <<job, log, closer>> /\ closer \in {"open", "stopping"}
    BY <1>8 DEF RenderDraw, jobVars, modelVars, Turns
  <2>2. QED
    BY <2>1 DEF Summed, Ended, Summary
<1>9. CASE RendererEnds
  <2>1. UNCHANGED <<job, log, screen, broken, frame, closer>>
    BY <1>9 DEF RendererEnds, Add, jobVars, modelVars, areaVars, sourceVars
  <2>2. QED
    BY <2>1 DEF Summed, Ended, Summary
<1>10. CASE CloseStart
  <2>1. UNCHANGED <<job, log, screen, broken>> /\ closer' = "stopping"
    BY <1>10 DEF CloseStart, jobVars, modelVars, areaVars
  <2>2. QED
    BY <2>1 DEF Summed, Ended, Summary
<1>11. CASE CloseJoin
  <2>1. UNCHANGED <<job, log, screen, broken>> /\ closer' \notin {"writing", "closed"}
    BY <1>11 DEF CloseJoin, jobVars, modelVars, areaVars
  <2>2. QED
    BY <2>1 DEF Summed, Ended, Summary
<1>12. CASE CloseSnapshot
  <2>1. UNCHANGED <<job, log, screen, broken>> /\ closer' = "writing"
    BY <1>12 DEF CloseSnapshot, jobVars
  <2>2. frame.commits = <<>> /\ frame'.commits = commits
    BY <1>12 DEF CloseSnapshot, Swap, Turns
  <2>3. ~broken => screen \o frame'.commits = log
    BY <2>2, ConcatEmptySeq DEF Kept, Rows
  <2>4. QED
    BY <2>1, <2>3 DEF Summed, Ended, Summary
<1>13. CASE CloseDraw
  <2>1. UNCHANGED <<job, log>> /\ closer = "writing" /\ closer' = "closed"
    BY <1>13 DEF CloseDraw, jobVars, modelVars
  <2>2. ~broken' => ~broken /\ screen' = screen \o frame.commits
    <3>1. frame.commits = <<>> => screen \o frame.commits = screen
      BY ConcatEmptySeq DEF Rows
    <3>2. QED
      BY <1>13, <3>1 DEF CloseDraw, Draw, Write
  <2>3. QED
    BY <2>1, <2>2 DEF Summed, Ended, Summary
<1>14. CASE UNCHANGED vars
  <2>1. UNCHANGED <<job, log, screen, broken, frame, closer>>
    BY <1>14 DEF vars, Add, jobVars, modelVars, areaVars, sourceVars
  <2>2. QED
    BY <2>1 DEF Summed, Ended, Summary
<1> QED
  BY <1>1, <1>2, <1>3, <1>4, <1>5, <1>6, <1>7, <1>8, <1>9, <1>10, <1>11, <1>12, <1>13, <1>14 DEF Next

\* No step leaves the invariant.
LEMMA Step == IInv /\ [Next]_vars => IInv'
<1>1. [Next]_vars => mode' = mode
  BY DEF Next, vars, Start, Finish, Open, WriteBytes, Done, Message, RenderSnapshot, RenderDraw,
         RendererEnds, CloseStart, CloseJoin, CloseSnapshot, CloseDraw
<1>2. QED
  BY <1>1, RowsStep, TurnsStep, KeptStep, SummedStep DEF IInv

\* In blocks mode what jobs, bridges and callbacks commit is shown once and in order, whatever
\* the renderer, close() and the committing threads do at the same time.
THEOREM NothingCommittedIsLost == Spec => []CommitsKept
<1>1. IInv => CommitsKept
  BY DEF IInv, Kept, CommitsKept
<1>2. QED
  BY InvInit, Step, <1>1, PTL DEF Spec

\* When close() has returned no live area is left, and every job has its summary on the
\* screen.
THEOREM CloseLeavesSummaries == Spec => []ClosedClean
<1>1. IInv => ClosedClean
  BY DEF IInv, Turns, Summed, Summary, ClosedClean
<1>2. QED
  BY InvInit, Step, <1>1, PTL DEF Spec

-----------------------------------------------------------------------------
(* What a block retains, and how high it is *)

\* A set of numbers that is not empty has a least one.
LEMMA LeastNumber ==
    ASSUME NEW T \in SUBSET Nat, T # {}
    PROVE  \E n \in T : \A m \in T : n <= m
<1> DEFINE R == {ss \in Nat \X Nat : ss[1] < ss[2]}
<1>1. IsWellFoundedOn(R, Nat)
  BY NatLessThanWellFounded DEF OpToRel
<1>2. \A m, n \in T : m < n => <<m, n>> \in R
  OBVIOUS
<1> HIDE DEF R
<1>3. PICK n \in T : \A m \in T : <<m, n>> \notin R
  BY <1>1, WFMin
<1>4. \A m \in T : ~(m < n)
  BY <1>2, <1>3
<1>5. \A m \in T : m \in Nat /\ n \in Nat
  OBVIOUS
<1>6. QED
  BY <1>4, <1>5

\* A set of numbers with 0 and the successor of each of its numbers has all of them.
LEMMA Induction ==
    ASSUME NEW T \in SUBSET Nat, 0 \in T, \A n \in T : n + 1 \in T
    PROVE  \A n \in Nat : n \in T
<1> SUFFICES ASSUME Nat \ T # {} PROVE FALSE
  OBVIOUS
<1>1. PICK n \in Nat \ T : \A m \in Nat \ T : n <= m
  BY LeastNumber
<1>2. n - 1 \in Nat /\ n - 1 \in T
  BY <1>1
<1>3. QED
  BY <1>1, <1>2

\* The k-th element of a sequence from its end, and the length of a retained tail.
End(s, k) == s[Len(s) - k]
Most(n, len) == IF len <= n THEN len ELSE n

LEMMA LastOfEnd ==
    ASSUME NEW T, NEW s \in Seq(T), NEW n \in Nat \ {0}
    PROVE  /\ LastOf(n, s) \in Seq(T)
           /\ Len(LastOf(n, s)) = Most(n, Len(s))
           /\ \A k \in 0 .. Most(n, Len(s)) - 1 : End(LastOf(n, s), k) = End(s, k)
<1>1. CASE Len(s) <= n
  BY <1>1 DEF LastOf, Most
<1>2. CASE Len(s) > n
  <2> DEFINE m == Len(s) - n + 1
             t == SubSeq(s, m, Len(s))
  <2>1. m \in Int /\ Len(s) \in Int /\ \A i \in m .. Len(s) : s[i] \in T
    BY <1>2, ElementOfSeq, LenProperties
  <2>2. /\ t \in Seq(T) /\ Len(t) = IF m <= Len(s) THEN Len(s) - m + 1 ELSE 0
        /\ \A i \in 1 .. Len(s) - m + 1 : t[i] = s[m + i - 1]
    BY <2>1, SubSeqProperties
  <2>3. Len(s) \in Nat /\ Len(s) - m + 1 = n /\ m <= Len(s)
    BY <1>2, LenProperties
  <2>4. LastOf(n, s) = t /\ Most(n, Len(s)) = n
    BY <1>2, <2>3 DEF LastOf, Most
  <2> HIDE DEF t
  <2>5. Len(t) = n
    BY <2>2, <2>3
  <2>6. ASSUME NEW k \in 0 .. n - 1 PROVE End(t, k) = End(s, k)
    <3>1. n - k \in 1 .. Len(s) - m + 1 /\ m + (n - k) - 1 = Len(s) - k
      BY <2>3
    <3>2. t[n - k] = s[Len(s) - k]
      BY <2>2, <3>1
    <3>3. QED
      BY <2>5, <3>2 DEF End
  <2>7. QED
    BY <2>2, <2>4, <2>5, <2>6
<1>3. QED
  BY <1>1, <1>2, LenProperties

LEMMA ConcatEnd ==
    ASSUME NEW T, NEW a \in Seq(T), NEW b \in Seq(T)
    PROVE  /\ a \o b \in Seq(T) /\ Len(a \o b) = Len(a) + Len(b)
           /\ \A k \in 0 .. Len(a) + Len(b) - 1 :
                End(a \o b, k) = IF k < Len(b) THEN End(b, k) ELSE End(a, k - Len(b))
<1> DEFINE c == a \o b
           la == Len(a)
           lb == Len(b)
<1>1. /\ la \in Nat /\ lb \in Nat /\ c \in Seq(T) /\ Len(c) = la + lb
      /\ \A i \in 1 .. la + lb : c[i] = IF i <= la THEN a[i] ELSE b[i - la]
  BY ConcatProperties, LenProperties
<1> HIDE DEF c, la, lb
<1>2. ASSUME NEW k \in 0 .. la + lb - 1
      PROVE  c[la + lb - k] = IF k < lb THEN b[lb - k] ELSE a[la - (k - lb)]
  <2>1. /\ la + lb - k \in 1 .. la + lb
        /\ k < lb <=> ~(la + lb - k <= la)
        /\ (la + lb - k) - la = lb - k /\ la - (k - lb) = la + lb - k
    BY <1>1
  <2>2. QED
    BY <1>1, <2>1
<1>3. QED
  BY <1>1, <1>2 DEF c, la, lb, End

\* Two sequences that end alike have the same tail.
LEMMA SameTail ==
    ASSUME NEW T, NEW x \in Seq(T), NEW y \in Seq(T), NEW n \in Nat \ {0},
           Most(n, Len(x)) = Most(n, Len(y)),
           \A k \in 0 .. Most(n, Len(x)) - 1 : End(x, k) = End(y, k)
    PROVE  LastOf(n, x) = LastOf(n, y)
<1> DEFINE u == LastOf(n, x)
           v == LastOf(n, y)
           m == Most(n, Len(x))
<1>1. /\ u \in Seq(T) /\ v \in Seq(T) /\ Len(u) = m /\ Len(v) = m
      /\ \A k \in 0 .. m - 1 : End(u, k) = End(x, k) /\ End(v, k) = End(y, k)
  BY LastOfEnd
<1>2. Len(u) \in Nat
  BY <1>1, LenProperties
<1> HIDE DEF u, v, m
<1>3. ASSUME NEW i \in 1 .. m PROVE u[i] = v[i]
  <2>1. m - i \in 0 .. m - 1 /\ m - (m - i) = i
    BY <1>1, <1>2
  <2>2. End(u, m - i) = End(v, m - i)
    BY <1>1, <2>1 DEF m
  <2>3. u[m - (m - i)] = v[m - (m - i)]
    BY <1>1, <2>2 DEF End
  <2>4. QED
    BY <2>1, <2>3
<1>4. QED
  BY <1>1, <1>3, SeqEqual DEF u, v

\* Lines that were let go before would be let go after.
LEMMA TailOfTail ==
    ASSUME NEW T, NEW a \in Seq(T), NEW b \in Seq(T), NEW n \in Nat \ {0}
    PROVE  /\ LastOf(n, LastOf(n, a) \o b) = LastOf(n, a \o b)
           /\ LastOf(n, a \o LastOf(n, b)) = LastOf(n, a \o b)
<1>1. LastOf(n, LastOf(n, a) \o b) = LastOf(n, a \o b)
  <2> DEFINE u == LastOf(n, a)
             x == u \o b
             y == a \o b
             la == Len(a)
             lb == Len(b)
             lu == Most(n, la)
             m == Most(n, la + lb)
  <2>1. u \in Seq(T) /\ Len(u) = lu /\ \A k \in 0 .. lu - 1 : End(u, k) = End(a, k)
    BY LastOfEnd
  <2> HIDE DEF u
  <2>2. /\ x \in Seq(T) /\ Len(x) = lu + lb
        /\ \A k \in 0 .. lu + lb - 1 : End(x, k) = IF k < lb THEN End(b, k) ELSE End(u, k - lb)
    BY <2>1, ConcatEnd
  <2>3. /\ y \in Seq(T) /\ Len(y) = la + lb
        /\ \A k \in 0 .. la + lb - 1 : End(y, k) = IF k < lb THEN End(b, k) ELSE End(a, k - lb)
    BY ConcatEnd
  <2>4. la \in Nat /\ lb \in Nat
    BY LenProperties
  <2> HIDE DEF x, y, la, lb
  <2>5. Most(n, lu + lb) = m
    BY <2>4 DEF Most
  <2>6. ASSUME NEW k \in 0 .. m - 1 PROVE End(x, k) = End(y, k)
    <3>1. k \in 0 .. lu + lb - 1 /\ k \in 0 .. la + lb - 1 /\ (~(k < lb) => k - lb \in 0 .. lu - 1)
      BY <2>4 DEF Most
    <3>2. QED
      BY <2>1, <2>2, <2>3, <3>1
  <2>7. Most(n, Len(x)) = m /\ Most(n, Len(y)) = m
    BY <2>2, <2>3, <2>5
  <2> HIDE DEF m
  <2>8. LastOf(n, x) = LastOf(n, y)
    BY <2>2, <2>3, <2>6, <2>7, SameTail
  <2>9. QED
    BY <2>8 DEF x, y, u
<1>2. LastOf(n, a \o LastOf(n, b)) = LastOf(n, a \o b)
  <2> DEFINE v == LastOf(n, b)
             x == a \o v
             y == a \o b
             la == Len(a)
             lb == Len(b)
             lv == Most(n, lb)
             m == Most(n, la + lb)
  <2>1. v \in Seq(T) /\ Len(v) = lv /\ \A k \in 0 .. lv - 1 : End(v, k) = End(b, k)
    BY LastOfEnd
  <2>0. lb <= n => v = b
    BY DEF LastOf
  <2> HIDE DEF v
  <2>2. /\ x \in Seq(T) /\ Len(x) = la + lv
        /\ \A k \in 0 .. la + lv - 1 : End(x, k) = IF k < lv THEN End(v, k) ELSE End(a, k - lv)
    <3>0. v \in Seq(T)
      BY <2>1
    <3>1. /\ a \o v \in Seq(T) /\ Len(a \o v) = Len(a) + Len(v)
          /\ \A k \in 0 .. Len(a) + Len(v) - 1 :
               End(a \o v, k) = IF k < Len(v) THEN End(v, k) ELSE End(a, k - Len(v))
      BY <3>0, ConcatEnd
    <3>2. QED
      BY <2>1, <3>1
  <2>3. /\ y \in Seq(T) /\ Len(y) = la + lb
        /\ \A k \in 0 .. la + lb - 1 : End(y, k) = IF k < lb THEN End(b, k) ELSE End(a, k - lb)
    BY ConcatEnd
  <2>4. la \in Nat /\ lb \in Nat
    BY LenProperties
  <2> HIDE DEF la, lb
  <2>5. CASE lb <= n
    BY <2>0, <2>5 DEF v
  <2>6. CASE ~(lb <= n)
    <3>1. lv = n /\ m = n /\ Most(n, la + lv) = n
      BY <2>4, <2>6 DEF Most
    <3> HIDE DEF x, y, lv, m
    <3>2. ASSUME NEW k \in 0 .. n - 1 PROVE End(x, k) = End(y, k)
      <4>1. /\ k \in 0 .. la + lv - 1 /\ k \in 0 .. la + lb - 1
            /\ k < lv /\ k < lb /\ k \in 0 .. lv - 1
        BY <2>4, <2>6, <3>1
      <4>2. QED
        BY <2>1, <2>2, <2>3, <4>1
    <3>3. Most(n, Len(x)) = n /\ Most(n, Len(y)) = n
      BY <2>2, <2>3, <3>1 DEF m
    <3>4. LastOf(n, x) = LastOf(n, y)
      BY <2>2, <2>3, <3>2, <3>3, SameTail
    <3>5. QED
      BY <3>4 DEF x, y, v
  <2>7. QED
    BY <2>5, <2>6
<1>3. QED
  BY <1>1, <1>2

\* A job that is removed is gone from the running ones, and the others stay in their order.
LEMMA RemoveFacts ==
    ASSUME NEW T, NEW s \in Seq(T), IsInjective(s), NEW e
    PROVE  /\ RemoveFirst(s, e) \in Seq(T) /\ IsInjective(RemoveFirst(s, e))
           /\ ToSet(RemoveFirst(s, e)) = ToSet(s) \ {e}
<1>1. Len(s) \in Nat /\ DOMAIN s = 1 .. Len(s) /\ \A i \in 1 .. Len(s) : s[i] \in T
  BY LenProperties, ElementOfSeq
<1>2. CASE ~\E i \in 1 .. Len(s) : s[i] = e
  <2>1. RemoveFirst(s, e) = s
    BY <1>2 DEF RemoveFirst
  <2>2. QED
    BY <1>1, <1>2, <2>1 DEF ToSet
<1>3. ASSUME NEW p \in 1 .. Len(s), s[p] = e
      PROVE  /\ RemoveFirst(s, e) \in Seq(T) /\ IsInjective(RemoveFirst(s, e))
             /\ ToSet(RemoveFirst(s, e)) = ToSet(s) \ {e}
  <2> DEFINE a == SubSeq(s, 1, p - 1)
             b == SubSeq(s, p + 1, Len(s))
             c == a \o b
             l == Len(s)
  <2>1. {i \in 1 .. Len(s) : s[i] = e} = {p}
    BY <1>1, <1>3 DEF IsInjective
  <2>2. Min({p}) = p
    BY DEF Min
  <2>3. RemoveFirst(s, e) = c
    BY <1>3, <2>1, <2>2 DEF RemoveFirst, RemoveAt, SelectInSeq
  <2>4. a \in Seq(T) /\ Len(a) = p - 1 /\ \A i \in 1 .. p - 1 : a[i] = s[i]
    <3>1. 1 \in Int /\ p - 1 \in Int /\ \A i \in 1 .. p - 1 : s[i] \in T
      BY <1>1
    <3>2. /\ a \in Seq(T) /\ Len(a) = IF 1 <= p - 1 THEN p - 1 - 1 + 1 ELSE 0
          /\ \A i \in 1 .. p - 1 - 1 + 1 : a[i] = s[1 + i - 1]
      BY <3>1, SubSeqProperties
    <3>3. p - 1 - 1 + 1 = p - 1 /\ (1 <= p - 1 \/ p - 1 = 0) /\ \A i \in 1 .. p - 1 : 1 + i - 1 = i
      OBVIOUS
    <3> HIDE DEF a
    <3>4. QED
      BY <3>2, <3>3
  <2>5. b \in Seq(T) /\ Len(b) = l - p /\ \A i \in 1 .. l - p : b[i] = s[p + i]
    <3>1. p + 1 \in Int /\ l \in Int /\ \A i \in p + 1 .. l : s[i] \in T
      BY <1>1
    <3>2. /\ b \in Seq(T) /\ Len(b) = IF p + 1 <= l THEN l - (p + 1) + 1 ELSE 0
          /\ \A i \in 1 .. l - (p + 1) + 1 : b[i] = s[p + 1 + i - 1]
      BY <3>1, SubSeqProperties
    <3>3. l \in Nat /\ p \in 1 .. l
      BY <1>1
    <3>4. \A i \in 1 .. l - p : p + 1 + i - 1 = p + i
      BY <3>3
    <3> HIDE DEF l
    <3>5. l - (p + 1) + 1 = l - p /\ (p + 1 <= l \/ l - p = 0)
      BY <3>3
    <3> HIDE DEF b
    <3>6. QED
      BY <3>2, <3>4, <3>5
  <2> HIDE DEF a, b
  <2>6. /\ c \in Seq(T) /\ Len(c) = l - 1
        /\ \A i \in 1 .. l - 1 : c[i] = IF i < p THEN s[i] ELSE s[i + 1]
    <3>1. /\ c \in Seq(T) /\ Len(c) = Len(a) + Len(b)
          /\ \A i \in 1 .. Len(a) + Len(b) : c[i] = IF i <= Len(a) THEN a[i] ELSE b[i - Len(a)]
      BY <2>4, <2>5, ConcatProperties
    <3>2. Len(a) + Len(b) = l - 1
      BY <1>1, <2>4, <2>5
    <3> HIDE DEF c
    <3>3. ASSUME NEW i \in 1 .. l - 1 PROVE c[i] = IF i < p THEN s[i] ELSE s[i + 1]
      <4>1. CASE i < p
        <5>1. i <= Len(a) /\ i \in 1 .. p - 1
          BY <1>1, <2>4, <4>1
        <5>2. QED
          BY <2>4, <3>1, <3>2, <4>1, <5>1
      <4>2. CASE ~(i < p)
        <5>1. ~(i <= Len(a)) /\ i - Len(a) = i - p + 1 /\ i - p + 1 \in 1 .. l - p /\ p + (i - p + 1) = i + 1
          BY <1>1, <2>4, <4>2
        <5>2. QED
          BY <2>5, <3>1, <3>2, <4>2, <5>1
      <4>3. QED
        BY <4>1, <4>2
    <3>4. QED
      BY <3>1, <3>2, <3>3
  <2> HIDE DEF c
  <2>7. DOMAIN c = 1 .. l - 1
    BY <1>1, <2>6, LenProperties
  <2>8. IsInjective(c)
    <3>1. ASSUME NEW i \in 1 .. l - 1, NEW k \in 1 .. l - 1, c[i] = c[k] PROVE i = k
      <4>1. i \in 1 .. l /\ k \in 1 .. l /\ i + 1 \in 1 .. l /\ k + 1 \in 1 .. l
        BY <1>1
      <4>2. (IF i < p THEN i ELSE i + 1) = (IF k < p THEN k ELSE k + 1)
        BY <1>1, <2>6, <3>1, <4>1 DEF IsInjective
      <4>3. QED
        BY <4>2
    <3>2. QED
      BY <2>7, <3>1 DEF IsInjective
  <2>9. ToSet(c) = ToSet(s) \ {e}
    <3>1. ASSUME NEW i \in 1 .. l - 1 PROVE c[i] \in ToSet(s) \ {e}
      <4>1. i \in 1 .. l /\ i + 1 \in 1 .. l /\ (i < p => i # p) /\ (~(i < p) => i + 1 # p)
        BY <1>1
      <4>2. PICK k \in 1 .. l : c[i] = s[k] /\ k # p
        BY <2>6, <4>1
      <4>3. s[k] # e
        BY <1>1, <1>3, <4>2 DEF IsInjective
      <4>4. QED
        BY <1>1, <4>2, <4>3 DEF ToSet
    <3>2. ASSUME NEW k \in 1 .. l, s[k] # e PROVE s[k] \in ToSet(c)
      <4>1. CASE k < p
        <5>1. k \in 1 .. l - 1
          BY <1>1, <4>1
        <5>2. QED
          BY <2>6, <2>7, <4>1, <5>1 DEF ToSet
      <4>2. CASE k > p
        <5>1. k - 1 \in 1 .. l - 1 /\ ~(k - 1 < p) /\ k - 1 + 1 = k
          BY <1>1, <4>2
        <5>2. QED
          BY <2>6, <2>7, <5>1 DEF ToSet
      <4>3. k # p
        BY <1>3, <3>2
      <4>4. QED
        BY <1>1, <4>1, <4>2, <4>3
    <3>3. ToSet(c) = {c[i] : i \in 1 .. l - 1} /\ ToSet(s) = {s[i] : i \in 1 .. l}
      BY <1>1, <2>7 DEF ToSet
    <3>4. QED
      BY <3>1, <3>2, <3>3
  <2>10. QED
    BY <2>3, <2>6, <2>8, <2>9
<1>4. QED
  BY <1>2, <1>3

-----------------------------------------------------------------------------
(* Jobs, sources and blocks, in every mode *)

LineRow == {"line"} \X Sources \X Nat

\* What a block has of the lines of its job.
Block(j) ==
    /\ Len(lines[j]) <= Keep /\ Len(lines[j]) <= Len(written[j])
    /\ mode = "blocks" \/ (mode = "grouped" /\ ~Ended(j)) => lines[j] = LastOf(Keep, written[j])
    /\ mode = "grouped" => dropped[j] = Len(written[j]) - Len(LastOf(Keep, written[j]))

Retained ==
    /\ written \in [Jobs -> Seq(LineRow)] /\ lines \in [Jobs -> Seq(LineRow)]
    /\ dropped \in [Jobs -> Nat]
    /\ \A j \in Jobs : Block(j)

\* Only the sources of running jobs are open, and only they are active; without blocks
\* nothing is rendered.
Feeding ==
    /\ mode \in Modes
    /\ job \in [Jobs -> {"none", "running", "ok", "failed"}]
    /\ open \in [Sources -> {"new", "open", "done"}]
    /\ sent \in [Sources -> Nat] /\ \A s \in Sources : sent[s] <= Pieces[s]
    /\ \A s \in Sources : open[s] = "open" => job[JobOf[s]] = "running"
    /\ active \in [Jobs -> SUBSET Sources]
    /\ \A j \in Jobs : /\ IsFiniteSet(active[j])
                       /\ \A s \in active[j] : JobOf[s] = j /\ open[s] = "open"
    /\ broken \in BOOLEAN /\ said \in 0 .. Messages
    /\ renderer \in {"idle", "writing", "over"}
    /\ closer \in {"open", "stopping", "last", "writing", "closed"}
    /\ mode # "blocks" => renderer = "over" /\ closer \in {"open", "closed"}

InOrder ==
    /\ running \in Seq(Jobs) /\ IsInjective(running)
    /\ \A j \in ToSet(running) : job[j] = "running"
    /\ mode # "blocks" => running = <<>>

LEMMA Constants ==
    /\ Modes \subseteq {"lines", "grouped", "blocks"}
    /\ Keep \in Nat \ {0} /\ Height \in Nat /\ Messages \in Nat
    /\ \A s \in Sources : JobOf[s] \in Jobs /\ Pieces[s] \in Nat
BY ConsoleAssumption

LEMMA FeedingStep == Feeding /\ [Next]_vars => Feeding'
<1> SUFFICES ASSUME Feeding, [Next]_vars PROVE Feeding'
  OBVIOUS
<1> USE Constants DEF Feeding, sourceVars, jobVars, areaVars, modelVars
<1>1. ASSUME NEW j \in Jobs, Start(j) PROVE Feeding'
  BY <1>1 DEF Start
<1>2. ASSUME NEW j \in Jobs, NEW rc \in {"ok", "failed"}, Finish(j, rc) PROVE Feeding'
  <2>1. /\ job' = [job EXCEPT ![j] = rc] /\ \A s \in Sources : JobOf[s] = j => open[s] # "open"
        /\ UNCHANGED <<mode, open, sent, active, said, renderer, closer>>
    BY <1>2 DEF Finish
  <2>2. broken' \in BOOLEAN
    BY <1>2 DEF Finish, Write
  <2>3. job' \in [Jobs -> {"none", "running", "ok", "failed"}]
    BY <2>1
  <2>4. \A s \in Sources : open[s] = "open" => job'[JobOf[s]] = "running"
    BY <2>1
  <2>5. QED
    BY <2>1, <2>2, <2>3, <2>4
<1>3. ASSUME NEW s \in Sources, Open(s) PROVE Feeding'
  BY <1>3 DEF Open
<1>4. ASSUME NEW s \in Sources, WriteBytes(s) PROVE Feeding'
  <2>1. PICK n \in 1 .. Pieces[s] - sent[s] : sent' = [sent EXCEPT ![s] = sent[s] + n]
    BY <1>4 DEF WriteBytes
  <2>2. sent' \in [Sources -> Nat] /\ \A t \in Sources : sent'[t] <= Pieces[t]
    BY <2>1
  <2>3. /\ UNCHANGED <<mode, open, job, said, renderer, closer>> /\ open[s] = "open"
        /\ active' = [active EXCEPT ![JobOf[s]] = {s}]
    BY <1>4 DEF WriteBytes
  <2>4. broken' \in BOOLEAN
    BY <1>4 DEF WriteBytes, Add, Write
  <2>5. /\ active' \in [Jobs -> SUBSET Sources]
        /\ \A j \in Jobs : /\ IsFiniteSet(active'[j])
                           /\ \A t \in active'[j] : JobOf[t] = j /\ open[t] = "open"
    <3>0. IsFiniteSet({s})
      BY FS_Singleton
    <3>1. IsFiniteSet({s}) /\ {s} \in SUBSET Sources
      BY <3>0
    <3>2. active' \in [Jobs -> SUBSET Sources] /\ active'[JobOf[s]] = {s}
      BY <2>3, <3>1
    <3>3. \A j \in Jobs \ {JobOf[s]} : active'[j] = active[j]
      BY <2>3
    <3>4. ASSUME NEW j \in Jobs
          PROVE  IsFiniteSet(active'[j]) /\ \A t \in active'[j] : JobOf[t] = j /\ open[t] = "open"
      <4>1. CASE j = JobOf[s]
        BY <2>3, <3>1, <3>2, <4>1
      <4>2. CASE j # JobOf[s]
        BY <3>3, <4>2
      <4>3. QED
        BY <4>1, <4>2
    <3>5. QED
      BY <3>2, <3>4
  <2>6. QED
    BY <2>2, <2>3, <2>4, <2>5
<1>5. ASSUME NEW s \in Sources, Done(s) PROVE Feeding'
  <2>1. /\ UNCHANGED <<mode, sent, job, said, renderer, closer>>
        /\ open' = [open EXCEPT ![s] = "done"]
        /\ active' = [active EXCEPT ![JobOf[s]] = active[JobOf[s]] \ {s}]
    BY <1>5 DEF Done
  <2>2. broken' \in BOOLEAN
    BY <1>5 DEF Done, Add, Write
  <2>3. IsFiniteSet(active[JobOf[s]] \ {s})
    BY FS_Difference
  <2>4. /\ active' \in [Jobs -> SUBSET Sources]
        /\ \A j \in Jobs : /\ IsFiniteSet(active'[j])
                           /\ \A t \in active'[j] : JobOf[t] = j /\ open[t] = "open" /\ t # s
    BY <2>1, <2>3
  <2>5. open' \in [Sources -> {"new", "open", "done"}] /\ \A t \in Sources \ {s} : open'[t] = open[t]
    BY <2>1
  <2>6. \A t \in Sources : open'[t] = "open" => open[t] = "open"
    BY <2>1
  <2>7. \A t \in Sources : open'[t] = "open" => job'[JobOf[t]] = "running"
    BY <2>1, <2>6
  <2>8. \A j \in Jobs : /\ IsFiniteSet(active'[j])
                        /\ \A t \in active'[j] : JobOf[t] = j /\ open'[t] = "open"
    <3>1. \A j \in Jobs : active'[j] \subseteq Sources
      BY <2>4
    <3>2. QED
      BY <2>4, <2>5, <3>1
  <2>9. QED
    BY <2>1, <2>2, <2>4, <2>5, <2>7, <2>8
<1>6. CASE Message
  BY <1>6 DEF Message
<1>7. CASE RenderSnapshot
  BY <1>7 DEF RenderSnapshot
<1>8. CASE RenderDraw
  BY <1>8 DEF RenderDraw, Draw, Write
<1>9. CASE RendererEnds
  BY <1>9 DEF RendererEnds
<1>10. CASE CloseStart
  BY <1>10 DEF CloseStart
<1>11. CASE CloseJoin
  BY <1>11 DEF CloseJoin
<1>12. CASE CloseSnapshot
  BY <1>12 DEF CloseSnapshot
<1>13. CASE CloseDraw
  BY <1>13 DEF CloseDraw, Draw, Write
<1>14. CASE UNCHANGED vars
  BY <1>14 DEF vars
<1> QED
  BY <1>1, <1>2, <1>3, <1>4, <1>5, <1>6, <1>7, <1>8, <1>9, <1>10, <1>11, <1>12, <1>13, <1>14 DEF Next

LEMMA InOrderStep == Feeding /\ InOrder /\ [Next]_vars => InOrder'
<1> SUFFICES ASSUME Feeding, InOrder, [Next]_vars PROVE InOrder'
  OBVIOUS
<1>1. ASSUME NEW j \in Jobs, Start(j) PROVE InOrder'
  <2>1. job[j] = "none" /\ job' = [job EXCEPT ![j] = "running"] /\ j \notin ToSet(running)
    BY <1>1 DEF Start, InOrder
  <2>2. \A k \in ToSet(running) \cup {j} : job'[k] = "running"
    BY <2>1 DEF InOrder, Feeding, ToSet
  <2>3. CASE running' = running /\ mode' = mode
    BY <2>2, <2>3 DEF InOrder
  <2>4. CASE running' = Append(running, j) /\ mode' = "blocks"
    <3> DEFINE n == Len(running)
               r == Append(running, j)
    <3>1. /\ n \in Nat /\ DOMAIN running = 1 .. n /\ r \in Seq(Jobs) /\ Len(r) = n + 1
          /\ r[n + 1] = j /\ \A i \in 1 .. n : r[i] = running[i]
      BY AppendProperties, LenProperties DEF InOrder
    <3>2. DOMAIN r = 1 .. n + 1
      BY <3>1, LenProperties
    <3> HIDE DEF r, n
    <3>3. \A i \in 1 .. n + 1 : i = n + 1 \/ i \in 1 .. n
      BY <3>1
    <3>4. \A i \in 1 .. n : running[i] # j
      BY <2>1, <3>1 DEF ToSet
    <3>5. IsInjective(r)
      BY <3>1, <3>2, <3>3, <3>4 DEF InOrder, IsInjective
    <3>6. ToSet(r) \subseteq ToSet(running) \cup {j}
      BY <3>1, <3>2, <3>3 DEF ToSet
    <3>7. running' = r
      BY <2>4 DEF r
    <3>8. QED
      BY <2>2, <2>4, <3>1, <3>5, <3>6, <3>7 DEF InOrder
  <2>5. QED
    BY <1>1, <2>3, <2>4 DEF Start
<1>2. ASSUME NEW j \in Jobs, NEW rc \in {"ok", "failed"}, Finish(j, rc) PROVE InOrder'
  <2>1. job' = [job EXCEPT ![j] = rc] /\ mode \in {"lines", "grouped", "blocks"}
    BY <1>2, Constants DEF Finish, Feeding
  <2>2. \A k \in Jobs \ {j} : job'[k] = job[k]
    BY <2>1 DEF Feeding
  <2>3. CASE mode = "blocks"
    <3>1. running' = RemoveFirst(running, j)
      BY <1>2, <2>3 DEF Finish
    <3>2. running' \in Seq(Jobs) /\ IsInjective(running') /\ ToSet(running') = ToSet(running) \ {j}
      BY <3>1, RemoveFacts DEF InOrder
    <3>3. ToSet(running) \subseteq Jobs
      BY ElementOfSeq DEF InOrder, ToSet
    <3>4. QED
      BY <1>2, <2>2, <2>3, <3>2, <3>3 DEF InOrder, Finish
  <2>4. CASE mode # "blocks"
    <3>1. running' = running
      BY <1>2, <2>1, <2>4 DEF Finish
    <3>2. ToSet(running) = {}
      BY <2>4 DEF InOrder, ToSet
    <3>3. QED
      BY <1>2, <3>1, <3>2 DEF InOrder, Finish
  <2>5. QED
    BY <2>3, <2>4
<1>3. ASSUME UNCHANGED <<running, job, mode>> PROVE InOrder'
  BY <1>3 DEF InOrder
<1> USE DEF sourceVars, jobVars, areaVars, modelVars
<1>4. ASSUME NEW s \in Sources, Open(s) \/ WriteBytes(s) \/ Done(s) PROVE InOrder'
  BY <1>3, <1>4 DEF Open, WriteBytes, Done
<1>5. CASE Message \/ RenderSnapshot \/ RenderDraw \/ RendererEnds
  BY <1>3, <1>5 DEF Message, RenderSnapshot, RenderDraw, RendererEnds
<1>6. CASE CloseStart \/ CloseJoin \/ CloseSnapshot \/ CloseDraw \/ UNCHANGED vars
  BY <1>3, <1>6 DEF CloseStart, CloseJoin, CloseSnapshot, CloseDraw, vars
<1> QED
  BY <1>1, <1>2, <1>4, <1>5, <1>6 DEF Next

\* What falls off a tail, and what then falls off it with more behind it.
LEMMA LetGo ==
    ASSUME NEW a \in Nat, NEW b \in Nat, NEW n \in Nat \ {0}
    PROVE  (a - Most(n, a)) + (IF Most(n, a) + b > n THEN (Most(n, a) + b) - n ELSE 0)
             = (a + b) - Most(n, a + b)
BY DEF Most

\* What a job adds moves the retained tail on, and counts what it lets go.
LEMMA AddRetained ==
    ASSUME Feeding, Retained, NEW j \in Jobs, job[j] = "running", NEW new \in Seq(LineRow),
           Add(j, new), UNCHANGED <<mode, job>>
    PROVE  Retained'
<1> DEFINE w == written[j]
           all == written[j] \o new
           tail == LastOf(Keep, all)
<1>1. mode \in {"lines", "grouped", "blocks"} /\ Keep \in Nat \ {0} /\ w \in Seq(LineRow)
  BY Constants DEF Feeding, Retained
<1>2. all \in Seq(LineRow) /\ Len(all) = Len(w) + Len(new)
  BY <1>1, ConcatProperties
<1>3. Len(w) \in Nat /\ Len(new) \in Nat /\ Len(lines[j]) \in Nat
  BY <1>1, LenProperties DEF Retained
<1>4. /\ tail \in Seq(LineRow) /\ Len(tail) = Most(Keep, Len(all))
      /\ Len(LastOf(Keep, w)) = Most(Keep, Len(w))
  BY <1>1, <1>2, LastOfEnd
<1>5. Len(tail) <= Keep /\ Len(tail) <= Len(all)
  BY <1>1, <1>2, <1>3, <1>4 DEF Most
<1>6. LastOf(Keep, LastOf(Keep, w) \o new) = tail
  BY <1>1, TailOfTail
<1>7. LastOf(Keep, LastOf(Keep, w) \o LastOf(Keep, new)) = tail
  <2>1. LastOf(Keep, new) \in Seq(LineRow)
    BY <1>1, LastOfEnd
  <2>2. LastOf(Keep, LastOf(Keep, w) \o LastOf(Keep, new)) = LastOf(Keep, w \o LastOf(Keep, new))
    BY <1>1, <2>1, TailOfTail
  <2>3. LastOf(Keep, w \o LastOf(Keep, new)) = tail
    BY <1>1, TailOfTail
  <2>4. QED
    BY <2>2, <2>3
<1>8. written' = [written EXCEPT ![j] = all]
  BY DEF Add
<1> HIDE DEF all, tail
<1>9. /\ written' \in [Jobs -> Seq(LineRow)] /\ written'[j] = all
      /\ \A k \in Jobs \ {j} : written'[k] = written[k]
  BY <1>2, <1>8 DEF Retained
<1>10. \A k \in Jobs : Ended(k)' = Ended(k)
  BY DEF Ended
<1>11. ASSUME lines' \in [Jobs -> Seq(LineRow)], dropped' \in [Jobs -> Nat], Block(j)',
              \A k \in Jobs \ {j} : lines'[k] = lines[k] /\ dropped'[k] = dropped[k]
       PROVE  Retained'
  <2>1. ASSUME NEW k \in Jobs \ {j} PROVE Block(k)'
    <3>1. Block(k) /\ lines'[k] = lines[k] /\ dropped'[k] = dropped[k] /\ written'[k] = written[k]
      BY <1>9, <1>11 DEF Retained
    <3>2. QED
      BY <1>10, <3>1 DEF Block
  <2>2. QED
    BY <1>9, <1>11, <2>1 DEF Retained
<1>12. CASE mode = "lines"
  <2>1. UNCHANGED <<lines, dropped>>
    BY <1>12 DEF Add
  <2>2. Len(lines[j]) <= Keep /\ Len(lines[j]) <= Len(all)
    BY <1>1, <1>2, <1>3 DEF Retained, Block
  <2>3. Block(j)'
    BY <1>9, <1>12, <2>1, <2>2 DEF Block
  <2>4. QED
    BY <1>11, <2>1, <2>3 DEF Retained
<1>13. CASE mode = "blocks"
  <2>1. dropped' = dropped /\ lines' = [lines EXCEPT ![j] = LastOf(Keep, lines[j] \o LastOf(Keep, new))]
    BY <1>13 DEF Add
  <2>2. lines' = [lines EXCEPT ![j] = tail]
    BY <1>7, <1>13, <2>1 DEF Retained, Block
  <2>3. /\ lines' \in [Jobs -> Seq(LineRow)] /\ lines'[j] = tail
        /\ \A k \in Jobs \ {j} : lines'[k] = lines[k]
    BY <1>4, <2>2 DEF Retained
  <2>4. Block(j)'
    BY <1>5, <1>9, <1>13, <2>3 DEF Block, tail
  <2>5. QED
    BY <1>11, <2>1, <2>3, <2>4 DEF Retained
<1>14. CASE mode = "grouped"
  <2> DEFINE d == Len(lines[j]) + Len(new)
             more == IF d > Keep THEN d - Keep ELSE 0
  <2>1. /\ lines' = [lines EXCEPT ![j] = LastOf(Keep, lines[j] \o new)]
        /\ dropped' = [dropped EXCEPT ![j] = dropped[j] + more]
    BY <1>14 DEF Add
  <2>2. lines[j] = LastOf(Keep, w) /\ dropped[j] = Len(w) - Len(LastOf(Keep, w))
    BY <1>14 DEF Retained, Block, Ended
  <2>3. lines' = [lines EXCEPT ![j] = tail]
    BY <1>6, <2>1, <2>2
  <2>4. /\ lines' \in [Jobs -> Seq(LineRow)] /\ lines'[j] = tail
        /\ \A k \in Jobs \ {j} : lines'[k] = lines[k]
    BY <1>4, <2>3 DEF Retained
  <2>5. dropped[j] \in Nat /\ more \in Nat
    BY <1>1, <1>3 DEF Retained
  <2>6. dropped[j] + more = Len(all) - Len(tail)
    <3>1. /\ Len(lines[j]) = Most(Keep, Len(w)) /\ dropped[j] = Len(w) - Most(Keep, Len(w))
          /\ Len(all) - Len(tail) = (Len(w) + Len(new)) - Most(Keep, Len(w) + Len(new))
      BY <1>2, <1>4, <2>2
    <3> DEFINE a == Len(w)
               b == Len(new)
               m == Most(Keep, a)
    <3>2. (a - m) + (IF m + b > Keep THEN (m + b) - Keep ELSE 0) = (a + b) - Most(Keep, a + b)
      BY <1>1, <1>3, LetGo
    <3> HIDE DEF w, m
    <3>3. QED
      BY <3>1, <3>2 DEF m
  <2> HIDE DEF d, more
  <2>7. /\ dropped' \in [Jobs -> Nat] /\ dropped'[j] = Len(all) - Len(tail)
        /\ \A k \in Jobs \ {j} : dropped'[k] = dropped[k]
    BY <2>1, <2>5, <2>6 DEF Retained
  <2>8. Block(j)'
    BY <1>5, <1>9, <1>14, <2>4, <2>7 DEF Block, tail
  <2>9. QED
    BY <1>11, <2>4, <2>7, <2>8
<1>15. QED
  BY <1>1, <1>12, <1>13, <1>14

\* The lines that a write completes, and the one that the end of a source flushes.
LEMMA NewLineRows ==
    ASSUME Feeding, NEW s \in Sources
    PROVE  /\ \A n \in Nat : NewLines(s, n) \in Seq(LineRow)
           /\ Line(s, sent[s] \div 2 + 1) \in LineRow
<1>1. sent[s] \in Nat
  BY DEF Feeding
<1>2. ASSUME NEW n \in Nat PROVE NewLines(s, n) \in Seq(LineRow)
  <2>1. PICK before \in Nat : before = sent[s] \div 2
    BY <1>1
  <2>2. PICK m \in Nat : m = ((sent[s] + n) \div 2) - (sent[s] \div 2)
    BY <1>1
  <2>3. NewLines(s, n) = [k \in 1 .. m |-> Line(s, before + k)]
    BY <2>1, <2>2 DEF NewLines
  <2>4. \A k \in 1 .. m : Line(s, before + k) \in LineRow
    BY DEF Line, LineRow
  <2>5. QED
    BY <2>3, <2>4
<1>3. Line(s, sent[s] \div 2 + 1) \in LineRow
  BY <1>1 DEF Line, LineRow
<1>4. QED
  BY <1>2, <1>3

LEMMA RetainedStep == Feeding /\ Retained /\ [Next]_vars => Retained'
<1> SUFFICES ASSUME Feeding, Retained, [Next]_vars PROVE Retained'
  OBVIOUS
<1>1. ASSUME NEW j \in Jobs, Start(j) PROVE Retained'
  <2>1. UNCHANGED <<mode, written, lines, dropped>> /\ job[j] = "none" /\ job' = [job EXCEPT ![j] = "running"]
    BY <1>1 DEF Start
  <2>2. \A k \in Jobs : Ended(k)' = Ended(k)
    BY <2>1 DEF Ended, Feeding
  <2>3. \A k \in Jobs : Block(k)'
    BY <2>1, <2>2 DEF Retained, Block
  <2>4. QED
    BY <2>1, <2>3 DEF Retained
<1>2. ASSUME NEW j \in Jobs, NEW rc \in {"ok", "failed"}, Finish(j, rc) PROVE Retained'
  <2>1. /\ UNCHANGED <<mode, written, dropped>> /\ job[j] = "running"
        /\ job' = [job EXCEPT ![j] = rc] /\ mode \in {"lines", "grouped", "blocks"}
    BY <1>2, Constants DEF Finish, Feeding
  <2>2. Ended(j)' /\ \A k \in Jobs \ {j} : Ended(k)' = Ended(k)
    BY <2>1 DEF Ended, Feeding
  <2>3. CASE mode # "grouped"
    <3>1. lines' = lines
      BY <1>2, <2>1, <2>3 DEF Finish
    <3>2. \A k \in Jobs : Block(k)'
      BY <2>1, <2>3, <3>1 DEF Retained, Block
    <3>3. QED
      BY <2>1, <3>1, <3>2 DEF Retained
  <2>4. CASE mode = "grouped"
    <3>1. lines' = [lines EXCEPT ![j] = <<>>]
      BY <1>2, <2>4 DEF Finish
    <3>2. <<>> \in Seq(LineRow) /\ Len(<<>>) = 0 /\ Len(written[j]) \in Nat /\ Keep \in Nat
      BY Constants, LenProperties DEF Retained
    <3>3. /\ lines' \in [Jobs -> Seq(LineRow)] /\ lines'[j] = <<>>
          /\ \A k \in Jobs \ {j} : lines'[k] = lines[k]
      BY <3>1, <3>2 DEF Retained
    <3>4. Block(j)'
      BY <2>1, <2>2, <2>4, <3>2, <3>3 DEF Retained, Block
    <3>5. \A k \in Jobs \ {j} : Block(k)'
      BY <2>1, <2>2, <3>3 DEF Retained, Block
    <3>6. QED
      BY <2>1, <3>3, <3>4, <3>5 DEF Retained
  <2>5. QED
    BY <2>3, <2>4
<1>3. ASSUME NEW s \in Sources, WriteBytes(s) PROVE Retained'
  <2>1. PICK n \in 1 .. Pieces[s] - sent[s] : Add(JobOf[s], NewLines(s, n))
    BY <1>3 DEF WriteBytes
  <2>2. n \in Nat /\ JobOf[s] \in Jobs
    BY Constants DEF Feeding
  <2>3. NewLines(s, n) \in Seq(LineRow)
    BY <2>2, NewLineRows
  <2>4. job[JobOf[s]] = "running" /\ UNCHANGED <<mode, job>>
    BY <1>3 DEF WriteBytes, Feeding
  <2>5. QED
    BY <2>1, <2>2, <2>3, <2>4, AddRetained
<1>4. ASSUME NEW s \in Sources, Done(s) PROVE Retained'
  <2> DEFINE new == IF Partial(s) THEN <<Line(s, sent[s] \div 2 + 1)>> ELSE <<>>
  <2>1. Line(s, sent[s] \div 2 + 1) \in LineRow
    BY NewLineRows
  <2>2. new \in Seq(LineRow)
    BY <2>1
  <2>3. job[JobOf[s]] = "running" /\ UNCHANGED <<mode, job>> /\ Add(JobOf[s], new) /\ JobOf[s] \in Jobs
    BY <1>4, Constants DEF Done, Feeding
  <2> HIDE DEF new
  <2>4. QED
    BY <2>2, <2>3, AddRetained
<1>5. ASSUME UNCHANGED <<mode, job, written, lines, dropped>> PROVE Retained'
  BY <1>5 DEF Retained, Block, Ended
<1> USE DEF sourceVars, jobVars, areaVars, modelVars
<1>6. ASSUME NEW s \in Sources, Open(s) PROVE Retained'
  BY <1>5, <1>6 DEF Open
<1>7. CASE Message \/ RenderSnapshot \/ RenderDraw \/ RendererEnds
  BY <1>5, <1>7 DEF Message, RenderSnapshot, RenderDraw, RendererEnds
<1>8. CASE CloseStart \/ CloseJoin \/ CloseSnapshot \/ CloseDraw \/ UNCHANGED vars
  BY <1>5, <1>8 DEF CloseStart, CloseJoin, CloseSnapshot, CloseDraw, vars
<1> QED
  BY <1>1, <1>2, <1>3, <1>4, <1>6, <1>7, <1>8 DEF Next

-----------------------------------------------------------------------------
(* The height of the live area *)

\* The sums of the first terms of a sequence of numbers.
LEMMA SumsExist ==
    ASSUME NEW b \in [Nat -> Nat]
    PROVE  \A m \in Nat : \E f \in [0 .. m -> Nat] :
             f[0] = 0 /\ \A n \in 1 .. m : f[n] = f[n - 1] + b[n]
<1> DEFINE IsSum(f, m) == f[0] = 0 /\ \A n \in 1 .. m : f[n] = f[n - 1] + b[n]
           has(m) == \E f \in [0 .. m -> Nat] : IsSum(f, m)
           T == {m \in Nat : has(m)}
<1>1. 0 \in T
  <2>1. [n \in 0 .. 0 |-> 0] \in [0 .. 0 -> Nat] /\ IsSum([n \in 0 .. 0 |-> 0], 0)
    OBVIOUS
  <2>2. QED
    BY <2>1
<1>2. ASSUME NEW m \in Nat, has(m) PROVE has(m + 1)
  <2>1. PICK f \in [0 .. m -> Nat] : IsSum(f, m)
    BY <1>2
  <2> DEFINE g == [n \in 0 .. m + 1 |-> IF n = m + 1 THEN f[m] + b[m + 1] ELSE f[n]]
  <2>2. \A n \in 0 .. m + 1 : n = m + 1 \/ n \in 0 .. m
    OBVIOUS
  <2>3. g \in [0 .. m + 1 -> Nat]
    <3>1. m \in 0 .. m /\ m + 1 \in Nat
      OBVIOUS
    <3>2. f[m] \in Nat /\ b[m + 1] \in Nat
      BY <3>1
    <3> DEFINE x == f[m]
               y == b[m + 1]
    <3>0. x \in Nat /\ y \in Nat
      BY <3>2
    <3> HIDE DEF x, y
    <3>3. x + y \in Nat
      BY <3>0
    <3> USE DEF x, y
    <3>4. QED
      BY <2>2, <3>3
  <2>4. g[0] = 0
    BY <2>1
  <2>5. ASSUME NEW n \in 1 .. m + 1 PROVE g[n] = g[n - 1] + b[n]
    <3>1. CASE n = m + 1
      <4>1. n - 1 = m /\ m \in 0 .. m + 1 /\ m # m + 1 /\ m + 1 \in 0 .. m + 1
        BY <3>1
      <4>2. QED
        BY <3>1, <4>1
    <3>2. CASE n # m + 1
      <4>1. n \in 1 .. m /\ n - 1 # m + 1 /\ n \in 0 .. m + 1 /\ n - 1 \in 0 .. m + 1
        BY <3>2
      <4>2. QED
        BY <2>1, <3>2, <4>1
    <3>3. QED
      BY <3>1, <3>2
  <2> HIDE DEF g
  <2>6. IsSum(g, m + 1)
    BY <2>4, <2>5
  <2>7. QED
    BY <2>3, <2>6
<1> HIDE DEF has
<1>3. T \in SUBSET Nat /\ \A m \in T : m + 1 \in T
  BY <1>2
<1>4. \A m \in Nat : m \in T
  BY <1>1, <1>3, Induction
<1>5. QED
  BY <1>4 DEF has

\* The height of a block is a number.
LEMMA BlockRowsType ==
    ASSUME Feeding, Retained, NEW j \in Jobs
    PROVE  BlockRows(j) \in Nat
<1> DEFINE P == {s \in active[j] : Partial(s)}
<1>1. IsFiniteSet(active[j]) /\ P \subseteq active[j]
  BY DEF Feeding
<1>2. IsFiniteSet(P)
  BY <1>1, FS_Subset
<1>3. Cardinality(P) \in Nat
  BY <1>2, FS_CardinalityType
<1>4. Len(lines[j]) \in Nat /\ Keep \in Nat
  BY Constants, LenProperties DEF Retained
<1> HIDE DEF P
<1>5. (IF Len(lines[j]) + Cardinality(P) < Keep THEN Len(lines[j]) + Cardinality(P) ELSE Keep) \in Nat
  BY <1>3, <1>4
<1>6. QED
  BY <1>5 DEF BlockRows, P

\* The rows of the first blocks, one block more at a time.
LEMMA UsedFacts ==
    ASSUME Feeding, Retained, InOrder
    PROVE  Used[0] = 0 /\ \A n \in 0 .. Len(running) : Used[n] \in Nat
<1> DEFINE len == Len(running)
           b == [n \in Nat |-> IF n \in 1 .. len THEN BlockRows(running[n]) ELSE 0]
<1>1. len \in Nat /\ \A n \in 1 .. len : running[n] \in Jobs
  BY ElementOfSeq, LenProperties DEF InOrder
<1>2. \A n \in 1 .. len : BlockRows(running[n]) \in Nat
  BY <1>1, BlockRowsType
<1>3. b \in [Nat -> Nat]
  BY <1>2
<1>4. \A n \in 1 .. len : b[n] = BlockRows(running[n])
  BY <1>1
<1> HIDE DEF b
<1>5. PICK f \in [0 .. len -> Nat] : f[0] = 0 /\ \A n \in 1 .. len : f[n] = f[n - 1] + b[n]
  BY <1>1, <1>3, SumsExist
<1>6. \A n \in 0 .. len : f[n] = IF n = 0 THEN 0 ELSE f[n - 1] + BlockRows(running[n])
  BY <1>1, <1>4, <1>5
<1>7. f = [n \in 0 .. len |-> IF n = 0 THEN 0 ELSE f[n - 1] + BlockRows(running[n])]
  BY <1>6
<1>8. Used = [n \in 0 .. Len(running) |-> IF n = 0 THEN 0 ELSE Used[n - 1] + BlockRows(running[n])]
  BY <1>7 DEF Used
<1>9. \A n \in 0 .. len : Used[n] = IF n = 0 THEN 0 ELSE Used[n - 1] + BlockRows(running[n])
  BY <1>8
<1> HIDE DEF len
<1>10. \A n \in 1 .. len : n \in 0 .. len /\ n # 0
  BY <1>1
<1>11. Used[0] = 0 /\ \A n \in 1 .. len : Used[n] = Used[n - 1] + BlockRows(running[n])
  <2>1. 0 \in 0 .. len
    BY <1>1
  <2>2. QED
    BY <1>9, <1>10, <2>1
<1> DEFINE T == {n \in Nat : n \in 0 .. len => Used[n] \in Nat}
<1>12. 0 \in T
  BY <1>11
<1>13. ASSUME NEW n \in T PROVE n + 1 \in T
  <2>1. n \in Nat /\ n + 1 \in Nat
    OBVIOUS
  <2>2. ASSUME n + 1 \in 0 .. len PROVE Used[n + 1] \in Nat
    <3>1. n \in 0 .. len /\ n + 1 \in 1 .. len /\ (n + 1) - 1 = n
      BY <1>1, <2>1, <2>2
    <3>2. Used[n] \in Nat /\ BlockRows(running[n + 1]) \in Nat
      BY <1>2, <3>1
    <3>3. QED
      BY <1>11, <3>1, <3>2
  <2>3. QED
    BY <2>1, <2>2
<1>14. T \in SUBSET Nat
  OBVIOUS
<1> HIDE DEF T
<1>15. \A n \in Nat : n \in T
  BY <1>12, <1>13, <1>14, Induction
<1>16. QED
  BY <1>11, <1>15 DEF T, len

\* The frame leaves two rows at most beyond its budget, for the others and the totals.
LEMMA FrameFacts ==
    ASSUME Feeding, Retained, InOrder
    PROVE  FrameRows \in Nat /\ FrameRows <= Budget + 2
<1> DEFINE fits == {n \in 0 .. Len(running) : Used[n] <= Budget}
           most == CHOOSE n \in fits : \A k \in fits : k <= n
           total == IF Cardinality({j \in Jobs : job[j] # "none"}) > 1 THEN 1 ELSE 0
           more == IF most < Len(running) THEN 1 ELSE 0
<1>1. Used[0] = 0 /\ \A n \in 0 .. Len(running) : Used[n] \in Nat
  BY UsedFacts
<1>2. Len(running) \in Nat
  BY LenProperties DEF InOrder
<1>3. Budget \in Nat
  BY Constants DEF Budget
<1>4. 0 \in fits
  BY <1>1, <1>2, <1>3
<1>5. \E n \in fits : \A k \in fits : k <= n
  <2> DEFINE len == Len(running)
             T == {len - k : k \in fits}
  <2>1. T \in SUBSET Nat /\ T # {}
    BY <1>2, <1>4
  <2>2. PICK d \in T : \A e \in T : d <= e
    BY <2>1, LeastNumber
  <2>3. PICK n \in fits : d = len - n
    BY <2>2
  <2>4. ASSUME NEW k \in fits PROVE k <= n
    <3>1. len - n <= len - k
      BY <2>2, <2>3
    <3>2. k \in Nat /\ n \in Nat
      BY <1>2
    <3>3. QED
      BY <1>2, <3>1, <3>2
  <2>5. QED
    BY <2>3, <2>4
<1>6. most \in fits
  BY <1>5
<1> HIDE DEF most
<1>7. Used[most] \in Nat /\ Used[most] <= Budget
  BY <1>1, <1>6
<1>8. total \in {0, 1} /\ more \in {0, 1}
  OBVIOUS
<1>9. FrameRows = Used[most] + more + total
  BY DEF FrameRows, most
<1> HIDE DEF total, more
<1>10. QED
  BY <1>3, <1>7, <1>8, <1>9

\* What is drawn, or about to be, fits a terminal of five rows or more.
Area ==
    /\ drawn \in Nat /\ frame.rows \in Nat
    /\ Height >= 5 => drawn < Height /\ frame.rows < Height

LEMMA AreaStep == Feeding /\ Retained /\ InOrder /\ Area /\ [Next]_vars => Area'
<1> SUFFICES ASSUME Feeding, Retained, InOrder, Area, [Next]_vars PROVE Area'
  OBVIOUS
<1>1. ASSUME UNCHANGED drawn, \E rows \in Nat : rows <= Budget + 2 /\ Swap(rows) PROVE Area'
  <2>1. PICK rows \in Nat : rows <= Budget + 2 /\ Swap(rows)
    BY <1>1
  <2>2. frame'.rows = rows
    BY <2>1 DEF Swap
  <2>3. Height >= 5 => rows < Height
    BY <2>1, Constants DEF Budget
  <2>4. QED
    BY <1>1, <2>2, <2>3 DEF Area
<1>2. ASSUME Draw PROVE Area'
  <2>1. drawn' = frame.rows /\ frame'.rows = 0
    BY <1>2 DEF Draw, NoFrame
  <2>2. QED
    BY <2>1, Constants DEF Area
<1>3. ASSUME UNCHANGED <<drawn, frame>> PROVE Area'
  BY <1>3 DEF Area
<1> USE DEF sourceVars, jobVars, areaVars, modelVars
<1>4. ASSUME NEW j \in Jobs, Start(j) \/ \E rc \in {"ok", "failed"} : Finish(j, rc) PROVE Area'
  BY <1>3, <1>4 DEF Start, Finish
<1>5. ASSUME NEW s \in Sources, Open(s) \/ WriteBytes(s) \/ Done(s) PROVE Area'
  BY <1>3, <1>5 DEF Open, WriteBytes, Done
<1>6. CASE RenderSnapshot
  <2>1. FrameRows \in Nat /\ FrameRows <= Budget + 2
    BY FrameFacts
  <2>2. QED
    BY <1>1, <1>6, <2>1 DEF RenderSnapshot
<1>7. CASE CloseSnapshot
  <2>1. 0 \in Nat /\ 0 <= Budget + 2
    BY Constants DEF Budget
  <2>2. QED
    BY <1>1, <1>7, <2>1 DEF CloseSnapshot
<1>8. CASE RenderDraw \/ CloseDraw
  BY <1>2, <1>8 DEF RenderDraw, CloseDraw
<1>9. CASE Message \/ RendererEnds \/ CloseStart \/ CloseJoin \/ UNCHANGED vars
  BY <1>3, <1>9 DEF Message, RendererEnds, CloseStart, CloseJoin, vars
<1> QED
  BY <1>4, <1>5, <1>6, <1>7, <1>8, <1>9 DEF Next

\* All of it together holds in every mode.
Everywhere == Feeding /\ Retained /\ InOrder /\ Area

LEMMA EverywhereInit == Init => Everywhere
<1> SUFFICES ASSUME Init PROVE Everywhere
  OBVIOUS
<1>1. Feeding
  <2>1. \A j \in Jobs : active[j] = {} /\ IsFiniteSet(active[j])
    BY FS_EmptySet DEF Init
  <2>2. sent \in [Sources -> Nat] /\ \A s \in Sources : sent[s] <= Pieces[s]
    BY Constants DEF Init
  <2>3. open \in [Sources -> {"new", "open", "done"}] /\ \A s \in Sources : open[s] # "open"
    BY DEF Init
  <2>4. active \in [Jobs -> SUBSET Sources]
    BY DEF Init
  <2>5. said \in 0 .. Messages /\ mode \in Modes /\ broken \in BOOLEAN
    <3>1. 0 \in 0 .. Messages
      BY Constants
    <3>2. said = 0 /\ broken = FALSE /\ mode \in Modes
      BY DEF Init
    <3>3. QED
      BY <3>1, <3>2
  <2>6. job \in [Jobs -> {"none", "running", "ok", "failed"}]
    BY DEF Init
  <2>7. /\ renderer \in {"idle", "writing", "over"} /\ closer = "open"
        /\ mode # "blocks" => renderer = "over"
    BY DEF Init
  <2>8. QED
    BY <2>1, <2>2, <2>3, <2>4, <2>5, <2>6, <2>7 DEF Feeding
<1>2. Retained
  <2>1. <<>> \in Seq(LineRow) /\ Len(<<>>) = 0 /\ Keep \in Nat \ {0}
    BY Constants
  <2>2. LastOf(Keep, <<>>) = <<>>
    BY <2>1 DEF LastOf
  <2>3. \A j \in Jobs : Block(j)
    BY <2>1, <2>2 DEF Init, Block
  <2>4. QED
    BY <2>1, <2>3 DEF Init, Retained
<1>3. InOrder
  BY DEF Init, InOrder, IsInjective, ToSet
<1>4. Area
  BY Constants DEF Init, Area, NoFrame
<1>5. QED
  BY <1>1, <1>2, <1>3, <1>4 DEF Everywhere

LEMMA EverywhereStep == Everywhere /\ [Next]_vars => Everywhere'
BY FeedingStep, RetainedStep, InOrderStep, AreaStep DEF Everywhere

\* Whatever the sources write and in what order, only the sources of running jobs are active,
\* the running jobs are those that are shown, and a block of blocks mode retains the last
\* lines of its job: the end that a failure shows.
THEOREM TypesAndTails == Spec => []Inv
<1>1. Everywhere => Inv
  <2> SUFFICES ASSUME Everywhere PROVE Inv
    OBVIOUS
  <2>1. \A s \in Sources : sent[s] \in 0 .. Pieces[s]
    BY Constants DEF Everywhere, Feeding
  <2>2. \A j \in Jobs : active[j] \subseteq {s \in Sources : JobOf[s] = j /\ open[s] = "open"}
    BY DEF Everywhere, Feeding
  <2>3. ToSet(running) \subseteq Jobs /\ \A j \in ToSet(running) : job[j] = "running"
    BY ElementOfSeq DEF Everywhere, InOrder, ToSet
  <2>4. \A j \in Jobs : Len(lines[j]) <= Keep /\ Len(lines[j]) <= Len(written[j])
    BY DEF Everywhere, Retained, Block
  <2>5. TypeOK
    BY <2>1, <2>2, <2>3, <2>4 DEF Everywhere, Feeding, Retained, Area, TypeOK
  <2>6. TailKept
    BY DEF Everywhere, Retained, Block, TailKept
  <2>7. QED
    BY <2>5, <2>6 DEF Inv
<1>2. QED
  BY EverywhereInit, EverywhereStep, <1>1, PTL DEF Spec

\* The live area is never as high as a terminal of five rows or more, however many jobs run and
\* however many lines they show: the next redraw reaches its top.
THEOREM FrameFitsTheScreen ==
    ASSUME Height >= 5
    PROVE  Spec => []FrameFits
<1>1. Everywhere => FrameFits
  BY DEF Everywhere, Area, FrameFits
<1>2. QED
  BY EverywhereInit, EverywhereStep, <1>1, PTL DEF Spec

-----------------------------------------------------------------------------
(* Grouped mode *)

\* Without blocks, only these steps change what is shown or what it is about.
LEMMA OtherSteps ==
    ASSUME Feeding, mode # "blocks", [Next]_vars
    PROVE  \/ \E j \in Jobs : Start(j) \/ \E rc \in {"ok", "failed"} : Finish(j, rc)
           \/ \E s \in Sources : Open(s) \/ WriteBytes(s) \/ Done(s)
           \/ UNCHANGED <<mode, job, open, sent, written, screen, broken>>
<1> USE DEF sourceVars, jobVars, areaVars, modelVars
<1>1. ~Message /\ ~RenderDraw /\ ~CloseDraw
  BY DEF Feeding, Message, RenderDraw, CloseDraw
<1>2. ASSUME RenderSnapshot \/ RendererEnds \/ CloseStart \/ CloseJoin \/ CloseSnapshot \/ UNCHANGED vars
      PROVE  UNCHANGED <<mode, job, open, sent, written, screen, broken>>
  BY <1>2 DEF RenderSnapshot, RendererEnds, CloseStart, CloseJoin, CloseSnapshot, vars
<1>3. QED
  BY <1>1, <1>2 DEF Next

\* The group of a job that ended: its last lines, and the number of those before.
GroupOf(j) ==
    <<job[j], j, Len(written[j]) - Len(LastOf(Keep, written[j])), LastOf(Keep, written[j])>>

GroupRow == {"ok", "failed"} \X Jobs \X Nat \X Seq(LineRow)

EndedJobs == {j \in Jobs : Ended(j)}
GroupsOf == [j \in Jobs |-> GroupOf(j)]

Groups ==
    /\ screen \in Seq(GroupRow)
    /\ \A i \in DOMAIN screen : screen[i][2] \in EndedJobs /\ screen[i] = GroupsOf[screen[i][2]]
    /\ \A i, k \in DOMAIN screen : screen[i][2] = screen[k][2] => i = k
    /\ ~broken => \A j \in EndedJobs : \E i \in DOMAIN screen : screen[i][2] = j

\* What was shown is still right when nothing that it is about changes.
LEMMA GroupsStay ==
    ASSUME Groups, UNCHANGED <<screen, broken>>,
           \A j \in Jobs : Ended(j)' = Ended(j) /\ (Ended(j) => GroupOf(j)' = GroupOf(j))
    PROVE  Groups'
<1>1. EndedJobs' = EndedJobs
  BY DEF EndedJobs
<1>2. \A j \in EndedJobs : GroupsOf'[j] = GroupsOf[j]
  BY DEF EndedJobs, GroupsOf
<1>3. QED
  BY <1>1, <1>2 DEF Groups

\* A job ends with its group at the end of the screen.
LEMMA GroupAppended ==
    ASSUME Feeding, Retained, Groups, mode = "grouped",
           NEW j \in Jobs, NEW rc \in {"ok", "failed"}, Finish(j, rc)
    PROVE  Groups'
<1> DEFINE row == <<rc, j, dropped[j], lines[j]>>
           n == Len(screen)
           after == Append(screen, row)
<1>1. /\ job[j] = "running" /\ job' = [job EXCEPT ![j] = rc] /\ UNCHANGED <<mode, written>>
      /\ Write(<<row>>)
  BY DEF Finish
<1>2. /\ ~Ended(j) /\ Ended(j)' /\ job'[j] = rc
      /\ \A k \in Jobs \ {j} : Ended(k)' = Ended(k) /\ job'[k] = job[k]
  BY <1>1 DEF Feeding, Ended
<1>0. j \notin EndedJobs /\ EndedJobs' = EndedJobs \cup {j}
  BY <1>2 DEF EndedJobs
<1>3. \A k \in Jobs \ {j} : GroupsOf'[k] = GroupsOf[k]
  <2>1. ASSUME NEW k \in Jobs \ {j} PROVE GroupOf(k)' = GroupOf(k)
    BY <1>1, <1>2 DEF GroupOf
  <2>2. QED
    BY <2>1 DEF GroupsOf
<1>4. row = GroupsOf'[j]
  <2>1. lines[j] = LastOf(Keep, written[j]) /\ dropped[j] = Len(written[j]) - Len(LastOf(Keep, written[j]))
    BY <1>2 DEF Retained, Block
  <2>2. QED
    BY <1>1, <1>2, <2>1 DEF GroupOf, GroupsOf
<1>5. row \in GroupRow /\ row[2] = j
  BY DEF Retained, GroupRow
<1> HIDE DEF row
<1>6. n \in Nat /\ DOMAIN screen = 1 .. n /\ \A i \in 1 .. n : screen[i][2] \in Jobs \ {j}
  <2>1. n \in Nat /\ DOMAIN screen = 1 .. n
    BY LenProperties DEF Groups
  <2>2. \A i \in 1 .. n : screen[i] \in GroupRow
    BY <2>1, ElementOfSeq DEF Groups
  <2>3. \A i \in 1 .. n : screen[i][2] \in Jobs /\ screen[i][2] \in EndedJobs
    BY <2>1, <2>2 DEF Groups, GroupRow
  <2>4. QED
    BY <1>0, <2>1, <2>3
<1>7. \A i \in 1 .. n : screen[i][2] \in EndedJobs' /\ screen[i] = GroupsOf'[screen[i][2]]
  <2>1. \A i \in 1 .. n : screen[i][2] \in EndedJobs /\ screen[i] = GroupsOf[screen[i][2]]
    BY <1>6 DEF Groups
  <2>2. QED
    BY <1>0, <1>3, <1>6, <2>1
<1>8. CASE screen' = screen /\ broken'
  BY <1>6, <1>7, <1>8 DEF Groups
<1>9. CASE screen' = after /\ broken' = broken
  <2>1. /\ after \in Seq(GroupRow) /\ DOMAIN after = 1 .. n + 1 /\ after[n + 1] = row
        /\ \A i \in 1 .. n : after[i] = screen[i]
    BY <1>5, AppendProperties, LenProperties DEF Groups
  <2> HIDE DEF after
  <2>2. \A i \in 1 .. n + 1 : i = n + 1 \/ i \in 1 .. n
    BY <1>6
  <2>3. ASSUME NEW i \in 1 .. n + 1
        PROVE  after[i][2] \in EndedJobs' /\ after[i] = GroupsOf'[after[i][2]]
    <3>1. CASE i = n + 1
      BY <1>0, <1>4, <1>5, <2>1, <3>1
    <3>2. CASE i \in 1 .. n
      BY <1>7, <2>1, <3>2
    <3>3. QED
      BY <2>2, <3>1, <3>2
  <2>4. \A i, k \in 1 .. n + 1 : after[i][2] = after[k][2] => i = k
    BY <1>5, <1>6, <2>1, <2>2 DEF Groups
  <2>5. ASSUME ~broken, NEW k \in EndedJobs' PROVE \E i \in 1 .. n + 1 : after[i][2] = k
    <3>1. CASE k = j
      <4>1. n + 1 \in 1 .. n + 1
        BY <1>6
      <4>2. QED
        BY <1>5, <2>1, <3>1, <4>1
    <3>2. CASE k # j
      <4>1. PICK i \in 1 .. n : screen[i][2] = k
        BY <1>0, <1>6, <2>5, <3>2 DEF Groups
      <4>2. i \in 1 .. n + 1
        BY <1>6
      <4>3. QED
        BY <2>1, <4>1, <4>2
    <3>3. QED
      BY <3>1, <3>2
  <2>6. QED
    BY <1>9, <2>1, <2>3, <2>4, <2>5 DEF Groups
<1>10. (screen' = screen /\ broken') \/ (screen' = after /\ broken' = broken)
  <2>1. <<row>> # <<>> /\ screen \o <<row>> = after
    BY <1>5, AppendIsConcat DEF Groups
  <2>2. QED
    BY <1>1, <2>1 DEF Write, Feeding
<1>11. QED
  BY <1>8, <1>9, <1>10

LEMMA GroupsStep ==
    Feeding /\ Retained /\ mode = "grouped" /\ Groups /\ [Next]_vars => Groups'
<1> SUFFICES ASSUME Feeding, Retained, mode = "grouped", Groups, [Next]_vars PROVE Groups'
  OBVIOUS
<1>1. ASSUME NEW j \in Jobs, Start(j) PROVE Groups'
  <2>1. /\ UNCHANGED <<screen, broken, written>>
        /\ job[j] = "none" /\ job' = [job EXCEPT ![j] = "running"]
    BY <1>1 DEF Start
  <2>2. \A k \in Jobs : Ended(k)' = Ended(k) /\ (Ended(k) => GroupOf(k)' = GroupOf(k))
    BY <2>1 DEF Feeding, Ended, GroupOf
  <2>3. QED
    BY <2>1, <2>2, GroupsStay
<1>2. ASSUME NEW j \in Jobs, NEW rc \in {"ok", "failed"}, Finish(j, rc) PROVE Groups'
  BY <1>2, GroupAppended
<1>3. ASSUME NEW s \in Sources, NEW new, open[s] = "open", Add(JobOf[s], new), UNCHANGED job PROVE Groups'
  <2>1. job[JobOf[s]] = "running"
    BY <1>3 DEF Feeding
  <2>2. UNCHANGED <<screen, broken>> /\ \A k \in Jobs \ {JobOf[s]} : written'[k] = written[k]
    BY <1>3 DEF Add, Retained
  <2>3. \A k \in Jobs : Ended(k)' = Ended(k) /\ (Ended(k) => GroupOf(k)' = GroupOf(k))
    BY <1>3, <2>1, <2>2 DEF Ended, GroupOf
  <2>4. QED
    BY <2>2, <2>3, GroupsStay
<1>4. ASSUME NEW s \in Sources, WriteBytes(s) PROVE Groups'
  BY <1>3, <1>4 DEF WriteBytes
<1>5. ASSUME NEW s \in Sources, Done(s) PROVE Groups'
  BY <1>3, <1>5 DEF Done
<1>6. ASSUME UNCHANGED <<job, written, screen, broken>> PROVE Groups'
  <2>1. \A k \in Jobs : Ended(k)' = Ended(k) /\ (Ended(k) => GroupOf(k)' = GroupOf(k))
    BY <1>6 DEF Ended, GroupOf
  <2>2. QED
    BY <1>6, <2>1, GroupsStay
<1>7. ASSUME NEW s \in Sources, Open(s) PROVE Groups'
  BY <1>6, <1>7 DEF Open, jobVars
<1>8. QED
  BY <1>1, <1>2, <1>4, <1>5, <1>6, <1>7, OtherSteps

\* Grouped mode shows the output of every job in one piece, when it ends and once: the last
\* Keep lines of all its sources and the number of those before them, however the sources
\* of the jobs interleave.
THEOREM GroupsAreWhole == Spec => []GroupsWhole
<1> DEFINE GInv == mode = "grouped" => Groups
<1>1. Init => GInv
  BY DEF Init, Groups, Ended, EndedJobs
<1>2. Everywhere /\ GInv /\ [Next]_vars => GInv'
  <2>1. [Next]_vars => mode' = mode
    BY DEF Next, vars, Start, Finish, Open, WriteBytes, Done, Message, RenderSnapshot, RenderDraw,
           RendererEnds, CloseStart, CloseJoin, CloseSnapshot, CloseDraw
  <2>2. QED
    BY <2>1, GroupsStep DEF Everywhere
<1>3. GInv => GroupsWhole
  <2> SUFFICES ASSUME Groups, ~broken, NEW j \in Jobs
               PROVE  /\ \A i \in DOMAIN screen : screen[i][2] = j => Ended(j) /\ screen[i] = GroupOf(j)
                      /\ Ended(j) => \E i \in DOMAIN screen :
                                       \A k \in DOMAIN screen : screen[k][2] = j <=> k = i
    BY DEF GroupsWhole, GroupOf
  <2>1. \A i \in DOMAIN screen : screen[i][2] = j => Ended(j) /\ screen[i] = GroupOf(j)
    <3>1. GroupsOf[j] = GroupOf(j) /\ (j \in EndedJobs => Ended(j))
      BY DEF GroupsOf, EndedJobs
    <3>2. QED
      BY <3>1 DEF Groups
  <2>2. Ended(j) => \E i \in DOMAIN screen : \A k \in DOMAIN screen : screen[k][2] = j <=> k = i
    BY DEF Groups, EndedJobs
  <2>3. QED
    BY <2>1, <2>2
<1> HIDE DEF GInv
<1>4. QED
  BY EverywhereInit, EverywhereStep, <1>1, <1>2, <1>3, PTL DEF Spec

-----------------------------------------------------------------------------
(* Lines mode *)

ShownRow == LineRow \cup ({"failed"} \X Jobs)

\* The number of lines of each source that are due on the screen.
Due == [s \in Sources |-> LinesFrom(s)]

Complete == \A s \in Sources : \A n \in 1 .. Due[s] : \E i \in DOMAIN screen : screen[i] = Line(s, n)

OnlyDue ==
    \A i \in DOMAIN screen, s \in Sources : IsLineOf(s, screen[i]) => screen[i][3] \in 1 .. Due[s]

Ordered ==
    \A s \in Sources : \A i, k \in DOMAIN screen :
      i < k /\ IsLineOf(s, screen[i]) /\ IsLineOf(s, screen[k]) => screen[i][3] < screen[k][3]

FailureLast ==
    \A i \in DOMAIN screen, j \in Jobs : screen[i] = <<"failed", j>> =>
      /\ job[j] = "failed"
      /\ \A s \in Sources : JobOf[s] = j => \A k \in i .. Len(screen) : ~IsLineOf(s, screen[k])

InLines ==
    /\ screen \in Seq(ShownRow)
    /\ ~broken => Complete /\ OnlyDue /\ Ordered /\ FailureLast

\* What Console._write() shows, as long as the display works.
LEMMA WriteFacts ==
    ASSUME NEW T, screen \in Seq(T), broken \in BOOLEAN, NEW rows \in Seq(T), Write(rows)
    PROVE  screen' \in Seq(T) /\ (~broken' => ~broken /\ screen' = screen \o rows)
<1>1. screen \o rows \in Seq(T) /\ screen \o <<>> = screen
  BY ConcatProperties, ConcatEmptySeq
<1>2. CASE broken
  BY <1>2 DEF Write
<1>3. CASE ~broken /\ rows = <<>>
  BY <1>1, <1>3 DEF Write
<1>4. CASE ~broken /\ rows # <<>>
  BY <1>1, <1>4 DEF Write
<1>5. QED
  BY <1>2, <1>3, <1>4

\* What two sequences show one after the other.
Joined(a, b) ==
    /\ Len(a) \in Nat /\ Len(b) \in Nat
    /\ DOMAIN a = 1 .. Len(a) /\ DOMAIN (a \o b) = 1 .. Len(a) + Len(b)
    /\ Len(a \o b) = Len(a) + Len(b)
    /\ \A i \in 1 .. Len(a) : (a \o b)[i] = a[i]
    /\ \A k \in 1 .. Len(b) : (a \o b)[Len(a) + k] = b[k]
    /\ \A i \in 1 .. Len(a) + Len(b) :
         i \in 1 .. Len(a) \/ \E k \in 1 .. Len(b) : i = Len(a) + k

LEMMA Appended ==
    ASSUME NEW T, NEW a \in Seq(T), NEW b \in Seq(T)
    PROVE  Joined(a, b)
<1> DEFINE la == Len(a)
           lb == Len(b)
           c == a \o b
<1>1. /\ la \in Nat /\ lb \in Nat /\ DOMAIN a = 1 .. la
      /\ c \in Seq(T) /\ Len(c) = la + lb
      /\ \A i \in 1 .. la + lb : c[i] = IF i <= la THEN a[i] ELSE b[i - la]
  BY ConcatProperties, LenProperties
<1>2. DOMAIN c = 1 .. Len(c)
  BY <1>1, LenProperties
<1> HIDE DEF c, la, lb
<1>3. ASSUME NEW i \in 1 .. la PROVE c[i] = a[i]
  <2>1. i \in 1 .. la + lb /\ i <= la
    BY <1>1
  <2>2. QED
    BY <1>1, <2>1
<1>4. ASSUME NEW k \in 1 .. lb PROVE c[la + k] = b[k]
  <2>1. la + k \in 1 .. la + lb /\ ~(la + k <= la) /\ (la + k) - la = k
    BY <1>1
  <2>2. QED
    BY <1>1, <2>1
<1>5. ASSUME NEW i \in 1 .. la + lb PROVE i \in 1 .. la \/ \E k \in 1 .. lb : i = la + k
  <2>1. CASE i <= la
    BY <1>1, <2>1
  <2>2. CASE ~(i <= la)
    <3>1. i - la \in 1 .. lb /\ i = la + (i - la)
      BY <1>1, <2>2
    <3>2. QED
      BY <3>1
  <2>3. QED
    BY <2>1, <2>2
<1>6. QED
  BY <1>1, <1>2, <1>3, <1>4, <1>5 DEF c, la, lb, Joined

\* The next lines of one source come after all that is shown.
LEMMA LinesAppended ==
    ASSUME Feeding, InLines, NEW s \in Sources, NEW new \in Seq(LineRow), NEW m \in Nat,
           job[JobOf[s]] = "running", UNCHANGED job,
           Due[s] \in Nat, Len(new) = m, \A k \in 1 .. m : new[k] = Line(s, Due[s] + k),
           Due'[s] = Due[s] + m, \A t \in Sources \ {s} : Due'[t] = Due[t],
           Write(new)
    PROVE  InLines'
<1> DEFINE n == Len(screen)
           from == Due[s]
           after == screen \o new
<1>1. new \in Seq(ShownRow) /\ screen \in Seq(ShownRow) /\ broken \in BOOLEAN
  <2>1. LineRow \subseteq ShownRow
    BY DEF ShownRow
  <2>2. new \in Seq(ShownRow)
    BY <2>1
  <2>3. QED
    BY <2>2 DEF InLines, Feeding
<1>2. screen' \in Seq(ShownRow) /\ (~broken' => ~broken /\ screen' = after)
  BY <1>1, WriteFacts
<1>3. SUFFICES ASSUME ~broken, screen' = after PROVE Complete' /\ OnlyDue' /\ Ordered' /\ FailureLast'
  BY <1>2 DEF InLines
<1>4. Complete /\ OnlyDue /\ Ordered /\ FailureLast
  BY <1>3 DEF InLines
<1>5. /\ n \in Nat /\ DOMAIN screen = 1 .. n /\ DOMAIN after = 1 .. n + m /\ Len(after) = n + m
      /\ \A i \in 1 .. n : after[i] = screen[i]
      /\ \A k \in 1 .. m : after[n + k] = Line(s, from + k)
      /\ \A i \in 1 .. n + m : i \in 1 .. n \/ \E k \in 1 .. m : i = n + k
  <2>1. screen \in Seq(ShownRow) /\ new \in Seq(ShownRow)
    BY <1>1
  <2>2. Joined(screen, new)
    BY <2>1, Appended
  <2>3. /\ n \in Nat /\ Len(new) \in Nat
        /\ DOMAIN screen = 1 .. n /\ DOMAIN after = 1 .. n + Len(new)
        /\ Len(after) = n + Len(new)
        /\ \A i \in 1 .. n : after[i] = screen[i]
        /\ \A k \in 1 .. Len(new) : after[n + k] = new[k]
        /\ \A i \in 1 .. n + Len(new) :
             i \in 1 .. n \/ \E k \in 1 .. Len(new) : i = n + k
    BY <2>2 DEF Joined
  <2> HIDE DEF after, n, from
  <2>4. QED
    BY <2>3 DEF from
<1> HIDE DEF after, n, from
<1>6. /\ from \in Nat /\ Due'[s] = from + m /\ Due[s] = from
      /\ \A i \in 1 .. n : i \in 1 .. n + m
      /\ \A k \in 1 .. m : n + k \in 1 .. n + m
  BY <1>5 DEF from
<1>7. \A k \in 1 .. m, t \in Sources : IsLineOf(t, after[n + k]) <=> t = s
  BY <1>5 DEF IsLineOf, Line
<1>8. \A k \in 1 .. m : after[n + k][3] = from + k
  BY <1>5 DEF Line
<1>9. Complete'
  <2>1. ASSUME NEW t \in Sources, NEW x \in 1 .. Due'[t]
        PROVE  \E i \in 1 .. n + m : after[i] = Line(t, x)
    <3>1. CASE x \in 1 .. Due[t]
      BY <1>4, <1>5, <1>6, <3>1 DEF Complete
    <3>2. CASE x \notin 1 .. Due[t]
      <4>1. t = s /\ x - from \in 1 .. m /\ from + (x - from) = x
        <5>1. t = s
          BY <3>2
        <5>2. QED
          BY <1>6, <3>2, <5>1
      <4>2. after[n + (x - from)] = Line(t, x)
        BY <1>5, <4>1
      <4>3. QED
        BY <1>6, <4>1, <4>2
    <3>3. QED
      BY <3>1, <3>2
  <2>2. QED
    BY <1>3, <1>5, <2>1 DEF Complete
<1>10. OnlyDue'
  <2>1. ASSUME NEW i \in 1 .. n + m, NEW t \in Sources, IsLineOf(t, after[i])
        PROVE  after[i][3] \in 1 .. Due'[t]
    <3>1. CASE i \in 1 .. n
      <4>1. after[i][3] \in 1 .. Due[t]
        BY <1>4, <1>5, <2>1, <3>1 DEF OnlyDue
      <4>2. CASE t = s
        BY <1>6, <4>1, <4>2
      <4>3. CASE t # s
        BY <4>1, <4>3
      <4>4. QED
        BY <4>2, <4>3
    <3>2. ASSUME NEW k \in 1 .. m, i = n + k PROVE after[i][3] \in 1 .. Due'[t]
      <4>1. t = s /\ after[i][3] = from + k
        BY <1>7, <1>8, <2>1, <3>2
      <4>2. QED
        BY <1>6, <4>1
    <3>3. QED
      BY <1>5, <3>1, <3>2
  <2>2. QED
    BY <1>3, <1>5, <2>1 DEF OnlyDue
<1>11. Ordered'
  <2>1. ASSUME NEW t \in Sources, NEW i \in 1 .. n + m, NEW k \in 1 .. n + m, i < k,
               IsLineOf(t, after[i]), IsLineOf(t, after[k])
        PROVE  after[i][3] < after[k][3]
    <3>1. CASE k \in 1 .. n
      <4>1. i \in 1 .. n
        BY <1>5, <2>1, <3>1
      <4>2. QED
        BY <1>4, <1>5, <2>1, <3>1, <4>1 DEF Ordered
    <3>2. ASSUME NEW y \in 1 .. m, k = n + y PROVE after[i][3] < after[k][3]
      <4>1. t = s /\ after[k][3] = from + y
        BY <1>7, <1>8, <2>1, <3>2
      <4>2. CASE i \in 1 .. n
        <5>1. after[i][3] \in 1 .. from
          BY <1>4, <1>5, <1>6, <2>1, <4>1, <4>2 DEF OnlyDue
        <5> DEFINE z == after[i][3]
        <5> HIDE DEF z
        <5>2. z \in 1 .. from /\ after[k][3] = from + y
          BY <4>1, <5>1 DEF z
        <5>3. z < from + y
          BY <1>6, <5>2
        <5>4. QED
          BY <5>2, <5>3 DEF z
      <4>3. ASSUME NEW x \in 1 .. m, i = n + x PROVE after[i][3] < after[k][3]
        <5>1. after[i][3] = from + x /\ x < y
          BY <1>5, <1>8, <2>1, <3>2, <4>3
        <5>2. QED
          BY <1>6, <4>1, <5>1
      <4>4. QED
        BY <1>5, <4>2, <4>3
    <3>3. QED
      BY <1>5, <3>1, <3>2
  <2>2. QED
    BY <1>3, <1>5, <2>1 DEF Ordered
<1>12. FailureLast'
  <2>1. ASSUME NEW i \in 1 .. n + m, NEW j \in Jobs, after[i] = <<"failed", j>>
        PROVE  /\ job[j] = "failed"
               /\ \A t \in Sources : JobOf[t] = j => \A k \in i .. n + m : ~IsLineOf(t, after[k])
    <3>1. \A k \in 1 .. m : after[n + k] # <<"failed", j>>
      BY <1>5 DEF Line
    <3>2. i \in 1 .. n
      <4>1. ~\E k \in 1 .. m : i = n + k
        BY <2>1, <3>1
      <4>2. QED
        BY <1>5, <4>1
    <3>3. /\ job[j] = "failed"
          /\ \A t \in Sources : JobOf[t] = j => \A k \in i .. n : ~IsLineOf(t, screen[k])
      <4>1. i \in DOMAIN screen /\ screen[i] = <<"failed", j>>
        BY <1>5, <2>1, <3>2
      <4>2. QED
        BY <1>4, <4>1 DEF FailureLast, n
    <3>4. ASSUME NEW t \in Sources, JobOf[t] = j, NEW k \in i .. n + m PROVE ~IsLineOf(t, after[k])
      <4>1. k \in 1 .. n + m /\ t # s
        BY <1>5, <3>2, <3>3, <3>4
      <4>2. CASE k \in 1 .. n
        <5>1. k \in i .. n
          BY <1>5, <3>2, <4>2
        <5>2. QED
          BY <1>5, <3>3, <3>4, <4>2, <5>1
      <4>3. ASSUME NEW y \in 1 .. m, k = n + y PROVE ~IsLineOf(t, after[k])
        BY <1>7, <4>1, <4>3
      <4>4. QED
        BY <1>5, <4>1, <4>2, <4>3
    <3>5. QED
      BY <3>3, <3>4
  <2>2. QED
    BY <1>3, <1>5, <2>1 DEF FailureLast
<1>13. QED
  BY <1>9, <1>10, <1>11, <1>12

\* A failure comes after all the lines of its job.
LEMMA FailureAppended ==
    ASSUME Feeding, InLines, mode = "lines",
           NEW j \in Jobs, NEW rc \in {"ok", "failed"}, Finish(j, rc)
    PROVE  InLines'
<1> DEFINE row == <<"failed", j>>
           n == Len(screen)
           after == screen \o <<row>>
<1>1. /\ job[j] = "running" /\ job' = [job EXCEPT ![j] = rc] /\ Due' = Due
      /\ Write(IF rc = "failed" THEN <<row>> ELSE <<>>)
  BY DEF Finish, Due, LinesFrom, Partial, sourceVars
<1>2. job'[j] = rc /\ \A k \in Jobs : job[k] = "failed" => job'[k] = "failed"
  BY <1>1 DEF Feeding
<1>3. screen \in Seq(ShownRow) /\ <<row>> \in Seq(ShownRow) /\ <<>> \in Seq(ShownRow) /\ broken \in BOOLEAN
  BY DEF InLines, Feeding, ShownRow
<1>4. CASE rc = "ok"
  <2>1. screen' \in Seq(ShownRow) /\ (~broken' => ~broken /\ screen' = screen \o <<>>)
    BY <1>1, <1>3, <1>4, WriteFacts
  <2>2. ~broken' => ~broken /\ screen' = screen
    BY <1>3, <2>1, ConcatEmptySeq
  <2>3. SUFFICES ASSUME ~broken, screen' = screen PROVE Complete' /\ OnlyDue' /\ Ordered' /\ FailureLast'
    BY <2>1, <2>2 DEF InLines
  <2>4. Complete' /\ OnlyDue' /\ Ordered'
    BY <1>1, <2>3 DEF InLines, Complete, OnlyDue, Ordered
  <2>5. FailureLast'
    BY <1>2, <2>3 DEF InLines, FailureLast
  <2>6. QED
    BY <2>4, <2>5
<1>5. CASE rc = "failed"
  <2>1. screen' \in Seq(ShownRow) /\ (~broken' => ~broken /\ screen' = after)
    BY <1>1, <1>3, <1>5, WriteFacts
  <2>2. SUFFICES ASSUME ~broken, screen' = after PROVE Complete' /\ OnlyDue' /\ Ordered' /\ FailureLast'
    BY <2>1 DEF InLines
  <2>3. Complete /\ OnlyDue /\ Ordered /\ FailureLast
    BY <2>2 DEF InLines
  <2>4. /\ n \in Nat /\ Len(<<row>>) \in Nat
        /\ DOMAIN screen = 1 .. n /\ DOMAIN after = 1 .. n + Len(<<row>>)
        /\ Len(after) = n + Len(<<row>>)
        /\ \A i \in 1 .. n : after[i] = screen[i]
        /\ \A k \in 1 .. Len(<<row>>) : after[n + k] = <<row>>[k]
        /\ \A i \in 1 .. n + Len(<<row>>) :
             i \in 1 .. n \/ \E k \in 1 .. Len(<<row>>) : i = n + k
    BY <1>3, Appended DEF Joined
  <2> HIDE DEF after, n
  <2>5. Len(<<row>>) = 1 /\ <<row>>[1] = row /\ 1 \in 1 .. 1 /\ \A k \in 1 .. 1 : k = 1
    OBVIOUS
  <2>6. /\ n \in Nat /\ DOMAIN screen = 1 .. n /\ DOMAIN after = 1 .. n + 1 /\ Len(after) = n + 1
        /\ \A i \in 1 .. n : after[i] = screen[i]
        /\ after[n + 1] = row
        /\ \A i \in 1 .. n + 1 : i \in 1 .. n \/ i = n + 1
    BY <2>4, <2>5
  <2>7. \A t \in Sources : ~IsLineOf(t, after[n + 1])
    BY <2>6 DEF IsLineOf
  <2>8. \A i \in 1 .. n : i \in 1 .. n + 1
    BY <2>6
  <2>9. Complete'
    BY <1>1, <2>2, <2>3, <2>6, <2>8 DEF Complete
  <2>10. OnlyDue'
    BY <1>1, <2>2, <2>3, <2>6, <2>7 DEF OnlyDue
  <2>11. Ordered'
    <3>1. \A t \in Sources, i \in 1 .. n + 1 : IsLineOf(t, after[i]) => i \in 1 .. n /\ after[i] = screen[i]
      BY <2>6, <2>7
    <3>2. \A t \in Sources : \A i, k \in 1 .. n + 1 :
            i < k /\ IsLineOf(t, after[i]) /\ IsLineOf(t, after[k]) => after[i][3] < after[k][3]
      BY <2>3, <2>6, <3>1 DEF Ordered
    <3>3. QED
      BY <2>2, <2>6, <3>2 DEF Ordered
  <2>12. FailureLast'
    <3>1. ASSUME NEW i \in 1 .. n + 1, NEW k \in Jobs, after[i] = <<"failed", k>>
          PROVE  /\ job'[k] = "failed"
                 /\ \A t \in Sources : JobOf[t] = k => \A x \in i .. n + 1 : ~IsLineOf(t, after[x])
      <4>1. CASE i = n + 1
        <5>1. k = j /\ \A x \in i .. n + 1 : x = n + 1
          BY <2>6, <3>1, <4>1
        <5>2. QED
          BY <1>2, <1>5, <2>7, <5>1
      <4>2. CASE i \in 1 .. n
        <5>1. i \in DOMAIN screen /\ screen[i] = <<"failed", k>>
          BY <2>6, <3>1, <4>2
        <5>2. /\ job[k] = "failed"
              /\ \A t \in Sources : JobOf[t] = k => \A x \in i .. n : ~IsLineOf(t, screen[x])
          BY <2>3, <5>1 DEF FailureLast, n
        <5>3. \A x \in i .. n + 1 : x = n + 1 \/ (x \in i .. n /\ x \in 1 .. n)
          BY <2>6, <4>2
        <5>4. QED
          BY <1>2, <2>6, <2>7, <5>2, <5>3
      <4>3. QED
        BY <2>6, <4>1, <4>2
    <3>2. QED
      BY <2>2, <2>6, <3>1 DEF FailureLast
  <2>13. QED
    BY <2>9, <2>10, <2>11, <2>12
<1>6. QED
  BY <1>4, <1>5

LEMMA InLinesStep ==
    Feeding /\ mode = "lines" /\ InLines /\ [Next]_vars => InLines'
<1> SUFFICES ASSUME Feeding, mode = "lines", InLines, [Next]_vars PROVE InLines'
  OBVIOUS
<1>1. ASSUME NEW j \in Jobs, Start(j) PROVE InLines'
  <2>1. /\ UNCHANGED <<screen, broken>> /\ Due' = Due
        /\ job[j] = "none" /\ job' = [job EXCEPT ![j] = "running"]
    BY <1>1 DEF Start, Due, LinesFrom, Partial, sourceVars
  <2>2. \A k \in Jobs : job[k] = "failed" => job'[k] = "failed"
    BY <2>1 DEF Feeding
  <2>3. FailureLast => FailureLast'
    BY <2>1, <2>2 DEF FailureLast
  <2>4. QED
    BY <2>1, <2>3 DEF InLines, Complete, OnlyDue, Ordered
<1>2. ASSUME NEW j \in Jobs, NEW rc \in {"ok", "failed"}, Finish(j, rc) PROVE InLines'
  BY <1>2, FailureAppended
<1>3. ASSUME UNCHANGED <<screen, broken, job>>, Due' = Due PROVE InLines'
  BY <1>3 DEF InLines, Complete, OnlyDue, Ordered, FailureLast
<1>4. ASSUME NEW s \in Sources, Open(s) PROVE InLines'
  <2>1. \A t \in Sources : LinesFrom(t)' = LinesFrom(t)
    BY <1>4 DEF Open, LinesFrom, Partial, Feeding
  <2>2. Due' = Due
    BY <2>1 DEF Due
  <2>3. QED
    BY <1>3, <1>4, <2>2 DEF Open, jobVars
<1>5. ASSUME NEW s \in Sources, WriteBytes(s) PROVE InLines'
  <2>1. PICK n \in 1 .. Pieces[s] - sent[s] :
          sent' = [sent EXCEPT ![s] = sent[s] + n] /\ Add(JobOf[s], NewLines(s, n))
    BY <1>5 DEF WriteBytes
  <2>2. n \in Nat /\ sent[s] \in Nat /\ UNCHANGED <<open, job>> /\ open[s] = "open" /\ job[JobOf[s]] = "running"
    BY <1>5, <2>1, Constants DEF Feeding, WriteBytes
  <2>3. PICK before \in Nat : before = sent[s] \div 2
    BY <2>2
  <2>4. PICK m \in Nat : m = ((sent[s] + n) \div 2) - (sent[s] \div 2) /\ (sent[s] + n) \div 2 = before + m
    BY <2>2, <2>3
  <2>5. NewLines(s, n) = [k \in 1 .. m |-> Line(s, before + k)]
    BY <2>3, <2>4 DEF NewLines
  <2>6. Due[s] = before
    BY <2>2, <2>3 DEF Due, LinesFrom
  <2>7. Due'[s] = before + m
    <3>1. sent'[s] = sent[s] + n
      BY <2>1 DEF Feeding
    <3>2. LinesFrom(s)' = (sent[s] + n) \div 2
      BY <2>2, <3>1 DEF LinesFrom
    <3>3. QED
      BY <2>4, <3>2 DEF Due
  <2>8. \A t \in Sources \ {s} : Due'[t] = Due[t]
    <3>1. \A t \in Sources \ {s} : sent'[t] = sent[t]
      BY <2>1 DEF Feeding
    <3>2. \A t \in Sources \ {s} : LinesFrom(t)' = LinesFrom(t)
      BY <2>2, <3>1 DEF LinesFrom, Partial
    <3>3. QED
      BY <3>2 DEF Due
  <2>9. NewLines(s, n) \in Seq(LineRow) /\ Len(NewLines(s, n)) = m
    <3>1. NewLines(s, n) \in Seq(LineRow)
      BY <2>2, NewLineRows
    <3>2. QED
      BY <2>5, <3>1
  <2>10. \A k \in 1 .. m : NewLines(s, n)[k] = Line(s, Due[s] + k)
    BY <2>5, <2>6
  <2>11. Write(NewLines(s, n))
    BY <2>1 DEF Add
  <2>12. QED
    BY <2>2, <2>6, <2>7, <2>8, <2>9, <2>10, <2>11, LinesAppended
<1>6. ASSUME NEW s \in Sources, Done(s) PROVE InLines'
  <2> DEFINE new == IF Partial(s) THEN <<Line(s, sent[s] \div 2 + 1)>> ELSE <<>>
             m == IF Partial(s) THEN 1 ELSE 0
  <2>1. /\ open' = [open EXCEPT ![s] = "done"] /\ Add(JobOf[s], new) /\ UNCHANGED <<sent, job>>
        /\ open[s] = "open" /\ job[JobOf[s]] = "running" /\ sent[s] \in Nat
    BY <1>6 DEF Done, Feeding
  <2>2. PICK before \in Nat : before = sent[s] \div 2
    BY <2>1
  <2>3. Due[s] = before
    BY <2>1, <2>2 DEF Due, LinesFrom
  <2>4. Due'[s] = before + m
    <3>1. open'[s] = "done"
      BY <2>1 DEF Feeding
    <3>2. LinesFrom(s)' = before + m
      BY <2>1, <2>2, <3>1 DEF LinesFrom, Partial
    <3>3. QED
      BY <3>2 DEF Due
  <2>5. \A t \in Sources \ {s} : Due'[t] = Due[t]
    <3>1. \A t \in Sources \ {s} : open'[t] = open[t]
      BY <2>1 DEF Feeding
    <3>2. \A t \in Sources \ {s} : LinesFrom(t)' = LinesFrom(t)
      BY <2>1, <3>1 DEF LinesFrom, Partial
    <3>3. QED
      BY <3>2 DEF Due
  <2>6. Line(s, sent[s] \div 2 + 1) \in LineRow
    BY NewLineRows
  <2>7. /\ new \in Seq(LineRow) /\ Len(new) = m /\ m \in Nat
        /\ \A k \in 1 .. m : new[k] = Line(s, Due[s] + k)
    <3>1. CASE Partial(s)
      <4>1. new = <<Line(s, before + 1)>> /\ m = 1 /\ \A k \in 1 .. 1 : k = 1
        BY <2>2, <3>1
      <4>2. QED
        BY <2>2, <2>3, <2>6, <4>1
    <3>2. CASE ~Partial(s)
      BY <3>2
    <3>3. QED
      BY <3>1, <3>2
  <2> HIDE DEF new, m
  <2>8. Write(new)
    BY <2>1 DEF Add
  <2>9. QED
    BY <2>1, <2>3, <2>4, <2>5, <2>7, <2>8, LinesAppended
<1>7. CASE UNCHANGED <<job, open, sent, screen, broken>>
  BY <1>3, <1>7 DEF Due, LinesFrom, Partial
<1>8. QED
  BY <1>1, <1>2, <1>4, <1>5, <1>6, <1>7, OtherSteps

\* Lines mode shows every line of every source whole, once and in its order, wherever the writes
\* were cut and whatever the other sources write; a failure comes after the lines of its job.
THEOREM LinesAreShown == Spec => []LinesShown
<1> DEFINE LInv == mode = "lines" => InLines
<1>1. Init => LInv
  <2> SUFFICES ASSUME Init PROVE InLines
    OBVIOUS
  <2>1. \A s \in Sources : Due[s] = 0
    BY DEF Init, Due, LinesFrom
  <2>2. screen = <<>> /\ screen \in Seq(ShownRow) /\ DOMAIN screen = {}
    BY DEF Init
  <2>3. QED
    BY <2>1, <2>2 DEF InLines, Complete, OnlyDue, Ordered, FailureLast
<1>2. Everywhere /\ LInv /\ [Next]_vars => LInv'
  <2>1. [Next]_vars => mode' = mode
    BY DEF Next, vars, Start, Finish, Open, WriteBytes, Done, Message, RenderSnapshot, RenderDraw,
           RendererEnds, CloseStart, CloseJoin, CloseSnapshot, CloseDraw
  <2>2. QED
    BY <2>1, InLinesStep DEF Everywhere
<1>3. LInv => LinesShown
  <2> SUFFICES ASSUME InLines, ~broken, mode = "lines" PROVE LinesShown
    BY DEF LinesShown
  <2>1. Complete /\ OnlyDue /\ Ordered /\ FailureLast
    BY DEF InLines
  <2>2. \A s \in Sources : Due[s] = LinesFrom(s)
    BY DEF Due
  <2>3. \A s \in Sources : \A n \in 1 .. LinesFrom(s) : Line(s, n) \in ToSet(screen)
    BY <2>1, <2>2 DEF Complete, ToSet
  <2>4. \A s \in Sources : \A i \in DOMAIN screen :
          IsLineOf(s, screen[i]) => screen[i][3] \in 1 .. LinesFrom(s)
    BY <2>1, <2>2 DEF OnlyDue
  <2>5. \A i \in DOMAIN screen, s \in Sources :
          screen[i] = <<"failed", JobOf[s]>> => \A k \in i .. Len(screen) : ~IsLineOf(s, screen[k])
    BY <2>1, Constants DEF FailureLast
  <2>6. QED
    BY <2>1, <2>3, <2>4, <2>5 DEF LinesShown, Ordered
<1> HIDE DEF LInv
<1>4. QED
  BY EverywhereInit, EverywhereStep, <1>1, <1>2, <1>3, PTL DEF Spec
=============================================================================
