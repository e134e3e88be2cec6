---------------------------- MODULE LiveConsole ----------------------------
(***************************************************************************)
(* live.py: the output of the jobs of a run, shown while it runs.  Threads *)
(* feed bytes into the sources of their job; the lines and grouped         *)
(* consoles write under the lock, and in blocks mode a renderer thread     *)
(* redraws the running jobs below the lines that are committed.            *)
(*                                                                         *)
(* A line of a source is two pieces, the second with the newline, and a    *)
(* write carries any number of pieces.  With unit="process" a job has one  *)
(* source.  The screen is what was written for good: the rows of the live  *)
(* area below it are a number.                                             *)
(***************************************************************************)
EXTENDS Naturals, FiniteSets, SequencesExt

CONSTANTS
    Modes,     \* of the modes "lines", "grouped" and "blocks", those that a run may have
    Jobs,
    Sources,
    JobOf,     \* the job of each source
    Pieces,    \* the pieces each source writes at most
    Keep,      \* lines a block retains: GROUP_LIMIT, or the tail in blocks mode
    Height,    \* the rows of the terminal
    Messages,  \* the messages of peek and meter
    Breaks     \* TRUE: the display may fail

ASSUME ConsoleAssumption ==
    /\ Modes \subseteq {"lines", "grouped", "blocks"}
    /\ JobOf \in [Sources -> Jobs]
    /\ Pieces \in [Sources -> Nat] /\ Keep \in Nat \ {0} /\ Height \in Nat \ {0} /\ Messages \in Nat
    /\ Breaks \in BOOLEAN

VARIABLES
    mode,      \* Live.mode
    job,       \* each job: none, running, ok, failed
    open,      \* each source: new, open, done
    sent,      \* the pieces it has written
    written,   \* each job: the lines of its sources, in the order they came (a history)
    lines,     \* _Block.lines: the last Keep of them
    dropped,   \* _Block.dropped
    active,    \* _Block.active: a set of at most one source
    screen,
    broken,    \* Console._broken
    running,   \* BlocksConsole._running, in the order of the jobs' starts
    commits,   \* BlocksConsole._commits
    log,       \* all that was ever committed, in order (a history)
    said,      \* the number of messages
    drawn,     \* the rows of the live area on the screen
    renderer,  \* idle, writing, over
    closer,    \* close(): open, stopping, last, writing, closed
    frame      \* what the thread that renders is about to write: commits and rows

sourceVars == <<open, sent>>
jobVars    == <<job, written, lines, dropped, active>>
areaVars   == <<drawn, renderer, closer, frame>>
modelVars  == <<running, commits, log, said>>
vars == <<mode, sourceVars, jobVars, screen, broken, modelVars, areaVars>>

TypeOK ==
    /\ mode \in Modes
    /\ job \in [Jobs -> {"none", "running", "ok", "failed"}]
    /\ open \in [Sources -> {"new", "open", "done"}]
    /\ \A s \in Sources : sent[s] \in 0 .. Pieces[s]
    /\ \A j \in Jobs : Len(lines[j]) <= Keep /\ Len(lines[j]) <= Len(written[j])
    /\ dropped \in [Jobs -> Nat]
    /\ \A j \in Jobs : active[j] \subseteq {s \in Sources : JobOf[s] = j /\ open[s] = "open"}
    /\ broken \in BOOLEAN
    /\ ToSet(running) \subseteq Jobs /\ said \in 0 .. Messages
    /\ \A j \in ToSet(running) : job[j] = "running"
    /\ drawn \in Nat
    /\ renderer \in {"idle", "writing", "over"}
    /\ closer \in {"open", "stopping", "last", "writing", "closed"}

NoFrame == [commits |-> <<>>, rows |-> 0]

Init ==
    /\ mode \in Modes
    /\ job = [j \in Jobs |-> "none"]
    /\ open = [s \in Sources |-> "new"] /\ sent = [s \in Sources |-> 0]
    /\ written = [j \in Jobs |-> <<>>] /\ lines = [j \in Jobs |-> <<>>]
    /\ dropped = [j \in Jobs |-> 0]
    /\ active = [j \in Jobs |-> {}]
    /\ screen = <<>> /\ broken = FALSE
    /\ running = <<>> /\ commits = <<>> /\ log = <<>> /\ said = 0
    /\ drawn = 0
    /\ renderer = IF mode = "blocks" THEN "idle" ELSE "over"
    /\ closer = "open" /\ frame = NoFrame

-----------------------------------------------------------------------------

LastOf(n, seq) == IF Len(seq) <= n THEN seq ELSE SubSeq(seq, Len(seq) - n + 1, Len(seq))

FirstOf(n, seq) == SubSeq(seq, 1, IF Len(seq) <= n THEN Len(seq) ELSE n)

\* Console._write(): the rows appear, or the display fails and nothing more is shown.
Write(rows) ==
    IF broken \/ rows = <<>> THEN UNCHANGED <<screen, broken>>
    ELSE \/ screen' = screen \o rows /\ UNCHANGED broken
         \/ Breaks /\ broken' = TRUE /\ UNCHANGED screen

Commit(rows) == commits' = commits \o rows /\ log' = log \o rows

Line(s, k) == <<"line", s, k>>

-----------------------------------------------------------------------------
(* Jobs and sources *)

Start(j) ==
    /\ job[j] = "none" /\ closer = "open"
    /\ job' = [job EXCEPT ![j] = "running"]
    /\ running' = IF mode = "blocks" THEN Append(running, j) ELSE running
    /\ UNCHANGED <<mode, sourceVars, written, lines, dropped, active, screen, broken, commits, log,
                   said, areaVars>>

Open(s) ==
    /\ open[s] = "new" /\ job[JobOf[s]] = "running"
    /\ open' = [open EXCEPT ![s] = "open"]
    /\ UNCHANGED <<mode, sent, jobVars, screen, broken, modelVars, areaVars>>

AddMiscounted(j, new) ==
    /\ written' = [written EXCEPT ![j] = @ \o new]
    /\ CASE mode = "lines" -> Write(new) /\ UNCHANGED <<lines, dropped>>
         [] mode = "grouped" ->
              /\ lines' = [lines EXCEPT ![j] = LastOf(Keep, @ \o new)]
              /\ dropped' = [dropped EXCEPT ![j] = @ + (IF Len(new) > Keep
                                                         THEN Len(new) - Keep ELSE 0)]
              /\ UNCHANGED <<screen, broken>>
         [] mode = "blocks" ->
              /\ lines' = [lines EXCEPT ![j] = LastOf(Keep, @ \o LastOf(Keep, new))]
              /\ UNCHANGED <<dropped, screen, broken>>

AddFirst(j, new) ==
    /\ written' = [written EXCEPT ![j] = @ \o new]
    /\ CASE mode = "lines" -> Write(new) /\ UNCHANGED <<lines, dropped>>
         [] mode = "grouped" ->
              /\ lines' = [lines EXCEPT ![j] = LastOf(Keep, @ \o new)]
              /\ UNCHANGED <<dropped, screen, broken>>
         [] mode = "blocks" ->
              /\ lines' = [lines EXCEPT ![j] = LastOf(Keep, @ \o FirstOf(Keep, new))]
              /\ UNCHANGED <<dropped, screen, broken>>

\* _add(): in blocks mode feed() gives no more than the last Keep lines.
Add(j, new) ==
    /\ written' = [written EXCEPT ![j] = @ \o new]
    /\ CASE mode = "lines" -> Write(new) /\ UNCHANGED <<lines, dropped>>
         [] mode = "grouped" ->
              LET all == Len(lines[j]) + Len(new)
              IN /\ lines' = [lines EXCEPT ![j] = LastOf(Keep, @ \o new)]
                 /\ dropped' = [dropped EXCEPT ![j] = @ + (IF all > Keep THEN all - Keep ELSE 0)]
                 /\ UNCHANGED <<screen, broken>>
         [] mode = "blocks" ->
              /\ lines' = [lines EXCEPT ![j] = LastOf(Keep, @ \o LastOf(Keep, new))]
              /\ UNCHANGED <<dropped, screen, broken>>

\* The lines that the next n pieces of a source complete.
NewLines(s, n) ==
    LET before == sent[s] \div 2
        after  == (sent[s] + n) \div 2
    IN [k \in 1 .. after - before |-> Line(s, before + k)]

WriteBytes(s) ==
    /\ open[s] = "open"
    /\ \E n \in 1 .. Pieces[s] - sent[s] :
         /\ sent' = [sent EXCEPT ![s] = @ + n]
         /\ Add(JobOf[s], NewLines(s, n))
    /\ active' = [active EXCEPT ![JobOf[s]] = {s}]
    /\ UNCHANGED <<mode, open, job, modelVars, areaVars>>

Partial(s) == sent[s] % 2 = 1

DoneUnflushed(s) ==
    /\ open[s] = "open"
    /\ open' = [open EXCEPT ![s] = "done"]
    /\ active' = [active EXCEPT ![JobOf[s]] = @ \ {s}]
    /\ UNCHANGED <<mode, sent, job, written, lines, dropped, screen, broken, modelVars, areaVars>>

Done(s) ==    \* a last line without newline is flushed
    /\ open[s] = "open"
    /\ open' = [open EXCEPT ![s] = "done"]
    /\ Add(JobOf[s], IF Partial(s) THEN <<Line(s, sent[s] \div 2 + 1)>> ELSE <<>>)
    /\ active' = [active EXCEPT ![JobOf[s]] = @ \ {s}]
    /\ UNCHANGED <<mode, sent, job, modelVars, areaVars>>

\* finish(), after every source of the job: summary() is the row <<rc, j>>.
Finish(j, rc) ==
    /\ job[j] = "running"
    /\ \A s \in Sources : JobOf[s] = j => open[s] # "open"
    /\ job' = [job EXCEPT ![j] = rc]
    /\ CASE mode = "lines" ->
              /\ Write(IF rc = "failed" THEN <<<<rc, j>>>> ELSE <<>>)
              /\ UNCHANGED <<lines, running, commits, log>>
         [] mode = "grouped" ->
              /\ Write(<<<<rc, j, dropped[j], lines[j]>>>>)
              /\ lines' = [lines EXCEPT ![j] = <<>>]
              /\ UNCHANGED <<running, commits, log>>
         [] mode = "blocks" ->
              /\ running' = RemoveFirst(running, j)
              /\ Commit(<<<<rc, j>>>> \o (IF rc = "failed" THEN lines[j] ELSE <<>>))
              /\ UNCHANGED <<lines, screen, broken>>
    /\ UNCHANGED <<mode, sourceVars, written, dropped, active, said, areaVars>>

Message ==    \* a bridge's, perhaps from a callback that outlives the run
    /\ mode = "blocks" /\ said < Messages
    /\ said' = said + 1
    /\ Commit(<<<<"message", said'>>>>)
    /\ UNCHANGED <<mode, sourceVars, jobVars, screen, broken, running, areaVars>>

-----------------------------------------------------------------------------
(* BlocksConsole: the renderer thread and close() *)

\* The rows of a block: its head, and the last of its lines and the partial one.
BlockRows(j) ==
    LET shown == Len(lines[j]) + Cardinality({s \in active[j] : Partial(s)})
    IN 1 + (IF shown < Keep THEN shown ELSE Keep)

Budget == IF Height - 3 > 2 THEN Height - 3 ELSE 2

\* The rows of the first n blocks.
Used[n \in 0 .. Len(running)] == IF n = 0 THEN 0 ELSE Used[n - 1] + BlockRows(running[n])

FrameRowsUnbounded ==
    Used[Len(running)] + (IF Cardinality({j \in Jobs : job[j] # "none"}) > 1 THEN 1 ELSE 0)

\* _frame(): the blocks that fit, a row for the others, and one for the totals.
FrameRows ==
    LET total == IF Cardinality({j \in Jobs : job[j] # "none"}) > 1 THEN 1 ELSE 0
        fits  == {n \in 0 .. Len(running) : Used[n] <= Budget}
        most  == CHOOSE n \in fits : \A k \in fits : k <= n
    IN Used[most] + (IF most < Len(running) THEN 1 ELSE 0) + total

SwapCopies(rows) ==
    /\ frame' = [commits |-> commits, rows |-> rows]
    /\ UNCHANGED commits

\* _render() under the lock: it takes the commits and a snapshot of the running jobs.
Swap(rows) ==
    /\ frame' = [commits |-> commits, rows |-> rows]
    /\ commits' = <<>>

\* _render() outside the lock: the live area is erased, the commits and the frame written.
Draw ==
    /\ \/ Write(frame.commits)
       \/ Breaks /\ ~broken /\ (frame.rows > 0 \/ drawn > 0) /\ broken' = TRUE /\ UNCHANGED screen
    /\ drawn' = frame.rows
    /\ frame' = NoFrame

RenderSnapshot ==
    /\ renderer = "idle" /\ closer = "open"
    /\ Swap(FrameRows)
    /\ renderer' = "writing"
    /\ UNCHANGED <<mode, sourceVars, jobVars, screen, broken, running, log, said, drawn, closer>>

RenderDraw ==
    /\ renderer = "writing"
    /\ Draw
    /\ renderer' = "idle"
    /\ UNCHANGED <<mode, sourceVars, jobVars, modelVars, closer>>

RendererEnds ==
    /\ renderer = "idle" /\ closer = "stopping"
    /\ renderer' = "over"
    /\ UNCHANGED <<mode, sourceVars, jobVars, screen, broken, modelVars, drawn, closer, frame>>

CloseStart ==    \* the run is over: its jobs are finished
    /\ closer = "open" /\ \A j \in Jobs : job[j] # "running"
    /\ closer' = IF mode = "blocks" THEN "stopping" ELSE "closed"
    /\ UNCHANGED <<mode, sourceVars, jobVars, screen, broken, modelVars, drawn, renderer, frame>>

CloseUnjoined ==
    /\ closer = "stopping"
    /\ closer' = "last"
    /\ UNCHANGED <<mode, sourceVars, jobVars, screen, broken, modelVars, drawn, renderer, frame>>

CloseJoin ==
    /\ closer = "stopping" /\ renderer = "over"
    /\ closer' = "last"
    /\ UNCHANGED <<mode, sourceVars, jobVars, screen, broken, modelVars, drawn, renderer, frame>>

CloseSnapshot ==
    /\ closer = "last"
    /\ Swap(0)
    /\ closer' = "writing"
    /\ UNCHANGED <<mode, sourceVars, jobVars, screen, broken, running, log, said, drawn, renderer>>

CloseDraw ==
    /\ closer = "writing"
    /\ Draw
    /\ closer' = "closed"
    /\ UNCHANGED <<mode, sourceVars, jobVars, modelVars, renderer>>

Next ==
    \/ \E j \in Jobs : Start(j) \/ \E rc \in {"ok", "failed"} : Finish(j, rc)
    \/ \E s \in Sources : Open(s) \/ WriteBytes(s) \/ Done(s)
    \/ Message \/ RenderSnapshot \/ RenderDraw \/ RendererEnds
    \/ CloseStart \/ CloseJoin \/ CloseSnapshot \/ CloseDraw
    \/ closer = "closed" /\ UNCHANGED vars

Spec == Init /\ [][Next]_vars

-----------------------------------------------------------------------------
(* Properties *)

Ended(j) == job[j] \in {"ok", "failed"}

\* The lines that source s has completed, and the last one once it was flushed.
LinesFrom(s) == (sent[s] \div 2) + (IF open[s] = "done" /\ Partial(s) THEN 1 ELSE 0)

IsLineOf(s, row) == row[1] = "line" /\ row[2] = s

\* Lines mode: every line of a source is shown whole, once and in order, however the
\* bytes were cut and whatever the other sources write, and a failure comes after them.
LinesShown ==
    mode = "lines" /\ ~broken =>
      /\ \A s \in Sources :
           /\ \A n \in 1 .. LinesFrom(s) : Line(s, n) \in ToSet(screen)
           /\ \A i \in DOMAIN screen : IsLineOf(s, screen[i]) => screen[i][3] \in 1 .. LinesFrom(s)
           /\ \A i, k \in DOMAIN screen :
                i < k /\ IsLineOf(s, screen[i]) /\ IsLineOf(s, screen[k])
                  => screen[i][3] < screen[k][3]
      /\ \A i \in DOMAIN screen, s \in Sources :
           screen[i] = <<"failed", JobOf[s]>> =>
             \A k \in i .. Len(screen) : ~IsLineOf(s, screen[k])

\* "A job's whole output in one piece when it finishes": the last Keep lines of all its
\* sources, and the number of those before them.
GroupsWhole ==
    mode = "grouped" /\ ~broken =>
      \A j \in Jobs :
        LET shown == LastOf(Keep, written[j])
            group == <<job[j], j, Len(written[j]) - Len(shown), shown>>
        IN /\ \A i \in DOMAIN screen : screen[i][2] = j => Ended(j) /\ screen[i] = group
           /\ Ended(j) => \E i \in DOMAIN screen :
                            \A k \in DOMAIN screen : screen[k][2] = j <=> k = i

\* Blocks mode: what is committed appears once and in order, never lost between the
\* threads that commit, the renderer and close().
CommitsKept ==
    mode = "blocks" /\ ~broken => screen \o frame.commits \o commits = log

\* close() leaves "only the committed lines on screen": no live area, and the summary of
\* every job.
ClosedClean ==
    mode = "blocks" /\ closer = "closed" =>
      /\ drawn = 0
      /\ ~broken => \A j \in Jobs : Ended(j) => <<job[j], j>> \in ToSet(screen)

\* The block of a failed job keeps the end of its output.
TailKept == mode = "blocks" => \A j \in Jobs : lines[j] = LastOf(Keep, written[j])

\* Every state has its type, and every block its tail.
Inv == TypeOK /\ TailKept

\* "The frame must stay below the screen height or the terminal scrolls and the next
\* redraw cannot reach its top."
FrameFits == drawn < Height
=============================================================================
