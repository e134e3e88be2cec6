------------------------------ MODULE Executor ------------------------------
(***************************************************************************)
(* A pipeline is built step by step; execute.plan() cuts its steps into    *)
(* groups and execute() runs them one after the other, each on the text    *)
(* that the one before it left.  What a group does inside is StreamGroup   *)
(* and EachRun; here it is one action, with the exits of its processes     *)
(* and the outcomes that _Run and _StreamGroup can return.                 *)
(*                                                                         *)
(* A text is a number of lines of one byte, so the counts of lines and of  *)
(* bytes, which the code keeps apart, must agree.  The stderr of a group   *)
(* is the number of the group.                                             *)
(***************************************************************************)
EXTENDS ExitCodes, SequencesExt

CONSTANTS
    MaxSteps,   \* the longest pipeline
    MaxText,    \* the longest text
    OkCodes,    \* the ok_codes of the kinds of commands: strict and lenient ones
    Exits       \* the return codes of processes

Commands == {"strict", "lenient"}

ASSUME ExecutorAssumption ==
    /\ MaxSteps \in Nat \ {0} /\ MaxText \in Nat
    /\ DOMAIN OkCodes = Commands /\ \A c \in Commands : ValidOkCodes(OkCodes[c])
    /\ Exits \subseteq Int

\* source: feed or from_file; bridge: filter, peek or meter; redirect: stdout to a file;
\* errors: a redirect of stderr only; both: of stdout and stderr.
Redirects  == {"redirect", "errors", "both"}
FileSinks  == {"redirect", "both"}
Streamable == Commands \cup {"source", "bridge"}
Kinds      == Streamable \cup Redirects \cup {"each", "collect", "capture"}

\* A pipeline begins with a command, or with its source and a command.
Pipelines ==
    LET Rest(n) == [1 .. n -> Kinds \ {"source"}]
    IN {<<c>> \o r : c \in Commands, r \in UNION {Rest(n) : n \in 0 .. MaxSteps - 1}} \cup
       {<<"source", c>> \o r : c \in Commands, r \in UNION {Rest(n) : n \in 0 .. MaxSteps - 2}}

-----------------------------------------------------------------------------
(* plan() *)

PlaceAlone(p, step) ==
    IF step \in Streamable THEN [p EXCEPT !.current = Append(@, step)]
    ELSE [groups |-> Append(IF p.current = <<>> THEN p.groups
                            ELSE Append(p.groups, p.current), <<step>>),
          current |-> <<>>]

\* A redirect closes the group of the steps before it, if they stream.
Place(p, step) ==
    IF step \in Streamable THEN [p EXCEPT !.current = Append(@, step)]
    ELSE IF step \in Redirects /\ p.current # <<>>
    THEN [groups |-> Append(p.groups, Append(p.current, step)), current |-> <<>>]
    ELSE [groups |-> Append(IF p.current = <<>> THEN p.groups
                            ELSE Append(p.groups, p.current), <<step>>),
          current |-> <<>>]

Plan(s) ==
    LET end == FoldLeft(Place, [groups |-> <<>>, current |-> <<>>], s)
    IN IF end.current = <<>> THEN end.groups ELSE Append(end.groups, end.current)

-----------------------------------------------------------------------------

VARIABLES
    steps,       \* the pipeline
    pc,          \* build, loop, over (execute() returned), raised
    groups,      \* its plan
    ignore_sigpipe,
    text,        \* output: the text left by the last group
    nbytes,
    offset,      \* the number of steps in the groups that are done
    profile,     \* a row for each group that ran
    returncode,
    failed,      \* failed_step, from 1; 0 for None
    exits,       \* the return codes of the last group's processes, at their places in it
    stderr,      \* run.stderr
    filed,       \* the stderr that was written to redirect targets
    stopped      \* ProcessGroup.stopped is not None

given == <<steps, groups, ignore_sigpipe>>
rows  == <<text, nbytes, offset, profile>>
ends  == <<returncode, failed, exits>>
vars  == <<given, pc, rows, ends, stderr, filed, stopped>>

position == Len(profile) + 1
chunk    == groups[position]

Texts == 0 .. MaxText
Row   == [lines_in : Texts, lines_out : Texts, bytes_in : Texts, bytes_out : Texts]

TypeOK ==
    /\ steps \in Pipelines
    /\ pc \in {"build", "loop", "over", "raised"} /\ ignore_sigpipe \in BOOLEAN
    /\ text \in Texts /\ nbytes \in Texts
    /\ offset \in 0 .. Len(steps) /\ failed \in 0 .. Len(steps)
    /\ Len(profile) <= Len(groups) /\ \A k \in DOMAIN profile : profile[k] \in Row
    /\ returncode \in Exits \cup {0, 1} /\ (returncode = 0 <=> failed = 0)
    /\ stderr \in Seq(1 .. MaxSteps) /\ filed \in Seq(1 .. MaxSteps)
    /\ stopped \in BOOLEAN

Init ==
    /\ \E c \in Commands : steps = <<c>>
    /\ pc = "build" /\ groups = <<>> /\ ignore_sigpipe \in BOOLEAN
    /\ text = 0 /\ nbytes = 0 /\ offset = 0 /\ exits = <<>>
    /\ profile = <<>>
    /\ returncode = 0 /\ failed = 0
    /\ stderr = <<>> /\ filed = <<>>
    /\ stopped = FALSE

-----------------------------------------------------------------------------
(* The builder methods: each returns a new pipeline, with more steps *)

Building(new) ==
    /\ pc = "build" /\ Len(new) <= MaxSteps
    /\ steps' = new
    /\ UNCHANGED <<groups, ignore_sigpipe, pc, rows, ends, stderr, filed, stopped>>

\* filter(), peek(), meter(), each(), collect(), capture() and redirect() go to the end.
Then == \E step \in Kinds \ (Commands \cup {"source"}) : Building(Append(steps, step))

\* feed() and from_file() go before all others, and refuse a second source.
Source == steps[1] # "source" /\ Building(<<"source">> \o steps)

\* Pipelines to pipe() into: a command, and one with steps or a source of its own.
Others == {<<c>> : c \in Commands} \cup {<<"lenient", "collect">>, <<"source", "strict">>}

Pipe == \E other \in Others : "source" \notin Range(other) /\ Building(steps \o other)

Run ==
    /\ pc = "build"
    /\ groups' = Plan(steps) /\ pc' = "loop"
    /\ UNCHANGED <<steps, ignore_sigpipe, rows, ends, stderr, filed, stopped>>

-----------------------------------------------------------------------------
(* execute() *)

\* What the loop does once run_group() has returned r: bytes_in and bytes_out of r are
\* sets, empty for None; r.failed is an index in the group, 0 for None.
OfSet(ns, default) == IF ns = {} THEN default ELSE CHOOSE n \in ns : TRUE

RowOf(r) ==
    LET bytes_in == OfSet(r.bytes_in, nbytes)
    IN [lines_in |-> text, lines_out |-> r.output,
        bytes_in |-> bytes_in, bytes_out |-> OfSet(r.bytes_out, bytes_in)]

RecordForgets(r) ==
    text' = r.output /\ profile' = Append(profile, RowOf(r)) /\ UNCHANGED nbytes

Record(r) ==
    /\ text' = r.output
    /\ profile' = Append(profile, RowOf(r))
    /\ nbytes' = RowOf(r).bytes_out

FailsAt(i, code) ==
    /\ returncode' = code /\ pc' = "over"
    /\ failed' = i

Proceed(r) ==
    IF r.returncode = 0 THEN offset' = offset + Len(chunk) /\ UNCHANGED <<pc, returncode, failed>>
    ELSE /\ FailsAt(offset + (IF r.failed = 0 THEN Len(chunk) ELSE r.failed), r.returncode)
         /\ UNCHANGED offset

After(r, rcs) == Record(r) /\ Proceed(r) /\ exits' = rcs

\* A group without processes.
Ends(r) == After(r, <<>>)

Outcome(t, code, i, in, out) ==
    [output |-> t, returncode |-> code, failed |-> i, bytes_in |-> in, bytes_out |-> out]
Passes(t) == Outcome(t, 0, 0, {}, {})
Fail(i)   == Outcome(0, 1, i, {}, {})

Begins(kinds) == pc = "loop" /\ position <= Len(groups) /\ ~stopped /\ chunk[1] \in kinds

Sink == Last(chunk)    \* the group's redirect, if it has one
ToFile     == Sink \in FileSinks
ErrsToFile == Sink \in {"errors", "both"}

OpenSinksKeeps ==
    filed' = filed \o (IF ErrsToFile THEN stderr ELSE <<>>) /\ stderr' = stderr

\* open_sinks(): the stderr collected so far goes to the stderr target.
OpenSinks ==
    IF ErrsToFile THEN filed' = filed \o stderr /\ stderr' = <<>>
    ELSE UNCHANGED <<stderr, filed>>

\* A target cannot be opened, or not be written to its end, with a part in it: what was
\* collected stays where it is.
SinksFail ==
    /\ \E n \in 0 .. (IF ErrsToFile THEN Len(stderr) ELSE 0) : filed' = filed \o SubSeq(stderr, 1, n)
    /\ stderr' = stderr

\* _StreamGroup._build() fails before the sinks are open, opening them, or after it.
BuildFails ==
    /\ Begins(Streamable)
    /\ \/ chunk[1] = "source" /\ Ends(Fail(1)) /\ UNCHANGED <<stderr, filed>>
       \/ Sink \in Redirects /\ Ends(Fail(Len(chunk))) /\ SinksFail
       \/ /\ \E i \in DOMAIN chunk : chunk[i] \in Commands \cup {"bridge"} /\ Ends(Fail(i))
          /\ OpenSinks
    /\ UNCHANGED <<given, stopped>>

Processes == {i \in DOMAIN chunk : chunk[i] \in Commands}
OkOf      == [i \in Processes |-> OkCodes[chunk[i]]]

\* _finish() and _status(): the group read its input, wrote out and left its stderr.
StreamEnds ==
    /\ Begins(Streamable)
    /\ \E fed, out \in Texts, rcs \in [Processes -> Exits] :
         LET status == Status(rcs, OkOf, ignore_sigpipe)
         IN /\ chunk[1] # "source" => fed = text
            /\ After(Outcome(IF ToFile THEN 0 ELSE out, status.returncode, status.failed,
                             {fed}, {out}), rcs)
    /\ IF ErrsToFile THEN filed' = (filed \o stderr) \o <<position>> /\ stderr' = <<>>
       ELSE stderr' = Append(stderr, position) /\ UNCHANGED filed
    /\ UNCHANGED <<given, stopped>>

Each ==    \* no line, no output and no stderr
    /\ Begins({"each"})
    /\ \E out \in Texts, code \in {0, 1} :
         /\ text = 0 => out = 0 /\ code = 0
         /\ Ends(Outcome(out, code, 0, {}, {out}))
    /\ stderr' = IF text = 0 THEN stderr ELSE Append(stderr, position)
    /\ UNCHANGED <<given, filed, stopped>>

\* A callback raises out of a streaming group or of each().
Raises ==
    /\ Begins(Streamable \cup {"each"})
    /\ pc' = "raised"
    /\ UNCHANGED <<given, rows, ends, stderr, filed, stopped>>

Buffered ==    \* a value that capture() rejects is not empty
    /\ Begins({"collect", "capture"})
    /\ \/ Ends(Passes(text))
       \/ chunk[1] = "capture" /\ text > 0 /\ Ends(Fail(0))
    /\ UNCHANGED <<given, stderr, filed, stopped>>

RedirectBuffered ==
    /\ Begins(Redirects)
    /\ \/ OpenSinks /\ Ends(Passes(IF ToFile THEN 0 ELSE text))
       \/ SinksFail /\ Ends(Fail(0))
       \/ ToFile /\ OpenSinks /\ Ends(Fail(0))    \* the text cannot be written
    /\ UNCHANGED <<given, stopped>>

Return ==
    /\ pc = "loop" /\ (position > Len(groups) \/ stopped)
    /\ pc' = "over"
    /\ UNCHANGED <<given, rows, ends, stderr, filed, stopped>>

Stop ==
    /\ pc = "loop" /\ ~stopped
    /\ stopped' = TRUE
    /\ UNCHANGED <<given, pc, rows, ends, stderr, filed>>

Next ==
    \/ Then \/ Source \/ Pipe \/ Run
    \/ BuildFails \/ StreamEnds \/ Each \/ Raises \/ Buffered \/ RedirectBuffered
    \/ Return \/ Stop
    \/ pc \in {"over", "raised"} /\ UNCHANGED vars

Spec == Init /\ [][Next]_vars

-----------------------------------------------------------------------------
(* Properties *)

Streams(g) == g[1] \in Streamable

\* "The pipeline planner groups consecutive streamable steps together, with a redirect
\* right after them as the group's sink": the groups are the pipeline, in order; all steps
\* of a streaming group stream, but for a redirect at its end; the others are alone; and
\* no two groups could have been one.
PlannedInGroups ==
    LET gs == groups
    IN /\ pc # "build" => FlattenSeq(gs) = steps
       /\ \A k \in DOMAIN gs :
            IF Streams(gs[k])
            THEN /\ \A i \in 1 .. Len(gs[k]) - 1 : gs[k][i] \in Streamable
                 /\ Last(gs[k]) \in Streamable \cup Redirects
            ELSE Len(gs[k]) = 1
       /\ \A k \in 1 .. Len(gs) - 1 :
            Last(gs[k]) \in Streamable => gs[k + 1][1] \notin Streamable \cup Redirects

\* Every state has its type, and the groups of a plan are those of its pipeline.
Inv == TypeOK /\ PlannedInGroups

\* bytes_in and bytes_out are the bytes "entering the group" and the bytes "it produced
\* (for a redirect: how much the file grew)", for as long as no group failed and no
\* redirect consumed the text.
BytesCounted ==
    \A k \in DOMAIN profile :
      (k < Len(profile) \/ failed = 0) /\ (\A j \in 1 .. k - 1 : Last(groups[j]) \notin FileSinks)
        => /\ groups[k][1] # "source" => profile[k].bytes_in = profile[k].lines_in
           /\ Last(groups[k]) \notin FileSinks => profile[k].bytes_out = profile[k].lines_out

\* The run ended at a target of stderr which, for all one can tell, was not written to its end.
TargetFailed ==
    /\ failed # 0 /\ failed = offset + Len(groups[Len(profile)])
    /\ Last(groups[Len(profile)]) \in {"errors", "both"}

\* "stderr= receives the stderr of every command up to that point": what the groups left
\* is in the Result or in a file, once, and nothing that came before an opened target is
\* in the Result.  Only of a target that could not be written may a part be in both.
StderrInOnePlace ==
    pc # "raised" =>
      /\ IsInjective(filed) /\ IsInjective(stderr)
      /\ TargetFailed \/ IsInjective(filed \o stderr)
      /\ \A k \in 1 .. Len(profile) - 1 :
           Streams(groups[k]) => k \in ToSet(filed) \cup ToSet(stderr)
      /\ \A k \in DOMAIN profile :
           (k < Len(profile) \/ failed = 0) /\ Last(groups[k]) \in {"errors", "both"}
             => \A j \in ToSet(stderr) : j > k

\* "An exit that is not a failure: 0, one of the tool's ok_codes, or SIGPIPE from a writer
\* whose reader stopped early".
Harmless(k, i) ==
    LET rc == exits[i]
    IN rc = 0 \/ rc \in OkCodes[groups[k][i]] \/ (ignore_sigpipe /\ rc \in SIGPIPE_CODES)

\* failed_step is a step of the last group that ran, and never a collect().  A group whose
\* processes all ended well lets the run go on; else the run ends with the code of the first
\* one that did not, and names its step.
FailureReported ==
    LET k      == Len(profile)
        before == Len(FlattenSeq(SubSeq(groups, 1, k - 1)))
        bad    == {i \in DOMAIN exits : ~Harmless(k, i)}
    IN /\ failed # 0 => failed - before \in DOMAIN groups[k] /\ steps[failed] # "collect"
       /\ exits # <<>> =>
            IF bad = {} THEN returncode = 0
            ELSE /\ returncode = exits[Min(bad)] /\ pc = "over"
                 /\ failed = before + Min(bad)
=============================================================================
