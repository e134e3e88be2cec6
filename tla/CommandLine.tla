---------------------------- MODULE CommandLine -----------------------------
(***************************************************************************)
(* cli.py: `clichain explain`, `check` and `compile`.  `check` imports a   *)
(* script inside pipeline.dry_run(), in which run() records pipelines      *)
(* instead of executing them, and then checks the tools of every pipeline  *)
(* it found.  The script may start threads, which call run() too and may   *)
(* outlive the import; what run() does then is a pre-flight check like     *)
(* that of `check`, at the same time and on the same cache of versions.    *)
(***************************************************************************)
EXTENDS Versions, ExitCodes

CONSTANTS
    Threads,        \* the threads that the script starts
    Main,           \* the main thread: the import, then the checks
    Pipes,          \* the pipelines of the script
    Binaries,
    Uses,           \* for each pipeline, the commands it may have: a set of sequences of
                    \* [binary, clauses, on_fail]
    Installations,  \* for each binary, what may be installed: a version, Missing, Undetectable
    MaxRuns,        \* bound: the calls of run() that an actor makes
    Codes,          \* what `explain` is asked about: return codes, or Invalid
    Missing, Undetectable, Unprobed, Invalid, NoPipe

Actors == Threads \cup {Main}

\* A command as tool() accepts it.
Clauses  == {c \in [op : Operators, req : Version] : Parses(c)}
Commands == [binary : Binaries, clauses : SUBSET Clauses, on_fail : {"error", "warn", "pass"}]

ASSUME CommandLineAssumption ==
    /\ Main \notin Threads /\ NoPipe \notin Pipes /\ MaxRuns \in Nat
    /\ Codes \subseteq Int \cup {Invalid}
    /\ \A b \in Binaries : Installations[b] \subseteq Version \cup {Missing, Undetectable}
    /\ Unprobed \notin Version /\ Missing \notin Version /\ Undetectable \notin Version
    /\ Missing # Undetectable /\ Unprobed # Missing /\ Unprobed # Undetectable
    /\ \A p \in Pipes : Uses[p] \subseteq Seq(Commands)

VARIABLES
    command, code,       \* the command line
    uses, installed,     \* the script and the machine
    phase,               \* start, import, collect, check, over
    dry,                 \* pipeline._dry_run is set
    recorded,            \* the list of that dry_run(): who ran which pipeline
    named,               \* the pipelines that variables of the module hold
    found, todo,         \* the pipelines to check, and those of them not checked yet
    failed, status, said,
    act,                 \* what each actor is doing
    cache,               \* checks._probe_cache
    lapsed,              \* the binaries that a probe got no version of although they have one
    executed,            \* the pipelines that were run
    calls                \* how often each actor has called run()

given    == <<command, code, uses, installed>>
mainVars == <<phase, dry, named, found, todo, failed, status, said>>
runVars  == <<recorded, executed, calls>>
toolVars == <<cache, lapsed>>
vars == <<given, mainVars, runVars, act, toolVars>>

\* An actor that checks has the commands of the pipeline whose tools are left to check, and
\* whether a check should_stop.
Doing(at, p, left, stops) == [at |-> at, pipe |-> p, left |-> left, stops |-> stops]
Idle         == Doing("idle", NoPipe, {}, FALSE)
Recording(p) == Doing("record", p, {}, FALSE)
Checking(p, left, stops) == Doing("check", p, left, stops)

Activities ==
    [at : {"idle", "record", "check", "probe"}, pipe : Pipes \cup {NoPipe}, left : SUBSET Nat,
     stops : BOOLEAN]

Init ==
    /\ command \in {"explain", "check", "compile"}
    /\ code \in IF command = "explain" THEN Codes ELSE {Invalid}
    /\ IF command = "check"
       THEN /\ uses \in {u \in [Pipes -> UNION {Uses[p] : p \in Pipes}] :
                           \A p \in Pipes : u[p] \in Uses[p]}
            /\ installed \in {i \in [Binaries -> UNION {Installations[b] : b \in Binaries}] :
                                \A b \in Binaries : i[b] \in Installations[b]}
       ELSE uses = <<>> /\ installed = <<>>
    /\ phase = "start" /\ dry = FALSE
    /\ recorded = {} /\ named = {} /\ found = {} /\ todo = {}
    /\ failed = FALSE /\ status = 0 /\ said = Unknown
    /\ act = [a \in Actors |-> Idle]
    /\ cache = [b \in Binaries |-> Unprobed] /\ lapsed = {} /\ executed = {}
    /\ calls = [a \in Actors |-> 0]

Exits(rc) == status' = rc /\ phase' = "over"

-----------------------------------------------------------------------------
(* explain and compile *)

Explain ==
    /\ command = "explain" /\ phase = "start"
    /\ IF code = Invalid THEN Exits(1) /\ UNCHANGED said
       ELSE Exits(0) /\ said' = explain_code(error_code(code))
    /\ UNCHANGED <<given, dry, named, found, todo, failed, runVars, act, toolVars>>

Compile ==    \* PyInstaller is installed or not
    /\ command = "compile" /\ phase = "start"
    /\ Exits(0) \/ Exits(1)
    /\ UNCHANGED <<given, dry, named, found, todo, failed, said, runVars, act, toolVars>>

-----------------------------------------------------------------------------
(* check: the import *)

Load ==    \* what is no script cannot be loaded
    /\ command = "check" /\ phase = "start"
    /\ \/ Exits(1) /\ UNCHANGED dry
       \/ phase' = "import" /\ dry' = TRUE /\ UNCHANGED status
    /\ UNCHANGED <<given, named, found, todo, failed, said, runVars, act, toolVars>>

Define ==
    /\ phase = "import" /\ act[Main] = Idle
    /\ \E p \in Pipes \ named : named' = named \cup {p}
    /\ UNCHANGED <<given, phase, dry, found, todo, failed, status, said, runVars, act, toolVars>>

\* The script ends, or raises: what it has defined and run so far counts.
LeaveBlock ==
    /\ phase = "import" /\ act[Main] = Idle
    /\ dry' = FALSE /\ phase' = "collect"
    /\ UNCHANGED <<given, named, found, todo, failed, status, said, runVars, act, toolVars>>

Collect ==
    /\ phase = "collect"
    /\ found' = named \cup {r.pipe : r \in recorded} /\ todo' = found' /\ phase' = "check"
    /\ UNCHANGED <<given, dry, named, failed, status, said, runVars, act, toolVars>>

-----------------------------------------------------------------------------
(* Pre-flight checks *)

\* manifest.unique_tools(): the first command of every binary.
UniqueTools(steps) ==
    {k \in DOMAIN steps : \A j \in 1 .. k - 1 : steps[j].binary # steps[k].binary}

OkIfUnknown(s, detected) ==
    /\ installed[s.binary] # Missing
    /\ s.clauses = {} \/ detected = Undetectable \/ Satisfies(detected, s.clauses)

\* binary_check(): a constraint that cannot be verified is not met.
Ok(s, detected) ==
    /\ installed[s.binary] # Missing
    /\ s.clauses = {} \/ (detected # Undetectable /\ Satisfies(detected, s.clauses))

StopsAlways(s, detected) == ~Ok(s, detected)

ShouldStop(s, detected) == ~Ok(s, detected) /\ s.on_fail = "error"

HasNext(a) == act[a].at = "check" /\ act[a].left # {}
NextOf(d)  == CHOOSE k \in d.left : \A j \in d.left : k <= j
Tool(d)    == uses[d.pipe][NextOf(d)]

\* The CheckResult of the actor's next tool.
Judge(a, detected) ==
    act' = [act EXCEPT ![a] = Checking(@.pipe, @.left \ {NextOf(@)},
                                       @.stops \/ ShouldStop(Tool(act[a]), detected))]

NeedsProbe(s) == installed[s.binary] # Missing /\ s.clauses # {} /\ cache[s.binary] = Unprobed

\* The version is not asked for, or it is in the cache.
CheckTool(a) ==
    /\ HasNext(a) /\ ~NeedsProbe(Tool(act[a]))
    /\ Judge(a, cache[Tool(act[a]).binary])
    /\ UNCHANGED <<given, mainVars, runVars, toolVars>>

\* Not in the cache: the tool is run without the lock, so two actors may do that at once.
Probe(a) ==
    /\ HasNext(a) /\ NeedsProbe(Tool(act[a]))
    /\ act' = [act EXCEPT ![a] = Doing("probe", @.pipe, @.left, @.stops)]
    /\ UNCHANGED <<given, mainVars, runVars, toolVars>>

\* It prints its version or none, or it takes too long.
Probed(a) ==
    /\ act[a].at = "probe"
    /\ LET b == Tool(act[a]).binary
       IN \E v \in {installed[b], Undetectable} :
            /\ cache' = [cache EXCEPT ![b] = v]
            /\ lapsed' = IF v = installed[b] THEN lapsed ELSE lapsed \cup {b}
            /\ Judge(a, v)
    /\ UNCHANGED <<given, mainVars, runVars>>

-----------------------------------------------------------------------------
(* Pipeline.run(), in the script itself or on a thread of it.  What its     *)
(* threads do once `check` has exited is left out.                          *)

MayRun(a) ==
    /\ act[a] = Idle /\ calls[a] < MaxRuns
    /\ phase \in IF a = Main THEN {"import"} ELSE {"import", "collect", "check"}

RunOnThreads(a) ==
    /\ MayRun(a)
    /\ \E p \in Pipes : \E tools \in {UniqueTools(uses[p]), {}} :
         act' = [act EXCEPT ![a] = IF dry /\ a = Main THEN Recording(p)
                                   ELSE Checking(p, tools, FALSE)]
    /\ calls' = [calls EXCEPT ![a] = @ + 1]
    /\ UNCHANGED <<given, mainVars, recorded, executed, toolVars>>

Run(a) ==    \* _dry_run is read once; run(validate=False) checks no tool
    /\ MayRun(a)
    /\ \E p \in Pipes : \E tools \in {UniqueTools(uses[p]), {}} :
         act' = [act EXCEPT ![a] = IF dry THEN Recording(p) ELSE Checking(p, tools, FALSE)]
    /\ calls' = [calls EXCEPT ![a] = @ + 1]
    /\ UNCHANGED <<given, mainVars, recorded, executed, toolVars>>

Record(a) ==
    /\ act[a].at = "record"
    /\ recorded' = recorded \cup {[by |-> a, pipe |-> act[a].pipe]}
    /\ act' = [act EXCEPT ![a] = Idle]
    /\ UNCHANGED <<given, mainVars, executed, calls, toolVars>>

Execute(a) ==
    /\ a # Main /\ act[a].at = "check" /\ act[a].left = {}
    /\ executed' = IF act[a].stops THEN executed ELSE executed \cup {act[a].pipe}
    /\ act' = [act EXCEPT ![a] = Idle]
    /\ UNCHANGED <<given, mainVars, recorded, calls, toolVars>>

-----------------------------------------------------------------------------
(* check: Pipeline.check() of every pipeline found *)

CheckPipeline ==
    /\ phase = "check" /\ act[Main] = Idle
    /\ \E p \in todo :
         /\ todo' = todo \ {p}
         /\ act' = [act EXCEPT ![Main] = Checking(p, UniqueTools(uses[p]), FALSE)]
    /\ UNCHANGED <<given, phase, dry, named, found, failed, status, said, runVars, toolVars>>

Checked ==
    /\ phase = "check" /\ act[Main].at = "check" /\ act[Main].left = {}
    /\ failed' = (failed \/ act[Main].stops)
    /\ act' = [act EXCEPT ![Main] = Idle]
    /\ UNCHANGED <<given, phase, dry, named, found, todo, status, said, runVars, toolVars>>

Exit ==
    /\ phase = "check" /\ act[Main] = Idle /\ todo = {}
    /\ Exits(IF failed THEN 1 ELSE 0)
    /\ UNCHANGED <<given, dry, named, found, todo, failed, said, runVars, act, toolVars>>

Next ==
    \/ Explain \/ Compile \/ Load \/ Define \/ LeaveBlock \/ Collect
    \/ CheckPipeline \/ Checked \/ Exit
    \/ \E a \in Actors : Run(a) \/ Record(a) \/ Execute(a) \/ CheckTool(a) \/ Probe(a) \/ Probed(a)
    \/ phase = "over" /\ UNCHANGED vars

Spec == Init /\ [][Next]_vars

-----------------------------------------------------------------------------
(* Properties *)

\* `check` imports the script "without executing any pipeline": as long as the dry run
\* lasts, no thread has executed a pipeline or is on the way to do so, or has probed a tool.
ImportExecutesNothing ==
    phase \in {"start", "import"} =>
      /\ executed = {} /\ \A b \in Binaries : cache[b] = Unprobed
      /\ \A a \in Actors : act[a].at \in {"idle", "record"}

\* A command's requirement is met: the tool is installed, in a version that is what every
\* clause of the constraint means.
Met(s) ==
    /\ installed[s.binary] # Missing
    /\ s.clauses = {} \/ /\ installed[s.binary] # Undetectable
                         /\ \A c \in s.clauses : Means(installed[s.binary], c.op, c.req)

\* "so CI can gate on it": when `check` exits 0, every pipeline that the script gave a name
\* or ran on its own thread has the tools that it cannot do without, whatever its threads
\* probed and stored at the same time.  Of the commands that use one binary this is about
\* the first: the others are not looked at.
GateHolds ==
    command = "check" /\ phase = "over" /\ status = 0 =>
      \A p \in named \cup {r.pipe : r \in {q \in recorded : q.by = Main}} :
        \A k \in DOMAIN uses[p] :
          LET s == uses[p][k]
          IN s.on_fail = "error" /\ (\A j \in 1 .. k - 1 : uses[p][j].binary # s.binary)
               => Met(s)

\* "Exits 1 when any check with on_fail="error" fails", and else only if there is no script:
\* some tool is really missing or of a wrong version, or a probe of it took too long.
FailsForCause ==
    command = "check" /\ found # {} /\ phase = "over" /\ status = 1 =>
      \E p \in found : \E k \in DOMAIN uses[p] :
        LET s == uses[p][k]
        IN s.on_fail = "error" /\ (~Met(s) \/ s.binary \in lapsed)

\* `explain` says of the code that a run printed what the run said of it; every exit code of
\* the list and every signal is explained, the latter however it was reported.
ExplainsCodes ==
    command = "explain" /\ phase = "over" /\ status = 0 =>
      /\ said = explain_exit(code)
      /\ code \in EXIT_CODES => said = [kind |-> "X", number |-> code]
      /\ \A n \in SignalNumbers : code \in {-n, 128 + n} => said = [kind |-> "S", number |-> n]
=============================================================================
