---------------------------- MODULE RunLifecycle ----------------------------
(***************************************************************************)
(* pipeline.Pipeline.run(): the signal guard, the console, the pre-flight  *)
(* checks, the timeout and the execution of one run, and how they are      *)
(* undone in reverse order on every path.  The children are those of a     *)
(* ProcessGroup, seen through its contract (Supervision): alive, reason    *)
(* and state.  The main thread is interrupted by the guard's handler and   *)
(* raced by the timer thread of the timeout.                               *)
(***************************************************************************)
CONSTANTS
    Procs,     \* the children the steps may spawn
    Signals,   \* SignalGuard.SIGNALS
    Timeout, Handler, None

ASSUME RunAssumption ==
    /\ None \notin Signals \cup {Timeout, Handler}
    /\ Timeout \notin {"none", "checks", "ok", "failed"}
    /\ Handler \notin {"none", "checks", "ok", "failed"}

VARIABLES
    host,      \* what handled each signal before: "default", "custom" or "ignored"
    main,      \* run() was called on the main thread
    timed,     \* run() was given a timeout
    checked,   \* run(check=True)
    alive, reason, state,  \* the process group
    pc,         \* where run() is
    handlers,   \* who handles each signal: host or guard
    previous,   \* SignalGuard._previous: the signals whose handler it replaced
    received,   \* SignalGuard.received
    delivered,  \* the signals deliver() handed to their previous handler
    timer,      \* the threading.Timer of the timeout
    console,    \* live output: none, open, closed
    result      \* the Result: none yet, checks (they stopped the run), ok, failed, or who
                \* stopped the execution

groupVars == <<alive, reason, state>>
guardVars == <<handlers, previous, received, delivered>>
given == <<host, main, timed, checked>>
vars == <<given, groupVars, guardVars, pc, timer, console, result>>

Group == INSTANCE Supervision WITH Stoppers <- {Timeout, Handler}

TypeOK ==
    /\ host \in [Signals -> {"default", "custom", "ignored"}]
    /\ main \in BOOLEAN /\ timed \in BOOLEAN /\ checked \in BOOLEAN
    /\ alive \subseteq Procs /\ reason \in {Timeout, Handler, None}
    /\ state \in {"open", "sealed", "closed"}
    /\ pc \in {"guard", "console", "preflight", "start", "execute", "finish", "stopped",
               "cancel", "join", "leave", "restore", "close", "deliver", "raise", "returned",
               "refused", "interrupted"}
       \cup {"cancel!", "join!", "leave!", "restore!", "close!", "raised"}
    /\ handlers \in [Signals -> {"host", "guard"}]
    /\ previous \subseteq Signals
    /\ received \in Signals \cup {None} /\ delivered \subseteq Signals
    /\ timer \in {"none", "armed", "stopping", "over", "cancelled"}
    /\ console \in {"none", "open", "closed"}
    /\ result \in {"none", "checks", "ok", "failed", Timeout, Handler}

Init ==
    /\ host \in [Signals -> {"default", "custom", "ignored"}]
    /\ main \in BOOLEAN /\ timed \in BOOLEAN /\ checked \in BOOLEAN
    /\ Group!Init
    /\ pc = "guard"
    /\ handlers = [sig \in Signals |-> "host"]
    /\ previous = {} /\ received = None /\ delivered = {}
    /\ timer = "none" /\ console = "none" /\ result = "none"

-----------------------------------------------------------------------------
(* The signal guard *)

ReplaceableAll == {sig \in Signals : main}

Replaceable == {sig \in Signals : main /\ host[sig] # "ignored"}

\* __enter__ replaces one handler after the other.
Install ==
    /\ pc = "guard"
    /\ IF previous = Replaceable
       THEN pc' = "console" /\ UNCHANGED guardVars
       ELSE /\ \E sig \in Replaceable \ previous :
                 /\ handlers' = [handlers EXCEPT ![sig] = "guard"]
                 /\ previous' = previous \cup {sig}
            /\ UNCHANGED <<received, delivered, pc>>
    /\ UNCHANGED <<given, groupVars, timer, console, result>>

\* ProcessGroup.stop(): ignored unless it comes before finish(), and only the first counts.
StopBy(s) == IF state = "open" /\ reason = None THEN Group!Stop(s) ELSE UNCHANGED groupVars

\* _handle(), between any two steps of the main thread.  A second signal kills the
\* children, which is nothing new to the contract, and is not recorded.
Handle ==
    /\ \E sig \in Signals :
         /\ handlers[sig] = "guard"
         /\ received = None
         /\ received' = sig
    /\ StopBy(Handler)
    /\ UNCHANGED <<given, handlers, previous, delivered, pc, timer, console, result>>

\* __exit__, with or without an exception (the "!" states) on its way.
RestoreNothing(mark, next) ==
    /\ pc = mark
    /\ pc' = next
    /\ UNCHANGED <<given, groupVars, guardVars, timer, console, result>>

Restore(mark, next) ==
    /\ pc = mark
    /\ IF \A sig \in previous : handlers[sig] = "host"
       THEN pc' = next /\ UNCHANGED handlers
       ELSE /\ \E sig \in previous : handlers[sig] = "guard"
                 /\ handlers' = [handlers EXCEPT ![sig] = "host"]
            /\ UNCHANGED pc
    /\ UNCHANGED <<given, groupVars, previous, received, delivered, timer, console, result>>

DeliverIfStopped ==
    /\ pc = "deliver"
    /\ IF received = None \/ reason # Handler
       THEN pc' = "raise" /\ UNCHANGED delivered
       ELSE /\ delivered' = delivered \cup {received}
            /\ pc' = "interrupted" \/ (host[received] = "custom" /\ pc' = "raise")
    /\ UNCHANGED <<given, groupVars, handlers, previous, received, timer, console, result>>

\* deliver(): SIGINT's default handler raises, SIGTERM's ends the process, and a custom
\* one may do either or return.
Deliver ==
    /\ pc = "deliver"
    /\ IF received = None
       THEN pc' = "raise" /\ UNCHANGED delivered
       ELSE /\ delivered' = delivered \cup {received}
            /\ pc' = "interrupted" \/ (host[received] = "custom" /\ pc' = "raise")
    /\ UNCHANGED <<given, groupVars, handlers, previous, received, timer, console, result>>

-----------------------------------------------------------------------------
(* run() and _execute() on the main thread *)

OpenConsole ==
    /\ pc = "console"
    /\ \/ console' = "open" /\ pc' = "preflight"
       \/ console' = console /\ pc' = "restore!"
    /\ UNCHANGED <<given, groupVars, guardVars, timer, result>>

\* The checks pass, some of them stop the run, or one of the caller's own raises.
Preflight ==
    /\ pc = "preflight"
    /\ \/ pc' = "start" /\ UNCHANGED result
       \/ pc' = "leave" /\ result' = "checks"
       \/ pc' = "leave!" /\ UNCHANGED result
    /\ UNCHANGED <<given, groupVars, guardVars, timer, console>>

StartTimer ==
    /\ pc = "start"
    /\ timer' = IF timed THEN "armed" ELSE "none"
    /\ pc' = "execute"
    /\ UNCHANGED <<given, groupVars, guardVars, console, result>>

SpawnUnchecked ==
    /\ pc = "execute"
    /\ \E p \in Procs \ alive : Group!Start(p)
    /\ UNCHANGED <<given, guardVars, pc, timer, console, result>>

Spawn ==
    /\ pc = "execute" /\ reason = None
    /\ \E p \in Procs \ alive : Group!Start(p)
    /\ UNCHANGED <<given, guardVars, pc, timer, console, result>>

\* A child is waited for.
ChildEnds ==
    /\ \E p \in alive : Group!End(p)
    /\ UNCHANGED <<given, guardVars, pc, timer, console, result>>

\* execute() returns its outcome, or raises: an error of a callback, of the decoding...
Executed ==
    /\ pc = "execute" /\ alive = {}
    /\ \/ pc' = "finish" /\ result' \in {"ok", "failed"}
       \/ pc' = "cancel!" /\ UNCHANGED result
    /\ UNCHANGED <<given, groupVars, guardVars, timer, console>>

FinishSealsNothing ==
    /\ pc = "finish"
    /\ pc' = "stopped"
    /\ UNCHANGED <<given, groupVars, guardVars, timer, console, result>>

Finish ==
    /\ pc = "finish"
    /\ Group!Seal
    /\ pc' = "stopped"
    /\ UNCHANGED <<given, guardVars, timer, console, result>>

ReadStopped ==    \* the stop's code wins over the killed processes'
    /\ pc = "stopped"
    /\ result' = IF reason = None THEN result ELSE reason
    /\ pc' = "cancel"
    /\ UNCHANGED <<given, groupVars, guardVars, timer, console>>

Cancel(mark, next) ==
    /\ pc = mark
    /\ timer' = IF timer = "armed" THEN "cancelled" ELSE timer
    /\ pc' = next
    /\ UNCHANGED <<given, groupVars, guardVars, console, result>>

JoinNothing(mark, next) ==
    /\ pc = mark
    /\ pc' = next
    /\ UNCHANGED <<given, groupVars, guardVars, timer, console, result>>

Join(mark, next) ==
    /\ pc = mark /\ timer \in {"none", "cancelled", "over"}
    /\ pc' = next
    /\ UNCHANGED <<given, groupVars, guardVars, timer, console, result>>

CloseConsole(mark, next) ==
    /\ pc = mark
    /\ console' = "closed"
    /\ pc' = next
    /\ UNCHANGED <<given, groupVars, guardVars, timer, result>>

CloseGroup(mark, next) ==
    /\ pc = mark
    /\ Group!Close
    /\ pc' = next
    /\ UNCHANGED <<given, guardVars, timer, console, result>>

Raise ==    \* PipelineError for a result that is not ok, or the Result
    /\ pc = "raise"
    /\ pc' = IF checked /\ result # "ok" THEN "refused" ELSE "returned"
    /\ UNCHANGED <<given, groupVars, guardVars, timer, console, result>>

Main ==
    \/ Install \/ OpenConsole \/ Preflight \/ StartTimer \/ Executed \/ Finish \/ ReadStopped
    \/ Cancel("cancel", "join") \/ Join("join", "leave") \/ CloseConsole("leave", "restore")
    \/ Restore("restore", "close") \/ CloseGroup("close", "deliver") \/ Deliver \/ Raise
    \/ Cancel("cancel!", "join!") \/ Join("join!", "leave!") \/ CloseConsole("leave!", "restore!")
    \/ Restore("restore!", "close!") \/ CloseGroup("close!", "raised")

-----------------------------------------------------------------------------
(* The timeout's thread *)

Fire ==
    /\ timer = "armed"
    /\ timer' = "stopping"
    /\ UNCHANGED <<given, groupVars, guardVars, pc, console, result>>

TimerStops ==
    /\ timer = "stopping"
    /\ StopBy(Timeout)
    /\ timer' = "over"
    /\ UNCHANGED <<given, guardVars, pc, console, result>>

Over == pc \in {"returned", "refused", "interrupted", "raised"}

Next ==
    \/ Main \/ Spawn \/ ChildEnds \/ Handle \/ Fire \/ TimerStops
    \/ Over /\ UNCHANGED vars

Spec == Init /\ [][Next]_vars

\* The main thread and the timer thread make progress, a timeout elapses, and the children
\* of a stopped group end (ProcessGroup!StopEndsRun).
FairSpec ==
    /\ Spec
    /\ WF_vars(Main) /\ WF_vars(Fire) /\ WF_vars(TimerStops)
    /\ WF_vars(reason # None /\ ChildEnds)

-----------------------------------------------------------------------------
(* Properties *)

\* The result of an execution says why it was stopped, and nothing else: a stop that comes
\* too late for the result is not recorded, and one that is recorded is reported.
ResultTellsWhy ==
    state = "closed" =>
        /\ result \in {"ok", "failed"} => reason = None
        /\ result \in {Timeout, Handler} => reason = result

\* A signal is handed on once everything is cleaned up: no child, no live display, no
\* timer that could still stop the run, and every handler is the host's again.
DeliveredAfterCleanup ==
    delivered # {} =>
        /\ state = "closed" /\ alive = {} /\ console = "closed"
        /\ timer \notin {"armed", "stopping"}
        /\ \A sig \in Signals : handlers[sig] = "host"

\* However run() ends, it leaves the process as it found it.
NothingLeftBehind ==
    Over => /\ \A sig \in Signals : handlers[sig] = "host"
            /\ state = "closed" /\ alive = {}
            /\ timer \notin {"armed", "stopping"} /\ console \in {"none", "closed"}

\* Ignored signals stay ignored, and other threads install nothing.
IgnoredStaysIgnored ==
    \A sig \in Signals : ~main \/ host[sig] = "ignored"
        => handlers[sig] = "host" /\ received # sig /\ sig \notin delivered

\* run() never returns a Result, raises it as a PipelineError, or raises what the host's
\* handler raises, while it keeps a signal to itself.
ReturnedSignalDelivered ==
    pc \in {"returned", "refused", "interrupted"} /\ received # None => delivered = {received}

\* "Once everything is cleaned up, the signal is handed to the handler that was installed
\* before", whatever became of the run.
SignalHandedOn == Over /\ received # None => delivered = {received}

\* A run that is asked to stop, by a signal or by its timeout, ends, whatever its children
\* do; and so does one that has a timeout.
StoppedRunEnds == (reason # None \/ timer = "armed") ~> Over

-----------------------------------------------------------------------------
(* What the safety properties rest on *)

Delivering == {"raise", "returned", "refused", "interrupted"}
Restored   == {"close", "deliver", "close!", "raised"} \cup Delivering
Unwinding  == {"leave", "restore", "leave!", "restore!"} \cup Restored
Closed     == {"deliver", "raised"} \cup Delivering

\* The parts of run() are undone in reverse order: children, timer, console, handlers, group.
Unwound ==
    /\ pc # "execute" => alive = {}
    /\ pc \in {"guard", "console", "preflight", "start"} => timer = "none"
    /\ pc \in {"join", "join!"} => timer # "armed"
    /\ pc \in Unwinding => timer \notin {"armed", "stopping"}
    /\ pc \in {"guard", "console"} => console = "none"
    /\ pc = "restore!" \/ pc \in Restored => console \in {"none", "closed"}
    /\ pc = "restore" \/ pc \in Restored \ {"close!", "raised"} => console = "closed"
    /\ pc \in Restored => \A sig \in Signals : handlers[sig] = "host"
    /\ pc \in Closed <=> state = "closed"

\* The result at each point of run(), and the stop it tells of.
Told ==
    /\ pc \in {"guard", "console", "preflight", "start", "execute", "cancel!", "join!",
               "leave!", "restore!", "close!", "raised"} => result = "none"
    /\ pc \in {"finish", "stopped"} => result \in {"ok", "failed"}
    /\ pc \in {"guard", "console", "preflight", "start", "execute", "finish"} => state = "open"
    /\ pc \in {"stopped", "cancel", "join"} => state = "sealed"
    /\ pc \notin {"finish", "stopped"} /\ result \in {"ok", "failed"} =>
         state # "open" /\ reason = None
    /\ result \in {Timeout, Handler} => state # "open" /\ reason = result

\* The guard takes no handler but those it may replace, and gives them all back.
Guarded ==
    /\ previous \subseteq Replaceable
    /\ received # None => received \in Replaceable
    /\ \A sig \in Signals : handlers[sig] = "guard" => sig \in previous
    /\ delivered # {} => pc \in Delivering
    /\ pc \in Delivering => delivered = IF received = None THEN {} ELSE {received}

Inv == TypeOK /\ Unwound /\ Told /\ Guarded /\ IgnoredStaysIgnored
=============================================================================
