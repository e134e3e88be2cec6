---------------------------- MODULE ProcessGroup ----------------------------
(***************************************************************************)
(* clichain/process.py: the children of one run and the threads that       *)
(* start, signal and wait for them.                                        *)
(*                                                                         *)
(*   Groups    the executions of a streaming group (execute._StreamGroup). *)
(*             Each belongs to one thread, which spawns the group's        *)
(*             children one after the other and then waits for them; the   *)
(*             groups of parallel each() lines run at the same time.       *)
(*   Stoppers  the calls of ProcessGroup.stop(): the timeout's timer       *)
(*             thread (Timeout), the signal handler (Handler) and the      *)
(*             abort() calls of each().                                    *)
(*   OnMain    the groups and callers whose thread is the main thread.  It *)
(*             does one thing at a time, but the signal handler interrupts *)
(*             it, and because the lock is re-entrant it does so even      *)
(*             inside a critical section.                                  *)
(*                                                                         *)
(* A critical section that no handler can interrupt is one action.  The    *)
(* one of stop() is interrupted when abort() runs on the main thread, and  *)
(* has then an action per statement.                                       *)
(***************************************************************************)

CONSTANTS
    Procs,             \* the children that may be spawned
    Groups,
    Stoppers,
    Timeout, Handler,  \* two callers of stop(), not in Stoppers when not used
    Second,            \* the second signal, which calls kill(); None if there is none
    OnMain,
    Stubborn,          \* children that survive SIGTERM
    GraceCoversSpawn,  \* TRUE: no Popen() outlasts the grace period
    None

ASSUME ActorsAssumption ==
    /\ None \notin Procs \cup Stoppers \cup Groups
    /\ Second \notin Stoppers \cup Groups
    /\ Groups \cap Stoppers = {}
    /\ OnMain \subseteq (Groups \cup Stoppers) \ {Timeout}
    /\ Handler \in Stoppers => Handler \in OnMain
    /\ GraceCoversSpawn \in BOOLEAN

Killers == (Stoppers \cup {Second}) \ {None}    \* s \in Stoppers: the timer s created

VARIABLES
    proc,      \* each child; termed and killed: alive, but it was sent the signal
    procs,     \* self._procs
    stop,      \* self._stop: the caller whose Stop it holds
    finished,  \* self._finished
    killer,    \* self._killer: the caller that created the timer
    at,        \* where each caller is in stop()
    terming,   \* the children each caller has yet to send SIGTERM
    kill,      \* where each timer (and the second signal) is in kill()
    killing,   \* the children each of them has yet to send SIGKILL
    pc,        \* where each group's thread is
    cur,       \* the child it is spawning, or killed and waits for
    mine,      \* the children it has not waited for yet
    aborting,  \* _StreamGroup.aborting
    toterm,    \* the children its reap() has yet to send SIGTERM
    phase      \* the run: running, closing (inside close()), closed

fieldVars == <<procs, stop, finished, killer>>
callVars  == <<at, terming>>
killVars  == <<kill, killing>>
groupVars == <<pc, cur, mine, aborting, toterm>>
vars == <<proc, fieldVars, callVars, killVars, groupVars, phase>>

TypeOK ==
    /\ proc \in [Procs -> {"unborn", "running", "termed", "killed", "exited", "waited"}]
    /\ procs \subseteq Procs
    /\ stop \in Stoppers \cup {None}
    /\ finished \in BOOLEAN
    /\ killer \in Stoppers \cup {None}
    /\ at \in [Stoppers -> {"off", "lock", "decide", "killer", "arm", "snapshot",
                            "sending", "returned"}]
    /\ terming \in [Stoppers -> SUBSET Procs]
    /\ kill \in [Killers -> {"none", "armed", "called", "sending", "over", "cancelled"}]
    /\ killing \in [Killers -> SUBSET Procs]
    /\ pc \in [Groups -> {"new", "idle", "popen", "add", "late", "term", "waiting",
                          "last", "done"}]
    /\ cur \in [Groups -> Procs \cup {None}]
    /\ \A g \in Groups : cur[g] = None <=> pc[g] \notin {"popen", "add", "late", "last"}
    /\ mine \in [Groups -> SUBSET Procs]
    /\ aborting \in [Groups -> BOOLEAN]
    /\ toterm \in [Groups -> SUBSET Procs]
    /\ phase \in {"running", "closing", "closed"}

Init ==
    /\ proc = [p \in Procs |-> "unborn"]
    /\ procs = {}
    /\ stop = None
    /\ finished = FALSE
    /\ killer = None
    /\ at = [s \in Stoppers |-> "off"]
    /\ terming = [s \in Stoppers |-> {}]
    /\ kill = [k \in Killers |-> "none"]
    /\ killing = [k \in Killers |-> {}]
    /\ pc = [g \in Groups |-> "new"]
    /\ cur = [g \in Groups |-> None]
    /\ mine = [g \in Groups |-> {}]
    /\ aborting = [g \in Groups |-> FALSE]
    /\ toterm = [g \in Groups |-> {}]
    /\ phase = "running"

-----------------------------------------------------------------------------
(* Children, threads and the lock *)

Alive(p) == proc[p] \in {"running", "termed", "killed"}

\* _send(): poll() finds the child alive and the signal is sent, or nothing happens.
Send(p, mark) ==
    proc' = IF Alive(p) /\ proc[p] # "killed" THEN [proc EXCEPT ![p] = mark] ELSE proc

\* A child exits by itself, or of a signal it obeys.
Exit(p) ==
    /\ Alive(p)
    /\ proc' = [proc EXCEPT ![p] = "exited"]
    /\ UNCHANGED <<fieldVars, callVars, killVars, groupVars, phase>>

Obeys(p) == proc[p] = "killed" \/ (proc[p] = "termed" /\ p \notin Stubborn)

Inside(s) == at[s] \notin {"off", "returned"}

Critical(s) == at[s] \in {"decide", "killer", "arm", "snapshot"}

\* A handler is on top of the main thread's stack: the first signal's stop(), or the
\* second's kill(), which may have interrupted it.
SecondActive  == \E k \in Killers \ Stoppers : kill[k] \in {"called", "sending"}
HandlerActive == SecondActive \/ \E s \in Stoppers : s = Handler /\ Inside(s)

MainBusy(a) ==
    \/ a \in Groups /\ pc[a] \notin {"new", "done"}
    \/ a \in Stoppers /\ Inside(a)

\* The thread of a can take a step of a: it is not inside a handler or doing another thing.
Runs(a) ==
    /\ a = Handler => ~SecondActive
    /\ a \in OnMain \ {Handler} =>
         ~HandlerActive /\ \A b \in OnMain \ {Handler, a} : ~MainBusy(b)

\* The RLock is free, or the thread of a holds it already.
CanLock(a) == a \in OnMain \cup {Second} \/ \A s \in Stoppers : ~Critical(s)

-----------------------------------------------------------------------------
(* stop() *)

\* abort() is called inside execute(); the timer and a signal may also come after it,
\* until the timer is joined and the handlers are restored, which is before close().
Call(s) ==
    /\ at[s] = "off" /\ phase = "running" /\ Runs(s)
    /\ s \notin {Timeout, Handler} => ~finished /\ \E g \in Groups : pc[g] # "new"
    /\ at' = [at EXCEPT ![s] = "lock"]
    /\ UNCHANGED <<proc, fieldVars, terming, killVars, groupVars, phase>>

\* The rest of stop() once its list of children is made: SIGTERM for each of ps.
ToTerm(s, ps) ==
    /\ terming' = [terming EXCEPT ![s] = ps]
    /\ at' = [at EXCEPT ![s] = IF ps = {} THEN "returned" ELSE "sending"]

ArmBy(s) == killer' = s /\ kill' = [kill EXCEPT ![s] = "armed"]

\* The critical section on a thread that no handler interrupts.
EnterUnsealed(s) ==
    /\ at[s] = "lock" /\ Runs(s) /\ CanLock(s)
    /\ s \in OnMain => s = Handler
    /\ stop' = IF stop = None THEN s ELSE stop
    /\ IF killer = None THEN ArmBy(s) ELSE UNCHANGED <<killer, kill>>
    /\ ToTerm(s, procs)
    /\ UNCHANGED <<proc, procs, finished, killing, groupVars, phase>>

Enter(s) == ~finished /\ EnterUnsealed(s)

Ignored(s) ==    \* finish() came first
    /\ at[s] = "lock" /\ Runs(s) /\ CanLock(s) /\ finished
    /\ at' = [at EXCEPT ![s] = "returned"]
    /\ UNCHANGED <<proc, fieldVars, terming, killVars, groupVars, phase>>

\* The same section on the main thread, where the handler may come between any two
\* statements: the test of self._stop, its assignment, the test of self._killer, ...
EnterMain(s) ==
    /\ at[s] = "lock" /\ Runs(s) /\ CanLock(s) /\ ~finished
    /\ s \in OnMain \ {Handler}
    /\ at' = [at EXCEPT ![s] = IF stop = None THEN "decide" ELSE "killer"]
    /\ UNCHANGED <<proc, fieldVars, terming, killVars, groupVars, phase>>

Decide(s) ==
    /\ at[s] = "decide" /\ Runs(s)
    /\ stop' = s
    /\ at' = [at EXCEPT ![s] = "killer"]
    /\ UNCHANGED <<proc, procs, finished, killer, terming, killVars, groupVars, phase>>

CheckKiller(s) ==
    /\ at[s] = "killer" /\ Runs(s)
    /\ at' = [at EXCEPT ![s] = IF killer = None THEN "arm" ELSE "snapshot"]
    /\ UNCHANGED <<proc, fieldVars, terming, killVars, groupVars, phase>>

Arm(s) ==
    /\ at[s] = "arm" /\ Runs(s)
    /\ ArmBy(s)
    /\ at' = [at EXCEPT ![s] = "snapshot"]
    /\ UNCHANGED <<proc, procs, stop, finished, terming, killing, groupVars, phase>>

Snapshot(s) ==
    /\ at[s] = "snapshot" /\ Runs(s)
    /\ ToTerm(s, procs)
    /\ UNCHANGED <<proc, fieldVars, killVars, groupVars, phase>>

SendTerm(s) ==
    /\ at[s] = "sending" /\ Runs(s)
    /\ \E p \in terming[s] : Send(p, "termed") /\ ToTerm(s, terming[s] \ {p})
    /\ UNCHANGED <<fieldVars, killVars, groupVars, phase>>

StopStep(s) ==
    \/ Enter(s) \/ Ignored(s) \/ EnterMain(s) \/ Decide(s) \/ CheckKiller(s)
    \/ Arm(s) \/ Snapshot(s) \/ SendTerm(s)

-----------------------------------------------------------------------------
(* kill() *)

\* The grace period ends: the timer's thread calls kill().
Fire(k) ==
    /\ k \in Stoppers /\ kill[k] = "armed"
    /\ GraceCoversSpawn => \A g \in Groups : pc[g] \notin {"popen", "add"}
    /\ kill' = [kill EXCEPT ![k] = "called"]
    /\ UNCHANGED <<proc, fieldVars, callVars, killing, groupVars, phase>>

\* A second signal, once the handler has set `received`.
SecondSignal ==
    /\ phase = "running" /\ \E s \in Stoppers : s = Handler /\ at[s] # "off"
    /\ \E k \in Killers \ Stoppers : kill[k] = "none" /\ kill' = [kill EXCEPT ![k] = "called"]
    /\ UNCHANGED <<proc, fieldVars, callVars, killing, groupVars, phase>>

ToKill(k, ps) ==
    /\ killing' = [killing EXCEPT ![k] = ps]
    /\ kill' = [kill EXCEPT ![k] = IF ps = {} THEN "over" ELSE "sending"]

KillSnapshot(k) ==
    /\ kill[k] = "called" /\ CanLock(IF k = Second THEN k ELSE None)
    /\ ToKill(k, procs)
    /\ UNCHANGED <<proc, fieldVars, callVars, groupVars, phase>>

SendKillTerm(k) ==
    /\ kill[k] = "sending"
    /\ \E p \in killing[k] : Send(p, "termed") /\ ToKill(k, killing[k] \ {p})
    /\ UNCHANGED <<fieldVars, callVars, groupVars, phase>>

SendKill(k) ==
    /\ kill[k] = "sending"
    /\ \E p \in killing[k] : Send(p, "killed") /\ ToKill(k, killing[k] \ {p})
    /\ UNCHANGED <<fieldVars, callVars, groupVars, phase>>

KillStep(k) == Fire(k) \/ KillSnapshot(k) \/ SendKill(k)

-----------------------------------------------------------------------------
(* A group's thread: _StreamGroup.run() as the process group sees it *)

\* execute() and the one() of each() start no group once the run is stopped.
Begin(g) ==
    /\ pc[g] = "new" /\ Runs(g)
    /\ phase = "running" /\ ~finished /\ stop = None
    /\ pc' = [pc EXCEPT ![g] = "idle"]
    /\ UNCHANGED <<proc, fieldVars, callVars, killVars, cur, mine, aborting, toterm, phase>>

\* reap(): SIGTERM for each of ps, then the waits.
ToReap(g, ps) ==
    /\ toterm' = [toterm EXCEPT ![g] = ps]
    /\ pc' = [pc EXCEPT ![g] = IF ps = {} THEN "waiting" ELSE "term"]

\* An error of the group, or Stopped: _abort() reaps the children it has.
Abort(g) == aborting' = [aborting EXCEPT ![g] = TRUE] /\ ToReap(g, mine[g])

SpawnCheck(g) ==    \* the test of self._stop at the head of spawn(), without the lock
    /\ pc[g] = "idle" /\ Runs(g)
    /\ \E p \in Procs : proc[p] = "unborn" /\ \A h \in Groups : cur[h] # p
         /\ IF stop # None
            THEN Abort(g) /\ UNCHANGED cur
            ELSE /\ pc' = [pc EXCEPT ![g] = "popen"]
                 /\ cur' = [cur EXCEPT ![g] = p]
                 /\ UNCHANGED <<aborting, toterm>>
    /\ UNCHANGED <<proc, fieldVars, callVars, killVars, mine, phase>>

Popen(g) ==
    /\ pc[g] = "popen" /\ Runs(g)
    /\ proc' = [proc EXCEPT ![cur[g]] = "running"]
    /\ pc' = [pc EXCEPT ![g] = "add"]
    /\ UNCHANGED <<fieldVars, callVars, killVars, cur, mine, aborting, toterm, phase>>

PopenFails(g) ==
    /\ pc[g] = "popen" /\ Runs(g)
    /\ Abort(g)
    /\ cur' = [cur EXCEPT ![g] = None]
    /\ UNCHANGED <<proc, fieldVars, callVars, killVars, mine, phase>>

\* spawn() returns the child and the group keeps it in its own list of processes.
Own(g) ==
    /\ pc' = [pc EXCEPT ![g] = "idle"]
    /\ mine' = [mine EXCEPT ![g] = @ \cup {cur[g]}]
    /\ cur' = [cur EXCEPT ![g] = None]

AddUnchecked(g) ==
    /\ pc[g] = "add" /\ Runs(g) /\ CanLock(g)
    /\ procs' = procs \cup {cur[g]}
    /\ Own(g)
    /\ UNCHANGED <<proc, stop, finished, killer, callVars, killVars, aborting, toterm, phase>>

Add(g) ==
    /\ pc[g] = "add" /\ Runs(g) /\ CanLock(g)
    /\ procs' = procs \cup {cur[g]}
    /\ IF stop # None
       THEN pc' = [pc EXCEPT ![g] = "late"] /\ UNCHANGED <<cur, mine>>
       ELSE Own(g)
    /\ UNCHANGED <<proc, stop, finished, killer, callVars, killVars, aborting, toterm, phase>>

LateTerm(g) ==    \* stop() ran between the check and the add
    /\ pc[g] = "late" /\ Runs(g)
    /\ Send(cur[g], "termed")
    /\ Own(g)
    /\ UNCHANGED <<fieldVars, callVars, killVars, aborting, toterm, phase>>

Built(g) ==
    /\ pc[g] = "idle" /\ Runs(g)
    /\ pc' = [pc EXCEPT ![g] = "waiting"]
    /\ UNCHANGED <<proc, fieldVars, callVars, killVars, cur, mine, aborting, toterm, phase>>

Fail(g) ==    \* building the group or reading its output fails
    /\ pc[g] \in {"idle", "waiting"} /\ ~aborting[g] /\ Runs(g)
    /\ Abort(g)
    /\ UNCHANGED <<proc, fieldVars, callVars, killVars, cur, mine, phase>>

ReapTerm(g) ==
    /\ pc[g] = "term" /\ Runs(g)
    /\ \E p \in toterm[g] : Send(p, "termed") /\ ToReap(g, toterm[g] \ {p})
    /\ UNCHANGED <<fieldVars, callVars, killVars, cur, mine, aborting, phase>>

\* wait(): the child has exited, and leaves self._procs.  Until it has left, _send()
\* finds that it exited, so the two statements are one step.
Wait(g, p) ==
    /\ proc[p] = "exited" /\ Runs(g) /\ CanLock(g)
    /\ proc' = [proc EXCEPT ![p] = "waited"]
    /\ procs' = procs \ {p}
    /\ mine' = [mine EXCEPT ![g] = @ \ {p}]
    /\ cur' = [cur EXCEPT ![g] = None]
    /\ pc' = [pc EXCEPT ![g] = "waiting"]
    /\ UNCHANGED <<stop, finished, killer, callVars, killVars, aborting, toterm, phase>>

WaitOne(g) == pc[g] = "waiting" /\ \E p \in mine[g] : Wait(g, p)

ReapForgets(g) ==
    /\ pc[g] = "waiting" /\ aborting[g] /\ Runs(g)
    /\ \E p \in mine[g] : /\ Alive(p)
                          /\ Send(p, "killed")
                          /\ mine' = [mine EXCEPT ![g] = @ \ {p}]
    /\ UNCHANGED <<fieldVars, callVars, killVars, pc, cur, aborting, toterm, phase>>

ReapKeepsWaiting(g) ==
    /\ pc[g] = "waiting" /\ aborting[g] /\ Runs(g)
    /\ \E p \in mine[g] : Alive(p) /\ cur' = [cur EXCEPT ![g] = p]
    /\ pc' = [pc EXCEPT ![g] = "last"]
    /\ UNCHANGED <<proc, fieldVars, callVars, killVars, mine, aborting, toterm, phase>>

\* The deadline is shared, so the children are waited for in any order.
ReapExpires(g) ==    \* TimeoutExpired: SIGKILL, then wait for this one without a limit
    /\ pc[g] = "waiting" /\ aborting[g] /\ Runs(g)
    /\ \E p \in mine[g] : /\ Alive(p)
                          /\ Send(p, "killed")
                          /\ cur' = [cur EXCEPT ![g] = p]
    /\ pc' = [pc EXCEPT ![g] = "last"]
    /\ UNCHANGED <<fieldVars, callVars, killVars, mine, aborting, toterm, phase>>

WaitLast(g) == pc[g] = "last" /\ Wait(g, cur[g])

Done(g) ==
    /\ pc[g] = "waiting" /\ Runs(g) /\ mine[g] = {}
    /\ pc' = [pc EXCEPT ![g] = "done"]
    /\ UNCHANGED <<proc, fieldVars, callVars, killVars, cur, mine, aborting, toterm, phase>>

GroupStep(g) ==
    \/ SpawnCheck(g) \/ Popen(g) \/ PopenFails(g) \/ Add(g) \/ LateTerm(g) \/ Built(g)
    \/ ReapTerm(g) \/ WaitOne(g) \/ ReapExpires(g) \/ WaitLast(g) \/ Done(g)

-----------------------------------------------------------------------------
(* The run: Pipeline.run() and _execute() as the process group sees them *)

\* execute() has returned or raised: nothing inside it is under way.
ExecuteEnded ==
    /\ \A g \in Groups : pc[g] \in {"new", "done"}
    /\ \A s \in Stoppers \ {Timeout, Handler} : ~Inside(s)
    /\ ~HandlerActive

Finish ==    \* execute() returned
    /\ phase = "running" /\ ~finished /\ ExecuteEnded
    /\ finished' = TRUE
    /\ UNCHANGED <<proc, procs, stop, killer, callVars, killVars, groupVars, phase>>

CloseUncancelled ==
    /\ phase = "running" /\ ExecuteEnded /\ \A s \in Stoppers : ~Inside(s)
    /\ phase' = "closed"
    /\ UNCHANGED <<proc, fieldVars, callVars, killVars, groupVars>>

\* The timeout's timer is joined and the handlers are restored; close() reads self._killer
\* and cancels it, which a timer that has fired does not notice.
Close ==
    /\ phase = "running" /\ ExecuteEnded /\ \A s \in Stoppers : ~Inside(s)
    /\ phase' = "closing"
    /\ kill' = [k \in Killers |-> IF k = killer /\ kill[k] = "armed"
                                  THEN "cancelled" ELSE kill[k]]
    /\ UNCHANGED <<proc, fieldVars, callVars, killing, groupVars>>

Join ==
    /\ phase = "closing"
    /\ killer # None => kill[killer] \in {"over", "cancelled"}
    /\ phase' = "closed"
    /\ UNCHANGED <<proc, fieldVars, callVars, killVars, groupVars>>

Main == Finish \/ Close \/ Join

Next ==
    \/ \E p \in Procs : Exit(p)
    \/ \E s \in Stoppers : Call(s) \/ StopStep(s)
    \/ \E k \in Killers : KillStep(k)
    \/ SecondSignal
    \/ \E g \in Groups : Begin(g) \/ Fail(g) \/ GroupStep(g)
    \/ Main
    \/ phase = "closed" /\ UNCHANGED vars

Spec == Init /\ [][Next]_vars

\* Threads make progress, timers fire, and a child dies of a signal it obeys; nothing
\* obliges a child to exit by itself, a group to fail or anybody to call stop().
Fairness ==
    /\ \A p \in Procs : WF_vars(Obeys(p) /\ Exit(p))
    /\ \A s \in Stoppers : WF_vars(StopStep(s))
    /\ \A k \in Killers : WF_vars(KillStep(k))
    /\ \A g \in Groups : WF_vars(GroupStep(g))
    /\ WF_vars(Main)

FairSpec == Spec /\ Fairness

-----------------------------------------------------------------------------
(* Properties *)

Late(p) == \E g \in Groups : cur[g] = p /\ pc[g] \in {"add", "late"}

\* "children spawned while or after it runs are terminated too": once a stop() that found
\* the run going has returned, every child still running has been sent a signal, or its
\* spawn() has yet to look at self._stop again.
NoChildMissed ==
    ~finished /\ (\E s \in Stoppers : at[s] = "returned")
        => \A p \in Procs : proc[p] # "running" \/ Late(p)

\* Somebody still waits for every child: one that was not waited for is in self._procs
\* and belongs to a group that has not ended, and a run is closed with none.
NoChildForgotten ==
    /\ \A p \in Procs : Alive(p) \/ proc[p] = "exited" =>
         Late(p) \/ (p \in procs /\ \E g \in Groups : p \in mine[g] /\ pc[g] # "done")
    /\ phase # "running" => procs = {}

\* close() releases the kill timer: none is left that would still fire.
CloseReleasesTimers ==
    phase = "closed" => \A s \in Stoppers : kill[s] \notin {"armed", "called", "sending"}

\* stop() terminates "every child now and kill survivors after the grace period": a
\* stopped run comes to its end, whatever its children do.
StopEndsRun == stop # None ~> phase = "closed"

\* A group that failed ends, although its children need not exit by themselves.
AbortEndsGroup == \A g \in Groups : aborting[g] ~> pc[g] = "done"

\* What the other modules rely on.
Contract == INSTANCE Supervision WITH
    alive  <- {p \in Procs : Alive(p) \/ proc[p] = "exited"},
    reason <- stop,
    state  <- IF phase # "running" THEN "closed" ELSE IF finished THEN "sealed" ELSE "open"

\* The first stop() decides, finish() makes the decision final, and only a run without
\* children is sealed or closed.
ImplementsSupervision == Contract!Spec

-----------------------------------------------------------------------------
(* What NoChildMissed, NoChildForgotten and the refinement rest on *)

Present(p) == Alive(p) \/ proc[p] = "exited"    \* spawned and not waited for

\* Every child present is in the hands of exactly one group.
Owned ==
    /\ \A g \in Groups : \A p \in mine[g] :
         Present(p) /\ p \in procs /\ pc[g] \notin {"new", "done"}
    /\ \A g \in Groups :
         /\ pc[g] = "popen" => proc[cur[g]] = "unborn"
         /\ pc[g] \in {"add", "late"} => Present(cur[g])
         /\ pc[g] = "late" => cur[g] \in procs
         /\ pc[g] = "last" => cur[g] \in mine[g]
    /\ \A g, h \in Groups : g # h =>
         /\ mine[g] \cap mine[h] = {}
         /\ cur[g] \notin mine[h]
         /\ cur[g] = None \/ cur[g] # cur[h]
    /\ \A p \in Procs : Present(p) => Late(p) \/ \E g \in Groups : p \in mine[g]
    /\ \A p \in procs : Present(p)

\* Once the run is sealed no group works; once it is closing no stop() is under way.
Settled ==
    /\ finished \/ phase # "running" => \A g \in Groups : pc[g] \in {"new", "done"}
    /\ phase # "running" => \A s \in Stoppers : ~Inside(s)

\* A caller past its critical section leaves no running child that it will not signal.
Stopping ==
    /\ \A s \in Stoppers : at[s] # "sending" => terming[s] = {}
    /\ \A s \in Stoppers :
         ~finished /\ at[s] \in {"killer", "arm", "snapshot", "sending", "returned"}
             => stop # None
    /\ \A s \in Stoppers : ~finished /\ at[s] \in {"sending", "returned"} =>
         \A p \in Procs : proc[p] = "running" => p \in terming[s] \/ Late(p)

Inv == TypeOK /\ Owned /\ Settled /\ Stopping
=============================================================================
