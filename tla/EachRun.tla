------------------------------ MODULE EachRun ------------------------------
(***************************************************************************)
(* execute._Run.each() and merge_lines(): one pipeline per input line, on  *)
(* the calling thread (workers <= 1) or on a pool of threads, and what is  *)
(* made of the lines' outcomes.                                            *)
(*                                                                         *)
(* A line that runs is one action long here: ProcessGroup and StreamGroup  *)
(* say how it ends.  The pool is ThreadPoolExecutor: its threads take the  *)
(* futures in the order of their submission.                               *)
(***************************************************************************)
EXTENDS Naturals, FiniteSets, SequencesExt

CONSTANTS
    Count,      \* the number of input lines
    Workers,    \* the values of EachStep.workers
    Endless     \* the lines whose commands end only when the run is stopped

Lines == 1 .. Count

ASSUME EachAssumption ==
    /\ Count \in Nat /\ Workers \subseteq Nat \ {0} /\ Endless \subseteq Lines

VARIABLES
    workers,    \* EachStep.workers
    pc,         \* each(): submit (or the serial loop), wait, scan, cancel, leave, over
    next,       \* the line that the loop of submit or scan is at
    line,       \* each line, or its future
    cancel,     \* the Event
    stopped,    \* ProcessGroup.stopped is not None
    raising,    \* the line whose exception each() raises; 0: none, Count + 1: its own
    results,    \* each line's Outcome: none, ok, failed
    merged      \* the lines whose output and diagnostics are in the result of each()

threadVars == <<line, cancel, results>>
vars == <<workers, pc, next, threadVars, stopped, raising, merged>>

Serial == workers <= 1

TypeOK ==
    /\ workers \in Workers
    /\ pc \in {"submit", "wait", "scan", "cancel", "leave", "abort", "over"}
    /\ next \in 1 .. Count + 1
    /\ line \in [Lines -> {"new", "queued", "check", "call", "running", "settle",
                           "done", "skipped", "raised", "cancelled"}]
    /\ cancel \in BOOLEAN /\ stopped \in BOOLEAN
    /\ raising \in 0 .. Count + 1
    /\ results \in [Lines -> {"none", "ok", "failed"}]    \* for merged see FirstFailureReported

Init ==
    /\ workers \in Workers
    /\ pc = "submit" /\ next = 1
    /\ line = [i \in Lines |-> "new"]
    /\ cancel = FALSE /\ stopped = FALSE
    /\ raising = 0
    /\ results = [i \in Lines |-> "none"]
    /\ merged = <<>>

-----------------------------------------------------------------------------
(* one(index), on a thread of the pool or inside the serial loop *)

Active == {i \in Lines : line[i] \in {"check", "call", "running", "settle"}}
Ended  == {i \in Lines : line[i] \in {"done", "skipped", "raised", "cancelled"}}

Goes(i, where) == line' = [line EXCEPT ![i] = where]

\* An idle thread of the pool takes the first future of the queue.
Take(i) ==
    /\ ~Serial
    /\ line[i] = "queued" /\ Cardinality(Active) < workers
    /\ \A j \in 1 .. i - 1 : line[j] # "queued"
    /\ Goes(i, "check")
    /\ UNCHANGED <<workers, pc, next, cancel, results, stopped, raising, merged>>

Check(i) ==
    /\ line[i] = "check"
    /\ Goes(i, IF cancel \/ stopped THEN "skipped" ELSE "call")
    /\ UNCHANGED <<workers, pc, next, cancel, results, stopped, raising, merged>>

\* step.fn() returns a pipeline, or it raises or returns something else.
Callback(i) ==
    /\ line[i] = "call"
    /\ Goes(i, "running") \/ Goes(i, "raised")
    /\ UNCHANGED <<workers, pc, next, cancel, results, stopped, raising, merged>>

\* execute() returns an outcome, which is stored, or a callback of the line raises.
Ends(i) ==
    /\ line[i] = "running" /\ (i \in Endless => stopped)
    /\ \/ /\ \E r \in {"ok", "failed"} : results' = [results EXCEPT ![i] = r]
          /\ Goes(i, "settle")
       \/ Goes(i, "raised") /\ UNCHANGED results
    /\ UNCHANGED <<workers, pc, next, cancel, stopped, raising, merged>>

SettleQuietly(i) ==
    /\ line[i] = "settle"
    /\ Goes(i, "done")
    /\ UNCHANGED <<workers, pc, next, cancel, results, stopped, raising, merged>>

Settle(i) ==
    /\ line[i] = "settle"
    /\ cancel' = (cancel \/ results[i] = "failed")
    /\ Goes(i, "done")
    /\ UNCHANGED <<workers, pc, next, results, stopped, raising, merged>>

LineStep(i) == Take(i) \/ Check(i) \/ Callback(i) \/ Ends(i) \/ Settle(i)

-----------------------------------------------------------------------------
(* each(), on the thread of its group *)

SerialNext ==
    /\ Serial /\ pc = "submit" /\ next <= Count /\ Active = {}
    /\ \A i \in Lines : line[i] # "raised"
    /\ Goes(next, "check")
    /\ next' = next + 1
    /\ UNCHANGED <<workers, pc, cancel, results, stopped, raising, merged>>

SerialRaises ==
    /\ Serial /\ pc = "submit"
    /\ \E i \in Lines : line[i] = "raised" /\ raising' = i
    /\ pc' = "abort"
    /\ UNCHANGED <<workers, next, threadVars, stopped, merged>>

SerialEnds ==
    /\ Serial /\ pc = "submit" /\ next > Count /\ Active = {}
    /\ \A i \in Lines : line[i] # "raised"
    /\ pc' = "leave"
    /\ UNCHANGED <<workers, next, threadVars, stopped, raising, merged>>

Submit ==
    /\ ~Serial /\ pc = "submit" /\ next <= Count
    /\ Goes(next, "queued")
    /\ next' = next + 1
    /\ UNCHANGED <<workers, pc, cancel, results, stopped, raising, merged>>

\* No thread can be started.  The future is in the queue of the threads there are, if any,
\* and the `with` waits for all of them before the abort.
SubmitRaises ==
    /\ ~Serial /\ pc = "submit" /\ next <= Count
    /\ Goes(next, IF next = 1 THEN "cancelled" ELSE "queued")
    /\ raising' = Count + 1
    /\ pc' = "leave"
    /\ UNCHANGED <<workers, next, cancel, results, stopped, merged>>

Submitted ==
    /\ ~Serial /\ pc = "submit" /\ next > Count
    /\ pc' = "wait"
    /\ UNCHANGED <<workers, next, threadVars, stopped, raising, merged>>

WaitFirstCompleted ==
    /\ pc = "wait"
    /\ Ended # {} \/ Lines = {}
    /\ pc' = "scan" /\ next' = 1
    /\ UNCHANGED <<workers, threadVars, stopped, raising, merged>>

Wait ==    \* FIRST_EXCEPTION
    /\ pc = "wait"
    /\ Ended = Lines \/ \E i \in Lines : line[i] = "raised"
    /\ pc' = "scan" /\ next' = 1
    /\ UNCHANGED <<workers, threadVars, stopped, raising, merged>>

ScanCancelsOnly ==
    /\ pc = "scan"
    /\ IF next > Count THEN pc' = "leave" /\ UNCHANGED <<next, cancel, raising>>
       ELSE IF line[next] = "raised"
       THEN /\ raising' = next
            /\ cancel' = TRUE
            /\ pc' = "cancel" /\ UNCHANGED next
       ELSE next' = next + 1 /\ UNCHANGED <<pc, cancel, raising>>
    /\ UNCHANGED <<workers, line, results, stopped, merged>>

Scan ==    \* the futures in input order; one that has not ended is passed over
    /\ pc = "scan"
    /\ IF next > Count THEN pc' = "leave" /\ UNCHANGED <<next, stopped, cancel, raising>>
       ELSE IF line[next] = "raised"
       THEN /\ raising' = next
            /\ cancel' = TRUE /\ stopped' = TRUE    \* abort()
            /\ pc' = "cancel" /\ UNCHANGED next
       ELSE next' = next + 1 /\ UNCHANGED <<pc, stopped, cancel, raising>>
    /\ UNCHANGED <<workers, line, results, merged>>

CancelFutures ==    \* shutdown(cancel_futures=True): first what no thread has taken
    /\ pc = "cancel"
    /\ line' = [i \in Lines |-> IF line[i] = "queued" THEN "cancelled" ELSE line[i]]
    /\ pc' = "leave"
    /\ UNCHANGED <<workers, next, cancel, results, stopped, raising, merged>>

AbortAll ==    \* the abort() of `except BaseException`
    /\ pc = "abort"
    /\ cancel' = TRUE /\ stopped' = TRUE
    /\ pc' = "over"
    /\ UNCHANGED <<workers, next, line, results, raising, merged>>

\* merge_lines(): the results in input order up to the first failure; one that is None
\* does not end the loop.
MergeUpToNone ==
    LET last == CHOOSE n \in 0 .. Count :
                  /\ \A i \in 1 .. n : results[i] # "none" /\ (i < n => results[i] # "failed")
                  /\ n = Count \/ results[n + 1] = "none" \/ (n > 0 /\ results[n] = "failed")
    IN [i \in 1 .. last |-> i]

MergeLine(acc, i) ==
    IF results[i] = "none" \/ \E k \in DOMAIN acc : results[acc[k]] = "failed"
    THEN acc ELSE Append(acc, i)

Merge == FoldLeft(MergeLine, <<>>, [i \in Lines |-> i])

Idle == \A i \in Lines : line[i] \in {"new", "done", "skipped", "raised", "cancelled"}

LeaveAtOnce ==
    /\ pc = "leave"
    /\ IF raising # 0 THEN pc' = "abort" /\ UNCHANGED merged
       ELSE pc' = "over" /\ merged' = Merge
    /\ UNCHANGED <<workers, next, threadVars, stopped, raising>>

Leave ==    \* shutdown() and the end of the `with` wait for the pool's threads
    /\ pc = "leave" /\ Idle
    /\ IF raising # 0 THEN pc' = "abort" /\ UNCHANGED merged
       ELSE pc' = "over" /\ merged' = Merge
    /\ UNCHANGED <<workers, next, threadVars, stopped, raising>>

EachStep ==
    \/ SerialNext \/ SerialRaises \/ SerialEnds
    \/ Submit \/ Submitted \/ Wait \/ Scan \/ CancelFutures \/ Leave \/ AbortAll

Stop ==    \* ProcessGroup.stop() by a timeout or a signal
    /\ ~stopped /\ pc # "over"
    /\ stopped' = TRUE
    /\ UNCHANGED <<workers, pc, next, threadVars, raising, merged>>

Next ==
    \/ EachStep \/ SubmitRaises \/ Stop
    \/ \E i \in Lines : LineStep(i)
    \/ pc = "over" /\ UNCHANGED vars

Spec == Init /\ [][Next]_vars

\* The threads run, callbacks return, and a line ends unless it is endless; an endless
\* one ends when the run is stopped (StreamGroup!StopEndsGroup).
FairSpec == Spec /\ WF_vars(EachStep) /\ \A i \in Lines : WF_vars(LineStep(i))

-----------------------------------------------------------------------------
(* Properties *)

Returned == pc = "over" /\ raising = 0

\* "Exceptions raised by your own callbacks propagate out of run()": each() returns a
\* result only if no line raised, whichever thread it ran on and however late.
NoErrorLost == Returned => \A i \in Lines : line[i] # "raised"

\* When each() is over no thread is inside one(), and if it raised the run is stopped.
QuietWhenOver == pc = "over" => Active = {} /\ (raising # 0 => stopped)

\* "stops at the first failure": each() reports the outcome of the first line that failed,
\* even when lines before it were skipped, and every success before it; and if none
\* failed and the run was not stopped, it has the output of every line, in order.
FirstFailureReported ==
    Returned =>
      LET failing == {i \in Lines : results[i] = "failed"}
          before  == {i \in Lines : \A f \in failing : i <= f}
      IN /\ ToSet(merged) = {i \in before : results[i] # "none"}
         /\ \A k \in 1 .. Len(merged) - 1 : merged[k] < merged[k + 1]
         /\ failing # {} => results[merged[Len(merged)]] = "failed"
         /\ failing = {} /\ ~stopped => merged = [i \in Lines |-> i]

\* With one worker a line runs only after every line before it succeeded.
InOrder ==
    Serial => \A i, j \in Lines :
                i < j /\ line[j] \in {"call", "running"} => line[i] = "done" /\ results[i] = "ok"

\* A line that raises ends each(), even if other lines would never end by themselves:
\* each() stops them.  (It does not when a thread could not be started.)
RaiseEndsEach ==
    (\E i \in Lines : line[i] = "raised") ~> (pc = "over" \/ raising = Count + 1)

-----------------------------------------------------------------------------
(* What NoErrorLost, QuietWhenOver and InOrder rest on *)

\* An outcome is stored before its line is done, and what a line skips was called off.
Paired ==
    \A i \in Lines :
      /\ line[i] \in {"settle", "done"} <=> results[i] # "none"
      /\ line[i] = "done" /\ results[i] = "failed" => cancel
      /\ line[i] = "skipped" => cancel \/ stopped

\* The serial loop is at its last line, and all lines before that one are over.
OneAtATime ==
    Serial =>
      /\ pc \in {"submit", "leave", "abort", "over"}
      /\ \A i \in Lines : /\ line[i] \notin {"queued", "cancelled"}
                          /\ line[i] = "new" <=> i >= next
                          /\ i + 1 < next => line[i] \in {"done", "skipped"}

\* Lines are submitted in order; the scan has passed no exception without another one ahead, and each() is left
\* without an exception only if no line has one and none is under way.
Accounted ==
    /\ pc = "submit" => \A i \in Lines : i >= next => line[i] = "new"
    /\ pc = "scan" => \/ \E i \in Lines : i >= next /\ line[i] = "raised"
                      \/ \A i \in Lines : i \in Ended /\ (i < next => line[i] # "raised")
    /\ pc \in {"leave", "over"} /\ raising = 0 =>
         \A i \in Lines : line[i] \in {"done", "skipped", "cancelled"}
    /\ pc \in {"submit", "wait", "scan"} => raising = 0
    /\ pc \in {"cancel", "abort"} => raising # 0
    /\ pc \in {"abort", "over"} => Idle
    /\ pc = "over" /\ raising # 0 => stopped

Inv == TypeOK /\ Paired /\ OneAtATime /\ Accounted /\ InOrder
=============================================================================
