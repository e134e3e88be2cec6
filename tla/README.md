# clichain: TLA+ models and proofs

These modules model `clichain`: how a pipeline's processes are started, stopped and
waited for, how a run is set up and undone, how a streaming group moves data, what its
threads make of the bytes, how `each()` runs lines in parallel, how a pipeline is built,
planned and accounted for, how live output reaches the screen, and what the command line
checks before anything runs. TLC checks them on small instances; TLAPS proves the central
invariants for every value of the constants. Paths are those of the repository
(`src/src/clichain/...` in `PROJECT.json`).

## 1. The system

| Component | Code | State it keeps | Operations | Modules |
|---|---|---|---|---|
| Process group | `process.ProcessGroup` | `_procs`, `_stop`, `_finished`, `_killer`, an `RLock` | `spawn`, `wait`, `reap`, `stop`, `finish`, `kill`, `close` | `Supervision`, `ProcessGroup` |
| Signal guard | `process.SignalGuard` | `_previous`, `received` | `__enter__`, `_handle`, `__exit__`, `deliver` | `RunLifecycle`, `ProcessGroup` |
| Run of a pipeline | `pipeline.Pipeline.run`, `_execute` | nested contexts: group, guard, console, timer, job | pre-flight, execute, finish, cancel, join, deliver | `RunLifecycle`, `CommandLine` |
| Streaming group | `execute._StreamGroup`, `_Worker` | pipe ends and who owns them, `procs`, `workers`, `spawned`, `aborting`, file sinks | build, finish, abort, status | `StreamGroup` |
| Bridges and stderr tails | `execute._blocks`, `_filter`, `_peek`, `_meter`, `_Tail` | pending bytes, counts, the last bytes | read, cut, call back, write | `Bridges`; as threads in `StreamGroup` |
| `each()` | `execute._Run.each`, `merge_lines` | futures, `cancel`, `results` | submit, one line, wait, abort, merge | `EachRun` |
| Builder, planner, step loop | `pipeline`, `execute.plan`, `execute`, `_Run` | `output`, `nbytes`, `offset`, `stderr`, `profile` | build a pipeline, plan it, run one group after the other | `Executor` |
| Exit codes | `errors`, `execute._accepted`, `_status` | none | split, explain, accept, find the failure | `ExitCodes` |
| Live output | `live` | blocks, `_commits`, `_running`, `_drawn`, partial lines | sources, jobs, renderer thread, `close` | `LiveConsole`; lines of bytes in `Bridges` |
| Versions, binary checks | `checks` | `_probe_cache` | parse, compare, probe, judge | `Versions`, `CommandLine` |
| Command line | `cli`, `pipeline.dry_run` | `_dry_run`, its list, what was found | `explain`, `check`, `compile` | `CommandLine` |
| Result, manifest, rendering | `result`, `manifest`, `render` | none | format, write files | not modelled (section 7) |

How they interact. `run()` enters a `ProcessGroup`, a `SignalGuard` and a console, in that
order, and leaves them in the opposite order. `_execute()` starts the timeout's timer
thread and calls `execute()`, which runs the groups of the plan one after the other on the
calling thread. A streaming group spawns its children through the `ProcessGroup` and
starts a thread for every feed, bridge and stderr pipe; `each()` calls `execute()` again
for each line, on a pool of threads, with the same `ProcessGroup`. Stops come from the
timer thread, from the signal handler (which runs on the main thread, between any two of
its steps), and from `abort()` in `each()`. All threads write to the console; in blocks
mode one more thread renders. `clichain check` imports a script while the global
`_dry_run` makes `run()` record instead of execute, in every thread; once the block is
left, threads that the script started check and probe tools at the same time as `check`
does, on one cache.

What is hard: a child that is born while a stop is under way; a handler on the thread that
holds the lock (the lock is re-entrant, so the critical section of `stop()` is not atomic
on the main thread); the timeout racing the end of the run; pipes kept open by descendants
that nobody supervises; failures half way through building a group; exceptions in pool
threads; a renderer that swaps state under the lock and writes it outside; bytes cut
anywhere; several exits of which the first real failure counts; a thread that outlives the
import of its script. `PROJECT.json` lists these hazards at their lines, with the
properties that cover them.

What makes each component correct, in short: the process group misses and forgets no child
and lets only the first stop decide; a run tells truly why it ended and leaves nothing
behind; a streaming group has one owner per descriptor, loses nothing and always ends; a
bridge passes on exactly the bytes it should and counts what it saw; `each()` reports the
first failure, loses no exception and is quiet when it is over; the step loop names the
step that failed and accounts every byte and stderr once; the console shows every line
once and in order; `check` executes nothing and passes only what meets its constraints.

## 2. Modules

**`Supervision`** is the abstract specification of a process group: the children `alive`,
the `reason` of the first stop, and a `state` (`open`, `sealed` by `finish()`, `closed` by
`close()`) that changes only when no child is left.

**`ProcessGroup`** is `process.py` in detail. Actors are `Groups` (the threads that run
streaming groups, `pc`), `Stoppers` (calls of `stop()`, `at`), and `Killers` (kill timers
and the second signal, `kill`). `_procs`, `_stop`, `_finished` and `_killer` keep their
names. A critical section that nothing can interrupt is one action (`Enter`, `Add`); the
one of `stop()` has an action per statement when it runs on the main thread below the
handler (`EnterMain`, `Decide`, `CheckKiller`, `Arm`, `Snapshot`). `OnMain` names the
actors of the main thread, and `Runs` says when each may take a step. `spawn()` is
`SpawnCheck`, `Popen` or `PopenFails`, `Own`, `Add`, `LateTerm`; `reap()` is `ToReap`,
`ReapTerm`, `Wait`, `ReapExpires`, `WaitLast`. A child in `Stubborn` survives SIGTERM.

**`RunLifecycle`** is `Pipeline.run()` and `_execute()`. It has the process group as an
instance of `Supervision`, so what it uses of it is what `ProcessGroup` implements. The
states with `!` are the same exits with an exception on its way. `Handle` may happen
between any two steps; `Fire` and `TimerStops` are the timer thread. The initial state
chooses the dispositions of the signals, the thread, whether there is a timeout and
whether `run(check=True)` turns a bad result into an exception.

**`StreamGroup`** is `_StreamGroup`. Every pipe has sets of holders of its two ends, so EOF
is "no writer" and EPIPE is "no reader"; `Main`, workers, children and descendants (`Heir`)
are holders. `pc` follows `run()`: build, open the sinks, read, wait, join, or abort, reap,
drop. A redirect puts a file in the place of the last pipe or of every stderr (`IsFile`):
it is never full, and main holds it until the group is over. Starting a command is three
steps: `BuildCmd` (`Popen()`), `BuildSource` (the live display of its stderr, which main owns
only then) and `BuildDrain` (its thread, after which main owns the stdout). What is open
but not in `owned` is in the hands of `Loose`, and `_release()` does not close it: the ends of
the new child's stdout and stderr between these steps (`pc` is `source` or `drain`), and
the stderr target while what was collected is written to it (`unwritten`). Data is a number of
chunks.
The children are the environment: they read, write, block, exit and die of SIGPIPE as they
like, and a signalled one dies (which `ProcessGroup!StopEndsRun` and `AbortEndsGroup` show).

**`Bridges`** is what these threads do with bytes. A stream is a short sequence of bytes of
which only newline, carriage return and "unwanted by the filter" make a difference;
`ReadLines` is `_blocks()` with the loop of `filter()`, `peek()` or `meter(interval=0)` in
its place, `ReadChunk` the other loop of `meter()`, `Drain` the tail of a stderr with the
forwarding to the live display (`Forward`, `Latest`, `Display` are `_Assembler` and
`_display`). Chunks are cut anywhere, writes are partial, the reader may go away, and the
bridge may give up.

**`EachRun`** is `each()`: the serial loop and the pool, `one(index)` as the steps of a line,
`Wait` with FIRST_EXCEPTION, `Scan`, `CancelFutures`, the abort and the merge. A line that
runs is one step, as `StreamGroup` shows that it ends.

**`Executor`** builds a pipeline with the builder's methods (`Then`, `Source`, `Pipe`), plans
it (`Plan`, a fold) and runs it as a loop over its groups. A group is one action with the
exits of its processes and the outcomes that `_Run` and `_StreamGroup` can return; a text is
a number of one-byte lines, so that counts of lines and of bytes, kept apart in the code,
must agree. A target of stderr may fail after a part was written to it (`SinksFail`).

**`ExitCodes`** has the pure functions of `errors.py` and `_accepted()`, `_status()` and
the test of `ok_codes` in `tool()`. `Executor` uses the latter, `CommandLine` the former.

**`Versions`** is the comparison of versions, as `checks.py` does it (pad, compare tuples,
an upper bound for `~=`), and next to it what a clause means (`Means`).

**`CommandLine`** is `cli.py` with `dry_run()`, the dry branch and the pre-flight of `run()`,
`binary_check()` and `detect_version()` with its cache. Actors are the main thread and the
threads of the script. A probe is two steps, because it runs without the lock; it may time
out although the tool has a version (`lapsed`).

**`LiveConsole`** has the jobs, their sources and the three consoles that show something. A
line is two pieces and a write carries any number of pieces. `Swap` is the critical section
of `_render()`, `Draw` what follows it outside the lock, for the renderer thread and for
`close()`.

The `MC` modules give the constants of TLC's instances; the `Proofs` modules hold the
theorems. An operator whose name extends that of a definition and that stands right before
it (`AddUnchecked` before `Add`) is a plausible bug of that definition; `PROJECT.json` says
which property notices it. No specification uses one.

## 3. Runs

| Run | Instance | Distinct states | What it shows |
|---|---|---|---|
| `pg_workers` | two children, two groups on pool threads, timeout, signal | 190 thousand | the inductive invariant `Inv` (which implies `NoChildMissed` and `NoChildForgotten`), `CloseReleasesTimers`, the refinement of `Supervision` |
| `pg_main` | two children, one of them stubborn; group, `abort()` and handler on the main thread, timer, second signal | 89 thousand | no child missed below the interruptible `stop()`; a stopped run and an aborted group end |
| `pg_lostkill` | one child | - | violation (section 6) |
| `run_paths` | two children, two signals, every disposition, on the main thread or not, with a timeout or not | 11 thousand | results, clean-up and delivery on every path; a stopped run ends |
| `run_swallowed` | the same | - | violation (section 6) |
| `sg_group` | command, bridge, command with merged stderr; one chunk of input, pipes of one chunk, both sinks or none, a first command that can fill its stdout or stderr and leaves a descendant | 88 thousand | owners, pipes, completeness; stopped, aborted and ordinary groups end |
| `each` | four lines, one or two workers, one endless line | 12 thousand | failures, exceptions and stops in every order, and that an exception ends `each()` |
| `exec_steps` | every pipeline of up to four steps, texts of at most one line, exits 0, 1 and SIGPIPE, commands that allow 1 or do not | 247 thousand | plan, `failed_step` and code, profile, stderr |
| `exec_zero` | up to three steps, a command whose `ok_codes` are `{1}` | - | violation (section 6) |
| `live` | two jobs, three sources of up to four, two and one pieces, a tail of one line, a screen of five rows, one message, a display that may fail, all modes | 1.9 million | every line, group and commit shown once and in order, a clean close, a frame that fits |
| `bridges` | every stream of up to seven of three bytes, chunks of up to four, a tail of two, lines of up to five | 1.0 million | bytes and lines passed on, counted, kept and shown, for every way of cutting |
| `command` | two pipelines of up to three commands, two tools in six and two installations, a thread of the script, two calls of `run()` each; return codes -15..15, 120..145, 254, 255 | 1.6 million | a dry import, a gate that holds and fails for a cause, explanations that agree |

Why these bounds. Two children are the least with which one is signalled, killed or waited
for while another one is not; two groups the least with which one spawns while the other
fails. Pipes of one chunk are full as early as possible, and three stages have a command
before and after a bridge and a group that fails with one command running. Four lines on
two threads have lines that wait, run, fail and raise at once. Four steps hold two
neighbouring groups of two steps, a source, two commands and a redirect, and every pair of
steps with one before and after it. Four pieces hold two lines in one write over a tail of
one; five rows is the smallest screen on which the frame fits. In blocks mode `Keep` stands
for the tail, in grouped mode for `GROUP_LIMIT`. Seven bytes in chunks of four hold a chunk
that ends before, at and after a newline, a pending line over three chunks, a chunk longer
than the tail and two rewrites of one line. The installed versions stand below, at, above and
with more numbers than each constraint of the script; two actors are enough for two probes
at once.

The constants of the configurations are bounds of the instance only; the modules' guards
bound what would grow: `Fed` and `Output` (chunks), `Pieces`, `Messages`, `MaxSteps`,
`MaxText`, `MaxInput`, `MaxRuns`.

## 4. Fairness

Safety needs none. Liveness is checked under weak fairness of:

- the steps of the program's own threads. They are runnable OS threads, and what a blocked
  one waits for (data, room, EOF, an exit) stays true until it acts; the readers and writers
  of `StreamGroup` poll, so a condition that does not announce itself (`_give_up`) is noticed
  too;
- timers that were started (`Fire`), unless they are cancelled;
- the death of a child by a signal it obeys; SIGKILL is always obeyed.

Nothing obliges a child to exit by itself, a callback to raise, a signal to come or `stop()`
to be called. `StreamGroup!GroupEnds` alone says more, in its hypothesis: there the commands
read their input to its end and exit. `EachRun` assumes that callbacks return and that a line
ends unless it is endless and the run is not stopped. `GraceCoversSpawn = TRUE` in `pg_main`
says that no `Popen()` outlasts the grace period; `pg_lostkill` shows why it is needed, and
`pg_workers` checks safety without it. `Executor`, `LiveConsole`, `Bridges` and `CommandLine`
have safety properties only: what they wait for is in the other modules, or user code.

## 5. Proofs

Each theorem holds for every choice of the constants that satisfies the assumption named in
its module. The invariants marked (*) are inductive strengthenings of the properties.

**`ProcessGroupProofs`**, for any number of children, groups and callers: `TypeCorrect`,
`ChildrenOwned`, `RunSettled`, `ChildrenWaitedFor`, `StopReachesAll`, `Invariant`,
`KeepsContract`, `TimersReleased`. `NoChildMissed` speaks of the moment a `stop()` has
returned and is not inductive: it depends on what the caller took in its snapshot and on what
each `spawn()` has yet to do. `Stopping` (*) says, for a caller past its critical section,
that every running child is one it will still signal (`terming`) or one whose `spawn()` will
still look at `_stop` (`Late`), and that `_stop` is set, so that the look does find it. That a
child which is not in `_procs` is `Late` needs `Owned` (*): every child that is present is in
the hands of exactly one group that has not ended, `mine`, or `cur` between `Popen()` and the
add. `NoChildForgotten` adds that a group that has ended has no child, and `Settled` (*) that
the run closes after its groups. In the refinement, `Seal` and `Close` need that no child is
left, and `Stop` needs that nobody is between the test and the assignment of `_stop`, which
holds when `abort()` runs on worker threads only (`OnMain \cap Stoppers \subseteq {Handler}`).
With `abort()` on the main thread the handler can come in between and its `Stop` is
overwritten, so the hypothesis cannot be dropped. `TimersReleased` needs it too: then at most
one timer is ever started, and `_killer` holds it.

**`RunLifecycleProofs`**, for any sets of children and signals. `Unwound`, `Told` and `Guarded`
(*) say, for each point of `run()`, which of the timer, console, handlers, children and group
are undone, what the result is and which recorded stop it tells of, and where a received
signal is. From them follow `ResultTellsWhy`, `DeliveredAfterCleanup`, `NothingLeftBehind` and
`ReturnedSignalDelivered`.

**`StreamGroupProofs`**, for every sequence of commands and bridges, any input, size of pipes,
redirects and descendants: `Invariant`, with types, `SingleOwner` and `NoPipeLeft`. The latter
says that main and the workers that ended hold nothing when the group is over, and of what
nobody owns that it is at most the stdout and stderr of the one command whose start raised
before the hand-over, or the stderr target that could not be written. The strengthening (*)
adds that main holds nothing from `_abort()` or the end of `_finish()` on, how the feed thread's
state follows from the chunks it has left, and where `run()` is while something is in nobody's
hands (`Adrift`). `ReadsEverything`
(`NothingLost`) needs more (*): who can still write to each pipe at each point of `run()`, and
that a thread that ended without giving up has seen the end of its pipe, which stays the end
because the writers of a pipe only ever go.

**`EachRunProofs`**, for any number of lines and threads. `Paired` says which lines have a
result, `OneAtATime` that the serial loop has one line under way, and `Accounted` (*) which
lines can still be new, queued or running at each point of `each()`. From them `NoErrorLost`
and `QuietWhenOver`. For `FirstFailureReported` the merge, a fold over the results, is unrolled
one line at a time (`MergeStep`); what it takes up to a line is then a statement about numbers,
which is proved by `Induction`.

**`ExecutorProofs`**, for pipelines of any length, any tools and any texts. The plan is a fold
too: `PlansInGroups` proves by the same argument that its groups are the pipeline again, in
order, and cut nowhere else than the code may. `TypesAndPlan` (`Inv`) bounds `offset`,
`failed_step` and the rows of the profile by that plan; `CountsBytes` needs that the cached size
is the size of the text whenever a group may inherit it (*); `KeepsStderr` that what is collected
belongs to groups since the last target (*), unless that target failed, which may then have a
part of it (`Tears` (*), `InjectiveParts`). `ReportsFailure` assumes that every tool accepts an
exit of 0 (`ZeroIsOk`), which is so unless `ok_codes` leaves it out; without that it is false
(`exec_zero`).

**`LiveConsoleProofs`**, for any numbers of jobs, sources, lines, messages and rows. In blocks
mode `Turns` (*) says whose turn it is to write, so that only one frame is ever outside the lock;
`Kept` that screen, that frame and `_commits` are the log of all commits; `Summed` how far the
summary of each finished job must have come when `close()` is where it is. From them
`CommitsKept` and `ClosedClean`. In every mode `Feeding` (*) says that only sources of running
jobs are open or active, `InOrder` (*) that `_running` has each running job at most once, and
`Retained` (*) that a block holds the end of what its job wrote, with the count of the lines
before it: this rests on `TailOfTail`, that trimming a write or the tail first leaves the same
tail. From them `TypesAndTails` (`Inv`), `GroupsAreWhole` and `LinesAreShown`, for which
`FailureLast` (*) remembers that a job whose failure is shown is over. `FrameFitsTheScreen`
assumes five rows, the least for which it is true; the rows of the blocks that fit
are a sum, whose existence `SumsExist` proves by induction over the number of blocks.

**`BridgesProofs`**, for any stream, chunk size and limit. `TailKeepsTheEnd` needs only that a
chunk is the next piece of the stream. For `BridgesPassOn` (`PassesOn`) the strengthening
`PassInv` (*) says that what is held back is the unfinished end of what was read, that a block
is handled only after whole lines, and that what is out, with what is on its way, is what is to
pass of the bytes handled. Each block is then added to a stream of whole lines, from which
`SievedConcat` follows: what passes of two such streams is what passes of the one and then of
the other. `FilterMeans` is the other half: what `_filter()` does with a block (split it, keep
lines, join them, put the newline back) is taking out the bytes of the unwanted lines.
`BridgesCount` (`CountsLines`) has three more invariants (*): `SeenInv` for what `peek()` has
seen, `LinesInv` and `ChunksInv` for the counts of the two loops of `meter()`, the latter with
`lines` behind by an unfinished line until the loop is left, and no reader lost before that.
`BridgesShow` (`ShownAsWhole`) needs `ShownInv` (*): the display has every complete line, and
`partial` the last two rewrites of the unfinished one (`Two`). `TwoRewrites` is why that is
enough: when no carriage return follows another, only the first and the last rewrite of a line
can be empty, so what comes before the last two is neither shown nor kept again (`TwoMeans`,
`RewriteConcat`). `SimpleLines` says that the lines of such a stream are short, so that `Latest`
cuts nothing. Splitting, joining and flattening a sequence are recursive functions; `StepsExist`
and `StepsUnique` show that such a function exists and is the only one, `SeqInduction` proves
what it computes one element at a time, and `SplitAtAppend`, `SplitConcat` and `FlattenAppend`
are what the rest cites.

**`CommandLineProofs`**, for every script, every number of threads and tools. `ClauseMeaning`:
for versions of any length, comparing padded tuples is comparing numbers with missing ones as
zeros, and the interval of `~=` is "not before, and the same prefix"; it rests on the trichotomy
of the order, which needs a least differing place. The invariant (*) says that the cache holds
what is installed unless a probe has lapsed, that what has been checked is judged by `Means` or
the verdict is a failure, and that a failure has its cause; `ClauseMeaning` turns what the code
computes into what the clauses mean. From it `ImportExecutesNothing`, `GateHolds`,
`FailsForCause`. `ExplainsCodes` follows from the functions of `ExitCodes` alone, for all
integers.

Only model-checked: all liveness (it rests on fairness and ENABLED, which TLAPS does not
treat). Every safety invariant and action property that a passing run checks is a theorem. The
library's induction theorems cannot be used, as they take an operator; where a fold, a sum or a
split had to be reasoned about (`Plan`, `Merge`, `Used`, `SplitAt`), `Induction` stands in for
them: a set of numbers that has 0 and every successor has all numbers.

## 6. Findings

Each is a run whose property TLC violates.

- `run_swallowed` (`SignalHandedOn`): when the block of `run()` raises, the `finally` closes
  the group and `guard.deliver()` is skipped. A signal that came before is absorbed and never
  handed to the handler that was installed before.
- `pg_lostkill` (`StopEndsRun`): a child whose `Popen()` returns after the kill timer has fired
  gets SIGTERM only. If it ignores it, the stopped run waits for ever.
- `exec_zero` (`FailureReported`): `tool()` takes `ok_codes` without 0. Then an exit of 0 is
  not accepted, `_status()` stops at it with code 0, and the failure of a later command of the
  same group is hidden; the docstring of `_accepted()` counts 0 among the exits that are no
  failure.

Smaller observations, which no run keeps and the properties leave room for:

- With `abort()` on the main thread the handler can come between the test and the assignment
  of `_killer`: two timers are started and `close()` cancels one (`CloseReleasesTimers` fails
  on the instance of `pg_main`).
- If `job.source()` or `_start()` raises in `_spawn()` (execute.py:653, 656), the stdout of the
  command, and at 653 its stderr, are not in `owned` yet: `_release()` does not close them, and
  they stay open until the interpreter collects the `Popen` object (`NoPipeLeft` says when; the
  module's docstring has a single owner for each descriptor).
- When what was collected cannot be written to the stderr target, `open_sinks()` closes the
  stdout target but not that one; a part of the stderr may then be in the file and in the
  `Result` as well (`StderrInOnePlace` leaves room for it).
- A buffered group after a redirect has in `bytes_in` what went to the file, though nothing
  entered it (`BytesCounted` speaks of groups before a redirect).
- `unique_tools()` takes the first command of each binary: a version constraint of a later
  one is not checked (`GateHolds` says so).
- A thread of a script that outlives its import can record a pipeline too late to be checked,
  and executes what it runs after that (`ImportExecutesNothing` ends with the import).
- `detect_version()` can probe one tool twice at the same time; the later answer stays.
- Of an unfinished line `feed()` keeps the last two rewrites; after two adjacent carriage
  returns both can be empty, and the display shows nothing although the whole line would show
  an earlier one (`ShownAsWhole` excludes adjacent ones).
- On a terminal of four rows the frame, with the two rows after the budgeted ones, can be as high
  as the screen (`FrameFits` holds from five on).
- When `pool.submit()` itself fails because no thread can be started, the `with` waits for the
  submitted lines before `abort()` stops them (`RaiseEndsEach` excludes the case).

## 7. Not modelled

- `StreamGroup`: pseudo-terminals, a `from_file` descriptor that goes straight to the process,
  one file for both targets, the window of `_start()` in which a thread runs before it is
  recorded as the owner, and callbacks that never return.
- `Bridges`: decoding, the clock of the reports of `meter()`. A raising callback is in
  `StreamGroup`.
- `Executor`: arguments and captured values, `merge_stderr()` and calls of a `Cmd`, which
  change a step in place and so not the plan; the live tee.
- `LiveConsole`: escape codes, decoding, labels, widths, the tee of the final stdout, and
  frames skipped because nothing changed (they write what is there already).
- `RunLifecycle`: the pre-flight is one action there (its steps are in `CommandLine`);
  describe mode, which prints and exits.
- The key of the version cache is the path with the version arguments; `CommandLine` has one set
  of arguments, and one path, for each tool.
- `checks`: `env()` and `file_exists()`, one test each; the search for a version in what a
  tool prints.
- `result`, `manifest` but for `unique_tools()`, `render`, `__init__`: formatting, files and
  re-exports, without state that other parts depend on.

## 8. Plan

Written, in order: `Supervision`, `ProcessGroup`, `RunLifecycle`, `StreamGroup`, `EachRun`,
`Executor`, `LiveConsole`, `Bridges`, `Versions`, `ExitCodes`, `CommandLine`, and the proofs of
all of them. `RunLifecycle` composes with `ProcessGroup` through `Supervision`; `StreamGroup` and
`EachRun` rest on the liveness of `ProcessGroup`; `Executor` and `CommandLine` share `ExitCodes`;
`CommandLine` extends `Versions`.

Left, by value:

1. An abstract specification of a group's outcome that `StreamGroup` implements and
   `Executor` uses, and one of `each()` (a sequence of lines up to the first failure).
2. The hand-over of descriptors in `_start()`, and pseudo-terminals.
