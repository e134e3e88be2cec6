---------------------------- MODULE StreamGroup ----------------------------
(***************************************************************************)
(* execute._StreamGroup: the processes and bridge threads of one streaming *)
(* group, the pipes between them, and who holds which end of which pipe.   *)
(*                                                                         *)
(* Stage i reads pipe i-1 and writes pipe i; pipe 0 is filled by the feed  *)
(* thread, pipe N is read by the thread that runs the group ("main" here). *)
(* Pipe Err(i) carries the stderr of the command of stage i to the thread  *)
(* that drains it.  A pipe end is a set of holders, so EOF is "no writer"  *)
(* and EPIPE is "no reader".  Bytes are counted in chunks.                 *)
(*                                                                         *)
(* With a redirect the last stdout or every stderr is a file: it takes all *)
(* that is written and nobody reads it here.                               *)
(***************************************************************************)
EXTENDS Naturals, FiniteSets, Sequences

CONSTANTS
    Kinds,      \* the stages: a sequence of "cmd" and "bridge"
    Fed,        \* the number of chunks the feed thread writes; 0: no input
    Capacity,   \* chunks a pipe can hold
    Output,     \* chunks each child writes at most, stdout and stderr together
    Merged,     \* the stages whose command has merge_stderr
    Sinks,      \* the redirects there may be: sets of "out" and "err"
    Lingering   \* the stages whose command leaves a descendant holding its pipes

N      == Len(Kinds)
Stages == 1 .. N
Cmds   == {i \in Stages : Kinds[i] = "cmd"}

ASSUME StreamAssumption ==
    /\ N \in Nat \ {0} /\ Kinds \in [Stages -> {"cmd", "bridge"}]
    /\ Fed \in Nat /\ Capacity \in Nat \ {0} /\ Output \in [Cmds -> Nat]
    /\ Merged \subseteq Cmds /\ Lingering \subseteq Cmds /\ Sinks \subseteq SUBSET {"out", "err"}

Err(i) == N + i
ErrFile == 2 * N + 1    \* the stderr target; the stdout target is in the place of pipe N
Pipes   == 0 .. ErrFile

Main     == <<"main", 0>>
Loose    == <<"loose", 0>>      \* what is open in an object that `owned` does not name
Worker(i) == <<"worker", i>>    \* the feed (0) or the bridge of stage i
Drain(i) == <<"drain", i>>      \* reads the stderr of stage i
Child(i) == <<"child", i>>
Heir(i)  == <<"heir", i>>       \* a descendant that outlives the child of stage i

Workers == {Worker(i) : i \in {0} \cup (Stages \ Cmds)} \cup {Drain(i) : i \in Cmds}
Owners  == {Main} \cup Workers
Holders == Owners \cup {Loose} \cup {Child(i) : i \in Cmds} \cup {Heir(i) : i \in Cmds}
Source(w) == IF w[1] = "drain" THEN Err(w[2]) ELSE w[2] - 1
Target(w) == w[2]
Feeds(w)  == w = Worker(0)

VARIABLES
    sink,              \* the redirect
    readers, writers,  \* each pipe: who holds its ends
    buffer,            \* each pipe: the chunks in it
    child,             \* each command: none, running, blocked writing (out, err), exited
    output,            \* each command: the chunks it may still write
    thread,            \* each worker: none, read, call, write, done
    error,             \* _Worker.error is set
    left,              \* the chunks the feed thread has not written
    pc,                \* where run() is
    stage,             \* the stage _build() is at
    spawned, aborting, \* the attributes of those names
    stopped,           \* ProcessGroup.stopped is not None
    outcome            \* none, or how run() ended: status, failed, raised

pipeVars  == <<readers, writers, buffer>>
childVars == <<child, output>>
workVars  == <<thread, error, left>>
mainVars  == <<pc, stage, spawned, aborting, outcome>>
vars == <<sink, pipeVars, childVars, workVars, mainVars, stopped>>

IsFile(j)  == (j = N /\ "out" \in sink) \/ (j > N /\ "err" \in sink)
Drained(i) == i \notin Merged /\ "err" \notin sink

TypeOK ==
    /\ sink \in Sinks
    /\ readers \in [Pipes -> SUBSET Holders] /\ writers \in [Pipes -> SUBSET Holders]
    /\ buffer \in [Pipes -> Nat] /\ \A j \in Pipes : buffer[j] <= Capacity \/ IsFile(j)
    /\ child \in [Cmds -> {"none", "running", "out", "err", "exited"}]
    /\ output \in [Cmds -> Nat] /\ \A i \in Cmds : output[i] <= Output[i]
    /\ thread \in [Workers -> {"none", "read", "call", "write", "done"}]
    /\ error \in [Workers -> BOOLEAN] /\ left \in 0 .. Fed
    /\ pc \in {"build", "open", "unwritten", "source", "drain", "read", "wait", "join",
               "abort", "reap", "drop", "end"}
    /\ stage \in 0 .. N + 1
    /\ spawned \in BOOLEAN /\ aborting \in BOOLEAN /\ stopped \in BOOLEAN
    /\ outcome \in {"none", "status", "failed", "raised"}

Init ==
    /\ sink \in Sinks
    /\ readers = [j \in Pipes |-> {}] /\ writers = [j \in Pipes |-> {}]
    /\ buffer = [j \in Pipes |-> 0]
    /\ child = [i \in Cmds |-> "none"] /\ output = Output
    /\ thread = [w \in Workers |-> "none"] /\ error = [w \in Workers |-> FALSE]
    /\ left = Fed
    /\ pc = "build" /\ stage = 0
    /\ spawned = FALSE /\ aborting = FALSE /\ stopped = FALSE
    /\ outcome = "none"

-----------------------------------------------------------------------------
(* Pipes *)

Readable(j) == buffer[j] > 0 \/ writers[j] = {}
Full(j)     == buffer[j] >= Capacity /\ ~IsFile(j)
Broken(j)   == readers[j] = {} /\ ~IsFile(j)

Take(j) == buffer' = [buffer EXCEPT ![j] = @ - 1]
Put(j)  == buffer' = [buffer EXCEPT ![j] = @ + 1]

\* h closes every end it holds.
CloseAll(h) ==
    /\ readers' = [j \in Pipes |-> readers[j] \ {h}]
    /\ writers' = [j \in Pipes |-> writers[j] \ {h}]

Alive(i) == child[i] \in {"running", "out", "err"}

GiveUpOnAbort == aborting /\ spawned /\ \A i \in Cmds : ~Alive(i)
GiveUpOnStop == stopped /\ spawned /\ \A i \in Cmds : ~Alive(i)

\* _give_up(): torn down, and none of the group's own processes is alive.
GiveUp == (aborting \/ stopped) /\ spawned /\ \A i \in Cmds : ~Alive(i)

-----------------------------------------------------------------------------
(* Worker threads *)

Finished(w) == CloseAll(w) /\ thread' = [thread EXCEPT ![w] = "done"]

ReadChunk(w) ==
    /\ thread[w] = "read" /\ buffer[Source(w)] > 0
    /\ Take(Source(w))
    /\ thread' = [thread EXCEPT ![w] = IF w[1] = "drain" THEN "read" ELSE "call"]
    /\ UNCHANGED <<sink, readers, writers, childVars, error, left, mainVars, stopped>>

\* _read() returns b"" at EOF, or when it gives up.
ReadEnds(w) ==
    /\ thread[w] = "read" /\ buffer[Source(w)] = 0
    /\ writers[Source(w)] = {} \/ GiveUp
    /\ Finished(w)
    /\ UNCHANGED <<sink, buffer, childVars, error, left, mainVars, stopped>>

\* A bridge's callback: the chunk is passed on or dropped, or it raises.
Callback(w) ==
    /\ thread[w] = "call"
    /\ \/ /\ thread' = [thread EXCEPT ![w] = "write"] \/ thread' = [thread EXCEPT ![w] = "read"]
          /\ UNCHANGED <<readers, writers, error>>
       \/ error' = [error EXCEPT ![w] = TRUE] /\ Finished(w)
    /\ UNCHANGED <<sink, buffer, childVars, left, mainVars, stopped>>

WriteChunk(w) ==
    /\ thread[w] = "write" /\ ~Broken(Target(w)) /\ ~Full(Target(w))
    /\ Put(Target(w))
    /\ IF ~Feeds(w) THEN /\ thread' = [thread EXCEPT ![w] = "read"]
                         /\ UNCHANGED <<readers, writers, left>>
       ELSE /\ left' = left - 1
            /\ IF left = 1 THEN Finished(w) ELSE UNCHANGED <<readers, writers, thread>>
    /\ UNCHANGED <<sink, childVars, error, mainVars, stopped>>

\* _send() returns False: the reader is gone, or it gives up on a full pipe.
WriteEnds(w) ==
    /\ thread[w] = "write"
    /\ Broken(Target(w)) \/ (Full(Target(w)) /\ GiveUp)
    /\ Finished(w)
    /\ UNCHANGED <<sink, buffer, childVars, error, left, mainVars, stopped>>

WorkerStep(w) == ReadChunk(w) \/ ReadEnds(w) \/ Callback(w) \/ WriteChunk(w) \/ WriteEnds(w)

-----------------------------------------------------------------------------
(* Child processes (external) *)

NoInput(i) == Child(i) \notin readers[i - 1]    \* stdin is /dev/null

ChildReads(i) ==
    /\ child[i] = "running" /\ ~NoInput(i) /\ buffer[i - 1] > 0
    /\ Take(i - 1)
    /\ UNCHANGED <<sink, readers, writers, childVars, workVars, mainVars, stopped>>

ChildWants(i) ==
    /\ child[i] = "running" /\ output[i] > 0
    /\ \E end \in {"out", "err"} : child' = [child EXCEPT ![i] = end]
    /\ output' = [output EXCEPT ![i] = @ - 1]
    /\ UNCHANGED <<sink, pipeVars, workVars, mainVars, stopped>>

Written(i) == IF child[i] = "out" \/ i \in Merged THEN i ELSE Err(i)

ChildWrites(i) ==
    /\ child[i] \in {"out", "err"}
    /\ ~Broken(Written(i)) /\ ~Full(Written(i))
    /\ Put(Written(i))
    /\ child' = [child EXCEPT ![i] = "running"]
    /\ UNCHANGED <<sink, readers, writers, output, workVars, mainVars, stopped>>

\* The kernel closes its ends; a descendant may hold copies of them.
ChildGone(i) ==
    /\ child' = [child EXCEPT ![i] = "exited"]
    /\ LET heirs(end) == [j \in Pipes |->
               IF Child(i) \notin end[j] THEN end[j]
               ELSE (end[j] \ {Child(i)}) \cup (IF i \in Lingering THEN {Heir(i)} ELSE {})]
       IN readers' = heirs(readers) /\ writers' = heirs(writers)
    /\ UNCHANGED <<sink, buffer, output, workVars, mainVars, stopped>>

ChildExits(i) == child[i] = "running" /\ ChildGone(i)

ChildBroken(i) ==    \* SIGPIPE
    child[i] \in {"out", "err"} /\ Broken(Written(i)) /\ ChildGone(i)

\* A signal of stop() or reap() takes effect (ProcessGroup!StopEndsRun, AbortEndsGroup).
ChildKilled(i) == Alive(i) /\ (stopped \/ pc = "reap") /\ ChildGone(i)

HeirEnds(i) ==
    /\ \E j \in Pipes : Heir(i) \in readers[j] \cup writers[j]
    /\ CloseAll(Heir(i))
    /\ UNCHANGED <<sink, buffer, childVars, workVars, mainVars, stopped>>

-----------------------------------------------------------------------------
(* run(): _build(), _finish(), _abort() *)

\* _start() hands f over once the thread runs; what main creates it owns itself.
BuildFeed ==
    /\ pc = "build" /\ stage = 0
    /\ IF Fed = 0 THEN UNCHANGED <<readers, writers, thread>>
       ELSE /\ readers' = [readers EXCEPT ![0] = {Main}]
            /\ writers' = [writers EXCEPT ![0] = {Worker(0)}]
            /\ thread' = [thread EXCEPT ![Worker(0)] = "write"]
    /\ stage' = 1 /\ pc' = IF sink = {} THEN "build" ELSE "open"
    /\ UNCHANGED <<sink, buffer, childVars, error, left, spawned, aborting, outcome, stopped>>

\* The targets are open; main keeps a second descriptor of the stdout target, for its size.
OpenSinks ==
    /\ pc = "open"
    /\ readers' = [readers EXCEPT ![N] = IF IsFile(N) THEN {Main} ELSE @]
    /\ writers' = [writers EXCEPT ![N] = IF IsFile(N) THEN {Main} ELSE @,
                                  ![ErrFile] = IF IsFile(ErrFile) THEN {Main} ELSE @]
    /\ pc' = "build"
    /\ UNCHANGED <<sink, buffer, childVars, workVars, stage, spawned, aborting, outcome, stopped>>

\* The target of stderr is open, but what was collected cannot be written to it: open_sinks()
\* closes the other target only.
SinkFails ==
    /\ pc = "open" /\ IsFile(ErrFile)
    /\ writers' = [writers EXCEPT ![ErrFile] = {Loose}]
    /\ pc' = "unwritten"
    /\ UNCHANGED <<sink, readers, buffer, childVars, workVars, stage, spawned, aborting, outcome,
                   stopped>>

\* Popen() succeeds: the child has the upstream end, which main closes.  The other ends of its
\* stdout and stderr, where they are pipes, are in the Popen object: main owns that of stdout
\* at once if no stderr is to be read, otherwise when the thread that reads it is started.
BuildCmd ==
    /\ pc = "build" /\ stage \in Cmds /\ ~stopped
    /\ readers' = [readers EXCEPT
         ![stage - 1] = IF @ = {} THEN {} ELSE {Child(stage)},
         ![stage] = IF IsFile(stage) THEN @ ELSE IF Drained(stage) THEN {Loose} ELSE {Main},
         ![Err(stage)] = IF Drained(stage) THEN {Loose} ELSE @]
    /\ writers' = [writers EXCEPT
         ![stage] = {Child(stage)} \cup (IF IsFile(stage) THEN @ ELSE {}),
         ![Err(stage)] = IF Drained(stage) THEN {Child(stage)} ELSE @]
    /\ child' = [child EXCEPT ![stage] = "running"]
    /\ IF Drained(stage) THEN pc' = "source" /\ UNCHANGED stage
       ELSE stage' = stage + 1 /\ UNCHANGED pc
    /\ UNCHANGED <<sink, buffer, output, workVars, spawned, aborting, stopped, outcome>>

\* job.source() has made the live display of this stderr, which main owns from now on.
BuildSource ==
    /\ pc = "source"
    /\ readers' = [readers EXCEPT ![Err(stage)] = {Main}]
    /\ pc' = "drain"
    /\ UNCHANGED <<sink, writers, buffer, childVars, workVars, stage, spawned, aborting, stopped,
                   outcome>>

BuildDrainShared ==
    /\ pc = "drain"
    /\ readers' = [readers EXCEPT ![Err(stage)] = @ \cup {Drain(stage)},
                                  ![stage] = IF IsFile(stage) THEN @ ELSE {Main}]
    /\ thread' = [thread EXCEPT ![Drain(stage)] = "read"]
    /\ pc' = "build" /\ stage' = stage + 1
    /\ UNCHANGED <<sink, writers, buffer, childVars, error, left, spawned, aborting, stopped,
                   outcome>>

BuildDrainIdle ==
    /\ pc = "drain"
    /\ readers' = [readers EXCEPT ![stage] = IF IsFile(stage) THEN @ ELSE {Main}]
    /\ pc' = "build" /\ stage' = stage + 1
    /\ UNCHANGED <<sink, writers, buffer, childVars, workVars, spawned, aborting, stopped, outcome>>

\* Its thread is started and takes it over, and main takes over the stdout.
BuildDrain ==
    /\ pc = "drain"
    /\ readers' = [readers EXCEPT ![Err(stage)] = {Drain(stage)},
                                  ![stage] = IF IsFile(stage) THEN @ ELSE {Main}]
    /\ thread' = [thread EXCEPT ![Drain(stage)] = "read"]
    /\ pc' = "build" /\ stage' = stage + 1
    /\ UNCHANGED <<sink, writers, buffer, childVars, error, left, spawned, aborting, stopped,
                   outcome>>

\* A bridge without input reads an empty pipe whose write end is closed.
BuildBridge ==
    /\ pc = "build" /\ stage \in Stages \ Cmds
    /\ readers' = [readers EXCEPT ![stage - 1] = {Worker(stage)},
                                  ![stage] = IF IsFile(stage) THEN @ ELSE {Main}]
    /\ writers' = [writers EXCEPT ![stage] = {Worker(stage)}]
    /\ thread' = [thread EXCEPT ![Worker(stage)] = "read"]
    /\ stage' = stage + 1
    /\ UNCHANGED <<sink, buffer, childVars, error, left, pc, spawned, aborting, stopped, outcome>>

\* A target cannot be opened, or the command not be spawned (not found, refused by a stop):
\* run() closes what main owns and aborts.
BuildFails ==
    /\ pc \in {"open", "unwritten"} \/ (pc = "build" /\ stage \in Cmds)
    /\ CloseAll(Main)
    /\ spawned' = TRUE
    /\ outcome' = "failed"
    /\ pc' = "abort"
    /\ UNCHANGED <<sink, buffer, childVars, workVars, stage, aborting, stopped>>

\* No descriptor or thread is left for a pipe or a worker, the live display raises, ...  What
\* is in the hands of nobody stays so: _release() closes only what `owned` names.
Raises ==
    /\ pc \in {"build", "open", "unwritten", "source", "drain", "read"}
    /\ outcome' = "raised"
    /\ pc' = "abort"
    /\ UNCHANGED <<sink, pipeVars, childVars, workVars, stage, spawned, aborting, stopped>>

Built ==
    /\ pc = "build" /\ stage = N + 1
    /\ spawned' = TRUE
    /\ pc' = IF IsFile(N) THEN "wait" ELSE "read"
    /\ UNCHANGED <<sink, pipeVars, childVars, workVars, stage, aborting, stopped, outcome>>

ReadOutput ==
    /\ pc = "read" /\ buffer[N] > 0
    /\ Take(N)
    /\ UNCHANGED <<sink, readers, writers, childVars, workVars, mainVars, stopped>>

OutputEnds ==
    /\ pc = "read" /\ buffer[N] = 0
    /\ writers[N] = {} \/ GiveUp
    /\ readers' = [readers EXCEPT ![N] = @ \ {Main}]
    /\ pc' = "wait"
    /\ UNCHANGED <<sink, writers, buffer, childVars, workVars, stage, spawned, aborting, stopped,
                   outcome>>

WaitProcs ==
    /\ pc = "wait" /\ \A i \in Cmds : ~Alive(i)
    /\ pc' = "join"
    /\ UNCHANGED <<sink, pipeVars, childVars, workVars, stage, spawned, aborting, stopped, outcome>>

Idle == \A w \in Workers : thread[w] \in {"none", "done"}

StatusUnjoined ==
    /\ pc = "join"
    /\ outcome' = IF \E w \in Workers : error[w] THEN "raised" ELSE "status"
    /\ CloseAll(Main)
    /\ pc' = "end"
    /\ UNCHANGED <<sink, buffer, childVars, workVars, stage, spawned, aborting, stopped>>

Status ==    \* the workers are joined: their error is raised, or the exits decide
    /\ pc = "join" /\ Idle
    /\ outcome' = IF \E w \in Workers : error[w] THEN "raised" ELSE "status"
    /\ CloseAll(Main)
    /\ pc' = "end"
    /\ UNCHANGED <<sink, buffer, childVars, workVars, stage, spawned, aborting, stopped>>

Abort ==
    /\ pc = "abort"
    /\ aborting' = TRUE /\ spawned' = TRUE
    /\ CloseAll(Main)    \* first: a worker blocked on one of these pipes is released
    /\ pc' = "reap"
    /\ UNCHANGED <<sink, buffer, childVars, workVars, stage, stopped, outcome>>

Reaped ==
    /\ pc = "reap" /\ \A i \in Cmds : ~Alive(i)
    /\ pc' = "drop"
    /\ UNCHANGED <<sink, pipeVars, childVars, workVars, stage, spawned, aborting, stopped, outcome>>

Dropped ==    \* each worker has ended, or the grace period is over
    /\ pc = "drop"
    /\ pc' = "end"
    /\ UNCHANGED <<sink, pipeVars, childVars, workVars, stage, spawned, aborting, stopped, outcome>>

Stop ==    \* ProcessGroup.stop(), by a timeout, a signal or another line
    /\ ~stopped /\ pc # "end"
    /\ stopped' = TRUE
    /\ UNCHANGED <<sink, pipeVars, childVars, workVars, mainVars>>

MainStep ==
    \/ BuildFeed \/ OpenSinks \/ BuildCmd \/ BuildSource \/ BuildDrain \/ BuildBridge \/ Built
    \/ (pc = "unwritten" \/ (stopped /\ pc = "build")) /\ BuildFails
    \/ ReadOutput \/ OutputEnds \/ WaitProcs \/ Status \/ Abort \/ Reaped \/ Dropped

ChildStep(i) ==
    \/ ChildReads(i) \/ ChildWants(i) \/ ChildWrites(i) \/ ChildExits(i) \/ ChildBroken(i)
    \/ ChildKilled(i) \/ HeirEnds(i)

Next ==
    \/ MainStep \/ SinkFails \/ BuildFails \/ Raises \/ Stop
    \/ \E w \in Workers : WorkerStep(w)
    \/ \E i \in Cmds : ChildStep(i)
    \/ pc = "end" /\ UNCHANGED vars

Spec == Init /\ [][Next]_vars

\* The threads make progress, a pipe operation of a child that is possible happens, and a
\* child that was signalled dies.  The polls of a blocked thread make WF enough: what a
\* thread waits for stays true until it acts.
FairSpec ==
    /\ Spec /\ WF_vars(MainStep)
    /\ \A w \in Workers : WF_vars(WorkerStep(w))
    /\ \A i \in Cmds : /\ WF_vars(ChildKilled(i))
                       /\ WF_vars(ChildWrites(i)) /\ WF_vars(ChildBroken(i))

-----------------------------------------------------------------------------
(* Properties *)

\* "Each file descriptor has a single owner": main or one worker, never two threads, so
\* that closing what one owns takes nothing from another.
SingleOwner ==
    \A j \in Pipes : \A end \in {readers[j], writers[j]} :
      \A a, b \in end \cap Owners : a = b

\* When run() is over main holds no pipe, and a worker that has ended holds none.  What is
\* open and in the hands of nobody are the stdout and the stderr of the command whose thread
\* is being started, and the target of stderr that is being opened: they stay open if that
\* raises (or fails), and no other error, exit or stop leaves anything to the interpreter.
NoPipeLeft ==
    \A j \in Pipes :
      /\ pc = "end" => Main \notin readers[j] \cup writers[j]
      /\ \A w \in Workers : thread[w] = "done" => w \notin readers[j] \cup writers[j]
      /\ Loose \in readers[j] =>
           /\ j \in {stage, Err(stage)} /\ ~IsFile(j) /\ stage \in Cmds \ Merged
           /\ pc \in {"source", "drain"} \/ outcome = "raised"
      /\ Loose \in writers[j] =>
           j = ErrFile /\ stage = 1 /\ (pc = "unwritten" \/ outcome \in {"failed", "raised"})

\* What a group may never do with its pipes, whatever its commands are and however it ends.
Inv == TypeOK /\ SingleOwner /\ NoPipeLeft

\* A group that was neither stopped nor aborted has read its output and every stderr to
\* the end, and left no thread behind.
NothingLost ==
    outcome = "status" /\ ~stopped =>
        /\ Idle /\ (buffer[N] = 0 \/ IsFile(N))
        /\ \A i \in Cmds :
             ~Alive(i) /\ (IsFile(Err(i)) \/ (buffer[Err(i)] = 0 /\ writers[Err(i)] = {}))

\* A stopped group ends, whatever its children do and even if their descendants hold its
\* pipes for ever.
StopEndsGroup == stopped ~> pc = "end"

\* "workers give up once the children are gone": no worker outlives an aborted group,
\* whoever holds the pipes it is blocked on.
AbortEndsWorkers == aborting ~> Idle

\* A command that reads its input to the end and then exits, like its descendants.
Ordinary(i) ==
    /\ WF_vars(ChildReads(i))
    /\ WF_vars((NoInput(i) \/ Readable(i - 1)) /\ ChildExits(i))
    /\ WF_vars(HeirEnds(i))

\* No process blocks for ever on a full pipe and no thread on an empty one: the group of
\* ordinary commands ends.
GroupEnds == (\A i \in Cmds : Ordinary(i)) => <>(pc = "end" /\ Idle)
=============================================================================
