-------------------------- MODULE StreamGroupProofs --------------------------
(***************************************************************************)
(* Theorems about StreamGroup, for every sequence of commands and bridges, *)
(* any input, any size of the pipes and any redirect.                      *)
(***************************************************************************)
EXTENDS StreamGroup, Integers, TLAPS

Ends ==
    /\ readers \in [Pipes -> SUBSET Holders]
    /\ writers \in [Pipes -> SUBSET Holders]

\* The feed thread only writes, and ends with its last chunk.
Feeding ==
    /\ \/ thread[Worker(0)] = "none" /\ left = Fed
       \/ thread[Worker(0)] = "write" /\ left > 0
       \/ thread[Worker(0)] = "done"
    /\ stage = 0 => thread[Worker(0)] = "none"

Bounded == buffer \in [Pipes -> Nat] /\ \A j \in Pipes : buffer[j] <= Capacity \/ IsFile(j)

Data ==
    /\ Bounded
    /\ output \in [Cmds -> Nat] /\ \A i \in Cmds : output[i] <= Output[i]
    /\ left \in 0 .. Fed
    /\ Feeding

Control ==
    /\ sink \in Sinks
    /\ child \in [Cmds -> {"none", "running", "out", "err", "exited"}]
    /\ thread \in [Workers -> {"none", "read", "call", "write", "done"}]
    /\ error \in [Workers -> BOOLEAN]
    /\ pc \in {"build", "open", "unwritten", "source", "drain", "read", "wait", "join",
               "abort", "reap", "drop", "end"}
    /\ stage \in 0 .. N + 1
    /\ pc \in {"source", "drain"} => stage \in Cmds \ Merged
    /\ pc \in {"open", "unwritten"} => stage = 1
    /\ spawned \in BOOLEAN /\ aborting \in BOOLEAN /\ stopped \in BOOLEAN
    /\ outcome \in {"none", "status", "failed", "raised"}

\* From _abort() or _finish() on, main holds nothing.
Released ==
    pc \in {"reap", "drop", "end"} => \A j \in Pipes : Main \notin readers[j] \cup writers[j]

WorkersLeft ==
    \A w \in Workers : thread[w] = "done" => \A j \in Pipes : w \notin readers[j] \cup writers[j]

IInv == Ends /\ Data /\ Control /\ SingleOwner /\ Released /\ WorkersLeft

\* How far run() has come tells how it has gone: a group that ends with a status was built to
\* the end, has no child that is alive and no thread that runs.
Course ==
    /\ outcome = "none" <=> pc \in {"build", "open", "unwritten", "source", "drain", "read",
                                    "wait", "join"}
    /\ outcome = "status" => pc = "end" /\ Idle
    /\ aborting => outcome \in {"failed", "raised"}
    /\ pc \in {"read", "wait", "join"} \/ outcome = "status" => stage = N + 1
    /\ pc = "join" \/ outcome = "status" => \A i \in Cmds : ~Alive(i)

\* What nobody owns belongs to the command, or the target, that run() was at, and only an
\* error there leaves it behind.
Adrift ==
    \A j \in Pipes :
      /\ Loose \in readers[j] =>
           /\ j \in {stage, Err(stage)} /\ ~IsFile(j) /\ stage \in Cmds \ Merged
           /\ pc \in {"source", "drain"} \/ outcome = "raised"
      /\ Loose \in writers[j] =>
           j = ErrFile /\ stage = 1 /\ (pc = "unwritten" \/ outcome \in {"failed", "raised"})

Silent(i) == buffer[Err(i)] = 0 /\ writers[Err(i)] = {}

\* The thread that reads the stderr of a command is started with it, and only reads.
DrainRuns(i) ==
    /\ thread[Drain(i)] \in {"none", "read", "done"}
    /\ i < stage /\ Drained(i) => thread[Drain(i)] # "none"
    /\ thread[Drain(i)] # "none" => i < stage

\* A command that may write to its stderr holds it.
StderrHeld(i) == Drained(i) /\ Alive(i) => Child(i) \in writers[Err(i)]

\* The thread ends when it has read everything and nobody can write any more, which with
\* merge_stderr nobody ever can.
StderrEnds(i) ==
    "err" \notin sink /\ (i \in Merged \/ (thread[Drain(i)] = "done" /\ ~stopped /\ ~aborting))
      => Silent(i)

StderrRead == \A i \in Cmds : DrainRuns(i) /\ StderrHeld(i) /\ StderrEnds(i)

\* Only main reads the last stdout, once it owns it, and stops when there is nothing left in it.
StdoutRead ==
    ~IsFile(N) =>
      /\ readers[N] \subseteq {Main, Loose}
      /\ pc \in {"wait", "join"} \/ outcome = "status" => readers[N] = {} /\ buffer[N] = 0

-----------------------------------------------------------------------------
\* The threads, the children and their descendants are told apart; a stage has its pipes.
LEMMA Names ==
    /\ N \in Nat /\ N >= 1 /\ Cmds \subseteq Stages
    /\ \A i \in Stages : i \in Nat /\ 1 <= i /\ i <= N
    /\ Main \notin Workers /\ Main \in Owners /\ Owners \subseteq Holders
    /\ Worker(0) \in Workers /\ Workers \subseteq Owners
    /\ Loose \in Holders /\ Loose \notin Owners
    /\ \A i \in Cmds : Child(i) # Loose /\ Heir(i) # Loose
    /\ \A w \in Owners : w = Main \/ w \in Workers
    /\ \A i \in Stages \ Cmds : Worker(i) \in Workers /\ Worker(i) # Worker(0)
    /\ \A i \in Cmds : /\ Drain(i) \in Workers /\ Drain(i) # Worker(0)
                       /\ Child(i) \in Holders /\ Child(i) \notin Owners
                       /\ Heir(i) \in Holders /\ Heir(i) \notin Owners
<1>1. N \in Nat /\ N >= 1 /\ Cmds \subseteq Stages
  BY StreamAssumption DEF Cmds, Stages
<1>2. \A i \in Stages : i \in Nat /\ 1 <= i /\ i <= N
  BY <1>1 DEF Stages
<1>3. QED
  BY <1>1, <1>2 DEF Main, Loose, Workers, Owners, Holders, Worker, Drain, Child, Heir

\* A group begins with no pipe, no thread and no child.
LEMMA InvInit == Init => IInv
<1> SUFFICES ASSUME Init PROVE IInv
  OBVIOUS
<1> USE Names, StreamAssumption DEF Init
<1>1. Ends
  BY DEF Ends
<1>2. Data
  BY DEF Data, Bounded, Feeding
<1>3. stage \in 0 .. N + 1
  OBVIOUS
<1>4. Control
  BY <1>3 DEF Control
<1>5. SingleOwner /\ Released /\ WorkersLeft
  BY DEF SingleOwner, Released, WorkersLeft
<1>6. QED
  BY <1>1, <1>2, <1>4, <1>5 DEF IInv

\* The ends of the pipes keep their types.
LEMMA EndsStep == Ends /\ Control /\ [Next]_vars => Ends'
<1> SUFFICES ASSUME Ends, Control, [Next]_vars PROVE Ends'
  OBVIOUS
<1> USE Names DEF Ends, vars, pipeVars
<1>1. ASSUME NEW w \in Workers, ReadChunk(w) PROVE Ends'
  BY <1>1 DEF ReadChunk
<1>2. ASSUME NEW w \in Workers, ReadEnds(w) PROVE Ends'
  BY <1>2 DEF ReadEnds, Finished, CloseAll
<1>3. ASSUME NEW w \in Workers, Callback(w) PROVE Ends'
  BY <1>3 DEF Callback, Finished, CloseAll
<1>4. ASSUME NEW w \in Workers, WriteChunk(w) PROVE Ends'
  BY <1>4 DEF WriteChunk, Finished, CloseAll
<1>5. ASSUME NEW w \in Workers, WriteEnds(w) PROVE Ends'
  BY <1>5 DEF WriteEnds, Finished, CloseAll
<1>6. ASSUME NEW i \in Cmds, ChildReads(i) PROVE Ends'
  BY <1>6 DEF ChildReads
<1>7. ASSUME NEW i \in Cmds, ChildWants(i) PROVE Ends'
  BY <1>7 DEF ChildWants
<1>8. ASSUME NEW i \in Cmds, ChildWrites(i) PROVE Ends'
  BY <1>8 DEF ChildWrites
<1>9. ASSUME NEW i \in Cmds, ChildExits(i) PROVE Ends'
  BY <1>9 DEF ChildExits, ChildGone
<1>10. ASSUME NEW i \in Cmds, ChildBroken(i) PROVE Ends'
  BY <1>10 DEF ChildBroken, ChildGone
<1>11. ASSUME NEW i \in Cmds, ChildKilled(i) PROVE Ends'
  BY <1>11 DEF ChildKilled, ChildGone
<1>12. ASSUME NEW i \in Cmds, HeirEnds(i) PROVE Ends'
  BY <1>12 DEF HeirEnds, CloseAll
<1>13. CASE BuildFeed
  BY <1>13 DEF BuildFeed
<1>14. CASE OpenSinks
  BY <1>14 DEF OpenSinks
<1>15. CASE BuildCmd
  BY <1>15 DEF BuildCmd
<1>16. CASE BuildDrain
  BY <1>16 DEF BuildDrain, Control
<1>17. CASE BuildBridge
  BY <1>17 DEF BuildBridge
<1>18. CASE Built
  BY <1>18 DEF Built
<1>19. CASE ReadOutput
  BY <1>19 DEF ReadOutput
<1>20. CASE OutputEnds
  BY <1>20 DEF OutputEnds
<1>21. CASE WaitProcs
  BY <1>21 DEF WaitProcs
<1>22. CASE Status
  BY <1>22 DEF Status, CloseAll
<1>23. CASE Abort
  BY <1>23 DEF Abort, CloseAll
<1>24. CASE Reaped
  BY <1>24 DEF Reaped
<1>25. CASE Dropped
  BY <1>25 DEF Dropped
<1>26. CASE BuildFails
  BY <1>26 DEF BuildFails, CloseAll
<1>27. CASE Raises
  BY <1>27 DEF Raises
<1>28. CASE Stop
  BY <1>28 DEF Stop
<1>29. CASE UNCHANGED vars
  BY <1>29 DEF vars
<1>30. CASE BuildSource
  BY <1>30 DEF BuildSource
<1>31. CASE SinkFails
  BY <1>31 DEF SinkFails
<1> QED
  BY <1>1, <1>2, <1>3, <1>4, <1>5, <1>6, <1>7, <1>8, <1>9, <1>10, <1>11, <1>12, <1>13, <1>14,
     <1>15, <1>16, <1>17, <1>18, <1>19, <1>20, <1>21, <1>22, <1>23, <1>24, <1>25, <1>26, <1>27,
     <1>28, <1>29, <1>30, <1>31
  DEF Next, MainStep, ChildStep, WorkerStep

\* A chunk leaves a pipe that has one, and enters one that is not full.
LEMMA BufferStep ==
    ASSUME Bounded, sink' = sink, NEW j,
           (Take(j) /\ buffer[j] > 0) \/ (Put(j) /\ ~Full(j))
    PROVE  Bounded'
<1> USE StreamAssumption DEF Bounded
<1>1. \A k : IsFile(k)' <=> IsFile(k)
  BY DEF IsFile
<1>2. SUFFICES ASSUME NEW k \in Pipes
               PROVE  buffer'[k] \in Nat /\ (buffer'[k] <= Capacity \/ IsFile(k))
  <2>1. buffer' = [x \in Pipes |-> buffer'[x]]
    BY DEF Take, Put
  <2>2. QED
    BY <1>1, <1>2, <2>1
<1>3. buffer[k] \in Nat /\ (buffer[k] <= Capacity \/ IsFile(k))
  OBVIOUS
<1>4. CASE k # j
  BY <1>3, <1>4 DEF Take, Put
<1>5. CASE k = j /\ Take(j) /\ buffer[j] > 0
  <2>1. buffer'[k] = buffer[k] - 1
    BY <1>5 DEF Take
  <2>2. QED
    BY <2>1, <1>3, <1>5
<1>6. CASE k = j /\ Put(j) /\ ~Full(j)
  <2>1. buffer'[k] = buffer[k] + 1
    BY <1>6 DEF Put
  <2>2. buffer[k] < Capacity \/ IsFile(k)
    BY <1>3, <1>6 DEF Full
  <2>3. QED
    BY <2>1, <2>2, <1>3
<1>7. QED
  BY <1>4, <1>5, <1>6

\* The pipes, the output of the children and the feed keep their bounds.
LEMMA DataStep == Data /\ Control /\ [Next]_vars => Data'
<1> SUFFICES ASSUME Data, Control, [Next]_vars PROVE Data'
  OBVIOUS
<1> USE Names, StreamAssumption
        DEF Data, Control, vars, pipeVars, childVars, workVars, mainVars
<1>1. ASSUME NEW w \in Workers, ReadChunk(w) PROVE Data'
  <2>1. Bounded'
    BY <1>1, BufferStep DEF ReadChunk
  <2>2. output' \in [Cmds -> Nat] /\ (\A j \in Cmds : output'[j] <= Output[j])
    BY <1>1 DEF ReadChunk
  <2>3. left' \in 0 .. Fed /\ Feeding'
    BY <1>1 DEF Feeding, ReadChunk
  <2> QED
    BY <2>1, <2>2, <2>3
<1>2. ASSUME NEW w \in Workers, ReadEnds(w) PROVE Data'
  BY <1>2 DEF ReadEnds, Finished, CloseAll, Bounded, Feeding, IsFile
<1>3. ASSUME NEW w \in Workers, Callback(w) PROVE Data'
  BY <1>3 DEF Callback, Finished, CloseAll, Bounded, Feeding, IsFile
<1>4. ASSUME NEW w \in Workers, WriteChunk(w) PROVE Data'
  <2>1. Bounded'
    BY <1>4, BufferStep DEF WriteChunk
  <2>2. output' \in [Cmds -> Nat] /\ (\A j \in Cmds : output'[j] <= Output[j])
    BY <1>4 DEF WriteChunk, Finished, CloseAll
  <2>3. left' \in 0 .. Fed /\ Feeding'
    BY <1>4 DEF Feeding, WriteChunk, Finished, CloseAll, Feeds
  <2> QED
    BY <2>1, <2>2, <2>3
<1>5. ASSUME NEW w \in Workers, WriteEnds(w) PROVE Data'
  BY <1>5 DEF WriteEnds, Finished, CloseAll, Bounded, Feeding, IsFile
<1>6. ASSUME NEW i \in Cmds, ChildReads(i) PROVE Data'
  <2>1. Bounded'
    BY <1>6, BufferStep DEF ChildReads
  <2>2. output' \in [Cmds -> Nat] /\ (\A j \in Cmds : output'[j] <= Output[j])
    BY <1>6 DEF ChildReads
  <2>3. left' \in 0 .. Fed /\ Feeding'
    BY <1>6 DEF Feeding, ChildReads
  <2> QED
    BY <2>1, <2>2, <2>3
<1>7. ASSUME NEW i \in Cmds, ChildWants(i) PROVE Data'
  BY <1>7 DEF ChildWants, Bounded, Feeding, IsFile
<1>8. ASSUME NEW i \in Cmds, ChildWrites(i) PROVE Data'
  <2>1. Bounded'
    BY <1>8, BufferStep DEF ChildWrites
  <2>2. output' \in [Cmds -> Nat] /\ (\A j \in Cmds : output'[j] <= Output[j])
    BY <1>8 DEF ChildWrites
  <2>3. left' \in 0 .. Fed /\ Feeding'
    BY <1>8 DEF Feeding, ChildWrites
  <2> QED
    BY <2>1, <2>2, <2>3
<1>9. ASSUME NEW i \in Cmds, ChildExits(i) PROVE Data'
  BY <1>9 DEF ChildExits, ChildGone, Bounded, Feeding, IsFile
<1>10. ASSUME NEW i \in Cmds, ChildBroken(i) PROVE Data'
  BY <1>10 DEF ChildBroken, ChildGone, Bounded, Feeding, IsFile
<1>11. ASSUME NEW i \in Cmds, ChildKilled(i) PROVE Data'
  BY <1>11 DEF ChildKilled, ChildGone, Bounded, Feeding, IsFile
<1>12. ASSUME NEW i \in Cmds, HeirEnds(i) PROVE Data'
  BY <1>12 DEF HeirEnds, CloseAll, Bounded, Feeding, IsFile
<1>13. CASE BuildFeed
  <2>1. Bounded'
    BY <1>13 DEF Bounded, IsFile, BuildFeed
  <2>2. output' \in [Cmds -> Nat] /\ (\A j \in Cmds : output'[j] <= Output[j])
    BY <1>13 DEF BuildFeed
  <2>3. left' \in 0 .. Fed /\ Feeding'
    BY <1>13 DEF Feeding, BuildFeed
  <2> QED
    BY <2>1, <2>2, <2>3
<1>14. CASE OpenSinks
  BY <1>14 DEF OpenSinks, Bounded, Feeding, IsFile
<1>15. CASE BuildCmd
  BY <1>15 DEF BuildCmd, Bounded, Feeding, IsFile
<1>16. CASE BuildDrain
  BY <1>16 DEF BuildDrain, Bounded, Feeding, IsFile
<1>17. CASE BuildBridge
  BY <1>17 DEF BuildBridge, Bounded, Feeding, IsFile
<1>18. CASE Built
  BY <1>18 DEF Built, Bounded, Feeding, IsFile
<1>19. CASE ReadOutput
  <2>1. Bounded'
    BY <1>19, BufferStep DEF ReadOutput
  <2>2. output' \in [Cmds -> Nat] /\ (\A j \in Cmds : output'[j] <= Output[j])
    BY <1>19 DEF ReadOutput
  <2>3. left' \in 0 .. Fed /\ Feeding'
    BY <1>19 DEF Feeding, ReadOutput
  <2> QED
    BY <2>1, <2>2, <2>3
<1>20. CASE OutputEnds
  BY <1>20 DEF OutputEnds, Bounded, Feeding, IsFile
<1>21. CASE WaitProcs
  BY <1>21 DEF WaitProcs, Bounded, Feeding, IsFile
<1>22. CASE Status
  BY <1>22 DEF Status, CloseAll, Bounded, Feeding, IsFile
<1>23. CASE Abort
  BY <1>23 DEF Abort, CloseAll, Bounded, Feeding, IsFile
<1>24. CASE Reaped
  BY <1>24 DEF Reaped, Bounded, Feeding, IsFile
<1>25. CASE Dropped
  BY <1>25 DEF Dropped, Bounded, Feeding, IsFile
<1>26. CASE BuildFails
  BY <1>26 DEF BuildFails, CloseAll, Bounded, Feeding, IsFile
<1>27. CASE Raises
  BY <1>27 DEF Raises, Bounded, Feeding, IsFile
<1>28. CASE Stop
  BY <1>28 DEF Stop, Bounded, Feeding, IsFile
<1>29. CASE UNCHANGED vars
  BY <1>29 DEF Bounded, Feeding, IsFile
<1>30. CASE BuildSource
  BY <1>30 DEF BuildSource, Bounded, Feeding, IsFile
<1>31. CASE SinkFails
  BY <1>31 DEF SinkFails, Bounded, Feeding, IsFile
<1> QED
  BY <1>1, <1>2, <1>3, <1>4, <1>5, <1>6, <1>7, <1>8, <1>9, <1>10, <1>11, <1>12, <1>13, <1>14,
     <1>15, <1>16, <1>17, <1>18, <1>19, <1>20, <1>21, <1>22, <1>23, <1>24, <1>25, <1>26, <1>27,
     <1>28, <1>29, <1>30, <1>31
  DEF Next, MainStep, ChildStep, WorkerStep

\* The rest of the state keeps its types.
LEMMA ControlStep == Control /\ [Next]_vars => Control'
<1> SUFFICES ASSUME Control, [Next]_vars PROVE Control'
  OBVIOUS
<1> USE Names DEF Control, vars, childVars, workVars, mainVars
<1>1. ASSUME NEW w \in Workers, ReadChunk(w) PROVE Control'
  BY <1>1 DEF ReadChunk
<1>2. ASSUME NEW w \in Workers, ReadEnds(w) PROVE Control'
  BY <1>2 DEF ReadEnds, Finished, CloseAll
<1>3. ASSUME NEW w \in Workers, Callback(w) PROVE Control'
  BY <1>3 DEF Callback, Finished, CloseAll
<1>4. ASSUME NEW w \in Workers, WriteChunk(w) PROVE Control'
  BY <1>4 DEF WriteChunk, Finished, CloseAll
<1>5. ASSUME NEW w \in Workers, WriteEnds(w) PROVE Control'
  BY <1>5 DEF WriteEnds, Finished, CloseAll
<1>6. ASSUME NEW i \in Cmds, ChildReads(i) PROVE Control'
  BY <1>6 DEF ChildReads
<1>7. ASSUME NEW i \in Cmds, ChildWants(i) PROVE Control'
  BY <1>7 DEF ChildWants
<1>8. ASSUME NEW i \in Cmds, ChildWrites(i) PROVE Control'
  BY <1>8 DEF ChildWrites
<1>9. ASSUME NEW i \in Cmds, ChildExits(i) PROVE Control'
  BY <1>9 DEF ChildExits, ChildGone
<1>10. ASSUME NEW i \in Cmds, ChildBroken(i) PROVE Control'
  BY <1>10 DEF ChildBroken, ChildGone
<1>11. ASSUME NEW i \in Cmds, ChildKilled(i) PROVE Control'
  BY <1>11 DEF ChildKilled, ChildGone
<1>12. ASSUME NEW i \in Cmds, HeirEnds(i) PROVE Control'
  BY <1>12 DEF HeirEnds, CloseAll
<1>13. CASE BuildFeed
  BY <1>13 DEF BuildFeed
<1>14. CASE OpenSinks
  BY <1>14 DEF OpenSinks
<1>15. CASE BuildCmd
  BY <1>15 DEF BuildCmd, Drained
<1>16. CASE BuildDrain
  BY <1>16 DEF BuildDrain
<1>17. CASE BuildBridge
  BY <1>17 DEF BuildBridge
<1>18. CASE Built
  BY <1>18 DEF Built
<1>19. CASE ReadOutput
  BY <1>19 DEF ReadOutput
<1>20. CASE OutputEnds
  BY <1>20 DEF OutputEnds
<1>21. CASE WaitProcs
  BY <1>21 DEF WaitProcs
<1>22. CASE Status
  BY <1>22 DEF Status, CloseAll
<1>23. CASE Abort
  BY <1>23 DEF Abort, CloseAll
<1>24. CASE Reaped
  BY <1>24 DEF Reaped
<1>25. CASE Dropped
  BY <1>25 DEF Dropped
<1>26. CASE BuildFails
  BY <1>26 DEF BuildFails, CloseAll
<1>27. CASE Raises
  BY <1>27 DEF Raises
<1>28. CASE Stop
  BY <1>28 DEF Stop
<1>29. CASE UNCHANGED vars
  BY <1>29 DEF vars
<1>30. CASE BuildSource
  BY <1>30 DEF BuildSource
<1>31. CASE SinkFails
  BY <1>31 DEF SinkFails
<1> QED
  BY <1>1, <1>2, <1>3, <1>4, <1>5, <1>6, <1>7, <1>8, <1>9, <1>10, <1>11, <1>12, <1>13, <1>14,
     <1>15, <1>16, <1>17, <1>18, <1>19, <1>20, <1>21, <1>22, <1>23, <1>24, <1>25, <1>26, <1>27,
     <1>28, <1>29, <1>30, <1>31
  DEF Next, MainStep, ChildStep, WorkerStep

\* Who has an end of a pipe gives it up before another thread owns it.
LEMMA OwnersStep ==
    Ends /\ Control /\ SingleOwner /\ Released /\ WorkersLeft /\ [Next]_vars
      => SingleOwner' /\ Released' /\ WorkersLeft'
<1> SUFFICES ASSUME Ends, Control, SingleOwner, Released, WorkersLeft, [Next]_vars
             PROVE  SingleOwner' /\ Released' /\ WorkersLeft'
  OBVIOUS
<1> USE Names DEF Ends, Control, SingleOwner, Released, WorkersLeft, vars, pipeVars, workVars, mainVars
<1>1. ASSUME NEW w \in Workers, ReadChunk(w) PROVE SingleOwner' /\ Released' /\ WorkersLeft'
  BY <1>1 DEF ReadChunk
<1>2. ASSUME NEW w \in Workers, ReadEnds(w) PROVE SingleOwner' /\ Released' /\ WorkersLeft'
  <2>1. SingleOwner'
    BY <1>2 DEF ReadEnds, Finished, CloseAll
  <2>2. Released'
    BY <1>2 DEF ReadEnds, Finished, CloseAll
  <2>3. WorkersLeft'
    BY <1>2 DEF ReadEnds, Finished, CloseAll
  <2> QED
    BY <2>1, <2>2, <2>3
<1>3. ASSUME NEW w \in Workers, Callback(w) PROVE SingleOwner' /\ Released' /\ WorkersLeft'
  <2>1. SingleOwner'
    BY <1>3 DEF Callback, Finished, CloseAll
  <2>2. Released'
    BY <1>3 DEF Callback, Finished, CloseAll
  <2>3. WorkersLeft'
    BY <1>3 DEF Callback, Finished, CloseAll
  <2> QED
    BY <2>1, <2>2, <2>3
<1>4. ASSUME NEW w \in Workers, WriteChunk(w) PROVE SingleOwner' /\ Released' /\ WorkersLeft'
  <2>1. SingleOwner'
    BY <1>4 DEF WriteChunk, Finished, CloseAll
  <2>2. Released'
    BY <1>4 DEF WriteChunk, Finished, CloseAll
  <2>3. WorkersLeft'
    BY <1>4 DEF WriteChunk, Finished, CloseAll
  <2> QED
    BY <2>1, <2>2, <2>3
<1>5. ASSUME NEW w \in Workers, WriteEnds(w) PROVE SingleOwner' /\ Released' /\ WorkersLeft'
  <2>1. SingleOwner'
    BY <1>5 DEF WriteEnds, Finished, CloseAll
  <2>2. Released'
    BY <1>5 DEF WriteEnds, Finished, CloseAll
  <2>3. WorkersLeft'
    BY <1>5 DEF WriteEnds, Finished, CloseAll
  <2> QED
    BY <2>1, <2>2, <2>3
<1>6. ASSUME NEW i \in Cmds, ChildReads(i) PROVE SingleOwner' /\ Released' /\ WorkersLeft'
  BY <1>6 DEF ChildReads
<1>7. ASSUME NEW i \in Cmds, ChildWants(i) PROVE SingleOwner' /\ Released' /\ WorkersLeft'
  BY <1>7 DEF ChildWants
<1>8. ASSUME NEW i \in Cmds, ChildWrites(i) PROVE SingleOwner' /\ Released' /\ WorkersLeft'
  BY <1>8 DEF ChildWrites
<1>9. ASSUME NEW i \in Cmds, ChildExits(i) PROVE SingleOwner' /\ Released' /\ WorkersLeft'
  <2>1. SingleOwner'
    BY <1>9 DEF ChildExits, ChildGone
  <2>2. Released'
    BY <1>9 DEF ChildExits, ChildGone
  <2>3. WorkersLeft'
    BY <1>9 DEF ChildExits, ChildGone
  <2> QED
    BY <2>1, <2>2, <2>3
<1>10. ASSUME NEW i \in Cmds, ChildBroken(i) PROVE SingleOwner' /\ Released' /\ WorkersLeft'
  <2>1. SingleOwner'
    BY <1>10 DEF ChildBroken, ChildGone
  <2>2. Released'
    BY <1>10 DEF ChildBroken, ChildGone
  <2>3. WorkersLeft'
    BY <1>10 DEF ChildBroken, ChildGone
  <2> QED
    BY <2>1, <2>2, <2>3
<1>11. ASSUME NEW i \in Cmds, ChildKilled(i) PROVE SingleOwner' /\ Released' /\ WorkersLeft'
  <2>1. SingleOwner'
    BY <1>11 DEF ChildKilled, ChildGone
  <2>2. Released'
    BY <1>11 DEF ChildKilled, ChildGone
  <2>3. WorkersLeft'
    BY <1>11 DEF ChildKilled, ChildGone
  <2> QED
    BY <2>1, <2>2, <2>3
<1>12. ASSUME NEW i \in Cmds, HeirEnds(i) PROVE SingleOwner' /\ Released' /\ WorkersLeft'
  BY <1>12 DEF HeirEnds, CloseAll
<1>13. CASE BuildFeed
  <2>1. SingleOwner'
    BY <1>13 DEF BuildFeed
  <2>2. Released'
    BY <1>13 DEF BuildFeed
  <2>3. WorkersLeft'
    BY <1>13 DEF BuildFeed
  <2> QED
    BY <2>1, <2>2, <2>3
<1>14. CASE OpenSinks
  <2>1. SingleOwner'
    BY <1>14 DEF OpenSinks
  <2>2. Released'
    BY <1>14 DEF OpenSinks
  <2>3. WorkersLeft'
    BY <1>14 DEF OpenSinks
  <2> QED
    BY <2>1, <2>2, <2>3
<1>15. CASE BuildCmd
  <2>1. SingleOwner'
    BY <1>15 DEF BuildCmd
  <2>2. Released'
    BY <1>15 DEF BuildCmd
  <2>3. WorkersLeft'
    BY <1>15 DEF BuildCmd
  <2> QED
    BY <2>1, <2>2, <2>3
<1>16. CASE BuildDrain
  <2>1. SingleOwner'
    BY <1>16 DEF BuildDrain
  <2>2. Released'
    BY <1>16 DEF BuildDrain
  <2>3. WorkersLeft'
    BY <1>16 DEF BuildDrain
  <2> QED
    BY <2>1, <2>2, <2>3
<1>17. CASE BuildBridge
  <2>1. SingleOwner'
    BY <1>17 DEF BuildBridge
  <2>2. Released'
    BY <1>17 DEF BuildBridge
  <2>3. WorkersLeft'
    BY <1>17 DEF BuildBridge
  <2> QED
    BY <2>1, <2>2, <2>3
<1>18. CASE Built
  BY <1>18 DEF Built
<1>19. CASE ReadOutput
  BY <1>19 DEF ReadOutput
<1>20. CASE OutputEnds
  BY <1>20 DEF OutputEnds
<1>21. CASE WaitProcs
  BY <1>21 DEF WaitProcs
<1>22. CASE Status
  BY <1>22 DEF Status, CloseAll
<1>23. CASE Abort
  BY <1>23 DEF Abort, CloseAll
<1>24. CASE Reaped
  BY <1>24 DEF Reaped
<1>25. CASE Dropped
  BY <1>25 DEF Dropped
<1>26. CASE BuildFails
  BY <1>26 DEF BuildFails, CloseAll
<1>27. CASE Raises
  BY <1>27 DEF Raises
<1>28. CASE Stop
  BY <1>28 DEF Stop
<1>29. CASE UNCHANGED vars
  BY <1>29 DEF vars
<1>30. CASE BuildSource
  BY <1>30 DEF BuildSource
<1>31. CASE SinkFails
  BY <1>31 DEF SinkFails
<1> QED
  BY <1>1, <1>2, <1>3, <1>4, <1>5, <1>6, <1>7, <1>8, <1>9, <1>10, <1>11, <1>12, <1>13, <1>14,
     <1>15, <1>16, <1>17, <1>18, <1>19, <1>20, <1>21, <1>22, <1>23, <1>24, <1>25, <1>26, <1>27,
     <1>28, <1>29, <1>30, <1>31
  DEF Next, MainStep, ChildStep, WorkerStep

-----------------------------------------------------------------------------
\* The pipes of the stderrs are not those of the stdouts, and every stage has its own.
LEMMA Pipelines ==
    /\ N \in Pipes
    /\ \A i \in Cmds : Err(i) \in Pipes /\ Err(i) > N /\ Err(i) # ErrFile
    /\ \A i, j \in Cmds : Err(i) = Err(j) => i = j
    /\ \A w \in Workers : /\ Target(w) \in Nat /\ Target(w) <= N
                          /\ w[1] # "drain" => Source(w) \in Int /\ Source(w) < N
    /\ \A i \in Cmds : Source(Drain(i)) = Err(i) /\ Drain(i)[1] = "drain"
    /\ \A w \in Workers : w[1] = "drain" => \E i \in Cmds : w = Drain(i)
    /\ \A i, j \in Cmds : Drain(i) = Drain(j) => i = j
    /\ \A i \in Cmds, j \in {0} \cup Stages : Drain(i) # Worker(j)
<1>1. \A i \in Cmds : i \in Nat /\ 1 <= i /\ i <= N
  BY Names
<1>2. N \in Nat /\ N >= 1
  BY Names
<1>3. N \in Pipes /\ \A i \in Cmds : Err(i) \in Pipes /\ Err(i) > N /\ Err(i) # ErrFile
  BY <1>1, <1>2 DEF Pipes, Err, ErrFile
<1>4. \A i, j \in Cmds : Err(i) = Err(j) => i = j
  BY <1>1, <1>2 DEF Err
<1>5. \A w \in Workers : /\ Target(w) \in Nat /\ Target(w) <= N
                         /\ w[1] # "drain" => Source(w) \in Int /\ Source(w) < N
  BY <1>1, <1>2, Names DEF Workers, Worker, Drain, Target, Source
<1>6. /\ \A i \in Cmds : Source(Drain(i)) = Err(i) /\ Drain(i)[1] = "drain"
      /\ \A w \in Workers : w[1] = "drain" => \E i \in Cmds : w = Drain(i)
      /\ \A i, j \in Cmds : Drain(i) = Drain(j) => i = j
      /\ \A i \in Cmds, j \in {0} \cup Stages : Drain(i) # Worker(j)
  BY DEF Workers, Worker, Drain, Source
<1>7. QED
  BY <1>3, <1>4, <1>5, <1>6


LEMMA ReadInit == Init => Course /\ Adrift /\ StderrRead /\ StdoutRead
<1> SUFFICES ASSUME Init PROVE Course /\ Adrift /\ StderrRead /\ StdoutRead
  OBVIOUS
<1> USE Names, Pipelines DEF Init
<1>1. Course
  BY DEF Course, Idle, Alive
<1>2. StderrRead
  BY DEF StderrRead, DrainRuns, StderrHeld, StderrEnds, Silent, Alive
<1>3. StdoutRead
  BY DEF StdoutRead
<1>4. Adrift
  BY DEF Adrift
<1>5. QED
  BY <1>1, <1>2, <1>3, <1>4

\* run() goes through its points in order, and threads and children start while it builds.
LEMMA CourseStep ==
    Ends /\ Control /\ Course /\ [Next]_vars => Course'
<1> SUFFICES ASSUME Ends, Control, Course, [Next]_vars PROVE Course'
  OBVIOUS
<1> USE Names DEF Control, Course, Idle, Alive, vars, childVars, workVars, mainVars
<1>1. ASSUME NEW w \in Workers, ReadChunk(w) PROVE Course'
  BY <1>1 DEF ReadChunk
<1>2. ASSUME NEW w \in Workers, ReadEnds(w) PROVE Course'
  BY <1>2 DEF ReadEnds, Finished, CloseAll
<1>3. ASSUME NEW w \in Workers, Callback(w) PROVE Course'
  BY <1>3 DEF Callback, Finished, CloseAll
<1>4. ASSUME NEW w \in Workers, WriteChunk(w) PROVE Course'
  BY <1>4 DEF WriteChunk, Finished, CloseAll
<1>5. ASSUME NEW w \in Workers, WriteEnds(w) PROVE Course'
  BY <1>5 DEF WriteEnds, Finished, CloseAll
<1>6. ASSUME NEW k \in Cmds, ChildReads(k) PROVE Course'
  BY <1>6 DEF ChildReads
<1>7. ASSUME NEW k \in Cmds, ChildWants(k) PROVE Course'
  BY <1>7 DEF ChildWants
<1>8. ASSUME NEW k \in Cmds, ChildWrites(k) PROVE Course'
  BY <1>8 DEF ChildWrites
<1>9. ASSUME NEW k \in Cmds, ChildExits(k) PROVE Course'
  BY <1>9 DEF ChildExits, ChildGone
<1>10. ASSUME NEW k \in Cmds, ChildBroken(k) PROVE Course'
  BY <1>10 DEF ChildBroken, ChildGone
<1>11. ASSUME NEW k \in Cmds, ChildKilled(k) PROVE Course'
  BY <1>11 DEF ChildKilled, ChildGone
<1>12. ASSUME NEW k \in Cmds, HeirEnds(k) PROVE Course'
  BY <1>12 DEF HeirEnds, CloseAll
<1>13. CASE BuildFeed
  BY <1>13 DEF BuildFeed
<1>14. CASE OpenSinks
  BY <1>14 DEF OpenSinks
<1>15. CASE BuildCmd
  BY <1>15 DEF BuildCmd
<1>16. CASE BuildDrain
  BY <1>16 DEF BuildDrain
<1>17. CASE BuildBridge
  BY <1>17 DEF BuildBridge
<1>18. CASE Built
  BY <1>18 DEF Built
<1>19. CASE ReadOutput
  BY <1>19 DEF ReadOutput
<1>20. CASE OutputEnds
  BY <1>20 DEF OutputEnds
<1>21. CASE WaitProcs
  BY <1>21 DEF WaitProcs
<1>22. CASE Status
  BY <1>22 DEF Status, CloseAll
<1>23. CASE Abort
  BY <1>23 DEF Abort, CloseAll
<1>24. CASE Reaped
  BY <1>24 DEF Reaped
<1>25. CASE Dropped
  BY <1>25 DEF Dropped
<1>26. CASE BuildFails
  BY <1>26 DEF BuildFails, CloseAll
<1>27. CASE Raises
  BY <1>27 DEF Raises
<1>28. CASE Stop
  BY <1>28 DEF Stop
<1>29. CASE UNCHANGED vars
  BY <1>29 DEF vars
<1>30. CASE BuildSource
  BY <1>30 DEF BuildSource
<1>31. CASE SinkFails
  BY <1>31 DEF SinkFails
<1> QED
  BY <1>1, <1>2, <1>3, <1>4, <1>5, <1>6, <1>7, <1>8, <1>9, <1>10, <1>11, <1>12, <1>13, <1>14,
     <1>15, <1>16, <1>17, <1>18, <1>19, <1>20, <1>21, <1>22, <1>23, <1>24, <1>25, <1>26, <1>27,
     <1>28, <1>29, <1>30, <1>31
  DEF Next, MainStep, ChildStep, WorkerStep

\* Nobody but the command that is being started, or the target that is being opened, has what
\* no one owns, and the errors there end the building.
LEMMA AdriftStep ==
    Ends /\ Control /\ Course /\ Adrift /\ [Next]_vars => Adrift'
<1> SUFFICES ASSUME Ends, Control, Course, Adrift, [Next]_vars PROVE Adrift'
  OBVIOUS
<1> USE Names, Pipelines DEF Ends, Control, Course, Adrift, IsFile, vars, pipeVars, mainVars
<1>1. ASSUME NEW w \in Workers, ReadChunk(w) PROVE Adrift'
  BY <1>1 DEF ReadChunk
<1>2. ASSUME NEW w \in Workers, ReadEnds(w) PROVE Adrift'
  BY <1>2 DEF ReadEnds, Finished, CloseAll
<1>3. ASSUME NEW w \in Workers, Callback(w) PROVE Adrift'
  BY <1>3 DEF Callback, Finished, CloseAll
<1>4. ASSUME NEW w \in Workers, WriteChunk(w) PROVE Adrift'
  BY <1>4 DEF WriteChunk, Finished, CloseAll
<1>5. ASSUME NEW w \in Workers, WriteEnds(w) PROVE Adrift'
  BY <1>5 DEF WriteEnds, Finished, CloseAll
<1>6. ASSUME NEW k \in Cmds, ChildReads(k) PROVE Adrift'
  BY <1>6 DEF ChildReads
<1>7. ASSUME NEW k \in Cmds, ChildWants(k) PROVE Adrift'
  BY <1>7 DEF ChildWants
<1>8. ASSUME NEW k \in Cmds, ChildWrites(k) PROVE Adrift'
  BY <1>8 DEF ChildWrites
<1>9. ASSUME NEW k \in Cmds, ChildExits(k) PROVE Adrift'
  BY <1>9 DEF ChildExits, ChildGone
<1>10. ASSUME NEW k \in Cmds, ChildBroken(k) PROVE Adrift'
  BY <1>10 DEF ChildBroken, ChildGone
<1>11. ASSUME NEW k \in Cmds, ChildKilled(k) PROVE Adrift'
  BY <1>11 DEF ChildKilled, ChildGone
<1>12. ASSUME NEW k \in Cmds, HeirEnds(k) PROVE Adrift'
  BY <1>12 DEF HeirEnds, CloseAll
<1>13. CASE BuildFeed
  BY <1>13 DEF BuildFeed
<1>14. CASE OpenSinks
  BY <1>14 DEF OpenSinks
<1>15. CASE BuildCmd
  BY <1>15 DEF BuildCmd, Drained
<1>16. CASE BuildDrain
  BY <1>16 DEF BuildDrain
<1>17. CASE BuildBridge
  BY <1>17 DEF BuildBridge
<1>18. CASE Built
  BY <1>18 DEF Built
<1>19. CASE ReadOutput
  BY <1>19 DEF ReadOutput
<1>20. CASE OutputEnds
  BY <1>20 DEF OutputEnds
<1>21. CASE WaitProcs
  BY <1>21 DEF WaitProcs
<1>22. CASE Status
  BY <1>22 DEF Status, CloseAll
<1>23. CASE Abort
  BY <1>23 DEF Abort, CloseAll
<1>24. CASE Reaped
  BY <1>24 DEF Reaped
<1>25. CASE Dropped
  BY <1>25 DEF Dropped
<1>26. CASE BuildFails
  BY <1>26 DEF BuildFails, CloseAll
<1>27. CASE Raises
  BY <1>27 DEF Raises
<1>28. CASE Stop
  BY <1>28 DEF Stop
<1>29. CASE UNCHANGED vars
  BY <1>29 DEF vars
<1>30. CASE BuildSource
  BY <1>30 DEF BuildSource
<1>31. CASE SinkFails
  BY <1>31 DEF SinkFails
<1> QED
  BY <1>1, <1>2, <1>3, <1>4, <1>5, <1>6, <1>7, <1>8, <1>9, <1>10, <1>11, <1>12, <1>13, <1>14,
     <1>15, <1>16, <1>17, <1>18, <1>19, <1>20, <1>21, <1>22, <1>23, <1>24, <1>25, <1>26, <1>27,
     <1>28, <1>29, <1>30, <1>31
  DEF Next, MainStep, ChildStep, WorkerStep

\* The drains start with their commands.
LEMMA DrainStep ==
    ASSUME NEW i \in Cmds, [Next]_vars,
           Control, DrainRuns(i)
    PROVE  DrainRuns(i)'
<1> USE DEF Control, DrainRuns, Drained, vars, childVars, workVars, mainVars
<1>0. /\ N \in Nat /\ i \in Nat /\ 1 <= i /\ i <= N
      /\ Drain(i) \in Workers /\ Drain(i)[1] = "drain"
      /\ \A k \in Cmds : Drain(k) = Drain(i) => k = i
      /\ \A k \in {0} \cup Stages : Drain(i) # Worker(k)
      /\ \A k \in Cmds : k \in Stages
  BY Names, Pipelines
<1> USE <1>0
<1>1. ASSUME NEW w \in Workers, ReadChunk(w) PROVE DrainRuns(i)'
  BY <1>1 DEF ReadChunk
<1>2. ASSUME NEW w \in Workers, ReadEnds(w) PROVE DrainRuns(i)'
  BY <1>2 DEF ReadEnds, Finished, CloseAll
<1>3. ASSUME NEW w \in Workers, Callback(w) PROVE DrainRuns(i)'
  BY <1>3 DEF Callback, Finished, CloseAll
<1>4. ASSUME NEW w \in Workers, WriteChunk(w) PROVE DrainRuns(i)'
  BY <1>4 DEF WriteChunk, Finished, CloseAll
<1>5. ASSUME NEW w \in Workers, WriteEnds(w) PROVE DrainRuns(i)'
  BY <1>5 DEF WriteEnds, Finished, CloseAll
<1>6. ASSUME NEW k \in Cmds, ChildReads(k) PROVE DrainRuns(i)'
  BY <1>6 DEF ChildReads
<1>7. ASSUME NEW k \in Cmds, ChildWants(k) PROVE DrainRuns(i)'
  BY <1>7 DEF ChildWants
<1>8. ASSUME NEW k \in Cmds, ChildWrites(k) PROVE DrainRuns(i)'
  BY <1>8 DEF ChildWrites
<1>9. ASSUME NEW k \in Cmds, ChildExits(k) PROVE DrainRuns(i)'
  BY <1>9 DEF ChildExits, ChildGone
<1>10. ASSUME NEW k \in Cmds, ChildBroken(k) PROVE DrainRuns(i)'
  BY <1>10 DEF ChildBroken, ChildGone
<1>11. ASSUME NEW k \in Cmds, ChildKilled(k) PROVE DrainRuns(i)'
  BY <1>11 DEF ChildKilled, ChildGone
<1>12. ASSUME NEW k \in Cmds, HeirEnds(k) PROVE DrainRuns(i)'
  BY <1>12 DEF HeirEnds, CloseAll
<1>13. CASE BuildFeed
  BY <1>13 DEF BuildFeed
<1>14. CASE OpenSinks
  BY <1>14 DEF OpenSinks
<1>15. CASE BuildCmd
  BY <1>15 DEF BuildCmd
<1>16. CASE BuildDrain
  BY <1>16 DEF BuildDrain
<1>17. CASE BuildBridge
  BY <1>17 DEF BuildBridge
<1>18. CASE Built
  BY <1>18 DEF Built
<1>19. CASE ReadOutput
  BY <1>19 DEF ReadOutput
<1>20. CASE OutputEnds
  BY <1>20 DEF OutputEnds
<1>21. CASE WaitProcs
  BY <1>21 DEF WaitProcs
<1>22. CASE Status
  BY <1>22 DEF Status, CloseAll
<1>23. CASE Abort
  BY <1>23 DEF Abort, CloseAll
<1>24. CASE Reaped
  BY <1>24 DEF Reaped
<1>25. CASE Dropped
  BY <1>25 DEF Dropped
<1>26. CASE BuildFails
  BY <1>26 DEF BuildFails, CloseAll
<1>27. CASE Raises
  BY <1>27 DEF Raises
<1>28. CASE Stop
  BY <1>28 DEF Stop
<1>29. CASE UNCHANGED vars
  BY <1>29 DEF vars
<1>30. CASE BuildSource
  BY <1>30 DEF BuildSource
<1>31. CASE SinkFails
  BY <1>31 DEF SinkFails
<1> QED
  BY <1>1, <1>2, <1>3, <1>4, <1>5, <1>6, <1>7, <1>8, <1>9, <1>10, <1>11, <1>12, <1>13, <1>14,
     <1>15, <1>16, <1>17, <1>18, <1>19, <1>20, <1>21, <1>22, <1>23, <1>24, <1>25, <1>26, <1>27,
     <1>28, <1>29, <1>30, <1>31
  DEF Next, MainStep, ChildStep, WorkerStep

\* A command keeps its stderr as long as it is alive.
LEMMA HeldStep ==
    ASSUME NEW i \in Cmds, [Next]_vars,
           Ends, Control, StderrHeld(i)
    PROVE  StderrHeld(i)'
<1> USE DEF Ends, StderrHeld, Alive, Drained, vars, pipeVars, childVars, mainVars
<1>0. /\ N \in Nat /\ i \in Nat /\ 1 <= i /\ i <= N
      /\ Err(i) \in Pipes /\ Err(i) > N /\ Err(i) # ErrFile
      /\ \A k \in Cmds : Err(k) = Err(i) => k = i
      /\ \A k \in Stages : Err(i) # k
      /\ Child(i) \notin Workers /\ Child(i) # Main
      /\ \A k \in Cmds : Heir(k) # Child(i) /\ (Child(k) = Child(i) => k = i) /\ k \in Stages
      /\ child \in [Cmds -> {"none", "running", "out", "err", "exited"}]
  <2>1. /\ Child(i) \notin Workers /\ Child(i) # Main
        /\ \A k \in Cmds : Heir(k) # Child(i) /\ (Child(k) = Child(i) => k = i)
    BY Names DEF Heir, Child
  <2>2. \A k \in Stages : Err(i) # k
    BY Names, Pipelines
  <2>3. QED
    BY <2>1, <2>2, Names, Pipelines DEF Control
<1> USE <1>0
<1>1. ASSUME NEW w \in Workers, ReadChunk(w) PROVE StderrHeld(i)'
  BY <1>1 DEF ReadChunk
<1>2. ASSUME NEW w \in Workers, ReadEnds(w) PROVE StderrHeld(i)'
  BY <1>2 DEF ReadEnds, Finished, CloseAll
<1>3. ASSUME NEW w \in Workers, Callback(w) PROVE StderrHeld(i)'
  BY <1>3 DEF Callback, Finished, CloseAll
<1>4. ASSUME NEW w \in Workers, WriteChunk(w) PROVE StderrHeld(i)'
  BY <1>4 DEF WriteChunk, Finished, CloseAll
<1>5. ASSUME NEW w \in Workers, WriteEnds(w) PROVE StderrHeld(i)'
  BY <1>5 DEF WriteEnds, Finished, CloseAll
<1>6. ASSUME NEW k \in Cmds, ChildReads(k) PROVE StderrHeld(i)'
  BY <1>6 DEF ChildReads
<1>7. ASSUME NEW k \in Cmds, ChildWants(k) PROVE StderrHeld(i)'
  BY <1>7 DEF ChildWants
<1>8. ASSUME NEW k \in Cmds, ChildWrites(k) PROVE StderrHeld(i)'
  BY <1>8 DEF ChildWrites
<1>9. ASSUME NEW k \in Cmds, ChildExits(k) PROVE StderrHeld(i)'
  BY <1>9 DEF ChildExits, ChildGone
<1>10. ASSUME NEW k \in Cmds, ChildBroken(k) PROVE StderrHeld(i)'
  BY <1>10 DEF ChildBroken, ChildGone
<1>11. ASSUME NEW k \in Cmds, ChildKilled(k) PROVE StderrHeld(i)'
  BY <1>11 DEF ChildKilled, ChildGone
<1>12. ASSUME NEW k \in Cmds, HeirEnds(k) PROVE StderrHeld(i)'
  BY <1>12 DEF HeirEnds, CloseAll
<1>13. CASE BuildFeed
  BY <1>13 DEF BuildFeed
<1>14. CASE OpenSinks
  BY <1>14 DEF OpenSinks
<1>15. CASE BuildCmd
  BY <1>15 DEF BuildCmd
<1>16. CASE BuildDrain
  BY <1>16 DEF BuildDrain
<1>17. CASE BuildBridge
  BY <1>17 DEF BuildBridge
<1>18. CASE Built
  BY <1>18 DEF Built
<1>19. CASE ReadOutput
  BY <1>19 DEF ReadOutput
<1>20. CASE OutputEnds
  BY <1>20 DEF OutputEnds
<1>21. CASE WaitProcs
  BY <1>21 DEF WaitProcs
<1>22. CASE Status
  BY <1>22 DEF Status, CloseAll
<1>23. CASE Abort
  BY <1>23 DEF Abort, CloseAll
<1>24. CASE Reaped
  BY <1>24 DEF Reaped
<1>25. CASE Dropped
  BY <1>25 DEF Dropped
<1>26. CASE BuildFails
  BY <1>26 DEF BuildFails, CloseAll
<1>27. CASE Raises
  BY <1>27 DEF Raises
<1>28. CASE Stop
  BY <1>28 DEF Stop
<1>29. CASE UNCHANGED vars
  BY <1>29 DEF vars
<1>30. CASE BuildSource
  BY <1>30 DEF BuildSource
<1>31. CASE SinkFails
  BY <1>31 DEF SinkFails
<1> QED
  BY <1>1, <1>2, <1>3, <1>4, <1>5, <1>6, <1>7, <1>8, <1>9, <1>10, <1>11, <1>12, <1>13, <1>14,
     <1>15, <1>16, <1>17, <1>18, <1>19, <1>20, <1>21, <1>22, <1>23, <1>24, <1>25, <1>26, <1>27,
     <1>28, <1>29, <1>30, <1>31
  DEF Next, MainStep, ChildStep, WorkerStep

\* A stderr stays read: its thread ends when nobody can write to it any more.
LEMMA EmptiedStep ==
    ASSUME NEW i \in Cmds, [Next]_vars,
           Ends, Data, Control, Course, DrainRuns(i), StderrHeld(i), StderrEnds(i)
    PROVE  StderrEnds(i)'
<1> USE DEF Ends, DrainRuns, StderrEnds, Silent, vars, pipeVars, childVars,
            workVars, mainVars
<1>0. /\ N \in Nat /\ i \in Nat /\ 1 <= i /\ i <= N
      /\ Err(i) \in Pipes /\ Err(i) > N /\ Err(i) # ErrFile /\ N \in Pipes
      /\ \A k \in Cmds : Err(k) = Err(i) => k = i
      /\ Drain(i) \in Workers /\ Source(Drain(i)) = Err(i)
      /\ \A w \in Workers : w # Drain(i) => Source(w) # Err(i)
      /\ \A w \in Workers : Target(w) # Err(i)
      /\ \A k \in Cmds : Drain(k) = Drain(i) => k = i
      /\ \A k \in {0} \cup Stages : Drain(i) # Worker(k) /\ Err(i) # k
      /\ \A k \in Cmds : k \in Stages /\ k - 1 # Err(i)
      /\ thread \in [Workers -> {"none", "read", "call", "write", "done"}]
      /\ buffer \in [Pipes -> Nat]
      /\ aborting \in BOOLEAN /\ stopped \in BOOLEAN
  <2>1. \A w \in Workers : w # Drain(i) => Source(w) # Err(i)
    <3>1. ASSUME NEW w \in Workers, w # Drain(i), w[1] = "drain" PROVE Source(w) # Err(i)
      <4>1. PICK k \in Cmds : w = Drain(k)
        BY <3>1, Pipelines
      <4>2. QED
        BY <3>1, <4>1, Pipelines
    <3>2. ASSUME NEW w \in Workers, w[1] # "drain" PROVE Source(w) # Err(i)
      BY <3>2, Pipelines, Names
    <3>3. QED
      BY <3>1, <3>2
  <2>2. /\ \A w \in Workers : Target(w) # Err(i)
        /\ \A k \in {0} \cup Stages : Err(i) # k
        /\ \A k \in Cmds : k \in Stages /\ k - 1 # Err(i)
    BY Names, Pipelines
  <2>3. QED
    BY <2>1, <2>2, Names, Pipelines DEF Control, Data, Bounded
<1> USE <1>0
<1>1. ASSUME NEW w \in Workers, ReadChunk(w) PROVE StderrEnds(i)'
  BY <1>1 DEF ReadChunk, Take
<1>2. ASSUME NEW w \in Workers, ReadEnds(w) PROVE StderrEnds(i)'
  BY <1>2 DEF ReadEnds, Finished, CloseAll, GiveUp
<1>3. ASSUME NEW w \in Workers, Callback(w) PROVE StderrEnds(i)'
  BY <1>3 DEF Callback, Finished, CloseAll
<1>4. ASSUME NEW w \in Workers, WriteChunk(w) PROVE StderrEnds(i)'
  <2>1. w # Drain(i)
    BY <1>4 DEF WriteChunk
  <2>2. writers[Err(i)] = {} => writers'[Err(i)] = {}
    <3>1. writers' = writers \/ CloseAll(w)
      BY <1>4 DEF WriteChunk, Finished
    <3>2. QED
      BY <3>1 DEF CloseAll
  <2>3. buffer'[Err(i)] = buffer[Err(i)]
    BY <1>4 DEF WriteChunk, Put
  <2>4. thread'[Drain(i)] = thread[Drain(i)]
    BY <1>4, <2>1 DEF WriteChunk, Finished
  <2>5. QED
    BY <1>4, <2>2, <2>3, <2>4 DEF WriteChunk
<1>5. ASSUME NEW w \in Workers, WriteEnds(w) PROVE StderrEnds(i)'
  BY <1>5 DEF WriteEnds, Finished, CloseAll
<1>6. ASSUME NEW k \in Cmds, ChildReads(k) PROVE StderrEnds(i)'
  BY <1>6 DEF ChildReads, Take
<1>7. ASSUME NEW k \in Cmds, ChildWants(k) PROVE StderrEnds(i)'
  BY <1>7 DEF ChildWants
<1>8. ASSUME NEW k \in Cmds, ChildWrites(k) PROVE StderrEnds(i)'
  BY <1>8 DEF ChildWrites, Put, Written, StderrHeld, Alive, Drained
<1>9. ASSUME NEW k \in Cmds, ChildExits(k) PROVE StderrEnds(i)'
  BY <1>9 DEF ChildExits, ChildGone
<1>10. ASSUME NEW k \in Cmds, ChildBroken(k) PROVE StderrEnds(i)'
  BY <1>10 DEF ChildBroken, ChildGone
<1>11. ASSUME NEW k \in Cmds, ChildKilled(k) PROVE StderrEnds(i)'
  BY <1>11 DEF ChildKilled, ChildGone
<1>12. ASSUME NEW k \in Cmds, HeirEnds(k) PROVE StderrEnds(i)'
  BY <1>12 DEF HeirEnds, CloseAll
<1>13. CASE BuildFeed
  BY <1>13 DEF BuildFeed
<1>14. CASE OpenSinks
  <2>1. Err(i) # N
    OBVIOUS
  <2>2. writers'[Err(i)] = writers[Err(i)]
    BY <1>14, <2>1, ZenonT(30) DEF OpenSinks
  <2>3. QED
    BY <1>14, <2>2 DEF OpenSinks
<1>15. CASE BuildCmd
  <2>1. CASE i = stage
    <3>1. thread[Drain(i)] # "done"
      BY <2>1
    <3>2. i \in Merged => writers'[Err(i)] = writers[Err(i)]
      BY <1>15, <2>1 DEF BuildCmd, Drained
    <3>3. QED
      BY <1>15, <3>1, <3>2 DEF BuildCmd
  <2>2. CASE i # stage
    <3>1. Err(stage) # Err(i) /\ stage # Err(i)
      BY <1>15, <2>2 DEF BuildCmd
    <3>2. writers'[Err(i)] = writers[Err(i)]
      BY <1>15, <3>1 DEF BuildCmd
    <3>3. QED
      BY <1>15, <3>2 DEF BuildCmd
  <2>3. QED
    BY <2>1, <2>2
<1>16. CASE BuildDrain
  BY <1>16 DEF BuildDrain
<1>17. CASE BuildBridge
  BY <1>17 DEF BuildBridge
<1>18. CASE Built
  BY <1>18 DEF Built
<1>19. CASE ReadOutput
  BY <1>19 DEF ReadOutput, Take
<1>20. CASE OutputEnds
  BY <1>20 DEF OutputEnds
<1>21. CASE WaitProcs
  BY <1>21 DEF WaitProcs
<1>22. CASE Status
  BY <1>22 DEF Status, CloseAll
<1>23. CASE Abort
  BY <1>23 DEF Abort, CloseAll
<1>24. CASE Reaped
  BY <1>24 DEF Reaped
<1>25. CASE Dropped
  BY <1>25 DEF Dropped
<1>26. CASE BuildFails
  BY <1>26 DEF BuildFails, CloseAll
<1>27. CASE Raises
  BY <1>27 DEF Raises
<1>28. CASE Stop
  BY <1>28 DEF Stop
<1>29. CASE UNCHANGED vars
  BY <1>29 DEF vars
<1>30. CASE BuildSource
  BY <1>30 DEF BuildSource
<1>31. CASE SinkFails
  BY <1>31 DEF SinkFails
<1> QED
  BY <1>1, <1>2, <1>3, <1>4, <1>5, <1>6, <1>7, <1>8, <1>9, <1>10, <1>11, <1>12, <1>13, <1>14,
     <1>15, <1>16, <1>17, <1>18, <1>19, <1>20, <1>21, <1>22, <1>23, <1>24, <1>25, <1>26, <1>27,
     <1>28, <1>29, <1>30, <1>31
  DEF Next, MainStep, ChildStep, WorkerStep

\* Nothing is written to a stdout that main has stopped reading.
LEMMA StdoutStep ==
    Ends /\ Data /\ Control /\ Course /\ Adrift /\ StdoutRead /\ [Next]_vars => StdoutRead'
<1> SUFFICES ASSUME Ends, Data, Control, Course, Adrift, StdoutRead, [Next]_vars PROVE StdoutRead'
  OBVIOUS
<1> USE Names, Pipelines
        DEF Ends, Data, Bounded, Control, Course, StdoutRead, IsFile, vars, pipeVars, childVars,
            workVars, mainVars
<1>1. ASSUME NEW w \in Workers, ReadChunk(w) PROVE StdoutRead'
  BY <1>1 DEF ReadChunk, Take
<1>2. ASSUME NEW w \in Workers, ReadEnds(w) PROVE StdoutRead'
  BY <1>2 DEF ReadEnds, Finished, CloseAll
<1>3. ASSUME NEW w \in Workers, Callback(w) PROVE StdoutRead'
  BY <1>3 DEF Callback, Finished, CloseAll
<1>4. ASSUME NEW w \in Workers, WriteChunk(w) PROVE StdoutRead'
  BY <1>4 DEF WriteChunk, Finished, CloseAll, Put, Broken
<1>5. ASSUME NEW w \in Workers, WriteEnds(w) PROVE StdoutRead'
  BY <1>5 DEF WriteEnds, Finished, CloseAll
<1>6. ASSUME NEW k \in Cmds, ChildReads(k) PROVE StdoutRead'
  BY <1>6 DEF ChildReads, Take
<1>7. ASSUME NEW k \in Cmds, ChildWants(k) PROVE StdoutRead'
  BY <1>7 DEF ChildWants
<1>8. ASSUME NEW k \in Cmds, ChildWrites(k) PROVE StdoutRead'
  BY <1>8 DEF ChildWrites, Put, Written, Broken
<1>9. ASSUME NEW k \in Cmds, ChildExits(k) PROVE StdoutRead'
  BY <1>9 DEF ChildExits, ChildGone
<1>10. ASSUME NEW k \in Cmds, ChildBroken(k) PROVE StdoutRead'
  BY <1>10 DEF ChildBroken, ChildGone
<1>11. ASSUME NEW k \in Cmds, ChildKilled(k) PROVE StdoutRead'
  BY <1>11 DEF ChildKilled, ChildGone
<1>12. ASSUME NEW k \in Cmds, HeirEnds(k) PROVE StdoutRead'
  BY <1>12 DEF HeirEnds, CloseAll
<1>13. CASE BuildFeed
  BY <1>13 DEF BuildFeed
<1>14. CASE OpenSinks
  BY <1>14 DEF OpenSinks
<1>15. CASE BuildCmd
  BY <1>15 DEF BuildCmd
<1>16. CASE BuildDrain
  BY <1>16 DEF BuildDrain
<1>17. CASE BuildBridge
  BY <1>17 DEF BuildBridge
<1>18. CASE Built
  BY <1>18 DEF Built
<1>19. CASE ReadOutput
  BY <1>19 DEF ReadOutput, Take
<1>20. CASE OutputEnds
  BY <1>20 DEF OutputEnds, Adrift
<1>21. CASE WaitProcs
  BY <1>21 DEF WaitProcs
<1>22. CASE Status
  BY <1>22 DEF Status, CloseAll
<1>23. CASE Abort
  BY <1>23 DEF Abort, CloseAll
<1>24. CASE Reaped
  BY <1>24 DEF Reaped
<1>25. CASE Dropped
  BY <1>25 DEF Dropped
<1>26. CASE BuildFails
  BY <1>26 DEF BuildFails, CloseAll
<1>27. CASE Raises
  BY <1>27 DEF Raises
<1>28. CASE Stop
  BY <1>28 DEF Stop
<1>29. CASE UNCHANGED vars
  BY <1>29 DEF vars
<1>30. CASE BuildSource
  BY <1>30 DEF BuildSource
<1>31. CASE SinkFails
  BY <1>31 DEF SinkFails
<1> QED
  BY <1>1, <1>2, <1>3, <1>4, <1>5, <1>6, <1>7, <1>8, <1>9, <1>10, <1>11, <1>12, <1>13, <1>14,
     <1>15, <1>16, <1>17, <1>18, <1>19, <1>20, <1>21, <1>22, <1>23, <1>24, <1>25, <1>26, <1>27,
     <1>28, <1>29, <1>30, <1>31
  DEF Next, MainStep, ChildStep, WorkerStep

-----------------------------------------------------------------------------
\* In every group each end of a pipe belongs to one thread, main holds no pipe when run() is
\* over and no worker that has ended holds one, however the group is built, stopped, aborted
\* or left by an exception.  What nobody owns, and _release() therefore cannot close, is at most
\* the stdout and the stderr of the command whose start raised between Popen() and the
\* hand-over, or the target of stderr that could not be written.
THEOREM Invariant == Spec => []Inv
<1>1. IInv /\ Course /\ Adrift /\ [Next]_vars => IInv' /\ Course' /\ Adrift'
  BY EndsStep, DataStep, ControlStep, OwnersStep, CourseStep, AdriftStep DEF IInv
<1>2. IInv /\ Adrift => Inv
  BY DEF IInv, Inv, TypeOK, NoPipeLeft, Ends, Data, Bounded, Control, Released, WorkersLeft, Adrift
<1>3. QED
  BY InvInit, ReadInit, <1>1, <1>2, PTL DEF Spec

\* A group that was neither stopped nor aborted has read its output and every stderr to the
\* end: nobody can write to them any more, no child is alive, no thread is left.
THEOREM ReadsEverything == Spec => []NothingLost
<1>1. IInv /\ Course /\ Adrift /\ StderrRead /\ StdoutRead /\ [Next]_vars
        => IInv' /\ Course' /\ Adrift' /\ StderrRead' /\ StdoutRead'
  <2>1. ASSUME IInv, Course, StderrRead, [Next]_vars PROVE StderrRead'
    <3>1. ASSUME NEW i \in Cmds PROVE DrainRuns(i)' /\ StderrHeld(i)' /\ StderrEnds(i)'
      BY <2>1, DrainStep, HeldStep, EmptiedStep DEF IInv, StderrRead
    <3>2. QED
      BY <3>1 DEF StderrRead
  <2>2. QED
    BY <2>1, EndsStep, DataStep, ControlStep, OwnersStep, CourseStep, AdriftStep,
       StdoutStep DEF IInv
<1>2. Course /\ StderrRead /\ StdoutRead => NothingLost
  <2> SUFFICES ASSUME Course, StderrRead, StdoutRead, outcome = "status", ~stopped
               PROVE  /\ Idle /\ (buffer[N] = 0 \/ IsFile(N))
                      /\ \A i \in Cmds : ~Alive(i) /\ (IsFile(Err(i)) \/ Silent(i))
    BY DEF NothingLost, Silent
  <2>1. Idle /\ ~aborting /\ \A i \in Cmds : ~Alive(i)
    BY DEF Course
  <2>2. buffer[N] = 0 \/ IsFile(N)
    BY DEF StdoutRead
  <2>3. ASSUME NEW i \in Cmds, "err" \notin sink PROVE Silent(i)
    <3>1. i < stage
      BY Names DEF Course
    <3>2. i \notin Merged => thread[Drain(i)] = "done"
      BY <2>1, <2>3, <3>1, Names DEF StderrRead, DrainRuns, Drained, Idle
    <3>3. QED
      BY <2>1, <2>3, <3>2 DEF StderrRead, StderrEnds
  <2>4. ASSUME NEW i \in Cmds, "err" \in sink PROVE IsFile(Err(i))
    BY <2>4, Pipelines DEF IsFile
  <2>5. QED
    BY <2>1, <2>2, <2>3, <2>4
<1>3. QED
  BY InvInit, ReadInit, <1>1, <1>2, PTL DEF Spec
=============================================================================
