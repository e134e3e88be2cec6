------------------------ MODULE ProcessGroupProofs ------------------------
(* Theorems about ProcessGroup, for every set of children, groups and callers. *)
EXTENDS ProcessGroup, TLAPS

\* ProcessGroup.__init__ and the threads' first states have the declared types.
LEMMA TypeInit == Init => TypeOK
<1> SUFFICES ASSUME Init PROVE TypeOK
  OBVIOUS
<1> QED
  BY DEF Init, TypeOK

\* Every step of a caller, a timer, a group or a child keeps the types.
LEMMA TypeStep == TypeOK /\ [Next]_vars => TypeOK'
<1> SUFFICES ASSUME TypeOK, [Next]_vars PROVE TypeOK'
  OBVIOUS
<1> USE ActorsAssumption DEF TypeOK, fieldVars, callVars, killVars, groupVars
<1>1. ASSUME NEW p \in Procs, Exit(p) PROVE TypeOK'
  BY <1>1 DEF Exit
<1>2. ASSUME NEW s \in Stoppers, Call(s) PROVE TypeOK'
  BY <1>2 DEF Call
<1>3. ASSUME NEW s \in Stoppers, Enter(s) PROVE TypeOK'
  BY <1>3 DEF Enter, EnterUnsealed, ArmBy, ToTerm
<1>4. ASSUME NEW s \in Stoppers, Ignored(s) PROVE TypeOK'
  BY <1>4 DEF Ignored
<1>5. ASSUME NEW s \in Stoppers, EnterMain(s) PROVE TypeOK'
  BY <1>5 DEF EnterMain
<1>6. ASSUME NEW s \in Stoppers, Decide(s) PROVE TypeOK'
  BY <1>6 DEF Decide
<1>7. ASSUME NEW s \in Stoppers, CheckKiller(s) PROVE TypeOK'
  BY <1>7 DEF CheckKiller
<1>8. ASSUME NEW s \in Stoppers, Arm(s) PROVE TypeOK'
  BY <1>8 DEF Arm, ArmBy
<1>9. ASSUME NEW s \in Stoppers, Snapshot(s) PROVE TypeOK'
  BY <1>9 DEF Snapshot, ToTerm
<1>10. ASSUME NEW s \in Stoppers, SendTerm(s) PROVE TypeOK'
  BY <1>10 DEF SendTerm, ToTerm, Send
<1>11. ASSUME NEW k \in Killers, Fire(k) PROVE TypeOK'
  BY <1>11 DEF Fire
<1>12. ASSUME NEW k \in Killers, KillSnapshot(k) PROVE TypeOK'
  BY <1>12 DEF KillSnapshot, ToKill
<1>13. ASSUME NEW k \in Killers, SendKill(k) PROVE TypeOK'
  BY <1>13 DEF SendKill, ToKill, Send
<1>14. ASSUME NEW g \in Groups, Begin(g) PROVE TypeOK'
  BY <1>14 DEF Begin
<1>15. ASSUME NEW g \in Groups, Fail(g) PROVE TypeOK'
  BY <1>15 DEF Fail, Abort, ToReap
<1>16. ASSUME NEW g \in Groups, SpawnCheck(g) PROVE TypeOK'
  <2>1. CASE stop # None
    <3>1. Abort(g) /\ UNCHANGED cur
      BY <1>16, <2>1 DEF SpawnCheck
    <3> QED
      BY <1>16, <3>1 DEF SpawnCheck, Abort, ToReap
  <2>2. CASE stop = None
    <3>1. PICK p \in Procs : pc' = [pc EXCEPT ![g] = "popen"] /\ cur' = [cur EXCEPT ![g] = p]
      BY <1>16, <2>2 DEF SpawnCheck
    <3> QED
      BY <1>16, <2>2, <3>1 DEF SpawnCheck
  <2> QED
    BY <2>1, <2>2
<1>17. ASSUME NEW g \in Groups, Popen(g) PROVE TypeOK'
  BY <1>17 DEF Popen
<1>18. ASSUME NEW g \in Groups, PopenFails(g) PROVE TypeOK'
  BY <1>18 DEF PopenFails, Abort, ToReap
<1>19. ASSUME NEW g \in Groups, Add(g) PROVE TypeOK'
  BY <1>19 DEF Add, Own
<1>20. ASSUME NEW g \in Groups, LateTerm(g) PROVE TypeOK'
  BY <1>20 DEF LateTerm, Own, Send
<1>21. ASSUME NEW g \in Groups, Built(g) PROVE TypeOK'
  BY <1>21 DEF Built
<1>22. ASSUME NEW g \in Groups, ReapTerm(g) PROVE TypeOK'
  BY <1>22 DEF ReapTerm, Send, ToReap
<1>23. ASSUME NEW g \in Groups, WaitOne(g) PROVE TypeOK'
  BY <1>23 DEF WaitOne, Wait
<1>24. ASSUME NEW g \in Groups, ReapExpires(g) PROVE TypeOK'
  BY <1>24 DEF ReapExpires, Send
<1>25. ASSUME NEW g \in Groups, WaitLast(g) PROVE TypeOK'
  BY <1>25 DEF WaitLast, Wait
<1>26. ASSUME NEW g \in Groups, Done(g) PROVE TypeOK'
  BY <1>26 DEF Done
<1>27. CASE SecondSignal
  BY <1>27 DEF SecondSignal
<1>28. CASE Finish
  BY <1>28 DEF Finish
<1>29. CASE Close
  BY <1>29 DEF Close
<1>30. CASE Join
  BY <1>30 DEF Join
<1>31. CASE UNCHANGED vars
  BY <1>31 DEF vars
<1> QED
  BY <1>1, <1>2, <1>3, <1>4, <1>5, <1>6, <1>7, <1>8, <1>9, <1>10, <1>11, <1>12,
     <1>13, <1>14, <1>15, <1>16, <1>17, <1>18, <1>19, <1>20, <1>21, <1>22,
     <1>23, <1>24, <1>25, <1>26, <1>27, <1>28, <1>29, <1>30, <1>31
  DEF Next, StopStep, KillStep, GroupStep, Main

\* The type invariant of the process group.
THEOREM TypeCorrect == Spec => []TypeOK
BY TypeInit, TypeStep, PTL DEF Spec

-----------------------------------------------------------------------------
(* Children *)

\* A signal neither creates nor removes a child.
LEMMA SendPreserves ==
    ASSUME TypeOK, NEW p, NEW mark \in {"termed", "killed"}, Send(p, mark)
    PROVE  /\ \A q \in Procs : Present(q)' <=> Present(q)
           /\ \A q \in Procs : proc'[q] = "unborn" <=> proc[q] = "unborn"
BY DEF TypeOK, Send, Present, Alive

\* There is no child at first.
LEMMA OwnedInit == Init => Owned
BY ActorsAssumption DEF Init, Owned, Present, Alive

\* Steps that neither move a child nor a group.
LEMMA OwnedFrame ==
    ASSUME TypeOK, Owned, procs' = procs, UNCHANGED <<pc, cur, mine>>,
           \A q \in Procs : Present(q)' <=> Present(q),
           \A q \in Procs : proc'[q] = "unborn" <=> proc[q] = "unborn"
    PROVE  Owned'
BY DEF TypeOK, Owned, Late

\* Spawning, waiting, reaping and the end of a group hand every child on to one group.
LEMMA OwnedStep == TypeOK /\ Owned /\ [Next]_vars => Owned'
<1> SUFFICES ASSUME TypeOK, Owned, [Next]_vars PROVE Owned'
  OBVIOUS
<1> USE ActorsAssumption DEF fieldVars, callVars, killVars, groupVars
<1>0. TypeOK'
  BY TypeStep
<1>f. ASSUME UNCHANGED <<proc, procs, pc, cur, mine>> PROVE Owned'
  BY <1>f, OwnedFrame DEF Present, Alive
<1>1. ASSUME NEW p \in Procs, Exit(p) PROVE Owned'
  BY <1>1, <1>0, SendPreserves DEF Exit, TypeOK, Owned, Late, Present, Alive
<1>2. ASSUME NEW s \in Stoppers, Call(s) PROVE Owned'
  BY <1>2, <1>f DEF Call
<1>3. ASSUME NEW s \in Stoppers, Enter(s) PROVE Owned'
  BY <1>3, <1>f DEF Enter, EnterUnsealed
<1>4. ASSUME NEW s \in Stoppers, Ignored(s) PROVE Owned'
  BY <1>4, <1>f DEF Ignored
<1>5. ASSUME NEW s \in Stoppers, EnterMain(s) PROVE Owned'
  BY <1>5, <1>f DEF EnterMain
<1>6. ASSUME NEW s \in Stoppers, Decide(s) PROVE Owned'
  BY <1>6, <1>f DEF Decide
<1>7. ASSUME NEW s \in Stoppers, CheckKiller(s) PROVE Owned'
  BY <1>7, <1>f DEF CheckKiller
<1>8. ASSUME NEW s \in Stoppers, Arm(s) PROVE Owned'
  BY <1>8, <1>f DEF Arm
<1>9. ASSUME NEW s \in Stoppers, Snapshot(s) PROVE Owned'
  BY <1>9, <1>f DEF Snapshot
<1>10. ASSUME NEW s \in Stoppers, SendTerm(s) PROVE Owned'
  BY <1>10, SendPreserves, OwnedFrame DEF SendTerm
<1>11. ASSUME NEW k \in Killers, Fire(k) PROVE Owned'
  BY <1>11, <1>f DEF Fire
<1>12. ASSUME NEW k \in Killers, KillSnapshot(k) PROVE Owned'
  BY <1>12, <1>f DEF KillSnapshot
<1>13. ASSUME NEW k \in Killers, SendKill(k) PROVE Owned'
  BY <1>13, SendPreserves, OwnedFrame DEF SendKill
<1>14. ASSUME NEW g \in Groups, Begin(g) PROVE Owned'
  BY <1>14, <1>0, SendPreserves DEF Begin, TypeOK, Owned, Late, Present, Alive
<1>15. ASSUME NEW g \in Groups, Fail(g) PROVE Owned'
  BY <1>15, <1>0, SendPreserves DEF Fail, Abort, ToReap, TypeOK, Owned, Late, Present, Alive
<1>16. ASSUME NEW g \in Groups, SpawnCheck(g) PROVE Owned'
  BY <1>16, <1>0, SendPreserves DEF SpawnCheck, Abort, ToReap, TypeOK, Owned, Late, Present, Alive
<1>17. ASSUME NEW g \in Groups, Popen(g) PROVE Owned'
  BY <1>17, <1>0, SendPreserves DEF Popen, TypeOK, Owned, Late, Present, Alive
<1>18. ASSUME NEW g \in Groups, PopenFails(g) PROVE Owned'
  BY <1>18, <1>0, SendPreserves DEF PopenFails, Abort, ToReap, TypeOK, Owned, Late, Present, Alive
<1>19. ASSUME NEW g \in Groups, Add(g) PROVE Owned'
  <2>1. CASE stop # None
    BY <1>19, <1>0, <2>1 DEF Add, TypeOK, Owned, Late, Present, Alive
  <2>2. CASE stop = None
    <3>1. /\ pc[g] = "add" /\ pc' = [pc EXCEPT ![g] = "idle"]
          /\ mine' = [mine EXCEPT ![g] = @ \cup {cur[g]}]
          /\ cur' = [cur EXCEPT ![g] = None]
          /\ procs' = procs \cup {cur[g]} /\ proc' = proc
      BY <1>19, <2>2 DEF Add, Own
    <3>2. \A q : Present(q)' <=> Present(q)
      BY <3>1 DEF Present, Alive
    <3>3. cur[g] \in Procs /\ Present(cur[g])
      BY <3>1 DEF TypeOK, Owned
    <3> QED
      BY <3>1, <3>2, <3>3 DEF TypeOK, Owned, Late
  <2> QED
    BY <2>1, <2>2
<1>20. ASSUME NEW g \in Groups, LateTerm(g) PROVE Owned'
  BY <1>20, <1>0, SendPreserves DEF LateTerm, Own, Send, TypeOK, Owned, Late, Present, Alive
<1>21. ASSUME NEW g \in Groups, Built(g) PROVE Owned'
  BY <1>21, <1>0, SendPreserves DEF Built, TypeOK, Owned, Late, Present, Alive
<1>22. ASSUME NEW g \in Groups, ReapTerm(g) PROVE Owned'
  BY <1>22, <1>0, SendPreserves DEF ReapTerm, Send, ToReap, TypeOK, Owned, Late, Present, Alive
<1>23. ASSUME NEW g \in Groups, WaitOne(g) PROVE Owned'
  BY <1>23, <1>0, SendPreserves DEF WaitOne, Wait, TypeOK, Owned, Late, Present, Alive
<1>24. ASSUME NEW g \in Groups, ReapExpires(g) PROVE Owned'
  <2>1. PICK p \in mine[g] : Alive(p) /\ Send(p, "killed") /\ cur' = [cur EXCEPT ![g] = p]
    BY <1>24 DEF ReapExpires
  <2>2. /\ pc[g] = "waiting" /\ pc' = [pc EXCEPT ![g] = "last"]
        /\ UNCHANGED <<procs, mine>>
    BY <1>24 DEF ReapExpires
  <2>3. p \in Procs
    BY DEF TypeOK
  <2>4. /\ \A q \in Procs : Present(q)' <=> Present(q)
        /\ \A q \in Procs : proc'[q] = "unborn" <=> proc[q] = "unborn"
    BY <2>1, SendPreserves
  <2> QED
    BY <2>1, <2>2, <2>3, <2>4 DEF TypeOK, Owned, Late
<1>25. ASSUME NEW g \in Groups, WaitLast(g) PROVE Owned'
  BY <1>25, <1>0, SendPreserves DEF WaitLast, Wait, TypeOK, Owned, Late, Present, Alive
<1>26. ASSUME NEW g \in Groups, Done(g) PROVE Owned'
  BY <1>26, <1>0, SendPreserves DEF Done, TypeOK, Owned, Late, Present, Alive
<1>27. CASE SecondSignal
  BY <1>27, <1>f DEF SecondSignal
<1>28. CASE Finish
  BY <1>28, <1>f DEF Finish
<1>29. CASE Close
  BY <1>29, <1>f DEF Close
<1>30. CASE Join
  BY <1>30, <1>f DEF Join
<1>31. CASE UNCHANGED vars
  BY <1>31, <1>f DEF vars
<1> QED
  BY <1>1, <1>2, <1>3, <1>4, <1>5, <1>6, <1>7, <1>8, <1>9, <1>10, <1>11, <1>12,
     <1>13, <1>14, <1>15, <1>16, <1>17, <1>18, <1>19, <1>20, <1>21, <1>22,
     <1>23, <1>24, <1>25, <1>26, <1>27, <1>28, <1>29, <1>30, <1>31
  DEF Next, StopStep, KillStep, GroupStep, Main

\* Every child present is in the hands of exactly one group.
THEOREM ChildrenOwned == Spec => []Owned
BY TypeCorrect, OwnedInit, OwnedStep, PTL DEF Spec

-----------------------------------------------------------------------------
(* The end of the run *)

\* The run is neither sealed nor closing at first.
LEMMA SettledInit == Init => Settled
BY DEF Init, Settled

\* finish() comes when the groups are over, close() when no stop() is under way.
LEMMA SettledStep == TypeOK /\ Settled /\ [Next]_vars => Settled'
<1> SUFFICES ASSUME TypeOK, Settled, [Next]_vars PROVE Settled'
  OBVIOUS
<1> USE ActorsAssumption DEF fieldVars, callVars, killVars, groupVars
<1>1. ASSUME NEW p \in Procs, Exit(p) PROVE Settled'
  BY <1>1 DEF Exit, TypeOK, Settled, Inside
<1>2. ASSUME NEW s \in Stoppers, Call(s) PROVE Settled'
  BY <1>2 DEF Call, TypeOK, Settled, Inside
<1>3. ASSUME NEW s \in Stoppers, Enter(s) PROVE Settled'
  BY <1>3 DEF Enter, EnterUnsealed, ArmBy, ToTerm, TypeOK, Settled, Inside
<1>4. ASSUME NEW s \in Stoppers, Ignored(s) PROVE Settled'
  BY <1>4 DEF Ignored, TypeOK, Settled, Inside
<1>5. ASSUME NEW s \in Stoppers, EnterMain(s) PROVE Settled'
  BY <1>5 DEF EnterMain, TypeOK, Settled, Inside
<1>6. ASSUME NEW s \in Stoppers, Decide(s) PROVE Settled'
  BY <1>6 DEF Decide, TypeOK, Settled, Inside
<1>7. ASSUME NEW s \in Stoppers, CheckKiller(s) PROVE Settled'
  BY <1>7 DEF CheckKiller, TypeOK, Settled, Inside
<1>8. ASSUME NEW s \in Stoppers, Arm(s) PROVE Settled'
  BY <1>8 DEF Arm, ArmBy, TypeOK, Settled, Inside
<1>9. ASSUME NEW s \in Stoppers, Snapshot(s) PROVE Settled'
  BY <1>9 DEF Snapshot, ToTerm, TypeOK, Settled, Inside
<1>10. ASSUME NEW s \in Stoppers, SendTerm(s) PROVE Settled'
  BY <1>10 DEF SendTerm, ToTerm, Send, TypeOK, Settled, Inside
<1>11. ASSUME NEW k \in Killers, Fire(k) PROVE Settled'
  BY <1>11 DEF Fire, TypeOK, Settled, Inside
<1>12. ASSUME NEW k \in Killers, KillSnapshot(k) PROVE Settled'
  BY <1>12 DEF KillSnapshot, ToKill, TypeOK, Settled, Inside
<1>13. ASSUME NEW k \in Killers, SendKill(k) PROVE Settled'
  BY <1>13 DEF SendKill, ToKill, Send, TypeOK, Settled, Inside
<1>14. ASSUME NEW g \in Groups, Begin(g) PROVE Settled'
  BY <1>14 DEF Begin, TypeOK, Settled, Inside
<1>15. ASSUME NEW g \in Groups, Fail(g) PROVE Settled'
  BY <1>15 DEF Fail, Abort, ToReap, TypeOK, Settled, Inside
<1>16. ASSUME NEW g \in Groups, SpawnCheck(g) PROVE Settled'
  BY <1>16 DEF SpawnCheck, Abort, ToReap, TypeOK, Settled, Inside
<1>17. ASSUME NEW g \in Groups, Popen(g) PROVE Settled'
  BY <1>17 DEF Popen, TypeOK, Settled, Inside
<1>18. ASSUME NEW g \in Groups, PopenFails(g) PROVE Settled'
  BY <1>18 DEF PopenFails, Abort, ToReap, TypeOK, Settled, Inside
<1>19. ASSUME NEW g \in Groups, Add(g) PROVE Settled'
  BY <1>19 DEF Add, Own, TypeOK, Settled, Inside
<1>20. ASSUME NEW g \in Groups, LateTerm(g) PROVE Settled'
  BY <1>20 DEF LateTerm, Own, Send, TypeOK, Settled, Inside
<1>21. ASSUME NEW g \in Groups, Built(g) PROVE Settled'
  BY <1>21 DEF Built, TypeOK, Settled, Inside
<1>22. ASSUME NEW g \in Groups, ReapTerm(g) PROVE Settled'
  BY <1>22 DEF ReapTerm, Send, ToReap, TypeOK, Settled, Inside
<1>23. ASSUME NEW g \in Groups, WaitOne(g) PROVE Settled'
  BY <1>23 DEF WaitOne, Wait, TypeOK, Settled, Inside
<1>24. ASSUME NEW g \in Groups, ReapExpires(g) PROVE Settled'
  BY <1>24 DEF ReapExpires, Send, TypeOK, Settled, Inside
<1>25. ASSUME NEW g \in Groups, WaitLast(g) PROVE Settled'
  BY <1>25 DEF WaitLast, Wait, TypeOK, Settled, Inside
<1>26. ASSUME NEW g \in Groups, Done(g) PROVE Settled'
  BY <1>26 DEF Done, TypeOK, Settled, Inside
<1>27. CASE SecondSignal
  BY <1>27 DEF SecondSignal, TypeOK, Settled, Inside
<1>28. CASE Finish
  BY <1>28 DEF Finish, TypeOK, Settled, Inside, ExecuteEnded
<1>29. CASE Close
  BY <1>29 DEF Close, TypeOK, Settled, Inside, ExecuteEnded
<1>30. CASE Join
  BY <1>30 DEF Join, TypeOK, Settled, Inside
<1>31. CASE UNCHANGED vars
  BY <1>31 DEF vars, TypeOK, Settled, Inside
<1> QED
  BY <1>1, <1>2, <1>3, <1>4, <1>5, <1>6, <1>7, <1>8, <1>9, <1>10, <1>11, <1>12,
     <1>13, <1>14, <1>15, <1>16, <1>17, <1>18, <1>19, <1>20, <1>21, <1>22,
     <1>23, <1>24, <1>25, <1>26, <1>27, <1>28, <1>29, <1>30, <1>31
  DEF Next, StopStep, KillStep, GroupStep, Main

\* Nothing is spawned or stopped once the run is sealed or closing.
THEOREM RunSettled == Spec => []Settled
BY TypeCorrect, SettledInit, SettledStep, PTL DEF Spec

\* A child is waited for by a group, and none is left when the run is closed.
LEMMA OwnedSafe == TypeOK /\ Owned /\ Settled => NoChildForgotten
<1> SUFFICES ASSUME TypeOK, Owned, Settled PROVE NoChildForgotten
  OBVIOUS
<1>1. ASSUME NEW p \in Procs, Present(p)
      PROVE  Late(p) \/ (p \in procs /\ \E g \in Groups : p \in mine[g] /\ pc[g] # "done")
  BY <1>1 DEF Owned
<1>2. ASSUME phase # "running" PROVE procs = {}
  <2> SUFFICES ASSUME NEW p \in procs PROVE FALSE
    OBVIOUS
  <2>1. Present(p) /\ p \in Procs
    BY DEF TypeOK, Owned
  <2>2. \A g \in Groups : pc[g] \in {"new", "done"}
    BY <1>2 DEF Settled
  <2> QED
    BY <2>1, <2>2 DEF Owned, Late
<1> QED
  BY <1>1, <1>2 DEF NoChildForgotten, Present

\* No child is forgotten: somebody waits for it, and close() finds none.
THEOREM ChildrenWaitedFor == Spec => []NoChildForgotten
BY ChildrenOwned, RunSettled, TypeCorrect, OwnedSafe, PTL

-----------------------------------------------------------------------------
(* stop() reaches every child *)

\* No stop() has returned at first.
LEMMA StoppingInit == Init => Stopping
BY DEF Init, Stopping

\* The snapshot of stop() and the second look of spawn() miss no child between them.
LEMMA StoppingStep == TypeOK /\ Owned /\ Stopping /\ [Next]_vars => Stopping'
<1> SUFFICES ASSUME TypeOK, Owned, Stopping, [Next]_vars PROVE Stopping'
  OBVIOUS
<1> USE ActorsAssumption DEF fieldVars, callVars, killVars, groupVars
<1>0. TypeOK'
  BY TypeStep
<1>r. \A q \in Procs : proc[q] = "running" => q \in procs \/ Late(q)
  BY DEF Owned, Present, Alive
<1>1. ASSUME NEW p \in Procs, Exit(p) PROVE Stopping'
  BY <1>1, <1>0 DEF Exit, TypeOK, Stopping, Late, Alive
<1>2. ASSUME NEW s \in Stoppers, Call(s) PROVE Stopping'
  BY <1>2, <1>0, <1>r DEF Call, TypeOK, Stopping, Late
<1>3. ASSUME NEW s \in Stoppers, Enter(s) PROVE Stopping'
  BY <1>3, <1>0, <1>r DEF Enter, EnterUnsealed, ArmBy, ToTerm, TypeOK, Stopping, Late
<1>4. ASSUME NEW s \in Stoppers, Ignored(s) PROVE Stopping'
  BY <1>4, <1>0, <1>r DEF Ignored, TypeOK, Stopping, Late
<1>5. ASSUME NEW s \in Stoppers, EnterMain(s) PROVE Stopping'
  BY <1>5, <1>0, <1>r DEF EnterMain, TypeOK, Stopping, Late
<1>6. ASSUME NEW s \in Stoppers, Decide(s) PROVE Stopping'
  BY <1>6, <1>0, <1>r DEF Decide, TypeOK, Stopping, Late
<1>7. ASSUME NEW s \in Stoppers, CheckKiller(s) PROVE Stopping'
  BY <1>7, <1>0, <1>r DEF CheckKiller, TypeOK, Stopping, Late
<1>8. ASSUME NEW s \in Stoppers, Arm(s) PROVE Stopping'
  BY <1>8, <1>0, <1>r DEF Arm, ArmBy, TypeOK, Stopping, Late
<1>9. ASSUME NEW s \in Stoppers, Snapshot(s) PROVE Stopping'
  BY <1>9, <1>0, <1>r DEF Snapshot, ToTerm, TypeOK, Stopping, Late
<1>10. ASSUME NEW s \in Stoppers, SendTerm(s) PROVE Stopping'
  BY <1>10, <1>0, <1>r DEF SendTerm, ToTerm, Send, TypeOK, Stopping, Late, Alive
<1>11. ASSUME NEW k \in Killers, Fire(k) PROVE Stopping'
  BY <1>11, <1>0 DEF Fire, TypeOK, Stopping, Late, Alive
<1>12. ASSUME NEW k \in Killers, KillSnapshot(k) PROVE Stopping'
  BY <1>12, <1>0 DEF KillSnapshot, ToKill, TypeOK, Stopping, Late, Alive
<1>13. ASSUME NEW k \in Killers, SendKill(k) PROVE Stopping'
  BY <1>13, <1>0 DEF SendKill, ToKill, Send, TypeOK, Stopping, Late, Alive
<1>14. ASSUME NEW g \in Groups, Begin(g) PROVE Stopping'
  BY <1>14, <1>0 DEF Begin, TypeOK, Stopping, Late, Alive
<1>15. ASSUME NEW g \in Groups, Fail(g) PROVE Stopping'
  BY <1>15, <1>0 DEF Fail, Abort, ToReap, TypeOK, Stopping, Late, Alive
<1>16. ASSUME NEW g \in Groups, SpawnCheck(g) PROVE Stopping'
  BY <1>16, <1>0 DEF SpawnCheck, Abort, ToReap, TypeOK, Stopping, Late, Alive
<1>17. ASSUME NEW g \in Groups, Popen(g) PROVE Stopping'
  BY <1>17, <1>0 DEF Popen, TypeOK, Stopping, Late, Alive, Owned
<1>18. ASSUME NEW g \in Groups, PopenFails(g) PROVE Stopping'
  BY <1>18, <1>0 DEF PopenFails, Abort, ToReap, TypeOK, Stopping, Late, Alive
<1>19. ASSUME NEW g \in Groups, Add(g) PROVE Stopping'
  BY <1>19, <1>0 DEF Add, Own, TypeOK, Stopping, Late, Alive, Owned
<1>20. ASSUME NEW g \in Groups, LateTerm(g) PROVE Stopping'
  BY <1>20, <1>0 DEF LateTerm, Own, Send, TypeOK, Stopping, Late, Alive
<1>21. ASSUME NEW g \in Groups, Built(g) PROVE Stopping'
  BY <1>21, <1>0 DEF Built, TypeOK, Stopping, Late, Alive
<1>22. ASSUME NEW g \in Groups, ReapTerm(g) PROVE Stopping'
  BY <1>22, <1>0 DEF ReapTerm, Send, ToReap, TypeOK, Stopping, Late, Alive
<1>23. ASSUME NEW g \in Groups, WaitOne(g) PROVE Stopping'
  BY <1>23, <1>0 DEF WaitOne, Wait, TypeOK, Stopping, Late, Alive, Owned
<1>24. ASSUME NEW g \in Groups, ReapExpires(g) PROVE Stopping'
  BY <1>24, <1>0 DEF ReapExpires, Send, TypeOK, Stopping, Late, Alive
<1>25. ASSUME NEW g \in Groups, WaitLast(g) PROVE Stopping'
  BY <1>25, <1>0 DEF WaitLast, Wait, TypeOK, Stopping, Late, Alive, Owned
<1>26. ASSUME NEW g \in Groups, Done(g) PROVE Stopping'
  BY <1>26, <1>0 DEF Done, TypeOK, Stopping, Late, Alive
<1>27. CASE SecondSignal
  BY <1>27, <1>0 DEF SecondSignal, TypeOK, Stopping, Late, Alive
<1>28. CASE Finish
  BY <1>28, <1>0 DEF Finish, TypeOK, Stopping, Late, Alive
<1>29. CASE Close
  BY <1>29, <1>0 DEF Close, TypeOK, Stopping, Late, Alive
<1>30. CASE Join
  BY <1>30, <1>0 DEF Join, TypeOK, Stopping, Late, Alive
<1>31. CASE UNCHANGED vars
  BY <1>31, <1>0 DEF vars, TypeOK, Stopping, Late, Alive
<1> QED
  BY <1>1, <1>2, <1>3, <1>4, <1>5, <1>6, <1>7, <1>8, <1>9, <1>10, <1>11, <1>12,
     <1>13, <1>14, <1>15, <1>16, <1>17, <1>18, <1>19, <1>20, <1>21, <1>22,
     <1>23, <1>24, <1>25, <1>26, <1>27, <1>28, <1>29, <1>30, <1>31
  DEF Next, StopStep, KillStep, GroupStep, Main

\* stop() reaches every child: once it has returned, a child still running was sent a
\* signal, or its spawn() has yet to look at self._stop again.
THEOREM StopReachesAll == Spec => []NoChildMissed
<1>1. Stopping => NoChildMissed
  BY DEF Stopping, NoChildMissed
<1> QED
  BY <1>1, TypeCorrect, ChildrenOwned, StoppingInit, StoppingStep, PTL DEF Spec

\* All four parts of the inductive invariant together.
THEOREM Invariant == Spec => []Inv
<1>1. TypeOK /\ Owned /\ Settled /\ Stopping => Inv
  BY DEF Inv
<1> QED
  BY <1>1, TypeCorrect, ChildrenOwned, RunSettled, StoppingInit, StoppingStep, PTL DEF Spec

-----------------------------------------------------------------------------
(* The contract *)

\* The initial state is an initial state of Supervision.
LEMMA ContractInit == Init => Contract!Init
BY DEF Init, Contract!Init, Present, Alive

\* Only abort() on the main thread has a critical section that can be interrupted.
LEMMA NeverCriticalStep ==
    ASSUME OnMain \cap Stoppers \subseteq {Handler}, TypeOK, [Next]_vars,
           \A s \in Stoppers : ~Critical(s)
    PROVE  \A s \in Stoppers : ~Critical(s)'
<1>1. at' = at \/ \E s \in Stoppers : Call(s) \/ StopStep(s)
  BY DEF Next, vars, callVars, KillStep, GroupStep, Main, Exit, Fire, KillSnapshot, SendKill,
         SecondSignal, Begin, Fail, SpawnCheck, Popen, PopenFails, Add, LateTerm, Built,
         ReapTerm, WaitOne, ReapExpires, WaitLast, Wait, Done, Finish, Close, Join
<1>2. ASSUME NEW s \in Stoppers, Call(s) \/ StopStep(s) PROVE \A t \in Stoppers : ~Critical(t)'
  BY <1>2 DEF Call, StopStep, Enter, EnterUnsealed, ToTerm, Ignored, EnterMain, Decide,
              CheckKiller, Arm, Snapshot, SendTerm, Critical, TypeOK
<1> QED
  BY <1>1, <1>2 DEF Critical

\* Every step is a step of Supervision or leaves its variables alone.
LEMMA ContractStep ==
    ASSUME TypeOK, Owned, Settled, \A s \in Stoppers : ~Critical(s), [Next]_vars
    PROVE  Contract!Next \/ UNCHANGED Contract!vars
<1> DEFINE alive == {p \in Procs : Present(p)}
           state == IF phase # "running" THEN "closed" ELSE IF finished THEN "sealed" ELSE "open"
<1> DEFINE Goal ==
             \/ \E p \in Procs :
                  \/ state = "open" /\ alive' = alive \cup {p} /\ UNCHANGED <<stop, state>>
                  \/ alive' = alive \ {p} /\ UNCHANGED <<stop, state>>
             \/ /\ state = "open" /\ stop = None /\ stop' \in Stoppers
                /\ UNCHANGED <<alive, state>>
             \/ state = "open" /\ alive = {} /\ state' = "sealed" /\ UNCHANGED <<alive, stop>>
             \/ alive = {} /\ state' = "closed" /\ UNCHANGED <<alive, stop>>
             \/ UNCHANGED <<alive, stop, state>>
<1> SUFFICES Goal
  BY DEF Contract!Next, Contract!vars, Contract!Start, Contract!End, Contract!Stop,
         Contract!Seal, Contract!Close, Present
<1> USE ActorsAssumption DEF fieldVars, callVars, killVars, groupVars
<1>f. ASSUME \A q \in Procs : Present(q)' <=> Present(q), UNCHANGED <<stop, finished, phase>>
      PROVE  UNCHANGED <<alive, stop, state>>
  BY <1>f
<1>e. (\A g \in Groups : pc[g] \in {"new", "done"}) => alive = {}
  BY DEF Owned, Late
<1>o. \A g \in Groups : pc[g] \notin {"new", "done"} => state = "open"
  BY DEF Settled
<1> HIDE DEF alive, state
<1>a. ASSUME NEW p \in Procs, state = "open", alive' = alive \cup {p}, UNCHANGED <<stop, state>>
      PROVE  Goal
  BY <1>a
<1>b. ASSUME NEW p \in Procs, alive' = alive \ {p}, UNCHANGED <<stop, state>> PROVE Goal
  BY <1>b
<1>c. ASSUME state = "open", stop = None, stop' \in Stoppers, UNCHANGED <<alive, state>>
      PROVE  Goal
  BY <1>c
<1>d. ASSUME UNCHANGED <<alive, stop, state>> PROVE Goal
  BY <1>d
<1>h. ASSUME alive = {}, UNCHANGED <<alive, stop>>,
             (state = "open" /\ state' = "sealed") \/ state' = "closed"
      PROVE  Goal
  BY <1>h
<1> USE DEF alive, state
<1> HIDE DEF Goal
<1>1. ASSUME NEW p \in Procs, Exit(p) PROVE Goal
  BY <1>1, <1>f, <1>d DEF Exit, Present, Alive, TypeOK
<1>2. ASSUME NEW s \in Stoppers, Call(s) PROVE Goal
  BY <1>2, <1>f, <1>d DEF Call, Present, Alive
<1>3. ASSUME NEW s \in Stoppers, Enter(s) PROVE Goal
  <2>1. state = "open" /\ UNCHANGED <<alive, state>>
    BY <1>3 DEF Enter, EnterUnsealed, Settled, Inside, Present, Alive
  <2>2. (stop = None /\ stop' \in Stoppers) \/ stop' = stop
    BY <1>3 DEF Enter, EnterUnsealed
  <2> QED
    BY <2>1, <2>2, <1>c, <1>d
<1>4. ASSUME NEW s \in Stoppers, Ignored(s) PROVE Goal
  BY <1>4, <1>f, <1>d DEF Ignored, Present, Alive
<1>5. ASSUME NEW s \in Stoppers, EnterMain(s) PROVE Goal
  BY <1>5, <1>f, <1>d DEF EnterMain, Present, Alive
<1>6. ASSUME NEW s \in Stoppers, Decide(s) PROVE Goal
  BY <1>6 DEF Decide, Critical
<1>7. ASSUME NEW s \in Stoppers, CheckKiller(s) PROVE Goal
  BY <1>7 DEF CheckKiller, Critical
<1>8. ASSUME NEW s \in Stoppers, Arm(s) PROVE Goal
  BY <1>8 DEF Arm, Critical
<1>9. ASSUME NEW s \in Stoppers, Snapshot(s) PROVE Goal
  BY <1>9 DEF Snapshot, Critical
<1>10. ASSUME NEW s \in Stoppers, SendTerm(s) PROVE Goal
  BY <1>10, SendPreserves, <1>f, <1>d DEF SendTerm
<1>11. ASSUME NEW k \in Killers, Fire(k) PROVE Goal
  BY <1>11, <1>f, <1>d DEF Fire, Present, Alive
<1>12. ASSUME NEW k \in Killers, KillSnapshot(k) PROVE Goal
  BY <1>12, <1>f, <1>d DEF KillSnapshot, Present, Alive
<1>13. ASSUME NEW k \in Killers, SendKill(k) PROVE Goal
  BY <1>13, SendPreserves, <1>f, <1>d DEF SendKill
<1>14. ASSUME NEW g \in Groups, Begin(g) PROVE Goal
  BY <1>14, <1>f, <1>d DEF Begin, Present, Alive
<1>15. ASSUME NEW g \in Groups, Fail(g) PROVE Goal
  BY <1>15, <1>f, <1>d DEF Fail, Present, Alive
<1>16. ASSUME NEW g \in Groups, SpawnCheck(g) PROVE Goal
  BY <1>16, <1>f, <1>d DEF SpawnCheck, Present, Alive
<1>17. ASSUME NEW g \in Groups, Popen(g) PROVE Goal
  <2>1. /\ cur[g] \in Procs /\ state = "open" /\ UNCHANGED <<stop, state>>
        /\ proc' = [proc EXCEPT ![cur[g]] = "running"]
    BY <1>17 DEF Popen, TypeOK, Settled
  <2>2. alive' = alive \cup {cur[g]}
    BY <2>1 DEF Present, Alive, TypeOK
  <2> QED
    BY <2>1, <2>2, <1>a
<1>18. ASSUME NEW g \in Groups, PopenFails(g) PROVE Goal
  BY <1>18, <1>f, <1>d DEF PopenFails, Present, Alive
<1>19. ASSUME NEW g \in Groups, Add(g) PROVE Goal
  BY <1>19, <1>f, <1>d DEF Add, Present, Alive
<1>20. ASSUME NEW g \in Groups, LateTerm(g) PROVE Goal
  <2>1. cur[g] \in Procs
    BY <1>20 DEF LateTerm, TypeOK
  <2> QED
    BY <1>20, <2>1, SendPreserves, <1>f, <1>d DEF LateTerm
<1>21. ASSUME NEW g \in Groups, Built(g) PROVE Goal
  BY <1>21, <1>f, <1>d DEF Built, Present, Alive
<1>22. ASSUME NEW g \in Groups, ReapTerm(g) PROVE Goal
  BY <1>22, SendPreserves, <1>f, <1>d DEF ReapTerm
<1>23. ASSUME NEW g \in Groups, WaitOne(g) PROVE Goal
  <2>1. PICK p \in Procs : Wait(g, p)
    BY <1>23 DEF WaitOne, TypeOK
  <2>2. alive' = alive \ {p} /\ UNCHANGED <<stop, state>>
    BY <2>1 DEF Wait, Present, Alive, TypeOK
  <2> QED
    BY <2>2, <1>b
<1>24. ASSUME NEW g \in Groups, ReapExpires(g) PROVE Goal
  BY <1>24, SendPreserves, <1>f, <1>d DEF ReapExpires
<1>25. ASSUME NEW g \in Groups, WaitLast(g) PROVE Goal
  <2>1. PICK p \in Procs : Wait(g, p)
    BY <1>25 DEF WaitLast, TypeOK
  <2>2. alive' = alive \ {p} /\ UNCHANGED <<stop, state>>
    BY <2>1 DEF Wait, Present, Alive, TypeOK
  <2> QED
    BY <2>2, <1>b
<1>26. ASSUME NEW g \in Groups, Done(g) PROVE Goal
  BY <1>26, <1>f, <1>d DEF Done, Present, Alive
<1>27. CASE SecondSignal
  BY <1>27, <1>f, <1>d DEF SecondSignal, Present, Alive
<1>28. CASE Finish
  <2>1. alive = {} /\ UNCHANGED <<alive, stop>>
    BY <1>28, <1>e DEF Finish, ExecuteEnded, Present, Alive
  <2>2. state = "open" /\ state' = "sealed"
    BY <1>28 DEF Finish
  <2> QED
    BY <2>1, <2>2, <1>h
<1>29. CASE Close
  <2>1. alive = {} /\ UNCHANGED <<alive, stop>>
    BY <1>29, <1>e DEF Close, ExecuteEnded, Present, Alive
  <2>2. state' = "closed"
    BY <1>29 DEF Close
  <2> QED
    BY <2>1, <2>2, <1>h
<1>30. CASE Join
  <2>1. UNCHANGED <<alive, stop, state>>
    BY <1>30 DEF Join, Present, Alive
  <2> QED
    BY <2>1, <1>d
<1>31. CASE UNCHANGED vars
  BY <1>31, <1>f, <1>d DEF vars, Present, Alive
<1> QED
  BY <1>1, <1>2, <1>3, <1>4, <1>5, <1>6, <1>7, <1>8, <1>9, <1>10, <1>11, <1>12,
     <1>13, <1>14, <1>15, <1>16, <1>17, <1>18, <1>19, <1>20, <1>21, <1>22,
     <1>23, <1>24, <1>25, <1>26, <1>27, <1>28, <1>29, <1>30, <1>31
  DEF Next, StopStep, KillStep, GroupStep, Main

\* A process group keeps its contract when abort() is only called by worker threads: the
\* first stop() decides, and what it decided stands.
THEOREM KeepsContract ==
    OnMain \cap Stoppers \subseteq {Handler} => (Spec => ImplementsSupervision)
<1> DEFINE Workers == OnMain \cap Stoppers \subseteq {Handler}
           Calm == \A s \in Stoppers : ~Critical(s)
<1>1. Init => Calm
  BY DEF Init, Critical
<1>2. Workers /\ TypeOK /\ Calm /\ [Next]_vars => Calm'
  BY NeverCriticalStep
<1>3. TypeOK /\ Owned /\ Settled /\ Calm /\ [Next]_vars => [Contract!Next]_Contract!vars
  BY ContractStep
<1>4. Workers => Workers'
  OBVIOUS
<1> HIDE DEF Workers, Calm
<1>5. Workers /\ Spec => []Calm
  BY <1>1, <1>2, <1>4, TypeCorrect, PTL DEF Spec
<1>6. Workers /\ Spec => Contract!Spec
  BY <1>3, <1>5, ContractInit, TypeCorrect, ChildrenOwned, RunSettled, PTL
  DEF Spec, Contract!Spec
<1> QED
  BY <1>6 DEF Workers, ImplementsSupervision

-----------------------------------------------------------------------------
(* The kill timer *)

\* There is at most one timer, self._killer is it, and close() has cancelled it.
OneTimer ==
    /\ \A s \in Stoppers : kill[s] # "none" => killer = s
    /\ phase # "running" /\ killer # None => kill[killer] # "armed"
    /\ phase = "closed" /\ killer # None => kill[killer] \in {"over", "cancelled"}

\* With the test and the creation of the timer in one step, each step keeps OneTimer.
LEMMA OneTimerStep ==
    ASSUME TypeOK, Settled, \A s \in Stoppers : ~Critical(s), OneTimer, [Next]_vars
    PROVE  OneTimer'
<1> USE ActorsAssumption DEF OneTimer, TypeOK, Killers, fieldVars, killVars
<1>1. ASSUME NEW s \in Stoppers, Enter(s) PROVE OneTimer'
  <2>1. phase = "running" /\ phase' = "running"
    BY <1>1 DEF Enter, EnterUnsealed, Settled, Inside
  <2>2. CASE killer = None
    BY <1>1, <2>1, <2>2 DEF Enter, EnterUnsealed, ArmBy
  <2>3. CASE killer # None
    BY <1>1, <2>1, <2>3 DEF Enter, EnterUnsealed
  <2> QED
    BY <2>2, <2>3
<1>2. ASSUME NEW s \in Stoppers, Decide(s) \/ CheckKiller(s) \/ Arm(s) \/ Snapshot(s) PROVE OneTimer'
  BY <1>2 DEF Decide, CheckKiller, Arm, Snapshot, Critical
<1>3. ASSUME NEW k \in Killers, Fire(k) PROVE OneTimer'
  BY <1>3 DEF Fire
<1>4. ASSUME NEW k \in Killers, KillSnapshot(k) PROVE OneTimer'
  BY <1>4 DEF KillSnapshot, ToKill
<1>5. ASSUME NEW k \in Killers, SendKill(k) PROVE OneTimer'
  BY <1>5 DEF SendKill, ToKill
<1>6. CASE SecondSignal
  <2>1. PICK k \in Killers \ Stoppers : kill' = [kill EXCEPT ![k] = "called"]
    BY <1>6 DEF SecondSignal
  <2>2. \A s \in Stoppers : kill'[s] = kill[s]
    BY <2>1
  <2> QED
    BY <1>6, <2>2 DEF SecondSignal, fieldVars
<1>7. CASE Close
  BY <1>7 DEF Close, fieldVars
<1>8. CASE Join
  BY <1>8 DEF Join, fieldVars, killVars
<1>9. CASE UNCHANGED <<killer, kill, phase>>
  BY <1>9
<1>10. \/ UNCHANGED <<killer, kill, phase>>
       \/ \E s \in Stoppers : Enter(s) \/ Decide(s) \/ CheckKiller(s) \/ Arm(s) \/ Snapshot(s)
       \/ \E k \in Killers : KillStep(k)
       \/ SecondSignal \/ Close \/ Join
  BY DEF Next, vars, fieldVars, killVars, callVars, groupVars, StopStep, GroupStep, Main, Exit,
         Call, Ignored, EnterMain, SendTerm, Begin, Fail, SpawnCheck, Popen, PopenFails, Add,
         LateTerm, Built, ReapTerm, WaitOne, ReapExpires, WaitLast, Wait, Done, Finish
<1> QED
  BY <1>1, <1>2, <1>3, <1>4, <1>5, <1>6, <1>7, <1>8, <1>9, <1>10 DEF KillStep

\* close() releases the kill timer when abort() is only called by worker threads.
THEOREM TimersReleased ==
    OnMain \cap Stoppers \subseteq {Handler} => (Spec => []CloseReleasesTimers)
<1> DEFINE Workers == OnMain \cap Stoppers \subseteq {Handler}
           Calm == \A s \in Stoppers : ~Critical(s)
<1>1. Init => Calm /\ OneTimer
  BY DEF Init, Critical, OneTimer, Killers
<1>2. Workers /\ TypeOK /\ Calm /\ [Next]_vars => Calm'
  BY NeverCriticalStep
<1>3. TypeOK /\ Settled /\ Calm /\ OneTimer /\ [Next]_vars => OneTimer'
  BY OneTimerStep
<1>4. TypeOK /\ OneTimer => CloseReleasesTimers
  BY ActorsAssumption DEF OneTimer, CloseReleasesTimers, TypeOK
<1>5. Workers => Workers'
  OBVIOUS
<1> HIDE DEF Workers, Calm
<1>6. Workers /\ Spec => []CloseReleasesTimers
  BY <1>1, <1>2, <1>3, <1>4, <1>5, TypeCorrect, RunSettled, PTL DEF Spec
<1> QED
  BY <1>6 DEF Workers
=============================================================================
