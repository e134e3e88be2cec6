------------------------ MODULE RunLifecycleProofs ------------------------
(* Theorems about RunLifecycle, for every set of children and of signals. *)
EXTENDS RunLifecycle, TLAPS

Core == TypeOK /\ Unwound /\ Told /\ Guarded

\* run() begins with nothing to undo.
LEMMA CoreInit == Init => Core
<1> SUFFICES ASSUME Init PROVE Core
  OBVIOUS
<1> QED
  BY RunAssumption DEF Init, Group!Init, Core, TypeOK, Unwound, Told, Guarded, Unwinding,
                       Restored, Closed, Delivering

\* Every step of run(), of the handler and of the timer's thread keeps the invariant.
LEMMA CoreStep == Core /\ [Next]_vars => Core'
<1> SUFFICES ASSUME Core, [Next]_vars PROVE Core'
  OBVIOUS
<1> USE RunAssumption DEF Core, TypeOK, Unwound, Told, Guarded, Replaceable, Unwinding, Restored,
        Closed, Delivering, given, groupVars, guardVars
<1>1. CASE Install
  BY <1>1 DEF Install
<1>2. CASE Handle
  BY <1>2 DEF Handle, StopBy, Group!Stop
<1>3. CASE Restore("restore", "close")
  BY <1>3 DEF Restore
<1>4. CASE Restore("restore!", "close!")
  BY <1>4 DEF Restore
<1>5. CASE Deliver
  BY <1>5 DEF Deliver
<1>6. CASE Raise
  BY <1>6 DEF Raise
<1>7. CASE OpenConsole
  BY <1>7 DEF OpenConsole
<1>8. CASE Preflight
  BY <1>8 DEF Preflight
<1>9. CASE StartTimer
  BY <1>9 DEF StartTimer
<1>10. CASE Spawn
  BY <1>10 DEF Spawn, Group!Start
<1>11. CASE ChildEnds
  BY <1>11 DEF ChildEnds, Group!End
<1>12. CASE Executed
  BY <1>12 DEF Executed
<1>13. CASE Finish
  BY <1>13 DEF Finish, Group!Seal
<1>14. CASE ReadStopped
  BY <1>14 DEF ReadStopped
<1>15. CASE Cancel("cancel", "join") \/ Cancel("cancel!", "join!")
  BY <1>15 DEF Cancel
<1>16. CASE Join("join", "leave") \/ Join("join!", "leave!")
  BY <1>16 DEF Join
<1>17. CASE CloseConsole("leave", "restore") \/ CloseConsole("leave!", "restore!")
  BY <1>17 DEF CloseConsole
<1>18. CASE CloseGroup("close", "deliver") \/ CloseGroup("close!", "raised")
  BY <1>18 DEF CloseGroup, Group!Close
<1>19. CASE Fire
  BY <1>19 DEF Fire
<1>20. CASE TimerStops
  BY <1>20 DEF TimerStops, StopBy, Group!Stop
<1>21. CASE UNCHANGED vars
  BY <1>21 DEF vars
<1> QED
  BY <1>1, <1>2, <1>3, <1>4, <1>5, <1>6, <1>7, <1>8, <1>9, <1>10, <1>11, <1>12, <1>13, <1>14, <1>15, <1>16, <1>17, <1>18, <1>19, <1>20, <1>21 DEF Next, Main

\* A signal that the host ignores is in nobody's hands.
LEMMA GuardedIgnores == TypeOK /\ Guarded => IgnoredStaysIgnored
BY RunAssumption DEF TypeOK, Guarded, IgnoredStaysIgnored, Replaceable

\* The inductive invariant of run().
THEOREM Invariant == Spec => []Inv
<1>1. Core => Inv
  BY GuardedIgnores DEF Core, Inv
<1> QED
  BY <1>1, CoreInit, CoreStep, PTL DEF Spec

\* The Result of a closed run says that it was stopped, and by whom, exactly if it was.
THEOREM ResultIsTrue == Spec => []ResultTellsWhy
<1>1. Inv => ResultTellsWhy
  BY RunAssumption DEF Inv, TypeOK, Unwound, Told, ResultTellsWhy, Closed, Delivering
<1> QED
  BY <1>1, Invariant, PTL

\* A signal reaches its previous handler only when nothing of the run is left.
THEOREM CleanBeforeDelivery == Spec => []DeliveredAfterCleanup
<1>1. Inv => DeliveredAfterCleanup
  BY DEF Inv, TypeOK, Unwound, Guarded, DeliveredAfterCleanup, Unwinding, Restored, Closed, Delivering
<1> QED
  BY <1>1, Invariant, PTL

\* Whether run() returns or raises, its handlers, children, timer and display are gone.
THEOREM NothingIsLeft == Spec => []NothingLeftBehind
<1>1. Inv => NothingLeftBehind
  BY DEF Inv, TypeOK, Unwound, NothingLeftBehind, Over, Unwinding, Restored, Closed, Delivering
<1> QED
  BY <1>1, Invariant, PTL

\* A run that gets to its result hands on the signal it absorbed.
THEOREM SignalIsHandedOn == Spec => []ReturnedSignalDelivered
<1>1. Inv => ReturnedSignalDelivered
  BY DEF Inv, TypeOK, Guarded, ReturnedSignalDelivered, Delivering
<1> QED
  BY <1>1, Invariant, PTL
=============================================================================
