---------------------------- MODULE Supervision ----------------------------
(***************************************************************************)
(* What process.ProcessGroup promises a run: it knows the children that    *)
(* are alive, the first request to stop decides why the run was stopped    *)
(* and stands, and a run is sealed (its result is settled) and closed only *)
(* when every child is gone.                                               *)
(***************************************************************************)
CONSTANTS Procs, Stoppers, None

VARIABLES
    alive,   \* the children not waited for
    reason,  \* ProcessGroup.stopped: the caller that decided, or None
    state    \* open, sealed by finish(), closed by close()

vars == <<alive, reason, state>>

Init == alive = {} /\ reason = None /\ state = "open"

Start(p) == state = "open" /\ alive' = alive \cup {p} /\ UNCHANGED <<reason, state>>

End(p) == alive' = alive \ {p} /\ UNCHANGED <<reason, state>>

Stop(s) ==
    /\ state = "open" /\ reason = None
    /\ reason' = s
    /\ UNCHANGED <<alive, state>>

Seal == state = "open" /\ alive = {} /\ state' = "sealed" /\ UNCHANGED <<alive, reason>>

Close == alive = {} /\ state' = "closed" /\ UNCHANGED <<alive, reason>>

Next ==
    \/ \E p \in Procs : Start(p) \/ End(p)
    \/ \E s \in Stoppers : Stop(s)
    \/ Seal \/ Close

Spec == Init /\ [][Next]_vars
=============================================================================
