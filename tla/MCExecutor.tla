----------------------------- MODULE MCExecutor -----------------------------
(* Commands like most of them and commands like grep; and one for which 0 is no success. *)
EXTENDS Executor

MCOkCodes   == [c \in Commands |-> IF c = "strict" THEN {0} ELSE {0, 1}]
MCOddCodes  == [c \in Commands |-> IF c = "strict" THEN {0} ELSE {1}]
MCExits     == {0, 1, -13}
=============================================================================
