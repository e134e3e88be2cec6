--------------------------- MODULE MCCommandLine ----------------------------
(* A pipeline of a tool with a constraint, and one of that tool and another. *)
EXTENDS CommandLine

CONSTANTS Script, Worker, Tool1, Tool2

Use(b, clauses, on_fail) == [binary |-> b, clauses |-> clauses, on_fail |-> on_fail]
Clause(op, req) == [op |-> op, req |-> req]

MCPipes == {1, 2}
MCUses ==
    [p \in MCPipes |->
       IF p = 1
       THEN {<<Use(Tool1, {Clause("~=", <<2, 0, 1>>)}, "error")>>,
             <<Use(Tool1, {Clause(">=", <<2>>), Clause("<", <<2, 1>>)}, "error")>>,
             <<Use(Tool1, {Clause("==", <<2, 1>>)}, "warn")>>}
       ELSE {<<Use(Tool1, {Clause(">", <<2>>)}, "pass"), Use(Tool2, {}, "error"),
               Use(Tool1, {Clause("!=", <<2>>)}, "error")>>}]

MCInstallations ==
    [b \in {Tool1, Tool2} |->
       IF b = Tool1 THEN {Missing, Undetectable, <<1, 9>>, <<2, 0>>, <<2, 0, 3>>, <<2, 1, 0>>}
       ELSE {Missing, <<1, 0>>}]

MCSignals == {1, 2, 9, 13, 15}
MCCodes   == {Invalid} \cup -15 .. 15 \cup 120 .. 145 \cup {254, 255}
=============================================================================
