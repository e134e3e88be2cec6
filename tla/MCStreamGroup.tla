--------------------------- MODULE MCStreamGroup ---------------------------
(* An instance of StreamGroup for TLC. *)
EXTENDS StreamGroup

CmdBridgeCmd == <<"cmd", "bridge", "cmd">>

\* The first command can fill its stdout, or its stderr.
TwoThenOne == [i \in Cmds |-> IF i = 1 THEN 2 ELSE 1]

\* No redirect, and one of the stdout and the stderr.
NoneOrBoth == {{}, {"out", "err"}}
=============================================================================
