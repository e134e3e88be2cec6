----------------------------- MODULE ExitCodes ------------------------------
(***************************************************************************)
(* errors.py and the verdict of execute.py on the exit of a process: what  *)
(* a return code says, and which ones are failures.  A return code is that *)
(* of Popen: an exit status, or the negated number of the signal that      *)
(* killed the process.                                                     *)
(***************************************************************************)
EXTENDS Integers, FiniteSetsExt

CONSTANT SignalNumbers    \* signal.Signals

ASSUME SignalsAssumption == SignalNumbers \subseteq 1 .. 64

EXIT_CODES == {1, 2, 124, 126, 127, 128, 255}    \* those it has an explanation for

SplitAbove128(rc) ==
    IF rc < 0 THEN [kind |-> "S", number |-> -rc]
    ELSE IF rc > 128 THEN [kind |-> "S", number |-> rc - 128]
    ELSE [kind |-> "X", number |-> rc]

\* Above 128 a shell reports "killed by signal N" as 128 + N, if N is a signal.
split_returncode(rc) ==
    IF rc < 0 THEN [kind |-> "S", number |-> -rc]
    ELSE IF rc > 128 /\ rc - 128 \in SignalNumbers THEN [kind |-> "S", number |-> rc - 128]
    ELSE [kind |-> "X", number |-> rc]

\* The error code of a return code names its two parts, and parse_code() finds them again.
error_code(rc) == split_returncode(rc)

Unknown == [kind |-> "unknown", number |-> 0]

\* The description that `clichain explain` prints for an error code, by what it is about.
explain_code(code) ==
    IF code.number \in (IF code.kind = "S" THEN SignalNumbers ELSE EXIT_CODES)
    THEN code ELSE Unknown

\* The one in the diagnostics of a run.
explain_exit(rc) ==
    LET code == split_returncode(rc)
    IN IF code.kind = "X" THEN IF rc \in EXIT_CODES THEN code ELSE Unknown
       ELSE IF code.number \in SignalNumbers THEN code ELSE Unknown

-----------------------------------------------------------------------------
(* tool(), _accepted() and _status() *)

SIGPIPE_CODES == {-13, 141}

ValidOkCodes(codes) == codes # {} /\ codes \subseteq 0 .. 255

\* The codes of the processes and what each may return, both by the index of its step; an
\* outcome is a code and the index of the step that failed, 0 for None.
Accepted(rc, ok_codes, ignore_sigpipe) ==
    rc \in ok_codes \/ (ignore_sigpipe /\ rc \in SIGPIPE_CODES)

StatusOfLast(rcs, ok, ignore_sigpipe) ==
    LET rejected == {i \in DOMAIN rcs : ~Accepted(rcs[i], ok[i], ignore_sigpipe)}
    IN IF rejected = {} THEN [returncode |-> 0, failed |-> 0]
       ELSE [returncode |-> rcs[Max(rejected)], failed |-> Max(rejected)]

Status(rcs, ok, ignore_sigpipe) ==
    LET rejected == {i \in DOMAIN rcs : ~Accepted(rcs[i], ok[i], ignore_sigpipe)}
    IN IF rejected = {} THEN [returncode |-> 0, failed |-> 0]
       ELSE [returncode |-> rcs[Min(rejected)], failed |-> Min(rejected)]
=============================================================================
