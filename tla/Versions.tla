------------------------------ MODULE Versions ------------------------------
(***************************************************************************)
(* checks.py: what a version constraint means.  A version is the sequence  *)
(* of its numbers, a clause an operator with the numbers that it compares  *)
(* with, and a constraint the set of the clauses that the text separates   *)
(* by commas.                                                              *)
(***************************************************************************)
EXTENDS Integers, Sequences

Version   == {v \in Seq(Nat) : v # <<>>}
Compares  == {">=", "<=", ">", "<", "==", "!="}
Operators == Compares \cup {"~="}

\* parse_constraint() accepts the clause, given that it has the form of one.
Parses(clause) ==
    /\ clause.op \in Operators /\ clause.req \in Version
    /\ clause.op = "~=" => Len(clause.req) >= 2

Wider(a, b) == IF Len(a) >= Len(b) THEN Len(a) ELSE Len(b)

Pad(v, width) == [i \in 1 .. width |-> IF i \in DOMAIN v THEN v[i] ELSE 0]

\* Tuples of one length are ordered by the first component that differs.
Precedes(f, r) == \E i \in DOMAIN f : f[i] < r[i] /\ \A j \in 1 .. i - 1 : f[j] = r[j]

Compare(found, op, req) ==
    LET f == Pad(found, Wider(found, req))
        r == Pad(req, Wider(found, req))
    IN CASE op = ">=" -> ~Precedes(f, r)
         [] op = "<=" -> ~Precedes(r, f)
         [] op = ">"  -> Precedes(r, f)
         [] op = "<"  -> Precedes(f, r)
         [] op = "==" -> f = r
         [] op = "!=" -> f # r

\* The first release that is not compatible any more.
Upper(req) == [i \in 1 .. Len(req) - 1 |-> IF i = Len(req) - 1 THEN req[i] + 1 ELSE req[i]]

ClauseOk(found, op, req) ==
    IF op = "~=" THEN Compare(found, ">=", req) /\ Compare(found, "<", Upper(req))
    ELSE Compare(found, op, req)

Satisfies(found, clauses) == \A c \in clauses : ClauseOk(found, c.op, c.req)

-----------------------------------------------------------------------------
(* What the operators are to mean: numbers that are missing are zeros. *)

At(v, i) == IF i \in DOMAIN v THEN v[i] ELSE 0

Before(a, b) ==
    \E i \in 1 .. Wider(a, b) : At(a, i) < At(b, i) /\ \A j \in 1 .. i - 1 : At(a, j) = At(b, j)

Same(a, b) == \A i \in 1 .. Wider(a, b) : At(a, i) = At(b, i)

\* "compatible release: >= req, and same prefix up to the last component"
Compatible(found, req) ==
    ~Before(found, req) /\ \A i \in 1 .. Len(req) - 1 : At(found, i) = At(req, i)

Means(found, op, req) ==
    \/ op = ">=" /\ (Before(req, found) \/ Same(found, req))
    \/ op = "<=" /\ (Before(found, req) \/ Same(found, req))
    \/ op = ">"  /\ Before(req, found)
    \/ op = "<"  /\ Before(found, req)
    \/ op = "==" /\ Same(found, req)
    \/ op = "!=" /\ ~Same(found, req)
    \/ op = "~=" /\ Compatible(found, req)
=============================================================================
