------------------------- MODULE CommandLineProofs --------------------------
(***************************************************************************)
(* Theorems about the version comparison of checks.py, for versions of     *)
(* every length, and about CommandLine, for every script and machine.      *)
(***************************************************************************)
EXTENDS CommandLine, WellFoundedInduction, TLAPS

-----------------------------------------------------------------------------
(* The comparison means what the clauses say *)

\* A set of numbers that is not empty has a least one.
LEMMA LeastNumber ==
    ASSUME NEW T \in SUBSET Nat, T # {}
    PROVE  \E n \in T : \A m \in T : n <= m
  <1> DEFINE R == {ss \in Nat \X Nat : ss[1] < ss[2]}
  <1>1. IsWellFoundedOn(R, Nat)
    BY NatLessThanWellFounded DEF OpToRel
  <1>2. \A m, n \in T : m < n => <<m, n>> \in R
    OBVIOUS
  <1> HIDE DEF R
  <1>3. PICK n \in T : \A m \in T : <<m, n>> \notin R
    BY <1>1, WFMin
  <1>4. \A m \in T : ~(m < n)
    BY <1>2, <1>3
  <1>5. \A m \in T : m \in Nat /\ n \in Nat
    OBVIOUS
  <1>6. QED
    BY <1>4, <1>5

\* Padding changes no number that is there, and adds zeros only.
LEMMA PadFacts ==
    ASSUME NEW v \in Version, NEW w \in Nat, Len(v) <= w
    PROVE  /\ DOMAIN Pad(v, w) = 1 .. w
           /\ \A i \in 1 .. w : Pad(v, w)[i] = At(v, i) /\ At(v, i) \in Nat
  BY DEF Pad, At, Version

LEMMA WidthFacts ==
    ASSUME NEW a \in Version, NEW b \in Version
    PROVE  /\ Wider(a, b) \in Nat /\ Wider(a, b) = Wider(b, a)
           /\ Len(a) <= Wider(a, b) /\ Len(b) <= Wider(a, b)
  BY DEF Wider, Version

\* On padded versions the order of tuples is the one of the numbers.
LEMMA PrecedesIsBefore ==
    ASSUME NEW a \in Version, NEW b \in Version
    PROVE  Precedes(Pad(a, Wider(a, b)), Pad(b, Wider(a, b))) <=> Before(a, b)
  <1> DEFINE w == Wider(a, b)
  <1>1. /\ w \in Nat /\ DOMAIN Pad(a, w) = 1 .. w
        /\ \A i \in 1 .. w : Pad(a, w)[i] = At(a, i) /\ Pad(b, w)[i] = At(b, i)
    BY WidthFacts, PadFacts
  <1>2. \A i \in 1 .. w : 1 .. i - 1 \subseteq 1 .. w
    BY <1>1
  <1> HIDE DEF w
  <1>3. Precedes(Pad(a, w), Pad(b, w))
          <=> \E i \in 1 .. w : At(a, i) < At(b, i) /\ \A j \in 1 .. i - 1 : At(a, j) = At(b, j)
    BY <1>1, <1>2 DEF Precedes
  <1>4. QED
    BY <1>3 DEF Before, w

\* Of two versions one is before the other, or they are the same.
LEMMA Trichotomy ==
    ASSUME NEW a \in Version, NEW b \in Version
    PROVE  /\ Before(a, b) \/ Before(b, a) \/ Same(a, b)
           /\ ~(Before(a, b) /\ Before(b, a))
           /\ ~(Before(a, b) /\ Same(a, b))
  <1> DEFINE w == Wider(a, b)
             D == {i \in 1 .. w : At(a, i) # At(b, i)}
  <1>1. /\ w \in Nat /\ w = Wider(b, a)
        /\ \A i \in 1 .. w : At(a, i) \in Nat /\ At(b, i) \in Nat
    BY WidthFacts, PadFacts
  <1> HIDE DEF w
  <1>2. ~(Before(a, b) /\ Same(a, b))
    BY <1>1 DEF Before, Same, w
  <1>3. ~(Before(a, b) /\ Before(b, a))
    <2> SUFFICES ASSUME NEW i \in 1 .. w, NEW k \in 1 .. w,
                        At(a, i) < At(b, i), \A j \in 1 .. i - 1 : At(a, j) = At(b, j),
                        At(b, k) < At(a, k), \A j \in 1 .. k - 1 : At(b, j) = At(a, j)
                 PROVE  FALSE
      BY <1>1 DEF Before, w
    <2>1. CASE i < k
      BY <2>1, <1>1
    <2>2. CASE k < i
      BY <2>2, <1>1
    <2>3. CASE i = k
      BY <2>3, <1>1
    <2>4. QED
      BY <1>1, <2>1, <2>2, <2>3
  <1>4. Before(a, b) \/ Before(b, a) \/ Same(a, b)
    <2>1. CASE D = {}
      BY <2>1 DEF Same, w
    <2>2. CASE D # {}
      <3>1. D \in SUBSET Nat
        BY <1>1
      <3>2. PICK i \in D : \A m \in D : i <= m
        BY <2>2, <3>1, LeastNumber
      <3>3. \A j \in 1 .. i - 1 : At(a, j) = At(b, j)
        BY <1>1, <3>2
      <3>4. At(a, i) < At(b, i) \/ At(b, i) < At(a, i)
        BY <1>1, <3>2
      <3>5. QED
        BY <1>1, <3>2, <3>3, <3>4 DEF Before, w
    <2>3. QED
      BY <2>1, <2>2
  <1>5. QED
    BY <1>2, <1>3, <1>4

LEMMA EqualIsSame ==
    ASSUME NEW a \in Version, NEW b \in Version
    PROVE  Pad(a, Wider(a, b)) = Pad(b, Wider(a, b)) <=> Same(a, b)
  <1> DEFINE w == Wider(a, b)
  <1>1. w \in Nat /\ Len(a) <= w /\ Len(b) <= w
    BY WidthFacts
  <1>2. \A i \in 1 .. w : Pad(a, w)[i] = At(a, i) /\ Pad(b, w)[i] = At(b, i)
    BY <1>1, PadFacts
  <1> HIDE DEF w
  <1>3. Pad(a, w) = Pad(b, w) <=> \A i \in 1 .. w : Pad(a, w)[i] = Pad(b, w)[i]
    BY <1>1 DEF Pad
  <1>4. QED
    BY <1>2, <1>3 DEF Same, w

LEMMA CompareMeans ==
    ASSUME NEW have \in Version, NEW req \in Version, NEW op \in Compares
    PROVE  Compare(have, op, req) <=> Means(have, op, req)
  <1>1. /\ Precedes(Pad(have, Wider(have, req)), Pad(req, Wider(have, req)))
              <=> Before(have, req)
        /\ Precedes(Pad(req, Wider(have, req)), Pad(have, Wider(have, req)))
              <=> Before(req, have)
    BY WidthFacts, PrecedesIsBefore
  <1>2. Pad(have, Wider(have, req)) = Pad(req, Wider(have, req)) <=> Same(have, req)
    BY EqualIsSame
  <1>3. Same(have, req) <=> Same(req, have)
    BY WidthFacts DEF Same
  <1>4. QED
    BY <1>1, <1>2, <1>3, Trichotomy DEF Compare, Means, Compares

LEMMA UpperFacts ==
    ASSUME NEW req \in Version, Len(req) >= 2
    PROVE  /\ Upper(req) \in Version /\ Len(Upper(req)) = Len(req) - 1
           /\ \A i \in 1 .. Len(req) - 2 : At(Upper(req), i) = At(req, i)
           /\ At(Upper(req), Len(req) - 1) = At(req, Len(req) - 1) + 1
           /\ \A i \in Nat : i >= Len(req) => At(Upper(req), i) = 0
  <1> DEFINE n == Len(req) - 1
  <1>1. n \in Nat /\ n >= 1 /\ \A i \in 1 .. n : req[i] \in Nat
    BY DEF Version
  <1>2. /\ Upper(req) \in Seq(Nat) /\ Len(Upper(req)) = n /\ DOMAIN Upper(req) = 1 .. n
        /\ \A i \in 1 .. n : Upper(req)[i] = IF i = n THEN req[i] + 1 ELSE req[i]
    BY <1>1 DEF Upper
  <1>3. \A i \in 1 .. n : At(req, i) = req[i]
    BY DEF At, Version
  <1>4. Upper(req) \in Version
    BY <1>1, <1>2 DEF Version
  <1>5. /\ \A i \in 1 .. n : At(Upper(req), i) = Upper(req)[i]
        /\ \A i \in Nat : i > n => At(Upper(req), i) = 0
    <2> HIDE DEF n
    <2>1. QED
      BY <1>1, <1>2 DEF At
  <1>6. n \in 1 .. n /\ Upper(req)[n] = req[n] + 1 /\ \A i \in 1 .. n - 1 : Upper(req)[i] = req[i]
    <2> HIDE DEF n
    <2>1. QED
      BY <1>1, <1>2
  <1>7. Len(req) \in Nat
    BY DEF Version
  <1>8. QED
    BY <1>1, <1>2, <1>3, <1>4, <1>5, <1>6, <1>7

\* ~= accepts the versions that are not before req and have all its numbers but the last,
\* though the code compares with an upper bound instead.
LEMMA CompatibleMeans ==
    ASSUME NEW have \in Version, NEW req \in Version, Len(req) >= 2
    PROVE  ClauseOk(have, "~=", req) <=> Compatible(have, req)
  <1> DEFINE up == Upper(req)
             n  == Len(req) - 1
  <1>1. /\ n \in Nat /\ n >= 1 /\ up \in Version /\ Len(up) = n /\ Len(req) = n + 1
        /\ \A i \in 1 .. n - 1 : At(up, i) = At(req, i)
        /\ At(up, n) = At(req, n) + 1
        /\ \A i \in Nat : i > n => At(up, i) = 0
    BY UpperFacts DEF Version
  <1>2. /\ Compare(have, ">=", req) <=> ~Before(have, req)
        /\ Compare(have, "<", up) <=> Before(have, up)
    <2>1. /\ Compare(have, ">=", req) <=> Means(have, ">=", req)
          /\ Compare(have, "<", up) <=> Means(have, "<", up)
      BY <1>1, CompareMeans DEF Compares
    <2>2. /\ Means(have, ">=", req) <=> Before(req, have) \/ Same(have, req)
          /\ Means(have, "<", up) <=> Before(have, up)
      BY DEF Means
    <2>3. ~Before(have, req) <=> Before(req, have) \/ Same(have, req)
      BY Trichotomy, WidthFacts DEF Same
    <2>4. QED
      BY <2>1, <2>2, <2>3
  <1>3. \A i \in Nat : At(have, i) \in Nat /\ At(req, i) \in Nat
    BY DEF At, Version
  <1> HIDE DEF n, up
  <1>4. ASSUME ~Before(have, req)
        PROVE  Before(have, up) <=> \A i \in 1 .. n : At(have, i) = At(req, i)
    <2>1. ASSUME \A i \in 1 .. n : At(have, i) = At(req, i)
          PROVE  Before(have, up)
      <3>1. At(have, n) < At(up, n)
        BY <1>1, <1>3, <2>1
      <3>2. \A j \in 1 .. n - 1 : At(have, j) = At(up, j)
        BY <1>1, <2>1
      <3>3. n \in 1 .. Wider(have, up)
        BY <1>1, WidthFacts
      <3>4. QED
        BY <3>1, <3>2, <3>3 DEF Before
    <2>2. ASSUME Before(have, up)
          PROVE  \A i \in 1 .. n : At(have, i) = At(req, i)
      <3>1. PICK k \in 1 .. Wider(have, up) :
                   At(have, k) < At(up, k) /\ \A j \in 1 .. k - 1 : At(have, j) = At(up, j)
        BY <2>2 DEF Before
      <3>2. k \in Nat /\ k <= n
        <4>1. k \in Nat /\ At(have, k) \in Nat
          BY <1>1, <1>3, WidthFacts
        <4>2. ~(k > n)
          BY <4>1, <3>1, <1>1
        <4>3. QED
          BY <4>1, <4>2, <1>1
      <3>3. \A j \in 1 .. k - 1 : At(have, j) = At(req, j)
        BY <3>1, <3>2, <1>1
      <3>4. k <= Wider(have, req) /\ k \in 1 .. Wider(have, req)
        BY <3>1, <3>2, <1>1, WidthFacts
      <3>5. ~(At(have, k) < At(req, k))
        BY <1>4, <3>3, <3>4 DEF Before
      <3>6. k = n /\ At(have, n) = At(req, n)
        <4>1. At(have, k) \in Nat /\ At(req, k) \in Nat /\ At(have, k) < At(up, k)
          BY <1>3, <3>1, <3>2
        <4>2. ~(k < n)
          BY <4>1, <3>2, <3>4, <3>5, <1>1
        <4>3. k = n
          BY <3>2, <4>2, <1>1
        <4>4. QED
          BY <4>1, <4>3, <3>5, <1>1
      <3>7. QED
        BY <3>3, <3>6, <1>1
    <2>3. QED
      BY <2>1, <2>2
  <1>5. QED
    BY <1>2, <1>4 DEF ClauseOk, Compatible, up, n

\* checks._clause_ok() means what the clause says, for every version that a tool may
\* report and every clause that parse_constraint() accepts.
THEOREM ClauseMeaning ==
    ASSUME NEW have \in Version, NEW c, Parses(c)
    PROVE  ClauseOk(have, c.op, c.req) <=> Means(have, c.op, c.req)
  <1>1. CASE c.op = "~="
    BY <1>1, CompatibleMeans DEF Parses, Means
  <1>2. CASE c.op # "~="
    BY <1>2, CompareMeans DEF Parses, ClauseOk, Operators
  <1>3. QED
    BY <1>1, <1>2

-----------------------------------------------------------------------------
(* The command line *)

Checks == command = "check"

Given ==
    /\ command \in {"explain", "check", "compile"}
    /\ Checks => /\ uses \in [Pipes -> Seq(Commands)]
                 /\ installed \in [Binaries -> Version \cup {Missing, Undetectable}]

\* What the script has left behind, and what is still to be done about it.
Found ==
    /\ recorded \subseteq [by : Actors, pipe : Pipes]
    /\ named \subseteq Pipes /\ found \subseteq Pipes /\ todo \subseteq found
    /\ failed \in BOOLEAN /\ status \in {0, 1}

\* What an actor may be doing.
ActorOK(d) ==
    /\ d \in Activities
    /\ d.at # "idle" => Checks /\ d.pipe \in Pipes
    /\ d.at = "idle" => d = Idle
    /\ d.at \in {"check", "probe"} => d.left \subseteq DOMAIN uses[d.pipe]
    /\ d.at = "probe" => d.left # {} /\ installed[Tool(d).binary] # Missing

Acting == DOMAIN act = Actors /\ act = [a \in Actors |-> act[a]]
            /\ \A a \in Actors : ActorOK(act[a])

\* The phases: only the import is dry, and nothing runs while it lasts.
Phases ==
    /\ phase \in {"start", "import", "collect", "check", "over"}
    /\ dry = (phase = "import")
    /\ phase = "start" => \A a \in Actors : act[a] = Idle
    /\ phase \in {"start", "import"} =>
         /\ executed = {} /\ cache = [b \in Binaries |-> Unprobed]
         /\ found = {} /\ failed = FALSE /\ status = 0
         /\ \A a \in Actors : act[a].at \in {"idle", "record"}
    /\ phase = "start" => recorded = {} /\ named = {}
    /\ phase = "collect" => found = {} /\ failed = FALSE /\ status = 0
    /\ phase \in {"collect", "over"} => act[Main] = Idle
    /\ phase = "check" => act[Main].at # "record" /\ status = 0
    /\ ~Checks => phase \in {"start", "over"}

\* A version in the cache is the installed one, or a probe of the binary has lapsed.
Cached ==
    Checks => /\ cache \in [Binaries -> Version \cup {Missing, Undetectable, Unprobed}]
              /\ \A b \in Binaries : cache[b] \in {Unprobed, Undetectable, installed[b]}
              /\ \A b \in Binaries :
                   cache[b] = Undetectable /\ installed[b] # Undetectable => b \in lapsed

Required(p)     == {k \in UniqueTools(uses[p]) : uses[p][k].on_fail = "error"}
Judged(p, left) == \A k \in Required(p) \ left : Met(uses[p][k])
Blamed(p) ==
    \E k \in DOMAIN uses[p] :
      /\ uses[p][k].on_fail = "error"
      /\ ~Met(uses[p][k]) \/ uses[p][k].binary \in lapsed

MainChecks == phase = "check" /\ act[Main].at \in {"check", "probe"}

\* The verdict so far: a pipeline whose check is over has what it requires, or the verdict is
\* a failure; and a failure has its cause.
Verdict ==
    /\ phase \in {"check", "over"} =>
         named \cup {r.pipe : r \in {q \in recorded : q.by = Main}} \subseteq found
    /\ phase \in {"check", "over"} =>
         \A p \in found \ todo : \/ failed \/ Judged(p, {})
                                 \/ MainChecks /\ act[Main].pipe = p
    /\ MainChecks => /\ act[Main].pipe \in found
                     /\ act[Main].stops \/ Judged(act[Main].pipe, act[Main].left)
                     /\ act[Main].stops => Blamed(act[Main].pipe)
    /\ failed => \E p \in found : Blamed(p)
    /\ phase = "over" /\ Checks => /\ status = 0 => ~failed /\ todo = {}
                                   /\ status = 1 /\ found # {} => failed

IInv == Given /\ Found /\ Acting /\ Phases /\ Cached /\ Verdict

-----------------------------------------------------------------------------
(* Lemmas about the checks *)

\* The next tool is one of those left.
LEMMA NextIsLeft ==
    ASSUME NEW d, d.left \subseteq Nat, d.left # {}
    PROVE  NextOf(d) \in d.left
  <1>1. \E k \in d.left : \A j \in d.left : k <= j
    BY LeastNumber
  <1>2. QED
    BY <1>1 DEF NextOf

\* What is left of the checks are commands of the pipeline.
LEMMA ToolIsCommand ==
    ASSUME Given, NEW d, ActorOK(d), d.at \in {"check", "probe"}, d.left # {}
    PROVE  /\ NextOf(d) \in d.left /\ NextOf(d) \in DOMAIN uses[d.pipe]
           /\ Tool(d) = uses[d.pipe][NextOf(d)] /\ Tool(d) \in Commands
  <1>1. d.left \subseteq Nat /\ d.left \subseteq DOMAIN uses[d.pipe] /\ d.pipe \in Pipes /\ Checks
    BY DEF ActorOK, Activities
  <1>2. NextOf(d) \in d.left
    BY <1>1, NextIsLeft
  <1>3. uses[d.pipe] \in Seq(Commands)
    BY <1>1 DEF Given
  <1>4. QED
    BY <1>1, <1>2, <1>3 DEF Tool

\* binary_check() passes only a command whose requirement is met, and fails one whose
\* requirement is met only after a lapsed probe.
LEMMA OkIsMet ==
    ASSUME Given, Checks, NEW s \in Commands, NEW d,
           installed[s.binary] # Missing /\ s.clauses # {} => d \in {installed[s.binary], Undetectable}
    PROVE  /\ Ok(s, d) => Met(s)
           /\ ~Ok(s, d) /\ Met(s) => d = Undetectable /\ installed[s.binary] # Undetectable
  <1>1. /\ s.binary \in Binaries
        /\ \A c \in s.clauses : Parses(c)
    BY DEF Commands, Clauses
  <1>2. installed[s.binary] \in Version \cup {Missing, Undetectable}
    BY <1>1 DEF Given
  <1>3. CASE installed[s.binary] = Missing \/ s.clauses = {}
    BY <1>3 DEF Ok, Met
  <1>4. CASE installed[s.binary] # Missing /\ s.clauses # {} /\ d = Undetectable
    BY <1>4 DEF Ok, Met
  <1>5. CASE installed[s.binary] # Missing /\ s.clauses # {} /\ d # Undetectable
    <2>1. d = installed[s.binary] /\ d \in Version
      BY <1>2, <1>5
    <2>2. \A c \in s.clauses : ClauseOk(d, c.op, c.req) <=> Means(d, c.op, c.req)
      BY <1>1, <2>1, ClauseMeaning
    <2>3. QED
      BY <1>5, <2>1, <2>2 DEF Ok, Met, Satisfies
  <1>6. QED
    BY <1>3, <1>4, <1>5

-----------------------------------------------------------------------------
(* The invariant is inductive *)

\* The command line starts with nothing found and nothing running.
LEMMA InitInv == Init => IInv
  <1> SUFFICES ASSUME Init PROVE IInv
    OBVIOUS
  <1>1. Given
    BY CommandLineAssumption DEF Init, Given, Checks
  <1>2. Found
    BY DEF Init, Found
  <1>3. Acting
    BY DEF Init, Acting, ActorOK, Activities, Idle, Doing
  <1>4. Phases
    BY DEF Init, Phases, Actors, Idle, Doing
  <1>5. Cached
    BY CommandLineAssumption DEF Init, Cached
  <1>6. Verdict
    BY DEF Init, Verdict, MainChecks
  <1>7. QED
    BY <1>1, <1>2, <1>3, <1>4, <1>5, <1>6 DEF IInv

\* What the script and the machine are does not change.
LEMMA GivenStep == Given /\ [Next]_vars => Given' /\ UNCHANGED given
  BY DEF Given, Checks, Next, vars, given, Explain, Compile, Load, Define, LeaveBlock, Collect,
         CheckPipeline, Checked, Exit, Run, Record, Execute, CheckTool, Probe, Probed

\* Each step keeps the sets of pipelines what they are.
LEMMA FoundStep == IInv /\ [Next]_vars => Found'
  <1> SUFFICES ASSUME IInv, [Next]_vars PROVE Found'
    OBVIOUS
  <1> USE DEF IInv, Found
  <1>1. ASSUME Explain PROVE Found'
    BY <1>1 DEF Explain, Exits, Phases, Acting, Actors, given, mainVars, runVars, toolVars
  <1>2. ASSUME Compile PROVE Found'
    BY <1>2 DEF Compile, Exits, Phases, Acting, Actors, given, mainVars, runVars, toolVars
  <1>3. ASSUME Load PROVE Found'
    BY <1>3 DEF Load, Exits, Phases, Acting, Actors, given, mainVars, runVars, toolVars
  <1>4. ASSUME Define PROVE Found'
    BY <1>4 DEF Define, Exits, Phases, Acting, Actors, given, mainVars, runVars, toolVars
  <1>5. ASSUME LeaveBlock PROVE Found'
    BY <1>5 DEF LeaveBlock, Exits, Phases, Acting, Actors, given, mainVars, runVars, toolVars
  <1>6. ASSUME Collect PROVE Found'
    BY <1>6 DEF Collect, Exits, Phases, Acting, Actors, given, mainVars, runVars, toolVars
  <1>7. ASSUME CheckPipeline PROVE Found'
    BY <1>7 DEF CheckPipeline, Exits, Phases, Acting, Actors, given, mainVars, runVars, toolVars
  <1>8. ASSUME Checked PROVE Found'
    BY <1>8 DEF Checked, Exits, Phases, Acting, Actors, given, mainVars, runVars, toolVars
  <1>9. ASSUME Exit PROVE Found'
    BY <1>9 DEF Exit, Exits, Phases, Acting, Actors, given, mainVars, runVars, toolVars
  <1>10. ASSUME NEW a \in Actors, Run(a) PROVE Found'
    BY <1>10 DEF Run, Exits, Phases, Acting, Actors, given, mainVars, runVars, toolVars
  <1>11. ASSUME NEW a \in Actors, Record(a) PROVE Found'
    <2>1. ActorOK(act[a]) /\ act[a].at = "record"
      BY <1>11 DEF Record, Acting
    <2>2. [by |-> a, pipe |-> act[a].pipe] \in [by : Actors, pipe : Pipes]
      BY <2>1 DEF ActorOK
    <2>3. QED
      BY <1>11, <2>2 DEF Record, mainVars
  <1>12. ASSUME NEW a \in Actors, Execute(a) PROVE Found'
    BY <1>12 DEF Execute, Exits, Phases, Acting, Actors, given, mainVars, runVars, toolVars
  <1>13. ASSUME NEW a \in Actors, CheckTool(a) PROVE Found'
    BY <1>13 DEF CheckTool, Exits, Phases, Acting, Actors, given, mainVars, runVars, toolVars
  <1>14. ASSUME NEW a \in Actors, Probe(a) PROVE Found'
    BY <1>14 DEF Probe, Exits, Phases, Acting, Actors, given, mainVars, runVars, toolVars
  <1>15. ASSUME NEW a \in Actors, Probed(a) PROVE Found'
    BY <1>15 DEF Probed, Exits, Phases, Acting, Actors, given, mainVars, runVars, toolVars
  <1>16. ASSUME UNCHANGED vars PROVE Found'
    BY <1>16 DEF vars, Exits, Phases, Acting, Actors, given, mainVars, runVars, toolVars
  <1>17. QED
    BY <1>1, <1>2, <1>3, <1>4, <1>5, <1>6, <1>7, <1>8, <1>9, <1>10, <1>11, <1>12, <1>13, <1>14, <1>15, <1>16 DEF Next

\* Only a probe writes to the cache, its result or nothing.
LEMMA CachedStep == IInv /\ [Next]_vars => Cached'
  <1> SUFFICES ASSUME IInv, [Next]_vars PROVE Cached'
    OBVIOUS
  <1> USE DEF IInv, Cached
  <1>1. ASSUME Explain PROVE Cached'
    BY <1>1 DEF Explain, Checks, Given, Phases, Judge, given, mainVars, runVars, toolVars
  <1>2. ASSUME Compile PROVE Cached'
    BY <1>2 DEF Compile, Checks, Given, Phases, Judge, given, mainVars, runVars, toolVars
  <1>3. ASSUME Load PROVE Cached'
    BY <1>3 DEF Load, Checks, Given, Phases, Judge, given, mainVars, runVars, toolVars
  <1>4. ASSUME Define PROVE Cached'
    BY <1>4 DEF Define, Checks, Given, Phases, Judge, given, mainVars, runVars, toolVars
  <1>5. ASSUME LeaveBlock PROVE Cached'
    BY <1>5 DEF LeaveBlock, Checks, Given, Phases, Judge, given, mainVars, runVars, toolVars
  <1>6. ASSUME Collect PROVE Cached'
    BY <1>6 DEF Collect, Checks, Given, Phases, Judge, given, mainVars, runVars, toolVars
  <1>7. ASSUME CheckPipeline PROVE Cached'
    BY <1>7 DEF CheckPipeline, Checks, Given, Phases, Judge, given, mainVars, runVars, toolVars
  <1>8. ASSUME Checked PROVE Cached'
    BY <1>8 DEF Checked, Checks, Given, Phases, Judge, given, mainVars, runVars, toolVars
  <1>9. ASSUME Exit PROVE Cached'
    BY <1>9 DEF Exit, Checks, Given, Phases, Judge, given, mainVars, runVars, toolVars
  <1>10. ASSUME NEW a \in Actors, Run(a) PROVE Cached'
    BY <1>10 DEF Run, Checks, Given, Phases, Judge, given, mainVars, runVars, toolVars
  <1>11. ASSUME NEW a \in Actors, Record(a) PROVE Cached'
    BY <1>11 DEF Record, Checks, Given, Phases, Judge, given, mainVars, runVars, toolVars
  <1>12. ASSUME NEW a \in Actors, Execute(a) PROVE Cached'
    BY <1>12 DEF Execute, Checks, Given, Phases, Judge, given, mainVars, runVars, toolVars
  <1>13. ASSUME NEW a \in Actors, CheckTool(a) PROVE Cached'
    BY <1>13 DEF CheckTool, Checks, Given, Phases, Judge, given, mainVars, runVars, toolVars
  <1>14. ASSUME NEW a \in Actors, Probe(a) PROVE Cached'
    BY <1>14 DEF Probe, Checks, Given, Phases, Judge, given, mainVars, runVars, toolVars
  <1>15. ASSUME NEW a \in Actors, Probed(a) PROVE Cached'
    <2>1. /\ Checks /\ act[a].pipe \in Pipes /\ act[a].at = "probe" /\ act[a].left # {}
          /\ UNCHANGED <<command, installed>>
      BY <1>15 DEF Probed, given, Acting, ActorOK
    <2>2. Tool(act[a]).binary \in Binaries
      BY <2>1, ToolIsCommand DEF Commands, Acting
    <2>3. PICK v \in {installed[Tool(act[a]).binary], Undetectable} :
            /\ cache' = [cache EXCEPT ![Tool(act[a]).binary] = v]
            /\ lapsed' = IF v = installed[Tool(act[a]).binary] THEN lapsed
                         ELSE lapsed \cup {Tool(act[a]).binary}
      BY <1>15 DEF Probed
    <2>4. installed[Tool(act[a]).binary] \in Version \cup {Missing, Undetectable}
      BY <2>1, <2>2 DEF Given
    <2> HIDE DEF IInv
    <2>5. QED
      BY <2>1, <2>2, <2>3, <2>4 DEF IInv, Checks
  <1>16. ASSUME UNCHANGED vars PROVE Cached'
    BY <1>16 DEF vars, Checks, Given, Phases, Judge, given, mainVars, runVars, toolVars
  <1>17. QED
    BY <1>1, <1>2, <1>3, <1>4, <1>5, <1>6, <1>7, <1>8, <1>9, <1>10, <1>11, <1>12, <1>13, <1>14, <1>15, <1>16 DEF Next

\* The act of one actor is replaced at a time.
LEMMA OneActs ==
    ASSUME Acting, UNCHANGED given, NEW b \in Actors, NEW d, ActorOK(d),
           act' = [act EXCEPT ![b] = d]
    PROVE  Acting' /\ act'[b] = d /\ \A a \in Actors \ {b} : act'[a] = act[a]
  <1>1. /\ DOMAIN act' = Actors /\ act'[b] = d /\ \A a \in Actors \ {b} : act'[a] = act[a]
        /\ act' = [a \in Actors |-> act'[a]]
    BY DEF Acting
  <1>2. \A x : ActorOK(x) => (Checks' <=> Checks) /\ uses' = uses /\ installed' = installed
    BY DEF Checks, given
  <1>3. ActorOK(act[b])' /\ \A a \in Actors \ {b} : ActorOK(act[a])'
    BY <1>1, <1>2 DEF ActorOK, Tool, Acting
  <1>4. QED
    BY <1>1, <1>3 DEF Acting

\* A check starts with commands of the pipeline.
LEMMA UniqueInDomain ==
    ASSUME Given, Checks, NEW p \in Pipes
    PROVE  /\ UniqueTools(uses[p]) \subseteq DOMAIN uses[p] /\ DOMAIN uses[p] \subseteq Nat
           /\ \A k \in DOMAIN uses[p] : uses[p][k] \in Commands
  <1>1. uses[p] \in Seq(Commands)
    BY DEF Given
  <1>2. QED
    BY <1>1 DEF UniqueTools

\* The command whose tool is next is judged, and is not left any more.
LEMMA JudgeActs ==
    ASSUME Given, Acting, NEW a \in Actors, NEW v, Judge(a, v),
           act[a].at \in {"check", "probe"}, act[a].left # {}
    PROVE  \E d : /\ act' = [act EXCEPT ![a] = d] /\ ActorOK(d)
                  /\ d.at = "check" /\ d.pipe = act[a].pipe
                  /\ d.left = act[a].left \ {NextOf(act[a])}
                  /\ d.stops = (act[a].stops \/ ShouldStop(Tool(act[a]), v))
  <1>1. PICK d : d = Checking(act[a].pipe, act[a].left \ {NextOf(act[a])},
                              act[a].stops \/ ShouldStop(Tool(act[a]), v))
    OBVIOUS
  <1>2. act' = [act EXCEPT ![a] = d]
    BY <1>1 DEF Judge
  <1>3. /\ act[a] \in Activities /\ act[a].pipe \in Pipes /\ Checks
        /\ act[a].left \subseteq DOMAIN uses[act[a].pipe]
    BY DEF Acting, ActorOK
  <1>4. act[a].left \subseteq Nat /\ act[a].stops \in BOOLEAN
    BY <1>3 DEF Activities
  <1>5. /\ d.at = "check" /\ d.pipe = act[a].pipe
        /\ d.left = act[a].left \ {NextOf(act[a])}
        /\ d.stops = (act[a].stops \/ ShouldStop(Tool(act[a]), v))
    BY <1>1 DEF Checking, Doing
  <1>6. ShouldStop(Tool(act[a]), v) \in BOOLEAN
    BY DEF ShouldStop
  <1>7. d \in Activities
    BY <1>1, <1>3, <1>4, <1>6 DEF Activities, Checking, Doing
  <1>8. QED
    BY <1>2, <1>3, <1>5, <1>7 DEF ActorOK

\* Each step of an actor goes on with what it does.
LEMMA ActingStep == IInv /\ [Next]_vars => Acting'
  <1> SUFFICES ASSUME IInv, [Next]_vars PROVE Acting'
    OBVIOUS
  <1> USE DEF IInv
  <1>1. UNCHANGED given
    BY GivenStep
  <1>2. ASSUME NEW a \in Actors, NEW v, Judge(a, v),
               act[a].at \in {"check", "probe"}, act[a].left # {}
        PROVE  Acting'
    BY <1>1, <1>2, JudgeActs, OneActs
  <1>3. CASE act' = act
    <2>1. (Checks' <=> Checks) /\ uses' = uses /\ installed' = installed
      BY <1>1 DEF Checks, given
    <2>2. QED
      BY <1>3, <2>1 DEF Acting, ActorOK, Tool
  <1>4. ASSUME NEW b \in Actors, act' = [act EXCEPT ![b] = Idle] PROVE Acting'
    <2>1. ActorOK(Idle)
      BY DEF ActorOK, Idle, Doing, Activities
    <2>2. PICK d : d = Idle
      OBVIOUS
    <2>3. QED
      BY <1>1, <1>4, <2>1, <2>2, OneActs
  <1>5. ASSUME Checks, NEW b \in Actors, NEW p \in Pipes, NEW left \in {UniqueTools(uses[p]), {}},
               act' = [act EXCEPT ![b] = Checking(p, left, FALSE)]
        PROVE  Acting'
    <2>1. left \subseteq DOMAIN uses[p] /\ left \subseteq Nat
      BY <1>5, UniqueInDomain
    <2>2. ActorOK(Checking(p, left, FALSE))
      BY <1>5, <2>1 DEF ActorOK, Checking, Doing, Activities
    <2>3. PICK d : d = Checking(p, left, FALSE)
      OBVIOUS
    <2>4. QED
      BY <1>1, <1>5, <2>2, <2>3, OneActs
  <1>6. ASSUME NEW a \in Actors, Run(a) PROVE Acting'
    <2>1. Checks
      BY <1>6 DEF Run, MayRun, Phases, Actors
    <2>2. PICK p \in Pipes : \E left \in {UniqueTools(uses[p]), {}} :
            act' = [act EXCEPT ![a] = IF dry THEN Recording(p) ELSE Checking(p, left, FALSE)]
      BY <1>6 DEF Run
    <2>3. CASE dry
      <3>1. ActorOK(Recording(p))
        BY <2>1 DEF ActorOK, Recording, Doing, Activities
      <3>2. PICK d : d = Recording(p)
        OBVIOUS
      <3>3. QED
        BY <1>1, <2>2, <2>3, <3>1, <3>2, OneActs
    <2>4. CASE ~dry
      BY <1>5, <2>1, <2>2, <2>4
    <2>5. QED
      BY <2>3, <2>4
  <1>7. ASSUME NEW a \in Actors, Record(a) \/ Execute(a) PROVE Acting'
    BY <1>4, <1>7 DEF Record, Execute
  <1>8. ASSUME NEW a \in Actors, CheckTool(a) PROVE Acting'
    BY <1>2, <1>8 DEF CheckTool, HasNext
  <1>9. ASSUME NEW a \in Actors, Probed(a) PROVE Acting'
    BY <1>2, <1>9 DEF Probed, Acting, ActorOK
  <1>10. ASSUME NEW a \in Actors, Probe(a) PROVE Acting'
    <2>1. PICK d : d = Doing("probe", act[a].pipe, act[a].left, act[a].stops)
      OBVIOUS
    <2>2. act' = [act EXCEPT ![a] = d] /\ act[a].at = "check" /\ act[a].left # {}
      BY <1>10, <2>1 DEF Probe, HasNext
    <2>3. ActorOK(act[a]) /\ installed[Tool(act[a]).binary] # Missing
      BY <1>10 DEF Probe, NeedsProbe, Acting
    <2>4. d.pipe = act[a].pipe /\ d.left = act[a].left /\ d.at = "probe" /\ d \in Activities
      BY <2>1, <2>2, <2>3 DEF Doing, ActorOK, Activities
    <2>5. Tool(d) = Tool(act[a])
      BY <2>4 DEF Tool, NextOf
    <2>6. ActorOK(d)
      BY <2>2, <2>3, <2>4, <2>5 DEF ActorOK
    <2>7. QED
      BY <1>1, <2>2, <2>6, OneActs
  <1>11. ASSUME CheckPipeline PROVE Acting'
    BY <1>5, <1>11 DEF CheckPipeline, Actors, Phases, Found
  <1>12. ASSUME Checked PROVE Acting'
    BY <1>4, <1>12 DEF Checked, Actors
  <1>13. ASSUME UNCHANGED vars \/ Explain \/ Compile \/ Load \/ Define \/ LeaveBlock \/ Collect \/ Exit
         PROVE  Acting'
    BY <1>3, <1>13 DEF vars, Explain, Compile, Load, Define, LeaveBlock, Collect, Exit
  <1>14. QED
    BY <1>6, <1>7, <1>8, <1>9, <1>10, <1>11, <1>12, <1>13 DEF Next

\* An actor that does nothing but pick up or go on with a check is in no dry run.
LEMMA PhasesStep == IInv /\ [Next]_vars => Phases'
  <1> SUFFICES ASSUME IInv, [Next]_vars PROVE Phases'
    OBVIOUS
  <1> USE DEF Phases
  <1>1. /\ Given /\ Found /\ Acting /\ Phases /\ UNCHANGED given /\ Main \in Actors
        /\ \A a \in Actors : act[a].at = "idle" => act[a] = Idle
        /\ (Checks' <=> Checks)
    BY GivenStep DEF IInv, Actors, Acting, ActorOK, given, Checks
  <1>2. Idle.at = "idle"
    BY DEF Idle, Doing
  <1>3. ASSUME NEW a \in Actors, NEW d, act' = [act EXCEPT ![a] = d],
               phase # "start", UNCHANGED <<phase, dry, found, status>>,
               phase = "import" => /\ d.at \in {"idle", "record"}
                                   /\ UNCHANGED <<cache, executed, failed>>,
               phase = "collect" => UNCHANGED failed,
               phase \in {"collect", "over"} => a # Main,
               phase = "check" /\ a = Main => d.at # "record"
        PROVE  Phases'
    <2>1. act'[a] = d /\ \A b \in Actors \ {a} : act'[b] = act[b]
      BY <1>1, <1>3 DEF Acting
    <2>2. QED
      BY <1>1, <1>3, <2>1
  <1>4. ASSUME NEW a \in Actors, Run(a) PROVE Phases'
    <2>1. PICK p, left :
            act' = [act EXCEPT ![a] = IF dry THEN Recording(p) ELSE Checking(p, left, FALSE)]
      BY <1>4 DEF Run
    <2>2. PICK d : d = IF dry THEN Recording(p) ELSE Checking(p, left, FALSE)
      OBVIOUS
    <2>3. d.at = IF dry THEN "record" ELSE "check"
      BY <2>2 DEF Recording, Checking, Doing
    <2>4. UNCHANGED <<phase, dry, found, status, failed, cache, executed>>
      BY <1>4 DEF Run, mainVars, toolVars
    <2>6. phase # "start" /\ phase # "over" /\ (a = Main => phase = "import")
      BY <1>4 DEF Run, MayRun
    <2>5. QED
      BY <1>1, <1>3, <2>1, <2>2, <2>3, <2>4, <2>6
  <1>5. ASSUME NEW a \in Actors, Record(a) PROVE Phases'
    <2>1. /\ act' = [act EXCEPT ![a] = Idle] /\ act[a].at = "record"
          /\ UNCHANGED <<phase, dry, found, status, failed, cache, executed>>
      BY <1>5 DEF Record, mainVars, toolVars
    <2>2. PICK d : d = Idle
      OBVIOUS
    <2>3. phase # "start" /\ (phase \in {"collect", "over"} => a # Main)
      BY <1>1, <1>2, <2>1
    <2>4. QED
      BY <1>2, <1>3, <2>1, <2>2, <2>3
  <1>6. ASSUME NEW a \in Actors, NEW d, act' = [act EXCEPT ![a] = d], d.at \in {"idle", "check", "probe"},
               act[a].at \in {"check", "probe"}, UNCHANGED mainVars
        PROVE  Phases'
    <2>1. UNCHANGED <<phase, dry, found, status, failed>>
      BY <1>6 DEF mainVars
    <2>2. CASE phase \in {"collect", "check", "over"}
      BY <1>1, <1>2, <1>3, <1>6, <2>1, <2>2
    <2>3. CASE phase \in {"start", "import"}
      BY <1>1, <1>2, <1>6, <2>3
    <2>4. QED
      BY <1>1, <2>2, <2>3
  <1>7. ASSUME NEW a \in Actors, Execute(a) PROVE Phases'
    <2>1. PICK d : d = Idle
      OBVIOUS
    <2>2. QED
      BY <1>2, <1>6, <1>7, <2>1 DEF Execute
  <1>8. ASSUME NEW a \in Actors, CheckTool(a) PROVE Phases'
    BY <1>1, <1>6, <1>8, JudgeActs DEF CheckTool, HasNext
  <1>9. ASSUME NEW a \in Actors, Probe(a) PROVE Phases'
    <2>1. PICK d : d = Doing("probe", act[a].pipe, act[a].left, act[a].stops)
      OBVIOUS
    <2>2. d.at = "probe"
      BY <2>1 DEF Doing
    <2>3. QED
      BY <1>6, <1>9, <2>1, <2>2 DEF Probe, HasNext
  <1>10. ASSUME NEW a \in Actors, Probed(a) PROVE Phases'
    <2>1. act[a].at = "probe" /\ act[a].left # {} /\ UNCHANGED mainVars
      BY <1>1, <1>10 DEF Probed, Acting, ActorOK
    <2>2. PICK v : Judge(a, v)
      BY <1>10 DEF Probed
    <2>3. QED
      BY <1>1, <1>6, <2>1, <2>2, JudgeActs
  <1>11. ASSUME CheckPipeline PROVE Phases'
    <2>1. PICK p \in Pipes : act' = [act EXCEPT ![Main] = Checking(p, UniqueTools(uses[p]), FALSE)]
      BY <1>1, <1>11 DEF CheckPipeline, Found
    <2>2. PICK d : d = Checking(p, UniqueTools(uses[p]), FALSE)
      OBVIOUS
    <2>3. d.at = "check"
      BY <2>2 DEF Checking, Doing
    <2>4. phase = "check" /\ UNCHANGED <<phase, dry, found, status>>
      BY <1>11 DEF CheckPipeline
    <2>5. QED
      BY <1>1, <1>3, <2>1, <2>2, <2>3, <2>4
  <1>12. ASSUME Checked PROVE Phases'
    <2>1. PICK d : d = Idle
      OBVIOUS
    <2>2. phase = "check" /\ UNCHANGED <<phase, dry, found, status>> /\ act' = [act EXCEPT ![Main] = d]
      BY <1>12, <2>1 DEF Checked
    <2>3. QED
      BY <1>1, <1>2, <1>3, <2>1, <2>2
  <1>13. ASSUME Explain \/ Compile \/ Load \/ Define PROVE Phases'
    BY <1>1, <1>2, <1>13 DEF Explain, Compile, Load, Define, Exits, given, runVars, toolVars, Checks
  <1>14. ASSUME LeaveBlock \/ Collect \/ Exit \/ UNCHANGED vars PROVE Phases'
    BY <1>1, <1>2, <1>14 DEF LeaveBlock, Collect, Exit, Exits, given, mainVars, runVars, toolVars, vars,
                             Checks
  <1>15. QED
    BY <1>4, <1>5, <1>7, <1>8, <1>9, <1>10, <1>11, <1>12, <1>13, <1>14 DEF IInv, Next

\* What a command requires depends on the script and the machine only, and a cause for a
\* failure remains one.
LEMMA Frame ==
    ASSUME UNCHANGED given, lapsed \subseteq lapsed'
    PROVE  /\ \A p : Required(p)' = Required(p)
           /\ \A p, left : Judged(p, left)' <=> Judged(p, left)
           /\ \A p : Blamed(p) => Blamed(p)'
  <1>1. uses' = uses /\ installed' = installed
    BY DEF given
  <1>2. \A s : Met(s)' <=> Met(s)
    BY <1>1 DEF Met
  <1>3. \A p : Required(p)' = Required(p)
    BY <1>1 DEF Required
  <1>4. QED
    BY <1>1, <1>2, <1>3 DEF Judged, Blamed

\* A step of another actor, or one that stays on the main thread's part, leaves the verdict.
LEMMA VerdictKept ==
    ASSUME Verdict, UNCHANGED <<given, mainVars>>, act'[Main] = act[Main],
           lapsed \subseteq lapsed',
           \A r \in recorded' : r.by = Main => r \in recorded
    PROVE  Verdict'
  <1>1. UNCHANGED <<phase, named, found, todo, failed, status, command>>
    BY DEF mainVars, given
  <1>2. {r.pipe : r \in {q \in recorded : q.by = Main}}'
          \subseteq {r.pipe : r \in {q \in recorded : q.by = Main}}
    OBVIOUS
  <1>3. MainChecks' <=> MainChecks
    BY <1>1 DEF MainChecks
  <1>4. QED
    BY <1>1, <1>2, <1>3, Frame DEF Verdict, Checks

\* The check of a pipeline goes on to its next tool.
LEMMA VerdictJudged ==
    ASSUME IInv, phase = "check", UNCHANGED <<given, mainVars, recorded>>,
           lapsed \subseteq lapsed', NEW v, Judge(Main, v),
           act[Main].at \in {"check", "probe"}, act[Main].left # {},
           LET s == Tool(act[Main])
           IN installed[s.binary] # Missing /\ s.clauses # {} =>
                /\ v \in {installed[s.binary], Undetectable}
                /\ v = Undetectable /\ installed[s.binary] # Undetectable => s.binary \in lapsed'
    PROVE  Verdict'
  <1> DEFINE me == act[Main]
             s  == Tool(me)
             n  == NextOf(me)
  <1>1. /\ UNCHANGED <<phase, named, found, todo, failed, status, command>>
        /\ Given /\ Acting /\ Verdict /\ Main \in Actors /\ ActorOK(me) /\ Checks
        /\ act = [a \in Actors |-> act[a]]
    BY DEF mainVars, given, IInv, Actors, Acting, ActorOK
  <1>2. /\ n \in me.left /\ n \in DOMAIN uses[me.pipe]
        /\ s = uses[me.pipe][n] /\ s \in Commands
    BY <1>1, ToolIsCommand
  <1>3. PICK d : /\ act' = [act EXCEPT ![Main] = d] /\ d.at = "check" /\ d.pipe = me.pipe
                 /\ d.left = me.left \ {n} /\ d.stops = (me.stops \/ ShouldStop(s, v))
    BY <1>1, JudgeActs
  <1>4. act'[Main] = d
    BY <1>1, <1>3
  <1>5. /\ MainChecks /\ MainChecks'
        /\ me.pipe \in found /\ (me.stops \/ Judged(me.pipe, me.left))
        /\ me.stops => Blamed(me.pipe)
    BY <1>1, <1>3, <1>4 DEF MainChecks, Verdict
  <1>6. /\ Ok(s, v) => Met(s)
        /\ ~Ok(s, v) /\ Met(s) => /\ v = Undetectable /\ installed[s.binary] # Undetectable
                                  /\ installed[s.binary] # Missing /\ s.clauses # {}
    BY <1>1, <1>2, OkIsMet DEF Ok, Met
  <1>7. d.stops \/ Judged(d.pipe, d.left)
    <2>1. CASE me.stops \/ ShouldStop(s, v)
      BY <1>3, <2>1
    <2>2. CASE ~me.stops /\ ~ShouldStop(s, v)
      <3>1. s.on_fail = "error" => Met(s)
        BY <1>6, <2>2 DEF ShouldStop
      <3>2. \A k \in Required(me.pipe) \ (me.left \ {n}) : Met(uses[me.pipe][k])
        BY <1>2, <1>5, <2>2, <3>1 DEF Judged, Required
      <3>3. QED
        BY <1>3, <3>2 DEF Judged
    <2>3. QED
      BY <2>1, <2>2
  <1>8. d.stops => Blamed(d.pipe)'
    <2>1. CASE me.stops
      BY <1>3, <1>5, <2>1, Frame
    <2>2. CASE ShouldStop(s, v)
      <3>1. s.on_fail = "error" /\ (~Met(s) \/ s.binary \in lapsed')
        BY <1>6, <2>2 DEF ShouldStop
      <3>2. uses' = uses
        BY DEF given
      <3>3. n \in DOMAIN uses[d.pipe] /\ uses[d.pipe][n] = s
        BY <1>2, <1>3
      <3>4. \E k \in DOMAIN uses[d.pipe] : /\ uses[d.pipe][k].on_fail = "error"
                                           /\ ~Met(uses[d.pipe][k]) \/ uses[d.pipe][k].binary \in lapsed'
        BY <3>1, <3>3
      <3>5. \A x : Met(x)' <=> Met(x)
        BY DEF Met, given
      <3>6. QED
        BY <3>2, <3>4, <3>5 DEF Blamed
    <2>3. QED
      BY <1>3, <2>1, <2>2
  <1> HIDE DEF me, s, n
  <1>9. me.pipe = act[Main].pipe
    BY DEF me
  <1>10. QED
    BY <1>1, <1>3, <1>4, <1>5, <1>7, <1>8, <1>9, Frame DEF Verdict, Checks

\* Each step leaves the verdict what the checks so far have shown.
LEMMA VerdictStep == IInv /\ [Next]_vars => Verdict'
  <1> SUFFICES ASSUME IInv, [Next]_vars PROVE Verdict'
    OBVIOUS
  <1>1. /\ Given /\ Found /\ Acting /\ Phases /\ Cached /\ Verdict /\ UNCHANGED given
        /\ Main \in Actors /\ act = [a \in Actors |-> act[a]]
        /\ \A a \in Actors : ActorOK(act[a])
        /\ Idle.at = "idle" /\ (Checks' <=> Checks)
    BY GivenStep DEF IInv, Actors, Acting, Idle, Doing, given, Checks
  <1>2. ASSUME NEW a \in Actors, Run(a) PROVE Verdict'
    <2>1. CASE a = Main
      <3>1. phase = "import" /\ UNCHANGED mainVars
        BY <1>2, <2>1 DEF Run, MayRun
      <3>2. QED
        BY <1>1, <3>1 DEF Phases, Verdict, MainChecks, mainVars
    <2>2. CASE a # Main
      <3>1. act'[Main] = act[Main]
        BY <1>1, <1>2, <2>2 DEF Run
      <3>2. UNCHANGED <<mainVars, recorded, lapsed>>
        BY <1>2 DEF Run, toolVars
      <3>3. QED
        BY <1>1, <3>1, <3>2, VerdictKept
    <2>3. QED
      BY <2>1, <2>2
  <1>3. ASSUME NEW a \in Actors, Record(a) PROVE Verdict'
    <2>1. /\ act' = [act EXCEPT ![a] = Idle] /\ act[a].at = "record"
          /\ recorded' = recorded \cup {[by |-> a, pipe |-> act[a].pipe]}
          /\ UNCHANGED <<mainVars, lapsed>>
      BY <1>3 DEF Record, toolVars
    <2>2. CASE a = Main
      <3>1. phase = "import"
        BY <1>1, <2>1, <2>2 DEF Phases
      <3>2. QED
        BY <1>1, <2>1, <3>1 DEF Phases, Verdict, MainChecks, mainVars
    <2>3. CASE a # Main
      BY <1>1, <2>1, <2>3, VerdictKept
    <2>4. QED
      BY <2>2, <2>3
  <1>4. ASSUME NEW a \in Actors, Execute(a) PROVE Verdict'
    <2>1. a # Main /\ act' = [act EXCEPT ![a] = Idle] /\ UNCHANGED <<mainVars, recorded, lapsed>>
      BY <1>4 DEF Execute, toolVars
    <2>2. QED
      BY <1>1, <2>1, VerdictKept
  <1>5. ASSUME NEW a \in Actors, NEW v, Judge(a, v), UNCHANGED <<mainVars, recorded>>,
               lapsed \subseteq lapsed', act[a].at \in {"check", "probe"}, act[a].left # {},
               LET s == Tool(act[a])
               IN installed[s.binary] # Missing /\ s.clauses # {} =>
                    /\ v \in {installed[s.binary], Undetectable}
                    /\ v = Undetectable /\ installed[s.binary] # Undetectable
                         => s.binary \in lapsed'
        PROVE  Verdict'
    <2>1. CASE a = Main
      <3>1. phase = "check"
        BY <1>1, <1>5, <2>1 DEF Phases
      <3>2. QED
        BY <1>1, <1>5, <2>1, <3>1, VerdictJudged
    <2>2. CASE a # Main
      <3>1. act'[Main] = act[Main]
        BY <1>1, <1>5, <2>2 DEF Judge
      <3>2. QED
        BY <1>1, <1>5, <3>1, VerdictKept
    <2>3. QED
      BY <2>1, <2>2
  <1>6. ASSUME NEW a \in Actors, CheckTool(a) PROVE Verdict'
    <2>1. /\ act[a].at = "check" /\ act[a].left # {} /\ ~NeedsProbe(Tool(act[a]))
          /\ Judge(a, cache[Tool(act[a]).binary]) /\ UNCHANGED <<mainVars, recorded, lapsed>>
      BY <1>6 DEF CheckTool, HasNext, runVars, toolVars
    <2>2. Checks /\ Tool(act[a]).binary \in Binaries
      BY <1>1, <2>1, ToolIsCommand DEF ActorOK, Commands
    <2>3. PICK v : v = cache[Tool(act[a]).binary]
      OBVIOUS
    <2>4. installed[Tool(act[a]).binary] # Missing /\ Tool(act[a]).clauses # {} =>
            /\ v \in {installed[Tool(act[a]).binary], Undetectable}
            /\ v = Undetectable /\ installed[Tool(act[a]).binary] # Undetectable
                 => Tool(act[a]).binary \in lapsed'
      BY <1>1, <2>1, <2>2, <2>3 DEF NeedsProbe, Cached
    <2>5. QED
      BY <1>5, <2>1, <2>3, <2>4
  <1>7. ASSUME NEW a \in Actors, Probed(a) PROVE Verdict'
    <2>1. act[a].at = "probe" /\ act[a].left # {} /\ UNCHANGED <<mainVars, recorded>>
      BY <1>1, <1>7 DEF Probed, ActorOK, runVars
    <2>2. PICK v \in {installed[Tool(act[a]).binary], Undetectable} :
            /\ Judge(a, v)
            /\ lapsed' = IF v = installed[Tool(act[a]).binary] THEN lapsed
                         ELSE lapsed \cup {Tool(act[a]).binary}
      BY <1>7 DEF Probed
    <2>3. QED
      BY <1>5, <2>1, <2>2
  <1>8. ASSUME NEW a \in Actors, Probe(a) PROVE Verdict'
    <2>1. /\ act' = [act EXCEPT ![a] = Doing("probe", act[a].pipe, act[a].left, act[a].stops)]
          /\ act[a].at = "check" /\ UNCHANGED <<mainVars, recorded, lapsed>>
      BY <1>8 DEF Probe, HasNext, runVars, toolVars
    <2>2. CASE a = Main
      <3>1. act'[Main].at = "probe" /\ act'[Main].pipe = act[Main].pipe
            /\ act'[Main].left = act[Main].left /\ act'[Main].stops = act[Main].stops
        BY <1>1, <2>1, <2>2 DEF Doing
      <3>2. UNCHANGED <<phase, named, found, todo, failed, status, command>>
        BY <1>1, <2>1 DEF mainVars, given
      <3>3. MainChecks' <=> MainChecks
        BY <2>1, <2>2, <3>1, <3>2 DEF MainChecks
      <3>4. QED
        BY <1>1, <2>1, <3>1, <3>2, <3>3, Frame DEF Verdict, Checks
    <2>3. CASE a # Main
      BY <1>1, <2>1, <2>3, VerdictKept
    <2>4. QED
      BY <2>2, <2>3
  <1>9. ASSUME CheckPipeline PROVE Verdict'
    <2>1. PICK p \in todo :
            /\ todo' = todo \ {p}
            /\ act' = [act EXCEPT ![Main] = Checking(p, UniqueTools(uses[p]), FALSE)]
      BY <1>9 DEF CheckPipeline
    <2>2. /\ phase = "check" /\ act[Main].at = "idle"
          /\ UNCHANGED <<phase, named, found, failed, status, recorded, lapsed, command>>
      BY <1>1, <1>9 DEF CheckPipeline, runVars, toolVars, given
    <2>3. /\ act'[Main].at = "check" /\ act'[Main].pipe = p /\ act'[Main].stops = FALSE
          /\ act'[Main].left = UniqueTools(uses[p]) /\ p \in found
      BY <1>1, <2>1 DEF Checking, Doing, Found
    <2>4. Judged(p, UniqueTools(uses[p]))
      BY DEF Judged, Required
    <2>5. MainChecks' /\ ~MainChecks
      BY <2>2, <2>3 DEF MainChecks
    <2>6. QED
      BY <1>1, <2>1, <2>2, <2>3, <2>4, <2>5, Frame DEF Verdict, Checks
  <1>10. ASSUME Checked PROVE Verdict'
    <2>1. /\ phase = "check" /\ act[Main].at = "check" /\ act[Main].left = {}
          /\ failed' = (failed \/ act[Main].stops) /\ act'[Main] = Idle
          /\ UNCHANGED <<phase, named, found, todo, status, recorded, lapsed, command>>
      BY <1>1, <1>10 DEF Checked, runVars, toolVars, given
    <2>2. MainChecks /\ ~MainChecks'
      BY <1>1, <2>1 DEF MainChecks
    <2>3. QED
      BY <1>1, <2>1, <2>2, Frame DEF Verdict, Checks
  <1>11. ASSUME Exit PROVE Verdict'
    <2>1. /\ phase = "check" /\ phase' = "over" /\ act' = act /\ act[Main].at = "idle" /\ todo = {}
          /\ status' = IF failed THEN 1 ELSE 0
          /\ UNCHANGED <<named, found, todo, failed, recorded, lapsed, command>>
      BY <1>1, <1>11 DEF Exit, Exits, runVars, toolVars, given
    <2>2. ~MainChecks /\ ~MainChecks'
      BY <2>1 DEF MainChecks
    <2>3. QED
      BY <1>1, <2>1, <2>2, Frame DEF Verdict, Checks
  <1>12. ASSUME Collect PROVE Verdict'
    <2>1. /\ phase = "collect" /\ phase' = "check" /\ act' = act /\ act[Main].at = "idle"
          /\ found' = named \cup {r.pipe : r \in recorded} /\ todo' = found'
          /\ UNCHANGED <<named, failed, recorded, lapsed>> /\ failed = FALSE
      BY <1>1, <1>12 DEF Collect, runVars, toolVars, Phases
    <2>2. ~MainChecks'
      BY <2>1 DEF MainChecks
    <2>3. QED
      BY <1>1, <2>1, <2>2 DEF Verdict
  <1>13. ASSUME Explain \/ Compile \/ Load PROVE Verdict'
    <2>1. /\ phase = "start" /\ phase' \in {"import", "over"} /\ failed' = FALSE
          /\ found' = {} /\ named' = {} /\ recorded' = {}
          /\ (phase' = "over" /\ Checks => status' = 1)
      BY <1>1, <1>13 DEF Explain, Compile, Load, Exits, Phases, Checks, runVars
    <2>2. ~MainChecks'
      BY <2>1 DEF MainChecks
    <2>3. QED
      BY <1>1, <2>1, <2>2 DEF Verdict
  <1>14. ASSUME Define \/ LeaveBlock PROVE Verdict'
    <2>1. phase' \in {"import", "collect"} /\ failed' = FALSE
      BY <1>1, <1>14 DEF Define, LeaveBlock, Phases
    <2>2. QED
      BY <2>1 DEF Verdict, MainChecks
  <1>15. ASSUME UNCHANGED vars PROVE Verdict'
    BY <1>1, <1>15, VerdictKept DEF vars, runVars, toolVars
  <1>16. QED
    BY <1>2, <1>3, <1>4, <1>6, <1>7, <1>8, <1>9, <1>10, <1>11, <1>12, <1>13, <1>14, <1>15 DEF Next

\* The inductive invariant holds in every behaviour of the command line.
THEOREM Invariance == Spec => []IInv
  <1>1. Init => IInv
    BY InitInv
  <1>2. IInv /\ [Next]_vars => IInv'
    BY GivenStep, FoundStep, CachedStep, ActingStep, PhasesStep, VerdictStep DEF IInv
  <1>3. QED
    BY <1>1, <1>2, PTL DEF Spec

-----------------------------------------------------------------------------
(* What follows from it *)

\* The import executes nothing, however many threads the script starts.
THEOREM ImportIsDry == Spec => []ImportExecutesNothing
  <1>1. IInv => ImportExecutesNothing
    BY DEF IInv, Phases, ImportExecutesNothing
  <1>2. QED
    BY <1>1, Invariance, PTL

\* A script that `check` passes has the tools it cannot do without, in the versions that it
\* asks for.
THEOREM GateIsSound == Spec => []GateHolds
  <1>1. ASSUME IInv, command = "check", phase = "over", status = 0,
               NEW p \in named \cup {r.pipe : r \in {q \in recorded : q.by = Main}},
               NEW k \in DOMAIN uses[p], uses[p][k].on_fail = "error",
               \A j \in 1 .. k - 1 : uses[p][j].binary # uses[p][k].binary
        PROVE  Met(uses[p][k])
    <2>1. p \in found /\ ~failed /\ todo = {} /\ ~MainChecks
      BY <1>1 DEF IInv, Verdict, Checks, MainChecks
    <2>2. Judged(p, {})
      BY <1>1, <2>1 DEF IInv, Verdict
    <2>3. k \in Required(p)
      BY <1>1 DEF Required, UniqueTools
    <2>4. QED
      BY <2>2, <2>3 DEF Judged
  <1>2. IInv => GateHolds
    BY <1>1 DEF GateHolds
  <1>3. QED
    BY <1>2, Invariance, PTL

\* A script that `check` rejects lacks a tool, or a probe has told nothing.
THEOREM FailureHasCause == Spec => []FailsForCause
  <1>1. IInv => FailsForCause
    BY DEF IInv, Verdict, Blamed, FailsForCause, Checks
  <1>2. QED
    BY <1>1, Invariance, PTL

\* What `explain` prints is what a run says of the same exit, for every return code.
THEOREM ExplainsEveryCode == Spec => []ExplainsCodes
  <1> DEFINE Said == /\ code \in Int \cup {Invalid}
                     /\ command = "explain" => phase \in {"start", "over"}
                     /\ command = "explain" /\ phase = "over" /\ status = 0
                          => code \in Int /\ said = explain_code(error_code(code))
  <1>1. Init => Said
    BY CommandLineAssumption DEF Init
  <1>2. ASSUME Said, [Next]_vars PROVE Said'
    <2>1. UNCHANGED <<code, command>>
      BY <1>2 DEF Next, vars, given, Explain, Compile, Load, Define, LeaveBlock, Collect,
              CheckPipeline, Checked, Exit, Run, Record, Execute, CheckTool, Probe, Probed
    <2>2. CASE Explain
      BY <1>2, <2>1, <2>2 DEF Explain, Exits
    <2>3. CASE Compile \/ Load
      BY <1>2, <2>1, <2>3 DEF Compile, Load
    <2>4. CASE Exit
      BY <1>2, <2>1, <2>4 DEF Exit
    <2>5. CASE UNCHANGED <<phase, status, said>>
      BY <1>2, <2>1, <2>5
    <2>6. CASE Define \/ LeaveBlock \/ Collect
      BY <1>2, <2>1, <2>6 DEF Define, LeaveBlock, Collect
    <2>7. QED
      BY <1>2, <2>2, <2>3, <2>4, <2>5, <2>6
         DEF Next, vars, mainVars, CheckPipeline, Checked, Run, Record, Execute, CheckTool, Probe,
             Probed
  <1>3. ASSUME Said PROVE ExplainsCodes
    BY <1>3, SignalsAssumption
       DEF ExplainsCodes, explain_exit, explain_code, error_code, split_returncode, EXIT_CODES, Unknown
  <1> HIDE DEF Said
  <1>4. QED
    BY <1>1, <1>2, <1>3, PTL DEF Spec
=============================================================================
