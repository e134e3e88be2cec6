--------------------------- MODULE MCLiveConsole ---------------------------
(* An instance of LiveConsole for TLC. *)
EXTENDS LiveConsole

CONSTANTS j1, j2, s1, s2, s3

TwoInOne == (s1 :> j1) @@ (s2 :> j1) @@ (s3 :> j2)    \* unit="job"

FourTwoOne == (s1 :> 4) @@ (s2 :> 2) @@ (s3 :> 1)
=============================================================================
