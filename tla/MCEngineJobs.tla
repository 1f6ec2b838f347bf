---------------------------- MODULE MCEngineJobs ----------------------------
(* Small instances of EngineJobs for TLC. *)
EXTENDS EngineJobs, TLC

CONSTANTS c1, c2, c3, r1, r2

\* Two calls for one request, and one for another.
TwoAndOne == c1 :> r1 @@ c2 :> r1 @@ c3 :> r2

\* Two calls that follow or join each other, nothing else.
Two == c1 :> r1 @@ c2 :> r1
=============================================================================
