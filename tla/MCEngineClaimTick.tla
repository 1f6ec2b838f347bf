------------------------- MODULE MCEngineClaimTick -------------------------
(* Small instances of EngineClaimTick for TLC. *)
EXTENDS EngineClaimTick, TLC

CONSTANTS n1, n2, r1, r2, r3, e1, e2

Ranked == n1 :> 1 @@ n2 :> 2
Ordered == r1 :> 1 @@ r2 :> 2 @@ r3 :> 3
One == e1 :> 1 @@ e2 :> 1

\* The request in front is for an engine nobody installed; both nodes have
\* the engine of the other two.
Missing == r1 :> e2 @@ r2 :> e1 @@ r3 :> e1
Everywhere == n1 :> {e1} @@ n2 :> {e1}

\* One node is not fit to run them, the other has not published yet.
Fresh == {n1 :> Unfit @@ n2 :> Absent}

\* Only n1 has the engine of the request in front, both have the other.
Two == r1 :> 1 @@ r2 :> 2
Apart == r1 :> e2 @@ r2 :> e1
Split == n1 :> {e1, e2} @@ n2 :> {e1}
=============================================================================
