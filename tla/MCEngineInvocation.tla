------------------------- MODULE MCEngineInvocation -------------------------
(* Small instances of EngineInvocation for TLC. *)
EXTENDS EngineInvocation, TLC

CONSTANTS n1, n2, w1, w2, w3

\* One run at a time on each node: the worker slot is named like its node,
\* so that renaming nodes renames both.
OnePerNode == [n \in Nodes |-> n]

\* Two runs at a time on one node, one on the other.
TwoAndOne == w1 :> n1 @@ w2 :> n1 @@ w3 :> n2

\* Sound where no control row names its node.
Symmetric == Permutations(Nodes)
=============================================================================
