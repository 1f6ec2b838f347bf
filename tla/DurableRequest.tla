--------------------------- MODULE DurableRequest ---------------------------
(***************************************************************************)
(* What the durable queue promises about one request, without attempts,    *)
(* leases, transactions or messages: it waits, a node holds it, it goes    *)
(* back to waiting or is settled, and in the end it is forgotten.          *)
(***************************************************************************)
CONSTANTS Nodes, NoNode

VARIABLES phase,   \* "none", "waiting", "held", "settled" or "forgotten"
          holder,  \* the node that holds it
          outcome  \* how it was settled

dvars == <<phase, holder, outcome>>

Init == phase = "none" /\ holder = NoNode /\ outcome = "none"

Submit == /\ phase = "none"
          /\ phase' = "waiting"
          /\ UNCHANGED <<holder, outcome>>

\* A node takes a waiting request, or takes it over from its holder.
Take == /\ phase \in {"waiting", "held"}
        /\ phase' = "held" /\ holder' \in Nodes
        /\ UNCHANGED outcome

GiveBack == /\ phase = "held"
            /\ phase' = "waiting" /\ holder' = NoNode
            /\ UNCHANGED outcome

\* Only a held request is completed.
Settle == /\ phase = "held"
          /\ outcome' \in {"completed", "cancelled", "dead_letter"}
          /\ phase' = "settled" /\ holder' = NoNode

\* A waiting one is cancelled, or given up because nobody can run it.
Withdraw == /\ phase = "waiting"
            /\ outcome' \in {"cancelled", "dead_letter"}
            /\ phase' = "settled" /\ UNCHANGED holder

\* The administrative failure may still turn a settled request into a dead
\* letter; nothing else changes an outcome.
Condemn == /\ phase = "settled" /\ outcome' = "dead_letter"
           /\ UNCHANGED <<phase, holder>>

Forget == /\ phase = "settled"
          /\ phase' = "forgotten" /\ outcome' = "none"
          /\ UNCHANGED holder

Next == Submit \/ Take \/ GiveBack \/ Settle \/ Withdraw \/ Condemn \/ Forget

Spec == Init /\ [][Next]_dvars
=============================================================================
