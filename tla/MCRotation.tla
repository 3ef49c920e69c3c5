----------------------------- MODULE MCRotation -----------------------------
(* Instances of Rotation for TLC. *)
EXTENDS Rotation

CONSTANTS p1, p2

Said(k, p) == [kind |-> k, peer |-> p]

(* p1 joined with Read and was promoted, p2 was admitted with ReadWrite. *)
PastBoth == <<Said("grant", p1), Said("grant", p2), Said("announce", p2)>>
AllSends == [kind : {"grant", "demote", "revoke"}, peer : Peers]
SomeSends == {Said("revoke", p1), Said("grant", p1), Said("revoke", p2), Said("demote", p2)}

(* Two messages and no failure; one message and two failures. *)
MCScenarios == {[sends |-> SomeSends, log |-> 5, faults |-> 0],
                [sends |-> AllSends, log |-> 4, faults |-> 2]}
=============================================================================
