----------------------------- MODULE MCCapFeed -----------------------------
(* CapFeed for TLC.                                                        *)
EXTENDS CapFeed, TLC

Grant(p, c) == [kind |-> "grant", peer |-> p, cap |-> c]
Revoke(p)   == [kind |-> "revoke", peer |-> p, cap |-> "Read"]

PeerActions == {Grant(p, "ReadWrite") : p \in Peers} \cup {Revoke(p) : p \in Peers}
=============================================================================
