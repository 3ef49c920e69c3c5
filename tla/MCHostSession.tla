---------------------------- MODULE MCHostSession ----------------------------
(* HostSession for TLC: tickets are 1, 2, ...; odd ones grant ReadWrite.   *)
EXTENDS HostSession, TLC

MCTicketCap == [t \in Tickets |-> IF t % 2 = 1 THEN "ReadWrite" ELSE "Read"]

Grant(p, c) == [kind |-> "grant", peer |-> p, cap |-> c]
Revoke(p)   == [kind |-> "revoke", peer |-> p, cap |-> "Read"]

\* A grant and a revoke of each peer, and an action aimed at the host itself.
MCCapActions == {Grant(p, "ReadWrite") : p \in Peers}
                \cup {Revoke(p) : p \in {Host} \cup Peers}

Goes(stale, partial, late, drawn, n, deaths) ==
  [stale |-> stale, partial |-> partial, late |-> late, drawn |-> drawn,
   log |-> n, crashes |-> deaths]

\* Nothing goes wrong but a crash; writes are reported failed; operations
\* outlive a leave; deletes stop half way; and these together over the ticket
\* ledger alone.  Each of the faults has a scenario with room in the log for
\* a write that nothing in the file authorises.
MCScenarios == {Goes(FALSE, FALSE, FALSE, {1, 2}, 2, 1),
                Goes(FALSE, FALSE, TRUE, {1, 2}, 1, 1),
                Goes(FALSE, FALSE, TRUE, {1}, 4, 0),
                Goes(TRUE, FALSE, FALSE, {1, 2}, 1, 1),
                Goes(TRUE, FALSE, FALSE, {1, 2}, 2, 0),
                Goes(FALSE, TRUE, FALSE, {1, 2}, 1, 1),
                Goes(FALSE, TRUE, FALSE, {1}, 2, 1),
                Goes(TRUE, TRUE, TRUE, {1, 2}, 0, 1),
                Goes(TRUE, FALSE, TRUE, {1, 2, 3}, 0, 0)}
=============================================================================
