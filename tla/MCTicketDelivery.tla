-------------------------- MODULE MCTicketDelivery --------------------------
(***************************************************************************)
(* One peer, two publishes, two deliveries of two attempts each and one    *)
(* accept slot: enough for a newer envelope to overtake an older one, for a *)
(* signal to meet a full accept cap, and for a close, a re-host or a       *)
(* restart of the host in between.                                         *)
(***************************************************************************)
EXTENDS TicketDelivery
=============================================================================
