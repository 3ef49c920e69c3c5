------------------------------ MODULE MCDaemon ------------------------------
(***************************************************************************)
(* Three PIDs let a stopping daemon, a contender holding its unlinked file *)
(* and a third starter meet.  Two callers race to spawn under one trouble; *)
(* without callers two troubles pair a crash with a power loss, a recycled *)
(* PID or a stop command over three starts.  Two peers for one entry make  *)
(* the address cache overflow.                                             *)
(***************************************************************************)
EXTENDS Daemon

MCBudgets ==
  {[callers |-> Clients, launches |-> 2, trouble |-> 1, peers |-> {}],
   [callers |-> {}, launches |-> 3, trouble |-> 2, peers |-> {}],
   [callers |-> {}, launches |-> 2, trouble |-> 2, peers |-> Peers]}
=============================================================================
