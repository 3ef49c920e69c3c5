---------------------------- MODULE MCWorkspace ----------------------------
(***************************************************************************)
(* Three kinds of behaviour.  Bring-up: two attempts, the second overlaps  *)
(* whatever the first left behind, with two faults of any kind and a       *)
(* connection that parks in a hook.  Hand-over: a handle is shut down, or  *)
(* let go, while the next one is built, with one fault.  Life: one handle, *)
(* two shutdown callers, one rotation signal, a parked connection and one  *)
(* fault.                                                                  *)
(***************************************************************************)
EXTENDS Workspace

CONSTANTS c1, c2

MCScenarios ==
    { [attempts |-> 2, callers |-> {}, faults |-> 2, conns |-> 1, signals |-> 0],
      [attempts |-> 2, callers |-> {c1}, faults |-> 1, conns |-> 0, signals |-> 0],
      [attempts |-> 1, callers |-> {c1, c2}, faults |-> 1, conns |-> 1, signals |-> 1] }
=============================================================================
