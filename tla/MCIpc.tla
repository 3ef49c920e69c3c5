-------------------------------- MODULE MCIpc --------------------------------
(***************************************************************************)
(* Every queue holds one element, so each of them fills up.  A client that *)
(* subscribes and ends its session, with its calls one by one and two at a *)
(* time; one that subscribes again while a message comes and the session   *)
(* is closed elsewhere; one that leaves and goes on using the session; and *)
(* one whose calls overlap and are cancelled while the daemon stops or the *)
(* client dies.                                                            *)
(***************************************************************************)
EXTENDS Ipc

Script(calls, width, events, trouble) ==
  [calls |-> calls, width |-> width, events |-> events, trouble |-> trouble]

MCScripts ==
  { Script(<<"host", "subscribe", "leave">>, 1, 1, 1),
    Script(<<"host", "subscribe", "leave">>, 2, 0, 1),
    Script(<<"join", "subscribe", "subscribe">>, 1, 1, 1),
    Script(<<"host", "gated", "leave", "send">>, 1, 0, 1),
    Script(<<"plain", "hello">>, 2, 0, 2) }
=============================================================================
