------------------------------ MODULE MCMirror ------------------------------
(***************************************************************************)
(* Mirror for two incarnations of the host's session.  Their epochs 0 .. 2 *)
(* have room for a resume before or after the close, and their two         *)
(* messages each for an arrival in the wrong order; the second join lets a *)
(* task or a teardown of the first mirror meet the second one.             *)
(***************************************************************************)
EXTENDS Mirror
=============================================================================
