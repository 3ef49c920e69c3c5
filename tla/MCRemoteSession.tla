--------------------------- MODULE MCRemoteSession ---------------------------
(***************************************************************************)
(* Two connections of one daemon and three requests between them: two      *)
(* joins that race and a send, or a join, a leave and a join again, while  *)
(* the host closes the session once and the daemon dies once.              *)
(***************************************************************************)
EXTENDS RemoteSession
=============================================================================
