------------------------------ MODULE MCFsStore ------------------------------
(***************************************************************************)
(* One session id with two lives, one message and one attachment in each,  *)
(* a ledger written twice, and one I/O error or crash at any write: the    *)
(* smallest instance with a second life that could inherit from the first. *)
(***************************************************************************)
EXTENDS FsStore
=============================================================================
