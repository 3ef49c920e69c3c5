----------------------------- MODULE MCFileSync -----------------------------
(***************************************************************************)
(* One file, an empty content and three others; the user and the peers     *)
(* write different contents of one length. The nodes: a plain host on      *)
(* Linux and a plain joiner on macOS, and for each role a node that holds  *)
(* the path read-only, one that excludes it and one whose size cap lies    *)
(* below what the peer publishes. One user edit, two peer edits (a delete  *)
(* and a re-creation, in either order), one restart and one failure, at    *)
(* any point, let each task be overtaken by the other; the plain host has  *)
(* either the second peer edit or the failure, and the capped nodes have   *)
(* one peer edit.                                                          *)
(***************************************************************************)
EXTENDS FileSync, TLC

CONSTANTS f1, e0, c1, c2, c3

MCLength == (e0 :> 0) @@ (c1 :> 1) @@ (c2 :> 2) @@ (c3 :> 2)

Node(role, os) == [role |-> role, os |-> os, rules |-> <<>>, default |-> "ReadWrite",
                   exclude |-> {}, cap |-> 2,
                   max |-> [edits |-> 1, peer |-> 2, trouble |-> 1]]
Plain == {Node("host", "linux"), Node("joiner", "macos")}
LocalRules == <<[glob |-> {f1}, mode |-> "ReadOnly"], [glob |-> {f1}, mode |-> "ReadWrite"]>>
Busy(n)  == [n EXCEPT !.max.trouble = 0]
Frail(n) == [n EXCEPT !.max.peer = 1]
MCConfigs ==
  UNION {IF n.role = "host" THEN {Busy(n), Frail(n)} ELSE {n} : n \in Plain}
    \cup {[n EXCEPT !.rules = LocalRules] : n \in Plain}
    \cup {[n EXCEPT !.exclude = {f1}] : n \in Plain}
    \cup {[Frail(n) EXCEPT !.cap = 1] : n \in Plain}
=============================================================================
