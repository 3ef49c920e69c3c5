----------------------------- MODULE DurableLog -----------------------------
(***************************************************************************)
(* What a session's log promises the host daemon's callers: an append-only *)
(* sequence in which every acknowledged message stays, at the position it  *)
(* was acknowledged with.  A request whose caller got no answer (the       *)
(* daemon died before replying) may or may not have made it in; a request  *)
(* that was answered with an error did not.                                *)
(*                                                                         *)
(* HostLog (Registry::send over FsLogStore) is shown to implement it.      *)
(***************************************************************************)
EXTENDS Naturals, Sequences

CONSTANT Calls          \* the Send requests clients issue

VARIABLES entries,      \* the logged calls; position = assigned seq
          acked,        \* calls answered Ok
          rejected      \* calls answered with an error

absVars == <<entries, acked, rejected>>

Logged(c) == \E i \in 1 .. Len(entries) : entries[i] = c

Fresh(c) == c \notin acked \cup rejected /\ ~Logged(c)

AbsInit == entries = <<>> /\ acked = {} /\ rejected = {}

Commit(c) ==
  /\ Fresh(c)
  /\ entries' = Append(entries, c)
  /\ acked' = acked \cup {c}
  /\ UNCHANGED rejected

\* The log has the call, its caller never hears of it.
CommitUnanswered(c) ==
  /\ Fresh(c)
  /\ entries' = Append(entries, c)
  /\ UNCHANGED <<acked, rejected>>

Reject(c) ==
  /\ Fresh(c)
  /\ rejected' = rejected \cup {c}
  /\ UNCHANGED <<entries, acked>>

AbsNext == \E c \in Calls : Commit(c) \/ CommitUnanswered(c) \/ Reject(c)

AbsSpec == AbsInit /\ [][AbsNext]_absVars
=============================================================================
