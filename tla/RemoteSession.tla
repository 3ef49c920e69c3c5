--------------------------- MODULE RemoteSession ---------------------------
(***************************************************************************)
(* A joiner daemon's side of one remote session: concurrent joins of it,   *)
(* leaves, sends, the gossip subscription they share, and the host's       *)
(* answers.                                                                *)
(*                                                                         *)
(* Every IPC connection is served by one task, which handles one request   *)
(* after another.  A step of a task is what it does between two awaits, or *)
(* under one lock.  What the tasks share is keyed by the session id alone: *)
(* the registry's map, the directory, the pending-join entry and the       *)
(* bridge's slot each hold whatever was put there last.                    *)
(*                                                                         *)
(* A request that subscribes reserves the slot under a generation of its   *)
(* own; the request's number stands for the generation.                    *)
(***************************************************************************)
EXTENDS Naturals, Sequences, FiniteSets

CONSTANTS Tasks,         \* IPC connections of the joiner daemon
          MaxRequests, MaxCrashes, MaxCloses, MaxAppends     \* bounds

ASSUME RemoteSessionAssumption ==
  /\ IsFiniteSet(Tasks)
  /\ {MaxRequests, MaxCrashes, MaxCloses, MaxAppends} \subseteq Nat

VARIABLES sessions,  \* the mirror the map holds under the session id, 0: none
          mirrors,   \* every mirror made: is the local peer a member, the outcome
                     \* posted on its claim's watch channel, and (history) was it
                     \* taken out of the map across another request
          dir,       \* the session directory, and the membership in meta.json
          pending,   \* pending_remote_joins: the claim in flight, 0: none
          slot,      \* SessionSlots: the state and the request that reserved it
          fwds,      \* running forwarder tasks: who spawned it, whom it feeds
          task,      \* the request each connection is handling
          conn,      \* memberships of the connection: has it joined
          closing,   \* a host_closed_session under way in a forwarder
          told,      \* the answer to each connection's last request
          host,      \* the host: is the joiner a member, its log of requests, and
                     \* (history) the requests it handled more than once
          net,       \* frames on the topic: announcements, requests, answers
          requests, crashes, closes

vars == <<sessions, mirrors, dir, pending, slot, fwds, task, conn, closing, told,
          host, net, requests, crashes, closes>>

Ids == 1 .. MaxRequests

NoDir   == [there |-> FALSE, member |-> FALSE]
NoSlot  == [state |-> "none", by |-> 0]
NoClose == [by |-> 0, mir |-> 0, pc |-> "none"]
Idle    == [pc |-> "idle", op |-> "none", id |-> 0, mir |-> 0, wait |-> 0,
            retried |-> FALSE]
Frame(type, i, try) == [type |-> type, id |-> i, try |-> try]
Announcement == Frame("announce", 0, FALSE)
Untold  == [op |-> "none", id |-> 0, result |-> "none"]

Init ==
  /\ sessions = 0 /\ mirrors = <<>> /\ dir = NoDir /\ pending = 0
  /\ slot = NoSlot /\ fwds = {}
  /\ task = [t \in Tasks |-> Idle] /\ conn = [t \in Tasks |-> FALSE]
  /\ closing = NoClose /\ told = [t \in Tasks |-> Untold]
  /\ host = [member |-> FALSE, log |-> <<>>, repeated |-> {}] /\ net = {}
  /\ requests = 0 /\ crashes = 0 /\ closes = 0
-----------------------------------------------------------------------------
(* Requests and answers                                                    *)

At(t, pc)    == task[t].pc = pc
Goto(t, pc)  == task' = [task EXCEPT ![t].pc = pc]
bounds       == <<crashes, closes>>
shared       == <<sessions, mirrors, dir, pending, slot, fwds>>
hostVars     == <<host, net>>

\* The handler returns and the connection's loop sends the response
Answer(t, result) ==
  /\ task' = [task EXCEPT ![t] = Idle]
  /\ told' = [told EXCEPT ![t] = [op |-> task[t].op, id |-> task[t].id,
                                  result |-> result]]

Same == UNCHANGED <<closing, hostVars, requests, bounds>>
Silent == UNCHANGED <<conn, told>> /\ Same

Begin(t, op, pc, m) ==
  /\ At(t, "idle") /\ requests < MaxRequests
  /\ requests' = requests + 1
  /\ task' = [task EXCEPT ![t] = [Idle EXCEPT !.pc = pc, !.op = op,
                                              !.id = requests + 1, !.mir = m]]
  /\ told' = [told EXCEPT ![t] = Untold]
  /\ UNCHANGED <<shared, conn, closing, hostVars, bounds>>
-----------------------------------------------------------------------------
(* Registry::join                                                          *)

\* A mirror found in the map is used as it is, in flight or not
JoinStart(t) ==
  Begin(t, "join", IF sessions = 0 THEN "claim" ELSE "enroll", sessions)

\* claim_remote_mirror's check under the read lock
ClaimRead(t) ==
  /\ At(t, "claim")
  /\ task' = [task EXCEPT ![t].pc = IF sessions = 0 THEN "create" ELSE "adopt",
                          ![t].mir = sessions]
  /\ UNCHANGED shared /\ Silent

\* store.create, outside the map's lock: meta.json is written anew, with the host
\* as the only member
ClaimCreate(t, ok) ==
  /\ At(t, "create")
  /\ IF ok
     THEN /\ dir' = [there |-> TRUE, member |-> FALSE]
          /\ Goto(t, "insert") /\ UNCHANGED told
     ELSE Answer(t, "failed") /\ UNCHANGED dir
  /\ UNCHANGED <<sessions, mirrors, pending, slot, fwds, conn>> /\ Same

Fresh == [member |-> FALSE, outcome |-> "open", taken |-> FALSE]

\* The map entry and the pending-join entry, under one hold of the write lock
Insert(t) ==
  /\ mirrors' = Append(mirrors, Fresh)
  /\ sessions' = Len(mirrors) + 1 /\ pending' = Len(mirrors) + 1
  /\ task' = [task EXCEPT ![t].pc = "reserve", ![t].mir = Len(mirrors) + 1]

\* The check under the write lock, with the insert and the pending entry
ClaimInsert(t) ==
  /\ At(t, "insert")
  /\ IF sessions = 0
     THEN Insert(t)
     ELSE /\ task' = [task EXCEPT ![t].pc = "adopt", ![t].mir = sessions]
          /\ UNCHANGED <<sessions, mirrors, pending>>
  /\ UNCHANGED <<dir, slot, fwds>> /\ Silent

\* adopt_claim reads the pending entry after the map's lock is dropped
Adopt(t) ==
  /\ At(t, "adopt")
  /\ task' = [task EXCEPT ![t].pc = IF pending = 0 THEN "enroll" ELSE "wait",
                          ![t].wait = pending]
  /\ UNCHANGED shared /\ Silent

\* await_claimant_outcome
Await(t) ==
  /\ At(t, "wait") /\ mirrors[task[t].wait].outcome # "open"
  /\ IF mirrors[task[t].wait].outcome = "ok"
     THEN Goto(t, "enroll") /\ UNCHANGED told
     ELSE Answer(t, "failed")
  /\ UNCHANGED <<shared, conn>> /\ Same

\* Mutant: the guard forgets its entry without posting on the channel.
PostNothing(m, outcome) == UNCHANGED mirrors /\ pending' = 0

\* RemoteJoinGuard::finish, or its Drop: the entry is removed by session id
Post(m, outcome) ==
  /\ mirrors' = [mirrors EXCEPT ![m].outcome = outcome]
  /\ pending' = 0

FinishOk(t) ==
  /\ At(t, "finish") /\ Post(task[t].mir, "ok") /\ Goto(t, "enroll")
  /\ UNCHANGED <<sessions, dir, slot, fwds>> /\ Silent

\* A request of others is about to feed the mirror that the map shows
Subscribing(others) ==
  \E u \in others : /\ task[u].mir = sessions
                    /\ task[u].pc \in {"reserve", "subscribe", "finalize"}

\* The map entry is removed by session id, whichever mirror it has become
RemoveEntry(mine, crossed) ==
  /\ sessions' = 0
  /\ mirrors' = IF sessions = 0 \/ (sessions = mine /\ ~crossed) THEN mirrors
                ELSE [mirrors EXCEPT ![sessions].taken = TRUE]

\* rollback_remote_mirror: the map entry, by session id, then the directory
Rollback(t) ==
  /\ At(t, "rollback") /\ Goto(t, "undo")
  /\ RemoveEntry(task[t].mir, Subscribing(Tasks \ {t}) \/ slot # NoSlot)
  /\ UNCHANGED <<dir, pending, slot, fwds>> /\ Silent

RollbackDelete(t, deleted) ==
  /\ At(t, "undo") /\ dir' = (IF deleted THEN NoDir ELSE dir) /\ Goto(t, "undone")
  /\ UNCHANGED <<sessions, mirrors, pending, slot, fwds>> /\ Silent

FinishFailed(t) ==
  /\ At(t, "undone") /\ Post(task[t].mir, "failed") /\ Answer(t, "failed")
  /\ UNCHANGED <<sessions, dir, slot, fwds, conn>> /\ Same

\* The end of join, under the mirror's lock.  add_member reads meta.json and so
\* fails when the directory is gone.
Enroll(t, stored) ==
  /\ At(t, "enroll")
  /\ LET m == task[t].mir
         done == mirrors[m].member \/ stored IN
     /\ stored => dir.there /\ ~mirrors[m].member
     /\ mirrors' = [mirrors EXCEPT ![m].member = done]
     /\ dir' = [dir EXCEPT !.member = @ \/ stored]
     /\ conn' = [conn EXCEPT ![t] = @ \/ done]
     /\ Answer(t, IF done THEN "ok" ELSE "failed")
  /\ UNCHANGED <<sessions, pending, slot, fwds>> /\ Same
-----------------------------------------------------------------------------
(* subscribe_inner, under join_session and resubscribe_session             *)

\* A slot that is reserved or live already makes the subscribe a no-op
Reserve(t) ==
  /\ At(t, "reserve")
  /\ IF slot.state = "none"
     THEN slot' = [state |-> "reserved", by |-> task[t].id] /\ Goto(t, "subscribe")
     ELSE Goto(t, "publish") /\ UNCHANGED slot
  /\ UNCHANGED <<sessions, mirrors, dir, pending, fwds>> /\ Silent

MyForwarder(t) == [by |-> task[t].id, mir |-> task[t].mir]
OursReserved(t) == slot = [state |-> "reserved", by |-> task[t].id]

\* A neighbor joined within JOIN_READY_TIMEOUT: the forwarder is spawned
Neighbor(t) ==
  /\ At(t, "subscribe") /\ fwds' = fwds \cup {MyForwarder(t)} /\ Goto(t, "finalize")
  /\ UNCHANGED <<sessions, mirrors, dir, pending, slot>> /\ Silent

\* It did not: the reservation is dropped, which frees the slot if it still is ours
NoNeighbor(t) ==
  /\ At(t, "subscribe")
  /\ slot' = IF OursReserved(t) THEN NoSlot ELSE slot
  /\ IF task[t].op = "join" THEN Goto(t, "rollback") /\ UNCHANGED told
                            ELSE Answer(t, "failed")
  /\ UNCHANGED <<sessions, mirrors, dir, pending, fwds, conn>> /\ Same

\* SlotReservation::finalize; a superseded subscribe aborts its forwarder
Finalized(t) ==
  IF OursReserved(t)
  THEN slot' = [state |-> "live", by |-> task[t].id] /\ UNCHANGED fwds
  ELSE fwds' = fwds \ {MyForwarder(t)} /\ UNCHANGED slot

Finalize(t) ==
  /\ At(t, "finalize") /\ Finalized(t) /\ Goto(t, "publish")
  /\ UNCHANGED <<sessions, mirrors, dir, pending>> /\ Silent

\* publish_join_announcement after a join, dropped when the slot is not live.  The
\* replay requested here and after a re-subscribe adds nothing to this model.
PublishPresence(t) ==
  /\ At(t, "publish")
  /\ net' = IF slot.state = "live" /\ task[t].op = "join"
            THEN net \cup {Announcement} ELSE net
  /\ Goto(t, IF task[t].op = "join" THEN "finish" ELSE "send")
  /\ UNCHANGED <<shared, conn, told, closing, host, requests, bounds>>

\* Mutant: the slot is freed but its forwarder keeps running.
ForgetSlot == slot' = NoSlot /\ UNCHANGED fwds

\* forget_session: the slot whoever holds it, and the forwarder of a live one
Forget ==
  /\ slot' = NoSlot
  /\ fwds' = IF slot.state = "live" THEN {f \in fwds : f.by # slot.by} ELSE fwds
-----------------------------------------------------------------------------
(* Leaving, and being closed by the host                                   *)

\* The connection's memberships gate the request, and leave looks the session up
LeaveStart(t) == conn[t] /\ Begin(t, "leave", "leave", sessions)

\* leave under the mirror's lock; a failed leave keeps the connection's membership
Leave(t, deleted) ==
  /\ At(t, "leave")
  /\ LET m == task[t].mir IN
     IF m # 0 /\ deleted
     THEN /\ mirrors[m].member
          /\ mirrors' = [mirrors EXCEPT ![m].member = FALSE]
          /\ dir' = NoDir /\ Goto(t, "unmap") /\ UNCHANGED told
     ELSE UNCHANGED <<mirrors, dir>> /\ Answer(t, "failed")
  /\ UNCHANGED <<sessions, pending, slot, fwds, conn>> /\ Same

Unmap(t) ==
  /\ At(t, "unmap") /\ Goto(t, "forget")
  /\ RemoveEntry(task[t].mir, Subscribing(Tasks \ {t}))
  /\ UNCHANGED <<dir, pending, slot, fwds>> /\ Silent

\* Aborting a forwarder ends the close it is in the middle of, at its next await
LeaveForget(t) ==
  /\ At(t, "forget") /\ Forget
  /\ \/ UNCHANGED closing
     \/ closing.pc = "unmap" /\ closing.by \notin {f.by : f \in fwds'}
        /\ closing' = NoClose
  /\ conn' = [conn EXCEPT ![t] = FALSE] /\ Answer(t, "ok")
  /\ UNCHANGED <<sessions, mirrors, dir, pending, hostVars, requests, bounds>>

Closer == UNCHANGED <<pending, task, conn, told, hostVars, requests, crashes>>

\* host_closed_session up to the unlock
HearClose(f) ==
  /\ f \in fwds /\ closing = NoClose /\ sessions # 0 /\ closes < MaxCloses
  /\ closes' = closes + 1
  /\ dir' = NoDir /\ closing' = [by |-> f.by, mir |-> sessions, pc |-> "unmap"]
  /\ UNCHANGED <<sessions, mirrors, slot, fwds>> /\ Closer

CloseUnmap ==
  /\ closing.pc = "unmap" /\ RemoveEntry(closing.mir, Subscribing(Tasks))
  /\ closing' = [closing EXCEPT !.pc = "forget"]
  /\ UNCHANGED <<dir, slot, fwds, closes>> /\ Closer

CloseForget ==
  /\ closing.pc = "forget" /\ Forget /\ closing' = NoClose
  /\ UNCHANGED <<sessions, mirrors, dir, closes>> /\ Closer

\* The receiver ends with an error: the forwarder exits and the slot stays live
ForwarderExits(f) ==
  /\ f \in fwds /\ slot = [state |-> "live", by |-> f.by]
  /\ closing.by # f.by /\ closes < MaxCloses
  /\ closes' = closes + 1 /\ fwds' = fwds \ {f}
  /\ UNCHANGED <<sessions, mirrors, dir, slot, closing>> /\ Closer
-----------------------------------------------------------------------------
(* Sending                                                                 *)

SendStart(t) == conn[t] /\ Begin(t, "send", "send", 0)

\* Registry::send: the session and the membership, looked up again on a retry
SendCheck(t) ==
  /\ At(t, "send")
  /\ IF sessions # 0 /\ mirrors[sessions].member
     THEN task' = [task EXCEPT ![t].pc = "forward", ![t].mir = sessions]
          /\ UNCHANGED told
     ELSE Answer(t, "failed")
  /\ UNCHANGED <<shared, conn>> /\ Same

\* send_remote over a live slot: a pending entry, then the broadcast
SendForward(t, sent) ==
  /\ At(t, "forward") /\ slot.state = "live"
  /\ net' = IF sent THEN net \cup {Frame("request", task[t].id, task[t].retried)} ELSE net
  /\ IF sent THEN Goto(t, "sent") /\ UNCHANGED told ELSE Answer(t, "failed")
  /\ UNCHANGED <<shared, conn, closing, host, requests, bounds>>

\* dispatch_send: without a topic, re-subscribe once and send again
SendNoTopic(t) ==
  /\ At(t, "forward") /\ slot.state # "live"
  /\ IF task[t].retried
     THEN Answer(t, "failed")
     ELSE task' = [task EXCEPT ![t].pc = "resubscribe", ![t].retried = TRUE]
          /\ UNCHANGED told
  /\ UNCHANGED <<shared, conn>> /\ Same

Resubscribe(t) ==
  /\ At(t, "resubscribe")
  /\ IF sessions # 0
     THEN task' = [task EXCEPT ![t].pc = "reserve", ![t].mir = sessions]
          /\ UNCHANGED told
     ELSE Answer(t, "failed")
  /\ UNCHANGED <<shared, conn>> /\ Same

\* The pending entry is keyed by the request's id
AnswerFor(t, answer) == Frame(answer, task[t].id, task[t].retried) \in net

\* The SendAck arm of a running forwarder resolves the pending entry
SendAnswered(t, answer) ==
  /\ At(t, "sent") /\ fwds # {} /\ AnswerFor(t, answer)
  /\ Answer(t, IF answer = "ack" THEN "ok" ELSE "rejected")
  /\ UNCHANGED <<shared, conn>> /\ Same

\* Mutant: a send that was not answered in time is broadcast again.
TimeoutRetries(t) ==
  IF task[t].retried THEN Answer(t, "timeout") /\ UNCHANGED net
  ELSE /\ task' = [task EXCEPT ![t].retried = TRUE] /\ UNCHANGED told
       /\ net' = net \cup {Frame("request", task[t].id, TRUE)}

\* SEND_REMOTE_TIMEOUT: the pending entry is removed
TimedOut(t) == Answer(t, "timeout") /\ UNCHANGED net

SendTimeout(t) ==
  /\ At(t, "sent") /\ TimedOut(t)
  /\ UNCHANGED <<shared, conn, closing, host, requests, bounds>>
-----------------------------------------------------------------------------
(* The host, as far as the joiner can tell; HostSession has its inside.    *)
(* Gossip delivers a frame at least once, and the host handles it and      *)
(* answers it every time: it keeps no record of the request ids.           *)

Joiner == UNCHANGED <<shared, task, conn, told, closing, requests, bounds>>

Admit ==
  /\ Announcement \in net /\ ~host.member
  /\ host' = [host EXCEPT !.member = TRUE] /\ UNCHANGED net /\ Joiner

\* An eviction, or a session that was closed
Dismiss == host.member /\ host' = [host EXCEPT !.member = FALSE] /\ UNCHANGED net /\ Joiner

Answered(f) == \E type \in {"ack", "reject"} : Frame(type, f.id, f.try) \in net

\* run_host_send, then publish_send_ack
HostSend(f, accepted) ==
  /\ f \in net /\ f.type = "request"
  /\ accepted => host.member /\ Len(host.log) < MaxAppends
  /\ host' = [host EXCEPT !.log = IF accepted THEN Append(@, f.id) ELSE @,
                          !.repeated = IF Answered(f) THEN @ \cup {f.id} ELSE @]
  /\ net' = net \cup {Frame(IF accepted THEN "ack" ELSE "reject", f.id, f.try)}
  /\ Joiner
-----------------------------------------------------------------------------
\* The joiner daemon is killed and started again: Registry::load makes a mirror of
\* the directory and leaves the bridge empty
Restart ==
  /\ crashes < MaxCrashes /\ crashes' = crashes + 1
  /\ IF dir.there
     THEN /\ mirrors' = Append(mirrors, [member |-> dir.member, outcome |-> "ok",
                                       taken |-> FALSE])
          /\ sessions' = Len(mirrors) + 1
     ELSE sessions' = 0 /\ UNCHANGED mirrors
  /\ pending' = 0 /\ slot' = NoSlot /\ fwds' = {} /\ closing' = NoClose
  /\ task' = [t \in Tasks |-> Idle] /\ conn' = [t \in Tasks |-> FALSE]
  /\ told' = [t \in Tasks |-> Untold]
  /\ UNCHANGED <<dir, hostVars, requests, closes>>

\* What a task does once it has a request
Step(t) ==
  \/ ClaimRead(t) \/ ClaimInsert(t) \/ Adopt(t) \/ Await(t) \/ FinishOk(t)
  \/ Rollback(t) \/ FinishFailed(t)
  \/ Reserve(t) \/ Neighbor(t) \/ NoNeighbor(t) \/ Finalize(t) \/ PublishPresence(t)
  \/ Unmap(t) \/ LeaveForget(t)
  \/ SendCheck(t) \/ SendNoTopic(t) \/ Resubscribe(t) \/ SendTimeout(t)
  \/ \E answer \in {"ack", "reject"} : SendAnswered(t, answer)
  \/ \E b \in BOOLEAN : \/ ClaimCreate(t, b) \/ RollbackDelete(t, b) \/ Enroll(t, b)
                        \/ Leave(t, b) \/ SendForward(t, b)

Next ==
  \/ \E t \in Tasks : JoinStart(t) \/ LeaveStart(t) \/ SendStart(t) \/ Step(t)
  \/ \E f \in fwds : HearClose(f) \/ ForwarderExits(f)
  \/ CloseUnmap \/ CloseForget
  \/ Admit \/ Dismiss \/ \E f \in net, b \in BOOLEAN : HostSend(f, b)
  \/ Restart

Spec == Init /\ [][Next]_vars

\* The runtime keeps polling every task that can run
FairSpec == Spec /\ \A t \in Tasks : WF_vars(Step(t))
-----------------------------------------------------------------------------
Mirrors == 0 .. Len(mirrors)
Frames  == [type : {"announce", "request", "ack", "reject"}, id : 0 .. MaxRequests,
            try : BOOLEAN]
Ops     == {"none", "join", "leave", "send"}

\* Where a request can be
Places ==
  {"idle", "claim", "create", "insert", "adopt", "wait", "finish", "enroll", "rollback",
   "undo", "undone", "reserve", "subscribe", "finalize", "publish", "leave", "unmap",
   "forget", "send", "forward", "resubscribe", "sent"}

\* What the tasks share, the requests they handle and the frames have their types.
TypeOK ==
  /\ sessions \in Mirrors /\ pending \in Mirrors
  /\ mirrors \in Seq([member : BOOLEAN, outcome : {"open", "ok", "failed"},
                        taken : BOOLEAN])
  /\ dir \in [there : BOOLEAN, member : BOOLEAN]
  /\ slot \in [state : {"none", "reserved", "live"}, by : 0 .. MaxRequests]
  /\ fwds \subseteq [by : Ids, mir : Mirrors]
  /\ task \in [Tasks -> [pc : Places, op : Ops, id : 0 .. MaxRequests,
                         mir : Mirrors, wait : Mirrors, retried : BOOLEAN]]
  /\ conn \in [Tasks -> BOOLEAN] /\ net \subseteq Frames
  /\ host.member \in BOOLEAN /\ host.log \in Seq(Ids) /\ host.repeated \subseteq Ids

\* SessionSlots (H7, H8): whatever joins, leaves and closes of the id overlap, a
\* running forwarder is the one the live slot can abort, or belongs to a subscribe
\* that has yet to finalize.  None is left behind that nobody can stop.
NoOrphanForwarder ==
  \A f \in fwds : \/ slot = [state |-> "live", by |-> f.by]
                  \/ \E t \in Tasks : At(t, "finalize") /\ task[t].id = f.by

\* No request or close is between its first and its last step on what is shared.
Settled ==
  /\ closing = NoClose
  /\ \A t \in Tasks : task[t].pc \in {"idle", "enroll", "send", "forward", "sent"}

\* claim_remote_mirror: the check and the insert under one lock keep two joins from
\* making a mirror each.  Unless a removal by session id has crossed another request's
\* subscribe, the live forwarder feeds the mirror the map shows whenever nothing is under
\* way, so what the host sends is what the clients of this daemon see.
FeedsTheMapped ==
  Settled /\ (\A m \in DOMAIN mirrors : ~mirrors[m].taken) =>
    \A f \in fwds : f.mir = sessions

\* dispatch_send sends again only what it did not broadcast: however subscriptions
\* come and go, a client's message is twice in the host's log only if gossip delivered
\* the one frame that carried it twice.
AppendedOnce ==
  \A i, j \in DOMAIN host.log :
    host.log[i] = host.log[j] => i = j \/ host.log[i] \in host.repeated

InLog(id) == \E i \in DOMAIN host.log : host.log[i] = id

\* What a client is told of its send agrees with the host's log for good: an accepted
\* one is in it, one that failed is not and never will be, and so is one that was
\* rejected, unless gossip delivered it again.  Only a send that timed out may be either.
AnswersAgreeWithLog ==
  \A t \in Tasks : told[t].op = "send" =>
    /\ told[t].result = "ok" => InLog(told[t].id)
    /\ told[t].result = "failed" => ~InLog(told[t].id)
    /\ told[t].result = "rejected" /\ told[t].id \notin host.repeated =>
         ~InLog(told[t].id)

\* Every request is answered: a join that waits on another's subscribe hears of it,
\* a send without an answer times out.
RequestsReturn == \A t \in Tasks : ~At(t, "idle") ~> At(t, "idle")

(* Whatever joins, leaves, rollbacks and closes overlap, a forwarder can   *)
(* be stopped through its slot, and it feeds the mirror that the sessions  *)
(* map shows.                                                              *)
ForwardersAreRight ==
  /\ TypeOK
  /\ NoOrphanForwarder
  /\ FeedsTheMapped

(* A remote send over lost and repeated frames, with its timeout and       *)
(* retry: the host appends a request once for every delivery at most, a    *)
(* success or a failure agrees with the host's log, and so does a          *)
(* rejection of what was delivered once.                                   *)
SendsAreExact ==
  /\ AppendedOnce
  /\ AnswersAgreeWithLog
=============================================================================
