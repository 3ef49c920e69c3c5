------------------------ MODULE RemoteSessionProofs ------------------------
(***************************************************************************)
(* Proofs about RemoteSession, for any number of connections, requests,    *)
(* crashes and closes.                                                     *)
(*                                                                         *)
(* A request's number is its own: it names the slot the request reserves,  *)
(* the forwarder it spawns and the frame it broadcasts.  The forwarder     *)
(* properties rest on what a request has done so far being readable from   *)
(* where it is (Known), the send properties on every frame and every       *)
(* answer leading back to the one broadcast of its request.                *)
(***************************************************************************)
EXTENDS RemoteSession, TLAPS

MirrorRec == [member : BOOLEAN, outcome : {"open", "ok", "failed"}, taken : BOOLEAN]
Request == [pc : Places, op : Ops, id : 0 .. MaxRequests, mir : Nat, wait : Nat,
            retried : BOOLEAN]
Fwd     == [by : Ids, mir : Nat]
HostRec == [member : BOOLEAN, log : Seq(Ids), repeated : SUBSET Ids]
Results == {"ok", "failed", "rejected", "timeout"}
Told    == [op : Ops, id : 0 .. MaxRequests, result : {"none"} \cup Results]

\* TypeOK without the bound that the number of mirrors puts on a reference to one.
Types ==
  /\ mirrors \in Seq(MirrorRec) /\ dir \in [there : BOOLEAN, member : BOOLEAN]
  /\ sessions \in Nat /\ pending \in Nat
  /\ slot \in [state : {"none", "reserved", "live"}, by : 0 .. MaxRequests]
  /\ fwds \subseteq Fwd /\ task \in [Tasks -> Request] /\ conn \in [Tasks -> BOOLEAN]
  /\ closing \in [by : 0 .. MaxRequests, mir : Nat, pc : {"none", "unmap", "forget"}]
  /\ told \in [Tasks -> Told]
  /\ host \in HostRec /\ net \subseteq Frames
  /\ \A f \in net : f.type = "request" => f.id # 0
  /\ requests \in 0 .. MaxRequests

\* Whatever refers to a mirror refers to one that was made.
Refers ==
  /\ sessions <= Len(mirrors) /\ pending <= Len(mirrors)
  /\ \A f \in fwds : f.mir <= Len(mirrors)
  /\ \A t \in Tasks : task[t].mir <= Len(mirrors) /\ task[t].wait <= Len(mirrors)

\* What the place of a request tells about it.
JoinPlaces  == {"claim", "create", "insert", "adopt", "wait", "finish", "enroll",
                "rollback", "undo", "undone"}
LeavePlaces == {"leave", "unmap", "forget"}
Subscribes  == {"reserve", "subscribe", "finalize"}

Known(r) ==
  /\ r.pc = "idle" <=> r.id = 0
  /\ r.pc \in JoinPlaces => r.op = "join"
  /\ r.pc \in LeavePlaces => r.op = "leave"
  /\ r.pc \in Subscribes \cup {"publish", "resubscribe"} => r.op = "join" \/ r.retried
  /\ r.pc \in {"idle", "claim", "create", "insert", "leave", "send"} \/ r.mir # 0

\* Requests are numbered, and no two have one number.
Numbered ==
  /\ \A t \in Tasks : Known(task[t]) /\ task[t].id <= requests
  /\ \A t, u \in Tasks : task[t].id = task[u].id /\ task[t].id # 0 => t = u

\* The request may yet subscribe and has not spawned a forwarder.
Unsubscribed(r) ==
  \/ r.pc \in {"claim", "create", "insert", "reserve", "subscribe", "resubscribe"}
  \/ r.pc \in {"send", "forward"} /\ ~r.retried

\* A forwarder carries the number of the request that spawned it, once, and while
\* that request has yet to finalize, it is the one finalize would abort.
Spawned ==
  \A f \in fwds :
    /\ f.by <= requests /\ f.mir # 0
    /\ \A t \in Tasks : task[t].id = f.by =>
         ~Unsubscribed(task[t]) /\ (At(t, "finalize") => task[t].mir = f.mir)

Untaken == \A m \in DOMAIN mirrors : ~mirrors[m].taken

\* A removal has taken the mirror out of the map and has yet to forget the slot.
ForgetIsDue == closing.pc = "forget" \/ \E t \in Tasks : At(t, "forget")

\* Unless a removal crossed a subscribe, requests subscribe for the mapped mirror, and
\* a forwarder feeds it or is about to be aborted.
Feeding ==
  Untaken =>
    /\ \A t \in Tasks : task[t].pc \in Subscribes => task[t].mir = sessions
    /\ \A f \in fwds : \/ f.mir = sessions
                       \/ slot = [state |-> "live", by |-> f.by] /\ ForgetIsDue

\* The request i was not broadcast.
Unasked(i) == \A f \in net : f.type = "request" => f.id # i

\* A request is broadcast once, answered in one way unless it was delivered again, and
\* the log has what was acked.
Broadcasts ==
  /\ \A f, g \in net : f.type = "request" /\ g.type = "request" /\ f.id = g.id => f = g
  /\ \A f \in net : f.type \in {"ack", "reject"} => Frame("request", f.id, f.try) \in net
  /\ \A f, g \in net : f.type = "ack" /\ g.type = "reject" =>
                       f.id # g.id \/ f.id \in host.repeated
  /\ \A f \in net : f.type = "ack" => \E i \in DOMAIN host.log : host.log[i] = f.id
  /\ \A i \in DOMAIN host.log : \E f \in net : f.type = "ack" /\ f.id = host.log[i]

\* Which requests were broadcast, and what a client's answer tells about the frames.
Answers ==
  /\ \A f \in net : f.id <= requests
  /\ \A t \in Tasks : task[t].pc # "sent" => Unasked(task[t].id)
  /\ \A t \in Tasks : told[t].id <= requests
  /\ \A t, u \in Tasks : told[t].id # 0 => task[u].id # told[t].id
  /\ \A t \in Tasks :
       /\ told[t].result # "none" => told[t].id # 0
       /\ told[t].result = "failed" => Unasked(told[t].id)
       /\ told[t].result = "ok" /\ told[t].op = "send" =>
            \E f \in net : f.type = "ack" /\ f.id = told[t].id
       /\ told[t].result = "rejected" =>
            \E f \in net : f.type = "reject" /\ f.id = told[t].id
-----------------------------------------------------------------------------
(* What a step does to the requests                                        *)

\* Only the request of t changes: it ends, or goes on as the same request.
OnlyTask(t) ==
  /\ task' \in [Tasks -> Request] /\ \A u \in Tasks : u # t => task'[u] = task[u]
  /\ task[t].pc # "idle"
  /\ \/ task'[t] = Idle
     \/ /\ task'[t].id = task[t].id /\ task'[t].op = task[t].op
        /\ task'[t].mir \in {task[t].mir, sessions, sessions'}
        /\ task'[t].wait \in {task[t].wait, pending}

\* The request of t is answered, or it is not.
OnlyTold(t) ==
  \/ told' = told
  \/ /\ task'[t] = Idle
     /\ \E result \in Results :
          /\ told' = [told EXCEPT ![t] = [op |-> task[t].op, id |-> task[t].id,
                                          result |-> result]]
          /\ result = "failed" => task[t].pc # "sent"
          /\ result = "rejected" => \E f \in net : f.type = "reject" /\ f.id = task[t].id
          /\ result = "ok" /\ task[t].op = "send" =>
               \E f \in net : f.type = "ack" /\ f.id = task[t].id

\* The places a request comes from.
Route(t) ==
  /\ Known(task'[t]) /\ (Unsubscribed(task'[t]) => Unsubscribed(task[t]))
  /\ task'[t].pc \in Subscribes =>
       \/ task[t].pc \in Subscribes /\ task'[t].mir = task[t].mir
       \/ task'[t].mir = sessions'
  /\ task'[t].pc = "finalize" => Neighbor(t)
  /\ task'[t].pc = "sent" => SendForward(t, TRUE)
  /\ task'[t].pc # "idle" => task[t].pc # "sent"

(* The bound as the provers need it.                                       *)
LEMMA BoundIsNat == MaxRequests \in Nat /\ 0 \in 0 .. MaxRequests
<1>1. MaxRequests \in Nat
  BY RemoteSessionAssumption
<1> QED
  BY <1>1

(* A connection without a request.                                         *)
LEMMA IdleIs == Idle \in Request
BY BoundIsNat DEF Idle, Request, Places, Ops

(* A request that ends.                                                    *)
LEMMA AnswerIs ==
  ASSUME Types, NEW t \in Tasks, NEW result, Answer(t, result)
  PROVE  /\ task' \in [Tasks -> Request] /\ \A u \in Tasks : u # t => task'[u] = task[u]
         /\ task'[t] = Idle
BY IdleIs DEF Types, Answer

\* The request of t has moved to pc as the same request.
Moved(t, pc, mir, retried) ==
  /\ task' \in [Tasks -> Request] /\ \A u \in Tasks : u # t => task'[u] = task[u]
  /\ task'[t].pc = pc /\ task'[t].id = task[t].id /\ task'[t].op = task[t].op
  /\ task'[t].mir = mir /\ task'[t].retried = retried
  /\ task'[t].wait \in {task[t].wait, pending}

(* A request that moves and looks at another mirror.                       *)
LEMMA MirMoves ==
  ASSUME Types, NEW t \in Tasks, NEW pc \in Places, NEW m \in Nat,
         task' = [task EXCEPT ![t].pc = pc, ![t].mir = m]
  PROVE  Moved(t, pc, m, task[t].retried)
<1> DEFINE r == [task[t] EXCEPT !.pc = pc, !.mir = m]
<1>1. task[t] \in Request /\ task \in [Tasks -> Request]
  BY DEF Types
<1>2. /\ r \in Request /\ r.pc = pc /\ r.id = task[t].id /\ r.op = task[t].op
      /\ r.mir = m /\ r.retried = task[t].retried /\ r.wait = task[t].wait
  BY <1>1, Zenon DEF Request
<1>3. task' = [task EXCEPT ![t] = r]
  BY <1>1, Zenon
<1> HIDE DEF r
<1> QED
  BY <1>1, <1>2, <1>3, Zenon DEF Moved

(* A request that begins to wait for another's claim, or need not.         *)
LEMMA WaitMoves ==
  ASSUME Types, NEW t \in Tasks, NEW pc \in Places,
         task' = [task EXCEPT ![t].pc = pc, ![t].wait = pending]
  PROVE  Moved(t, pc, task[t].mir, task[t].retried)
<1> DEFINE r == [task[t] EXCEPT !.pc = pc, !.wait = pending]
<1>1. task[t] \in Request /\ task \in [Tasks -> Request]
  BY DEF Types
<1>2. /\ r \in Request /\ r.pc = pc /\ r.id = task[t].id /\ r.op = task[t].op
      /\ r.mir = task[t].mir /\ r.retried = task[t].retried /\ r.wait = pending
  BY <1>1, Zenon DEF Request, Types
<1>3. task' = [task EXCEPT ![t] = r]
  BY <1>1, Zenon
<1> HIDE DEF r
<1> QED
  BY <1>1, <1>2, <1>3, Zenon DEF Moved

(* A send that is about to re-subscribe.                                   *)
LEMMA RetryMoves ==
  ASSUME Types, NEW t \in Tasks, NEW pc \in Places,
         task' = [task EXCEPT ![t].pc = pc, ![t].retried = TRUE]
  PROVE  Moved(t, pc, task[t].mir, TRUE)
<1> DEFINE r == [task[t] EXCEPT !.pc = pc, !.retried = TRUE]
<1>1. task[t] \in Request /\ task \in [Tasks -> Request]
  BY DEF Types
<1>2. /\ r \in Request /\ r.pc = pc /\ r.id = task[t].id /\ r.op = task[t].op
      /\ r.mir = task[t].mir /\ r.retried /\ r.wait = task[t].wait
  BY <1>1, Zenon DEF Request
<1>3. task' = [task EXCEPT ![t] = r]
  BY <1>1, Zenon
<1> HIDE DEF r
<1> QED
  BY <1>1, <1>2, <1>3, Zenon DEF Moved

(* A request that only moves.                                              *)
LEMMA GotoMoves ==
  ASSUME Types, NEW t \in Tasks, NEW pc \in Places, Goto(t, pc)
  PROVE  Moved(t, pc, task[t].mir, task[t].retried)
<1> DEFINE r == [task[t] EXCEPT !.pc = pc]
<1>1. task[t] \in Request /\ task \in [Tasks -> Request]
  BY DEF Types
<1>2. /\ r \in Request /\ r.pc = pc /\ r.id = task[t].id /\ r.op = task[t].op
      /\ r.mir = task[t].mir /\ r.retried = task[t].retried /\ r.wait = task[t].wait
  BY <1>1 DEF Request
<1>3. task' = [task EXCEPT ![t] = r]
  BY DEF Goto
<1> HIDE DEF r
<1> QED
  BY <1>1, <1>2, <1>3 DEF Moved

(* What the steps of a request do to the request, and what it is told.     *)
LEMMA StepIs ==
  ASSUME Types, NEW t \in Tasks, Known(task[t]), Step(t)
  PROVE  OnlyTask(t) /\ OnlyTold(t) /\ Route(t) /\ requests' = requests
<1> DEFINE Goal == OnlyTask(t) /\ OnlyTold(t) /\ Route(t) /\ requests' = requests
<1> USE DEF At, Places, Results, JoinPlaces, LeavePlaces, Subscribes, Unsubscribed, Known
<1>0. sessions \in Nat /\ pending \in Nat /\ Len(mirrors) \in Nat /\ Known(Idle)
  BY DEF Types, Idle
<1>a. ASSUME NEW result \in Results, Answer(t, result),
             task[t].pc # "idle", requests' = requests,
             result = "failed" => task[t].pc # "sent",
             result = "rejected" => \E f \in net : f.type = "reject" /\ f.id = task[t].id,
             result = "ok" /\ task[t].op = "send" =>
               \E f \in net : f.type = "ack" /\ f.id = task[t].id
      PROVE  Goal
  <2>1. OnlyTask(t) /\ task'[t] = Idle
    BY <1>a, AnswerIs DEF OnlyTask
  <2>2. OnlyTold(t)
    BY <1>a, <2>1, Zenon DEF OnlyTold, Answer
  <2> QED
    BY <1>0, <1>a, <2>1, <2>2 DEF Route, Idle
<1> DEFINE Plain == requests' = requests /\ told' = told
<1>b. Same => requests' = requests
  BY DEF Same
<1>c. Silent => Plain
  BY DEF Silent, Same
<1>1. CASE ClaimRead(t)
  <2>1. CASE sessions = 0
    <3>1. Moved(t, "create", sessions, task[t].retried)
      BY <1>0, <1>1, <2>1, MirMoves, Zenon DEF ClaimRead
    <3> QED
      BY <1>1, <1>c, <3>1 DEF ClaimRead, OnlyTask, OnlyTold, Route, Moved
  <2>2. CASE sessions # 0
    <3>1. Moved(t, "adopt", sessions, task[t].retried)
      BY <1>0, <1>1, <2>2, MirMoves, Zenon DEF ClaimRead
    <3> QED
      BY <1>1, <1>c, <2>2, <3>1 DEF ClaimRead, OnlyTask, OnlyTold, Route, Moved
  <2> QED
    BY <2>1, <2>2
<1>2. CASE ClaimInsert(t)
  <2>1. CASE sessions = 0
    <3>1. /\ sessions' = Len(mirrors) + 1 /\ Len(mirrors) + 1 \in Nat
          /\ task' = [task EXCEPT ![t].pc = "reserve", ![t].mir = Len(mirrors) + 1]
      BY <1>0, <1>2, <2>1 DEF ClaimInsert, Insert
    <3>2. Moved(t, "reserve", Len(mirrors) + 1, task[t].retried)
      BY <3>1, MirMoves, Zenon
    <3> QED
      BY <1>0, <1>2, <1>c, <3>1, <3>2 DEF ClaimInsert, OnlyTask, OnlyTold, Route, Moved
  <2>2. CASE sessions # 0
    <3>1. Moved(t, "adopt", sessions, task[t].retried)
      BY <1>0, <1>2, <2>2, MirMoves, Zenon DEF ClaimInsert
    <3> QED
      BY <1>2, <1>c, <2>2, <3>1 DEF ClaimInsert, OnlyTask, OnlyTold, Route, Moved
  <2> QED
    BY <2>1, <2>2
<1>3. CASE Adopt(t)
  <2>1. Moved(t, IF pending = 0 THEN "enroll" ELSE "wait", task[t].mir, task[t].retried)
    BY <1>0, <1>3, WaitMoves, Zenon DEF Adopt
  <2> QED
    BY <1>3, <1>c, <2>1 DEF Adopt, OnlyTask, OnlyTold, Route, Moved
<1>4. CASE Await(t)
  <2>1. CASE mirrors[task[t].wait].outcome = "ok"
    <3>1. Moved(t, "enroll", task[t].mir, task[t].retried)
      BY <1>4, <2>1, GotoMoves DEF Await
    <3> QED
      BY <1>4, <1>b, <2>1, <3>1 DEF Await, OnlyTask, OnlyTold, Route, Moved
  <2>2. CASE mirrors[task[t].wait].outcome # "ok"
    BY <1>4, <1>a, <1>b, <2>2 DEF Await
  <2> QED
    BY <2>1, <2>2
<1>5. CASE FinishOk(t)
  <2>1. Moved(t, "enroll", task[t].mir, task[t].retried)
    BY <1>5, GotoMoves, Zenon DEF FinishOk
  <2> QED
    BY <1>5, <1>c, <2>1 DEF FinishOk, OnlyTask, OnlyTold, Route, Moved
<1>6. CASE Rollback(t)
  <2>1. Moved(t, "undo", task[t].mir, task[t].retried)
    BY <1>6, GotoMoves DEF Rollback
  <2> QED
    BY <1>6, <1>c, <2>1, Zenon DEF Rollback, OnlyTask, OnlyTold, Route, Moved
<1>7. CASE FinishFailed(t)
  BY <1>7, <1>a, <1>b DEF FinishFailed
<1>8. CASE Reserve(t)
  <2>1. CASE slot.state = "none"
    <3>1. Moved(t, "subscribe", task[t].mir, task[t].retried)
      BY <1>8, <2>1, GotoMoves, Zenon DEF Reserve
    <3> QED
      BY <1>8, <1>c, <3>1 DEF Reserve, OnlyTask, OnlyTold, Route, Moved
  <2>2. CASE slot.state # "none"
    <3>1. Moved(t, "publish", task[t].mir, task[t].retried)
      BY <1>8, <2>2, GotoMoves, Zenon DEF Reserve
    <3> QED
      BY <1>8, <1>c, <3>1 DEF Reserve, OnlyTask, OnlyTold, Route, Moved
  <2> QED
    BY <2>1, <2>2, Zenon
<1>9. CASE Neighbor(t)
  <2>1. Moved(t, "finalize", task[t].mir, task[t].retried)
    BY <1>9, GotoMoves DEF Neighbor
  <2>2. OnlyTask(t) /\ OnlyTold(t) /\ requests' = requests /\ task[t].pc = "subscribe"
    BY <1>9, <1>c, <2>1 DEF Neighbor, OnlyTask, OnlyTold, Moved
  <2> QED
    BY <1>9, <2>1, <2>2 DEF Route, Moved
<1>10. CASE NoNeighbor(t)
  <2>1. CASE task[t].op = "join"
    <3>1. Moved(t, "rollback", task[t].mir, task[t].retried)
      BY <1>10, <2>1, GotoMoves, Zenon DEF NoNeighbor
    <3> QED
      BY <1>10, <1>b, <2>1, <3>1, Zenon DEF NoNeighbor, OnlyTask, OnlyTold, Route, Moved
  <2>2. CASE task[t].op # "join"
    BY <1>10, <1>a, <1>b, <2>2, Zenon DEF NoNeighbor
  <2> QED
    BY <2>1, <2>2, Zenon
<1>11. CASE Finalize(t)
  <2>1. Moved(t, "publish", task[t].mir, task[t].retried)
    BY <1>11, GotoMoves, Zenon DEF Finalize
  <2> QED
    BY <1>11, <1>c, <2>1 DEF Finalize, OnlyTask, OnlyTold, Route, Moved
<1>12. CASE PublishPresence(t)
  <2>1. CASE task[t].op = "join"
    <3>1. Moved(t, "finish", task[t].mir, task[t].retried)
      BY <1>12, <2>1, GotoMoves, Zenon DEF PublishPresence
    <3> QED
      BY <1>12, <2>1, <3>1, Zenon DEF PublishPresence, OnlyTask, OnlyTold, Route, Moved
  <2>2. CASE task[t].op # "join"
    <3>1. Moved(t, "send", task[t].mir, task[t].retried)
      BY <1>12, <2>2, GotoMoves, Zenon DEF PublishPresence
    <3> QED
      BY <1>12, <2>2, <3>1 DEF PublishPresence, OnlyTask, OnlyTold, Route, Moved
  <2> QED
    BY <2>1, <2>2
<1>13. CASE Unmap(t)
  <2>1. Moved(t, "forget", task[t].mir, task[t].retried)
    BY <1>13, GotoMoves DEF Unmap
  <2> QED
    BY <1>13, <1>c, <2>1, Zenon DEF Unmap, OnlyTask, OnlyTold, Route, Moved
<1>14. CASE LeaveForget(t)
  BY <1>14, <1>a, Zenon DEF LeaveForget
<1>15. CASE SendCheck(t)
  <2>1. CASE sessions # 0 /\ mirrors[sessions].member
    <3>1. Moved(t, "forward", sessions, task[t].retried)
      BY <1>0, <1>15, <2>1, MirMoves, Zenon DEF SendCheck
    <3> QED
      BY <1>15, <1>b, <2>1, <3>1 DEF SendCheck, OnlyTask, OnlyTold, Route, Moved
  <2>2. CASE ~(sessions # 0 /\ mirrors[sessions].member)
    BY <1>15, <1>a, <1>b, <2>2 DEF SendCheck
  <2> QED
    BY <2>1, <2>2
<1>16. CASE SendNoTopic(t)
  <2>1. CASE task[t].retried
    BY <1>16, <1>a, <1>b, <2>1 DEF SendNoTopic
  <2>2. CASE ~task[t].retried
    <3>1. Moved(t, "resubscribe", task[t].mir, TRUE)
      BY <1>16, <2>2, RetryMoves, Zenon DEF SendNoTopic
    <3> QED
      BY <1>16, <1>b, <2>2, <3>1 DEF SendNoTopic, OnlyTask, OnlyTold, Route, Moved
  <2> QED
    BY <2>1, <2>2
<1>17. CASE Resubscribe(t)
  <2>1. CASE sessions # 0
    <3>1. Moved(t, "reserve", sessions, task[t].retried) /\ sessions' = sessions
      BY <1>0, <1>17, <2>1, MirMoves, Zenon DEF Resubscribe, shared
    <3> QED
      BY <1>17, <1>b, <2>1, <3>1 DEF Resubscribe, OnlyTask, OnlyTold, Route, Moved
  <2>2. CASE sessions = 0
    BY <1>17, <1>a, <1>b, <2>2 DEF Resubscribe
  <2> QED
    BY <2>1, <2>2
<1>18. CASE SendTimeout(t)
  BY <1>18, <1>a DEF SendTimeout, TimedOut
<1>19. ASSUME NEW answer \in {"ack", "reject"}, SendAnswered(t, answer) PROVE Goal
  <2>1. PICK f \in net : f.type = answer /\ f.id = task[t].id
    BY <1>19 DEF SendAnswered, AnswerFor, Frame
  <2> QED
    BY <1>19, <1>a, <1>b, <2>1 DEF SendAnswered
<1>20. ASSUME NEW ok \in BOOLEAN, ClaimCreate(t, ok) PROVE Goal
  <2>1. CASE ok
    <3>1. Moved(t, "insert", task[t].mir, task[t].retried)
      BY <1>20, <2>1, GotoMoves DEF ClaimCreate
    <3> QED
      BY <1>20, <1>b, <2>1, <3>1, Zenon DEF ClaimCreate, OnlyTask, OnlyTold, Route, Moved
  <2>2. CASE ~ok
    BY <1>20, <1>a, <1>b, <2>2, Zenon DEF ClaimCreate
  <2> QED
    BY <2>1, <2>2, Zenon
<1>21. ASSUME NEW b \in BOOLEAN, RollbackDelete(t, b) PROVE Goal
  <2>1. Moved(t, "undone", task[t].mir, task[t].retried)
    BY <1>21, GotoMoves, Zenon DEF RollbackDelete
  <2> QED
    BY <1>21, <1>c, <2>1, Zenon DEF RollbackDelete, OnlyTask, OnlyTold, Route, Moved
<1>22. ASSUME NEW b \in BOOLEAN, Enroll(t, b) PROVE Goal
  <2>1. PICK result \in {"ok", "failed"} : Answer(t, result)
    BY <1>22 DEF Enroll
  <2>2. task[t].pc = "enroll" /\ requests' = requests
    BY <1>22, <1>b DEF Enroll
  <2> QED
    BY <1>a, <2>1, <2>2
<1>23. ASSUME NEW b \in BOOLEAN, Leave(t, b) PROVE Goal
  <2>1. CASE task[t].mir # 0 /\ b
    <3>1. Moved(t, "unmap", task[t].mir, task[t].retried)
      BY <1>23, <2>1, GotoMoves DEF Leave
    <3> QED
      BY <1>23, <1>b, <2>1, <3>1, Zenon DEF Leave, OnlyTask, OnlyTold, Route, Moved
  <2>2. CASE ~(task[t].mir # 0 /\ b)
    BY <1>23, <1>a, <1>b, <2>2 DEF Leave
  <2> QED
    BY <2>1, <2>2
<1>24. ASSUME NEW b \in BOOLEAN, SendForward(t, b) PROVE Goal
  <2>1. CASE b
    <3>1. Moved(t, "sent", task[t].mir, task[t].retried)
      BY <1>24, <2>1, GotoMoves DEF SendForward
    <3>2. SendForward(t, TRUE) /\ task[t].pc = "forward" /\ Plain
      BY <1>24, <2>1, Zenon DEF SendForward
    <3> QED
      BY <2>1, <3>1, <3>2, Zenon DEF OnlyTask, OnlyTold, Route, Moved
  <2>2. CASE ~b
    BY <1>24, <1>a, <2>2 DEF SendForward
  <2> QED
    BY <2>1, <2>2
<1> QED
  BY <1>1, <1>2, <1>3, <1>4, <1>5, <1>6, <1>7, <1>8, <1>9, <1>10, <1>11, <1>12, <1>13,
     <1>14, <1>15, <1>16, <1>17, <1>18, <1>19, <1>20, <1>21, <1>22, <1>23, <1>24 DEF Step
-----------------------------------------------------------------------------
(* What a step does to what the requests share                             *)

MirrorsGrow ==
  /\ mirrors' \in Seq(MirrorRec) /\ Len(mirrors) <= Len(mirrors')
  /\ \A m \in DOMAIN mirrors :
       m \in DOMAIN mirrors' /\ (mirrors[m].taken => mirrors'[m].taken)

\* The map and the pending entry refer to mirrors that were made.
MapRefers == sessions' \in 0 .. Len(mirrors') /\ pending' \in 0 .. Len(mirrors')

(* A mirror that changes keeps the mark of having been taken.              *)
LEMMA MirrorEdit ==
  ASSUME Types, NEW m \in DOMAIN mirrors, NEW r \in MirrorRec, mirrors[m].taken => r.taken,
         mirrors' = [mirrors EXCEPT ![m] = r]
  PROVE  MirrorsGrow /\ Len(mirrors') = Len(mirrors)
<1>1. mirrors \in Seq(MirrorRec) /\ m \in 1 .. Len(mirrors) /\ Len(mirrors) \in Nat
  BY DEF Types
<1>2. mirrors' \in Seq(MirrorRec) /\ Len(mirrors') = Len(mirrors)
  BY <1>1
<1> QED
  BY <1>1, <1>2 DEF MirrorsGrow

(* A mirror that is made.                                                  *)
LEMMA MirrorMade ==
  ASSUME Types, NEW r \in MirrorRec, mirrors' = Append(mirrors, r)
  PROVE  MirrorsGrow /\ Len(mirrors') = Len(mirrors) + 1 /\ Len(mirrors) \in Nat
BY DEF Types, MirrorsGrow

(* RemoteJoinGuard's outcome.                                              *)
LEMMA PostIs ==
  ASSUME Types, NEW m \in DOMAIN mirrors, NEW o \in {"ok", "failed"}, Post(m, o)
  PROVE  MirrorsGrow /\ Len(mirrors') = Len(mirrors) /\ pending' = 0
<1> DEFINE r == [mirrors[m] EXCEPT !.outcome = o]
<1>1. mirrors[m] \in MirrorRec
  BY DEF Types
<1>2. r \in MirrorRec /\ r.taken = mirrors[m].taken
  BY <1>1 DEF MirrorRec
<1>3. mirrors' = [mirrors EXCEPT ![m] = r] /\ pending' = 0
  BY DEF Post
<1> HIDE DEF r
<1> QED
  BY <1>2, <1>3, MirrorEdit, Zenon

(* A membership that changes.                                              *)
LEMMA MemberIs ==
  ASSUME Types, NEW m \in DOMAIN mirrors, NEW b \in BOOLEAN,
         mirrors' = [mirrors EXCEPT ![m].member = b]
  PROVE  MirrorsGrow /\ Len(mirrors') = Len(mirrors)
<1> DEFINE r == [mirrors[m] EXCEPT !.member = b]
<1>1. mirrors[m] \in MirrorRec
  BY DEF Types
<1>2. r \in MirrorRec /\ r.taken = mirrors[m].taken
  BY <1>1 DEF MirrorRec
<1>3. mirrors' = [mirrors EXCEPT ![m] = r]
  OBVIOUS
<1> HIDE DEF r
<1> QED
  BY <1>2, <1>3, MirrorEdit, Zenon

(* A removal by session id marks the mirror unless it is the remover's own *)
(* and no request is subscribing for it.                                   *)
LEMMA RemoveIs ==
  ASSUME Types, Refers, NEW mine, NEW crossed, RemoveEntry(mine, crossed)
  PROVE  /\ MirrorsGrow /\ Len(mirrors') = Len(mirrors) /\ sessions' = 0
         /\ Untaken' => sessions = 0 \/ (sessions = mine /\ ~crossed)
<1> DEFINE r == [mirrors[sessions] EXCEPT !.taken = TRUE]
<1>1. CASE sessions = 0 \/ (sessions = mine /\ ~crossed)
  BY <1>1 DEF RemoveEntry, MirrorsGrow, Types
<1>2. CASE ~(sessions = 0 \/ (sessions = mine /\ ~crossed))
  <2>1. sessions \in DOMAIN mirrors /\ mirrors[sessions] \in MirrorRec
    BY <1>2 DEF Types, Refers
  <2>2. r \in MirrorRec /\ r.taken
    BY <2>1, Zenon DEF MirrorRec
  <2>3. mirrors' = [mirrors EXCEPT ![sessions] = r] /\ sessions' = 0
    BY <1>2 DEF RemoveEntry
  <2> HIDE DEF r
  <2>4. MirrorsGrow /\ Len(mirrors') = Len(mirrors)
    BY <2>1, <2>2, <2>3, MirrorEdit, Zenon
  <2>5. sessions \in DOMAIN mirrors' /\ mirrors'[sessions].taken
    BY <2>1, <2>2, <2>3, <2>4, Zenon DEF MirrorsGrow
  <2> QED
    BY <2>3, <2>4, <2>5 DEF Untaken
<1> QED
  BY <1>1, <1>2

(* Every step leaves the map and the mirrors in order.                     *)
LEMMA MapStep ==
  ASSUME Types, Refers, Numbered, [Next]_vars
  PROVE  MirrorsGrow /\ MapRefers
<1>0. /\ Len(mirrors) \in Nat /\ DOMAIN mirrors = 1 .. Len(mirrors)
      /\ sessions \in 0 .. Len(mirrors) /\ pending \in 0 .. Len(mirrors)
  BY DEF Types, Refers
<1>a. ASSUME UNCHANGED <<sessions, mirrors, pending>> PROVE MirrorsGrow /\ MapRefers
  BY <1>0, <1>a DEF MirrorsGrow, MapRefers, Types
<1>b. ASSUME NEW t \in Tasks, task[t].pc \in {"finish", "undone", "enroll"}
      PROVE  task[t].mir \in DOMAIN mirrors
  <2>1. task[t].mir \in Nat /\ task[t].mir # 0 /\ task[t].mir <= Len(mirrors)
    BY <1>b, Zenon DEF Types, Request, Numbered, Known, Refers
  <2> QED
    BY <1>0, <2>1
<1>1. ASSUME NEW t \in Tasks, ClaimInsert(t) PROVE MirrorsGrow /\ MapRefers
  <2>1. CASE sessions = 0
    <3>1. Fresh \in MirrorRec
      BY DEF Fresh, MirrorRec
    <3>2. /\ mirrors' = Append(mirrors, Fresh)
          /\ sessions' = Len(mirrors) + 1 /\ pending' = Len(mirrors) + 1
      BY <1>1, <2>1 DEF ClaimInsert, Insert
    <3> QED
      BY <1>0, <3>1, <3>2, MirrorMade DEF MapRefers
  <2>2. CASE sessions # 0
    BY <1>1, <1>a, <2>2 DEF ClaimInsert
  <2> QED
    BY <2>1, <2>2
<1>2. ASSUME NEW t \in Tasks, FinishOk(t) \/ FinishFailed(t)
      PROVE  MirrorsGrow /\ MapRefers
  <2>1. task[t].mir \in DOMAIN mirrors /\ sessions' = sessions
    BY <1>2, <1>b DEF FinishOk, FinishFailed, At
  <2>2. PICK o \in {"ok", "failed"} : Post(task[t].mir, o)
    BY <1>2 DEF FinishOk, FinishFailed
  <2> QED
    BY <1>0, <2>1, <2>2, PostIs DEF MapRefers
<1>3. ASSUME NEW t \in Tasks, Rollback(t) \/ Unmap(t) PROVE MirrorsGrow /\ MapRefers
  <2>1. PICK crossed : RemoveEntry(task[t].mir, crossed)
    BY <1>3 DEF Rollback, Unmap
  <2>2. pending' = pending
    BY <1>3 DEF Rollback, Unmap
  <2> QED
    BY <1>0, <2>1, <2>2, RemoveIs DEF MapRefers
<1>4. CASE CloseUnmap
  BY <1>0, <1>4, RemoveIs DEF MapRefers, CloseUnmap, Closer
<1>5. ASSUME NEW t \in Tasks, NEW b \in BOOLEAN, Enroll(t, b) PROVE MirrorsGrow /\ MapRefers
  <2>1. task[t].mir \in DOMAIN mirrors /\ UNCHANGED <<sessions, pending>>
    BY <1>5, <1>b DEF Enroll, At
  <2>2. mirrors[task[t].mir] \in MirrorRec
    BY <2>1 DEF Types
  <2>3. (mirrors[task[t].mir].member \/ b) \in BOOLEAN
    BY <2>2 DEF MirrorRec
  <2>4. mirrors' = [mirrors EXCEPT ![task[t].mir].member = mirrors[task[t].mir].member \/ b]
    BY <1>5 DEF Enroll
  <2> QED
    BY <1>0, <2>1, <2>3, <2>4, MemberIs, Zenon DEF MapRefers
<1>6. ASSUME NEW t \in Tasks, NEW b \in BOOLEAN, Leave(t, b) PROVE MirrorsGrow /\ MapRefers
  <2>1. CASE task[t].mir # 0 /\ b
    <3>1. task[t].mir \in Nat /\ task[t].mir <= Len(mirrors)
      BY DEF Types, Request, Refers
    <3>2. task[t].mir \in DOMAIN mirrors
      BY <1>0, <2>1, <3>1
    <3>3. /\ mirrors' = [mirrors EXCEPT ![task[t].mir].member = FALSE]
          /\ UNCHANGED <<sessions, pending>>
      BY <1>6, <2>1 DEF Leave
    <3> QED
      BY <1>0, <3>2, <3>3, MemberIs, Zenon DEF MapRefers
  <2>2. CASE ~(task[t].mir # 0 /\ b)
    BY <1>6, <1>a, <2>2 DEF Leave
  <2> QED
    BY <2>1, <2>2
<1>7. CASE Restart
  <2>1. CASE dir.there
    <3> DEFINE r == [member |-> dir.member, outcome |-> "ok", taken |-> FALSE]
    <3>1. r \in MirrorRec
      BY DEF MirrorRec, Types
    <3>2. mirrors' = Append(mirrors, r) /\ sessions' = Len(mirrors) + 1 /\ pending' = 0
      BY <1>7, <2>1 DEF Restart
    <3> HIDE DEF r
    <3> QED
      BY <1>0, <3>1, <3>2, MirrorMade DEF MapRefers
  <2>2. CASE ~dir.there
    BY <1>0, <1>7, <2>2 DEF Restart, MirrorsGrow, MapRefers, Types
  <2> QED
    BY <2>1, <2>2
<1>8. ASSUME NEW t \in Tasks,
             \/ JoinStart(t) \/ LeaveStart(t) \/ SendStart(t)
             \/ ClaimRead(t) \/ Adopt(t) \/ Await(t)
             \/ Reserve(t) \/ Neighbor(t) \/ NoNeighbor(t) \/ Finalize(t)
             \/ PublishPresence(t) \/ LeaveForget(t) \/ SendCheck(t) \/ SendNoTopic(t)
             \/ Resubscribe(t) \/ SendTimeout(t)
             \/ \E answer \in {"ack", "reject"} : SendAnswered(t, answer)
             \/ \E b \in BOOLEAN : ClaimCreate(t, b) \/ RollbackDelete(t, b) \/ SendForward(t, b)
      PROVE  MirrorsGrow /\ MapRefers
  BY <1>8, <1>a, Zenon DEF JoinStart, LeaveStart, SendStart, Begin, ClaimRead, Adopt, Await, Reserve,
     Neighbor, NoNeighbor, Finalize, PublishPresence, LeaveForget, SendCheck, SendNoTopic,
     Resubscribe, SendTimeout, SendAnswered, ClaimCreate, RollbackDelete, SendForward, shared
<1>9. ASSUME \/ \E f \in fwds : HearClose(f) \/ ForwarderExits(f)
             \/ CloseForget \/ Admit \/ Dismiss
             \/ \E f \in net, b \in BOOLEAN : HostSend(f, b)
             \/ UNCHANGED vars
      PROVE  MirrorsGrow /\ MapRefers
  BY <1>9, <1>a DEF HearClose, ForwarderExits, CloseForget, Closer, Admit, Dismiss, HostSend,
     Joiner, shared, vars
<1> QED
  BY <1>1, <1>2, <1>3, <1>4, <1>5, <1>6, <1>7, <1>8, <1>9 DEF Next, Step
-----------------------------------------------------------------------------
(* Types, references and numbers                                           *)

\* A request begins under the next number.
Started(t) ==
  /\ task[t].pc = "idle" /\ requests' = requests + 1 /\ requests' \in 1 .. MaxRequests
  /\ task' \in [Tasks -> Request] /\ \A u \in Tasks : u # t => task'[u] = task[u]
  /\ task'[t].id = requests + 1 /\ task'[t].mir \in {0, sessions} /\ task'[t].wait = 0
  /\ Known(task'[t]) /\ task'[t].pc \in {"claim", "enroll", "leave", "send"}
  /\ told' = [told EXCEPT ![t] = Untold]
  /\ UNCHANGED <<shared, conn, closing, hostVars>>

\* The request that Begin makes.
Begun(t, op, pc, m) ==
  /\ requests' = requests + 1 /\ requests' \in 1 .. MaxRequests
  /\ task' \in [Tasks -> Request] /\ \A u \in Tasks : u # t => task'[u] = task[u]
  /\ task'[t].pc = pc /\ task'[t].op = op /\ task'[t].id = requests + 1
  /\ task'[t].mir = m /\ task'[t].wait = 0

(* Begin's effect on the requests.                                         *)
LEMMA BeginIs ==
  ASSUME Types, NEW t \in Tasks, NEW op \in Ops, NEW pc \in Places, NEW m \in Nat,
         Begin(t, op, pc, m)
  PROVE  Begun(t, op, pc, m)
<1>1. requests' = requests + 1 /\ requests + 1 \in 1 .. MaxRequests
  BY BoundIsNat DEF Types, Begin
<1> DEFINE r == [Idle EXCEPT !.pc = pc, !.op = op, !.id = requests + 1, !.mir = m]
<1>2. /\ r \in Request /\ r.pc = pc /\ r.op = op /\ r.id = requests + 1 /\ r.mir = m
      /\ r.wait = 0
  <2>1. requests + 1 \in 0 .. MaxRequests /\ Idle.wait = 0
    BY <1>1, BoundIsNat DEF Idle
  <2> QED
    BY <2>1, IdleIs, Zenon DEF Request
<1>3. task' = [task EXCEPT ![t] = r]
  BY DEF Begin
<1> HIDE DEF r
<1>4. /\ task' \in [Tasks -> Request] /\ \A u \in Tasks : u # t => task'[u] = task[u]
      /\ task'[t] = r
  BY <1>2, <1>3 DEF Types
<1> QED
  BY <1>1, <1>2, <1>4 DEF Begun

(* The three requests that a client can make.                              *)
LEMMA StartIs ==
  ASSUME Types, NEW t \in Tasks, JoinStart(t) \/ LeaveStart(t) \/ SendStart(t)
  PROVE  Started(t)
<1>0. sessions \in Nat /\ requests \in Nat /\ 0 \in Nat
  BY BoundIsNat DEF Types
<1>1. ASSUME NEW op \in Ops, NEW pc \in Places, NEW m \in Nat, Begin(t, op, pc, m)
      PROVE  /\ Begun(t, op, pc, m) /\ task[t].pc = "idle"
             /\ told' = [told EXCEPT ![t] = Untold]
             /\ UNCHANGED <<shared, conn, closing, hostVars>>
  BY <1>1, BeginIs, Zenon DEF Begin, At
<1> DEFINE first == IF sessions = 0 THEN "claim" ELSE "enroll"
<1>2. /\ first \in Places /\ "leave" \in Places /\ "send" \in Places
      /\ "join" \in Ops /\ "leave" \in Ops /\ "send" \in Ops
  BY Zenon DEF Ops, Places
<1>3. CASE JoinStart(t)
  <2>1. Begin(t, "join", first, sessions)
    BY <1>3 DEF JoinStart
  <2> HIDE DEF first
  <2>2. Begun(t, "join", first, sessions) /\ task[t].pc = "idle"
        /\ told' = [told EXCEPT ![t] = Untold] /\ UNCHANGED <<shared, conn, closing, hostVars>>
    BY <1>0, <1>1, <1>2, <2>1, Zenon
  <2> QED
    BY <1>0, <2>2
       DEF first, Begun, Started, Known, JoinPlaces, LeavePlaces, Subscribes
<1>4. CASE LeaveStart(t)
  <2>1. Begin(t, "leave", "leave", sessions)
    BY <1>4 DEF LeaveStart
  <2>2. Begun(t, "leave", "leave", sessions) /\ task[t].pc = "idle"
        /\ told' = [told EXCEPT ![t] = Untold] /\ UNCHANGED <<shared, conn, closing, hostVars>>
    BY <1>0, <1>1, <1>2, <2>1, Zenon
  <2> QED
    BY <1>0, <2>2 DEF Begun, Started, Known, JoinPlaces, LeavePlaces, Subscribes
<1>5. CASE SendStart(t)
  <2>1. Begin(t, "send", "send", 0)
    BY <1>5, Zenon DEF SendStart
  <2>2. Begun(t, "send", "send", 0) /\ task[t].pc = "idle"
        /\ told' = [told EXCEPT ![t] = Untold] /\ UNCHANGED <<shared, conn, closing, hostVars>>
    BY <1>0, <1>1, <1>2, <2>1
  <2> QED
    BY <1>0, <2>2 DEF Begun, Started, Known, JoinPlaces, LeavePlaces, Subscribes
<1> QED
  BY <1>3, <1>4, <1>5

\* What is not the requests' own keeps its type.
RestTyped ==
  /\ dir' \in [there : BOOLEAN, member : BOOLEAN] /\ conn' \in [Tasks -> BOOLEAN]
  /\ slot' \in [state : {"none", "reserved", "live"}, by : 0 .. MaxRequests]
  /\ fwds' \subseteq Fwd
  /\ closing' \in [by : 0 .. MaxRequests, mir : Nat, pc : {"none", "unmap", "forget"}]
  /\ host' \in HostRec /\ net' \subseteq Frames
  /\ \A f \in net' : f.type = "request" => f.id # 0

(* Every step keeps the types of what is not the requests' own.            *)
LEMMA RestStep ==
  ASSUME Types, Refers, Numbered, [Next]_vars
  PROVE  RestTyped
<1>0. /\ dir \in [there : BOOLEAN, member : BOOLEAN] /\ conn \in [Tasks -> BOOLEAN]
      /\ slot \in [state : {"none", "reserved", "live"}, by : 0 .. MaxRequests]
      /\ fwds \subseteq Fwd
      /\ closing \in [by : 0 .. MaxRequests, mir : Nat, pc : {"none", "unmap", "forget"}]
      /\ host \in HostRec /\ net \subseteq Frames
      /\ \A f \in net : f.type = "request" => f.id # 0
  BY DEF Types
<1>n. /\ NoDir \in [there : BOOLEAN, member : BOOLEAN]
      /\ NoSlot \in [state : {"none", "reserved", "live"}, by : 0 .. MaxRequests]
      /\ NoClose \in [by : 0 .. MaxRequests, mir : Nat, pc : {"none", "unmap", "forget"}]
  BY BoundIsNat DEF NoDir, NoSlot, NoClose
<1>t. ASSUME NEW t \in Tasks
      PROVE  task[t].id \in 0 .. MaxRequests /\ task[t].mir \in Nat /\ task[t].retried \in BOOLEAN
  BY Zenon DEF Types, Request
<1>i. ASSUME NEW t \in Tasks, task[t].pc # "idle" PROVE task[t].id \in Ids
  BY <1>i, <1>t, BoundIsNat DEF Numbered, Known, Ids
<1>f. Forget => /\ slot' \in [state : {"none", "reserved", "live"}, by : 0 .. MaxRequests]
                /\ fwds' \subseteq Fwd
  BY <1>0, <1>n DEF Forget
<1>1. ASSUME NEW t \in Tasks, NEW ok \in BOOLEAN, ClaimCreate(t, ok) \/ RollbackDelete(t, ok)
      PROVE  RestTyped
  <2>1. /\ dir' \in {dir, NoDir, [there |-> TRUE, member |-> FALSE]}
        /\ UNCHANGED <<slot, fwds, conn, closing, host, net>>
    BY <1>1 DEF ClaimCreate, RollbackDelete, Silent, Same, hostVars
  <2>2. [there |-> TRUE, member |-> FALSE] \in [there : BOOLEAN, member : BOOLEAN]
    OBVIOUS
  <2> QED
    BY <1>0, <1>n, <2>1, <2>2, Zenon DEF RestTyped
<1>2. ASSUME NEW t \in Tasks, NEW b \in BOOLEAN, Enroll(t, b) PROVE RestTyped
  <2>1. task[t].mir # 0 /\ task[t].mir <= Len(mirrors) /\ task[t].mir \in Nat
    BY <1>2, <1>t, Zenon DEF Enroll, At, Numbered, Known, Refers
  <2>2. mirrors[task[t].mir] \in MirrorRec
    BY <2>1 DEF Types
  <2> DEFINE done == mirrors[task[t].mir].member \/ b
  <2>3. done \in BOOLEAN
    BY <2>2 DEF MirrorRec
  <2>4. /\ conn' = [conn EXCEPT ![t] = conn[t] \/ done]
        /\ dir' = [dir EXCEPT !.member = dir.member \/ b]
        /\ UNCHANGED <<slot, fwds, closing, host, net>>
    BY <1>2 DEF Enroll, Same, hostVars
  <2> HIDE DEF done
  <2>5. conn' \in [Tasks -> BOOLEAN]
    BY <1>0, <2>3, <2>4
  <2>6. dir' \in [there : BOOLEAN, member : BOOLEAN]
    BY <1>0, <2>4
  <2> QED
    BY <1>0, <2>4, <2>5, <2>6, Zenon DEF RestTyped
<1>3. ASSUME NEW t \in Tasks, NEW b \in BOOLEAN, Leave(t, b) PROVE RestTyped
  BY <1>0, <1>n, <1>3 DEF Leave, Same, hostVars, RestTyped
<1>4. ASSUME NEW t \in Tasks, LeaveForget(t) PROVE RestTyped
  <2>1. conn' = [conn EXCEPT ![t] = FALSE] /\ closing' \in {closing, NoClose}
        /\ UNCHANGED <<dir, host, net>> /\ Forget
    BY <1>4 DEF LeaveForget, hostVars
  <2> QED
    BY <1>0, <1>n, <1>f, <2>1 DEF RestTyped
<1>5. ASSUME NEW t \in Tasks, Reserve(t) \/ NoNeighbor(t) \/ Finalize(t) PROVE RestTyped
  <2>1. /\ slot' \in {slot, NoSlot, [state |-> "reserved", by |-> task[t].id],
                      [state |-> "live", by |-> task[t].id]}
        /\ fwds' \subseteq fwds /\ UNCHANGED <<dir, conn, closing, host, net>>
    BY <1>5, Zenon DEF Reserve, NoNeighbor, Finalize, Finalized, Silent, Same, hostVars
  <2> QED
    BY <1>0, <1>n, <1>t, <2>1 DEF RestTyped
<1>6. ASSUME NEW t \in Tasks, Neighbor(t) PROVE RestTyped
  <2>1. MyForwarder(t) \in Fwd
    BY <1>6, <1>t, <1>i, Zenon DEF Neighbor, At, MyForwarder, Fwd
  <2> QED
    BY <1>0, <1>6, <2>1 DEF RestTyped, Neighbor, Silent, Same, hostVars
<1>7. ASSUME NEW t \in Tasks, NEW b \in BOOLEAN, PublishPresence(t) \/ SendForward(t, b)
      PROVE  RestTyped
  <2>1. Announcement \in Frames /\ Frame("request", task[t].id, task[t].retried) \in Frames
    BY <1>t, BoundIsNat DEF Announcement, Frame, Frames
  <2>3. Announcement.type # "request" /\ Frame("request", task[t].id, task[t].retried).id # 0
    BY <1>7 DEF PublishPresence, SendForward, At, Numbered, Known, Announcement, Frame
  <2>2. /\ UNCHANGED <<shared, conn, closing, host>>
        /\ net' \subseteq net \cup {Announcement, Frame("request", task[t].id, task[t].retried)}
    BY <1>7, Zenon DEF PublishPresence, SendForward
  <2> QED
    BY <1>0, <2>1, <2>2, <2>3, Zenon DEF RestTyped, shared
<1>8. ASSUME NEW f \in fwds, HearClose(f) PROVE RestTyped
  <2>1. f.by \in 0 .. MaxRequests /\ sessions \in Nat
    BY BoundIsNat DEF Types, Fwd, Ids
  <2> QED
    BY <1>0, <1>n, <1>8, <2>1 DEF RestTyped, HearClose, Closer, hostVars
<1>9. ASSUME NEW f \in fwds, ForwarderExits(f) PROVE RestTyped
  BY <1>0, <1>9 DEF RestTyped, ForwarderExits, Closer, hostVars
<1>10. CASE CloseUnmap
  <2>1. closing' \in [by : 0 .. MaxRequests, mir : Nat, pc : {"none", "unmap", "forget"}]
    BY <1>0, <1>10, Zenon DEF CloseUnmap
  <2> QED
    BY <1>0, <1>10, <2>1 DEF RestTyped, CloseUnmap, Closer, hostVars
<1>11. CASE CloseForget
  BY <1>0, <1>n, <1>f, <1>11 DEF RestTyped, CloseForget, Closer, hostVars
<1>12. CASE Admit \/ Dismiss
  <2>1. host' \in HostRec
    BY <1>0, <1>12, Zenon DEF Admit, Dismiss, HostRec
  <2> QED
    BY <1>0, <1>12, <2>1 DEF RestTyped, Admit, Dismiss, Joiner, shared
<1>13. ASSUME NEW f \in net, NEW b \in BOOLEAN, HostSend(f, b) PROVE RestTyped
  <2>1. f \in Frames /\ f.id \in 0 .. MaxRequests /\ f.try \in BOOLEAN
    BY <1>0 DEF Frames
  <2> DEFINE g == Frame(IF b THEN "ack" ELSE "reject", f.id, f.try)
  <2>2. g \in Frames /\ g.type # "request"
    BY <2>1 DEF Frame, Frames
  <2>3. /\ net' = net \cup {g} /\ UNCHANGED <<dir, conn, slot, fwds, closing>>
    BY <1>13 DEF HostSend, Joiner, shared
  <2> HIDE DEF g
  <2>5. f.id \in Ids
    BY <1>0, <1>13, <2>1, BoundIsNat DEF HostSend, Ids
  <2>6. Append(host.log, f.id) \in Seq(Ids)
    BY <1>0, <2>5 DEF HostRec
  <2>7. host.repeated \cup {f.id} \in SUBSET Ids
    BY <1>0, <2>5, Zenon DEF HostRec
  <2>4. host' \in HostRec
    BY <1>0, <1>13, <2>6, <2>7, Zenon DEF HostSend, HostRec
  <2> QED
    BY <1>0, <2>2, <2>3, <2>4 DEF RestTyped
<1>14. CASE Restart
  <2>1. conn' \in [Tasks -> BOOLEAN] /\ slot' = NoSlot /\ fwds' = {} /\ closing' = NoClose
        /\ UNCHANGED <<dir, host, net>>
    BY <1>14 DEF Restart, hostVars
  <2> QED
    BY <1>0, <1>n, <2>1 DEF RestTyped
<1>15. ASSUME UNCHANGED <<dir, conn, slot, fwds, closing, host, net>> PROVE RestTyped
  BY <1>0, <1>15, Zenon DEF RestTyped
<1>16. ASSUME NEW t \in Tasks,
             \/ JoinStart(t) \/ LeaveStart(t) \/ SendStart(t)
             \/ ClaimRead(t) \/ ClaimInsert(t) \/ Adopt(t) \/ Await(t) \/ FinishOk(t)
             \/ Rollback(t) \/ FinishFailed(t) \/ Unmap(t) \/ SendCheck(t) \/ SendNoTopic(t)
             \/ Resubscribe(t) \/ SendTimeout(t)
             \/ \E answer \in {"ack", "reject"} : SendAnswered(t, answer)
       PROVE  RestTyped
  BY <1>15, <1>16 DEF JoinStart, LeaveStart, SendStart, Begin, ClaimRead, ClaimInsert, Insert,
     Adopt, Await, FinishOk, Rollback, FinishFailed, Unmap, SendCheck, SendNoTopic, Resubscribe,
     SendTimeout, TimedOut, SendAnswered, shared, Silent, Same, hostVars
<1>17. CASE UNCHANGED vars
  BY <1>15, <1>17, Zenon DEF vars
<1> QED
  BY <1>1, <1>2, <1>3, <1>4, <1>5, <1>6, <1>7, <1>8, <1>9, <1>10, <1>11, <1>12, <1>13, <1>14,
     <1>16, <1>17, Zenon DEF Next, Step

(* The steps that touch the slot or the forwarders.                        *)
LEMMA SlotIs ==
  ASSUME [Next]_vars
  PROVE  \/ UNCHANGED <<slot, fwds>> \/ CloseForget \/ Restart
         \/ \E f \in fwds : ForwarderExits(f)
         \/ \E t \in Tasks : \/ Reserve(t) \/ Neighbor(t) \/ NoNeighbor(t) \/ Finalize(t)
                             \/ LeaveForget(t)
<1>1. ASSUME NEW t \in Tasks,
             \/ JoinStart(t) \/ LeaveStart(t) \/ SendStart(t)
             \/ ClaimRead(t) \/ ClaimInsert(t) \/ Adopt(t) \/ Await(t) \/ FinishOk(t)
             \/ Rollback(t) \/ FinishFailed(t) \/ Unmap(t) \/ SendCheck(t) \/ SendNoTopic(t)
             \/ Resubscribe(t) \/ SendTimeout(t) \/ PublishPresence(t)
             \/ \E answer \in {"ack", "reject"} : SendAnswered(t, answer)
      PROVE  UNCHANGED <<slot, fwds>>
  BY <1>1, Zenon DEF JoinStart, LeaveStart, SendStart, Begin, ClaimRead, ClaimInsert, Adopt, Await,
     FinishOk, Rollback, FinishFailed, Unmap, SendCheck, SendNoTopic, Resubscribe, SendTimeout,
     PublishPresence, SendAnswered, shared
<1>2. ASSUME NEW t \in Tasks, NEW b \in BOOLEAN,
             \/ ClaimCreate(t, b) \/ RollbackDelete(t, b) \/ Enroll(t, b) \/ Leave(t, b)
             \/ SendForward(t, b)
      PROVE  UNCHANGED <<slot, fwds>>
  BY <1>2 DEF ClaimCreate, RollbackDelete, Enroll, Leave, SendForward, shared
<1>3. ASSUME \/ \E f \in fwds : HearClose(f)
             \/ CloseUnmap \/ Admit \/ Dismiss
             \/ \E f \in net, b \in BOOLEAN : HostSend(f, b)
             \/ UNCHANGED vars
      PROVE  UNCHANGED <<slot, fwds>>
  BY <1>3 DEF HearClose, CloseUnmap, Admit, Dismiss, HostSend, Joiner, shared, vars
<1> QED
  BY <1>1, <1>2, <1>3, Zenon DEF Next, Step

Shape == Types /\ Refers /\ Numbered

(* Every step keeps the types, the references and the numbers.             *)
LEMMA ShapeStep ==
  ASSUME Shape, [Next]_vars
  PROVE  Shape'
<1>0. Types /\ Refers /\ Numbered
  BY DEF Shape
<1>1. RestTyped /\ MirrorsGrow /\ MapRefers
  BY <1>0, RestStep, MapStep, Zenon
<1>2. /\ Len(mirrors) \in Nat /\ Len(mirrors') \in Nat /\ Len(mirrors) <= Len(mirrors')
      /\ sessions \in 0 .. Len(mirrors) /\ sessions' \in 0 .. Len(mirrors')
      /\ pending \in 0 .. Len(mirrors)
      /\ \A f \in fwds : f.mir \in Nat
      /\ \A t \in Tasks : task[t].mir \in Nat /\ task[t].wait \in Nat /\ task[t].id \in Nat
      /\ requests \in Nat
  <2>1. /\ \A f \in fwds : f.mir \in Nat
        /\ \A t \in Tasks : task[t].mir \in Nat /\ task[t].wait \in Nat /\ task[t].id \in Nat
        /\ requests \in Nat
    BY <1>0, BoundIsNat DEF Types, Request, Fwd
  <2>2. /\ Len(mirrors) \in Nat /\ Len(mirrors') \in Nat /\ Len(mirrors) <= Len(mirrors')
        /\ sessions \in 0 .. Len(mirrors) /\ sessions' \in 0 .. Len(mirrors')
        /\ pending \in 0 .. Len(mirrors)
    BY <1>0, <1>1 DEF Types, Refers, MirrorsGrow, MapRefers
  <2> QED
    BY <2>1, <2>2, Zenon
<1>3. \A f \in fwds' : f.mir <= Len(mirrors')
  <2>1. fwds' \subseteq fwds \/ \E t \in Tasks : fwds' = fwds \cup {MyForwarder(t)}
    BY SlotIs DEF CloseForget, Forget, Restart, ForwarderExits, Reserve, Neighbor, NoNeighbor,
       Finalize, Finalized, LeaveForget
  <2>2. \A t \in Tasks : MyForwarder(t).mir = task[t].mir
    BY Zenon DEF MyForwarder
  <2> QED
    BY <1>0, <1>2, <2>1, <2>2 DEF Refers
<1> DEFINE RequestsTyped ==
             /\ task' \in [Tasks -> Request] /\ told' \in [Tasks -> Told]
             /\ requests' \in 0 .. MaxRequests
           RequestsRefer ==
             \A t \in Tasks : task'[t].mir <= Len(mirrors') /\ task'[t].wait <= Len(mirrors')
<1>4. Untold \in Told /\ Idle \in Request /\ Known(Idle) /\ Idle.id = 0 /\ Idle.mir = 0
      /\ Idle.wait = 0
  BY BoundIsNat DEF Untold, Told, Idle, Request, Places, Ops, Known, JoinPlaces, LeavePlaces,
     Subscribes
<1>5. ASSUME NEW t \in Tasks, JoinStart(t) \/ LeaveStart(t) \/ SendStart(t)
      PROVE  RequestsTyped /\ RequestsRefer /\ Numbered'
  <2>1. Started(t)
    BY <1>0, <1>5, StartIs, Zenon
  <2>2. RequestsTyped
    BY <1>0, <1>4, <2>1, BoundIsNat DEF Started, Types
  <2>3. RequestsRefer
    BY <1>0, <1>2, <2>1 DEF Started, Refers
  <2>5. ASSUME NEW u \in Tasks
        PROVE  /\ Known(task'[u]) /\ task'[u].id <= requests'
               /\ u # t => task'[u].id # task'[t].id
    BY <1>0, <1>2, <2>1 DEF Started, Numbered
  <2>6. ASSUME NEW u \in Tasks, NEW w \in Tasks, task'[u].id = task'[w].id, task'[u].id # 0
        PROVE  u = w
    BY <1>0, <2>1, <2>5, <2>6, Zenon DEF Started, Numbered
  <2>4. Numbered'
    BY <2>5, <2>6, Zenon DEF Numbered
  <2> QED
    BY <2>2, <2>3, <2>4
<1>6. ASSUME NEW t \in Tasks, Step(t) PROVE RequestsTyped /\ RequestsRefer /\ Numbered'
  <2>1. OnlyTask(t) /\ OnlyTold(t) /\ Route(t) /\ requests' = requests
    BY <1>0, <1>6, StepIs DEF Numbered
  <2>2. told' \in [Tasks -> Told]
    <3>1. \A result \in Results : [op |-> task[t].op, id |-> task[t].id, result |-> result] \in Told
      BY <1>0 DEF Types, Request, Told
    <3>2. told \in [Tasks -> Told]
      BY <1>0 DEF Types
    <3>3. CASE told' = told
      BY <3>2, <3>3
    <3>4. CASE told' # told
      <4>1. PICK result \in Results :
              told' = [told EXCEPT ![t] = [op |-> task[t].op, id |-> task[t].id, result |-> result]]
        BY <2>1, <3>4 DEF OnlyTold
      <4> QED
        BY <3>1, <3>2, <4>1, Zenon
    <3> QED
      BY <3>3, <3>4
  <2>3. RequestsTyped
    <3>1. task' \in [Tasks -> Request]
      BY <2>1 DEF OnlyTask
    <3>2. requests \in 0 .. MaxRequests
      BY <1>0, Zenon DEF Types
    <3> QED
      BY <2>1, <2>2, <3>1, <3>2, Zenon
  <2>4. ASSUME NEW u \in Tasks PROVE task'[u].mir <= Len(mirrors') /\ task'[u].wait <= Len(mirrors')
    <3>1. task[u].mir <= Len(mirrors) /\ task[u].wait <= Len(mirrors)
      BY <1>0, Zenon DEF Refers
    <3>2. \/ task'[u] = task[u] \/ task'[u] = Idle
          \/ /\ task'[u].mir \in {task[u].mir, sessions, sessions'}
             /\ task'[u].wait \in {task[u].wait, pending}
      BY <2>1, Zenon DEF OnlyTask
    <3> QED
      BY <1>2, <1>4, <3>1, <3>2
  <2>5. Numbered'
    <3>1. requests' = requests /\ requests \in Nat /\ 0 <= requests
      BY <1>2, <2>1
    <3>2. ASSUME NEW u \in Tasks
          PROVE  Known(task'[u]) /\ (task'[u].id = task[u].id \/ task'[u].id = 0)
      BY <1>0, <1>4, <2>1, Zenon DEF OnlyTask, Route, Numbered
    <3>3. ASSUME NEW u \in Tasks PROVE task'[u].id <= requests'
      BY <1>0, <3>1, <3>2, Zenon DEF Numbered
    <3>4. ASSUME NEW u \in Tasks, NEW v \in Tasks, task'[u].id = task'[v].id, task'[u].id # 0
          PROVE  u = v
      BY <1>0, <3>2, <3>4, Zenon DEF Numbered
    <3> QED
      BY <3>2, <3>3, <3>4, Zenon DEF Numbered
  <2> QED
    BY <2>3, <2>4, <2>5
<1>7. ASSUME UNCHANGED <<task, told, requests>>
      PROVE  RequestsTyped /\ RequestsRefer /\ Numbered'
  BY <1>0, <1>2, <1>7 DEF Types, Refers, Numbered
<1>8. ASSUME Restart PROVE RequestsTyped /\ RequestsRefer /\ Numbered'
  <2>1. task' = [t \in Tasks |-> Idle] /\ told' = [t \in Tasks |-> Untold] /\ requests' = requests
    BY <1>8 DEF Restart
  <2>2. RequestsTyped /\ RequestsRefer
    BY <1>0, <1>2, <1>4, <2>1 DEF Types
  <2>3. Numbered'
    BY <1>2, <1>4, <2>1 DEF Numbered
  <2> QED
    BY <2>2, <2>3
<1>9. ASSUME \/ \E f \in fwds : HearClose(f) \/ ForwarderExits(f)
             \/ CloseUnmap \/ CloseForget \/ Admit \/ Dismiss
             \/ \E f \in net, b \in BOOLEAN : HostSend(f, b)
             \/ UNCHANGED vars
      PROVE  UNCHANGED <<task, told, requests>>
  BY <1>9, Zenon DEF HearClose, ForwarderExits, CloseUnmap, CloseForget, Closer, Admit, Dismiss, HostSend,
     Joiner, vars
<1>10. RequestsTyped /\ RequestsRefer /\ Numbered'
  BY <1>5, <1>6, <1>7, <1>8, <1>9, Zenon DEF Next
<1>11. Types'
  BY <1>1, <1>10 DEF Types, RestTyped, MirrorsGrow, MapRefers
<1>12. Refers'
  BY <1>1, <1>3, <1>10 DEF Refers, MapRefers
<1> QED
  BY <1>10, <1>11, <1>12 DEF Shape
-----------------------------------------------------------------------------
(* The forwarders                                                          *)

(* What a step does to the requests.                                       *)
LEMMA TaskIs ==
  ASSUME Shape, [Next]_vars
  PROVE  \/ \E t \in Tasks : Started(t)
         \/ \E t \in Tasks : /\ Step(t) /\ OnlyTask(t) /\ OnlyTold(t) /\ Route(t)
                             /\ requests' = requests
         \/ Restart
         \/ UNCHANGED <<task, told, requests>>
<1>1. ASSUME \/ \E f \in fwds : HearClose(f) \/ ForwarderExits(f)
             \/ CloseUnmap \/ CloseForget \/ Admit \/ Dismiss
             \/ \E f \in net, b \in BOOLEAN : HostSend(f, b)
             \/ UNCHANGED vars
      PROVE  UNCHANGED <<task, told, requests>>
  BY <1>1 DEF HearClose, ForwarderExits, CloseUnmap, CloseForget, Closer, Admit, Dismiss, HostSend,
     Joiner, vars
<1>2. \A t \in Tasks : JoinStart(t) \/ LeaveStart(t) \/ SendStart(t) => Started(t)
  BY StartIs, Zenon DEF Shape
<1>3. \A t \in Tasks : Step(t) => OnlyTask(t) /\ OnlyTold(t) /\ Route(t) /\ requests' = requests
  BY StepIs DEF Shape, Numbered
<1> QED
  BY <1>1, <1>2, <1>3 DEF Next

(* A request about to finalize, or to forget the slot, does that next.     *)
LEMMA NextPlace ==
  ASSUME NEW t \in Tasks, Step(t)
  PROVE  /\ task[t].pc = "finalize" => Finalize(t)
         /\ task[t].pc = "forget" => LeaveForget(t)
<1>1. \/ ClaimRead(t) \/ ClaimInsert(t) \/ Adopt(t) \/ Await(t) \/ FinishOk(t) \/ Rollback(t)
      \/ FinishFailed(t) \/ Reserve(t) \/ Neighbor(t) \/ NoNeighbor(t)
      => task[t].pc # "finalize" /\ task[t].pc # "forget"
  BY DEF ClaimRead, ClaimInsert, Adopt, Await, FinishOk, Rollback, FinishFailed, Reserve, Neighbor,
     NoNeighbor, At
<1>2. \/ PublishPresence(t) \/ Unmap(t) \/ SendCheck(t) \/ SendNoTopic(t) \/ Resubscribe(t)
      \/ SendTimeout(t) \/ \E answer \in {"ack", "reject"} : SendAnswered(t, answer)
      => task[t].pc # "finalize" /\ task[t].pc # "forget"
  BY Zenon DEF PublishPresence, Unmap, SendCheck, SendNoTopic, Resubscribe, SendTimeout, SendAnswered, At
<1>3. (\E b \in BOOLEAN : \/ ClaimCreate(t, b) \/ RollbackDelete(t, b) \/ Enroll(t, b)
                          \/ Leave(t, b) \/ SendForward(t, b))
      => task[t].pc # "finalize" /\ task[t].pc # "forget"
  BY DEF ClaimCreate, RollbackDelete, Enroll, Leave, SendForward, At
<1>4. /\ Finalize(t) => task[t].pc = "finalize"
      /\ LeaveForget(t) => task[t].pc = "forget"
  BY Zenon DEF Finalize, LeaveForget, At
<1> QED
  BY <1>1, <1>2, <1>3, <1>4, Zenon DEF Step

(* A request stays at these places until it takes that step.               *)
LEMMA PlaceStays ==
  ASSUME Shape, [Next]_vars, NEW u \in Tasks, task[u].pc \in {"finalize", "forget"}
  PROVE  task'[u] = task[u] \/ Restart \/ Finalize(u) \/ LeaveForget(u)
<1>1. ASSUME NEW t \in Tasks, Started(t) PROVE task'[u] = task[u]
  BY <1>1, Zenon DEF Started
<1>2. ASSUME NEW t \in Tasks, Step(t), OnlyTask(t)
      PROVE  task'[u] = task[u] \/ Finalize(u) \/ LeaveForget(u)
  BY <1>2, NextPlace DEF OnlyTask
<1> QED
  BY <1>1, <1>2, TaskIs, Zenon

(* A number is spent on one forwarder.                                     *)
LEMMA SpawnedStep ==
  ASSUME Shape, Spawned, [Next]_vars
  PROVE  Spawned'
<1>0. /\ Types /\ Refers /\ Numbered /\ requests \in Nat
      /\ \A f \in fwds : f.by \in Nat /\ f.by # 0 /\ f.mir \in Nat
      /\ \A t \in Tasks : task[t].id \in Nat
  BY BoundIsNat DEF Shape, Types, Fwd, Ids, Request
<1>1. ASSUME NEW t \in Tasks, Neighbor(t) PROVE Spawned'
  <2>1. Step(t)
    BY <1>1 DEF Step
  <2>2. OnlyTask(t) /\ Route(t) /\ requests' = requests /\ task[t].pc = "subscribe"
    BY <1>0, <1>1, <2>1, StepIs DEF Numbered, Neighbor, At
  <2>3. /\ task'[t].pc = "finalize" /\ task'[t].id = task[t].id /\ task'[t].mir = task[t].mir
        /\ fwds' = fwds \cup {MyForwarder(t)}
    BY <1>0, <1>1, GotoMoves, Zenon DEF Neighbor, Moved, Places
  <2>4. /\ MyForwarder(t).by = task[t].id /\ MyForwarder(t).mir = task[t].mir
        /\ task[t].id # 0 /\ task[t].id <= requests /\ task[t].mir # 0
    BY <1>0, <2>2, Zenon DEF MyForwarder, Numbered, Known
  <2>5. Unsubscribed(task[t]) /\ ~Unsubscribed(task'[t])
    BY <2>2, <2>3, Zenon DEF Unsubscribed
  <2>6. ASSUME NEW f \in fwds'
        PROVE  /\ f.by <= requests' /\ f.mir # 0
               /\ \A u \in Tasks : task'[u].id = f.by =>
                    ~Unsubscribed(task'[u]) /\ (task'[u].pc = "finalize" => task'[u].mir = f.mir)
    <3>1. CASE f = MyForwarder(t)
      <4>1. \A u \in Tasks : task'[u].id = f.by => u = t
        BY <1>0, <2>2, <2>3, <2>4, <3>1, Zenon DEF OnlyTask, Numbered
      <4> QED
        BY <2>2, <2>3, <2>4, <2>5, <3>1, <4>1, Zenon
    <3>2. CASE f # MyForwarder(t)
      <4>1. f \in fwds
        BY <2>3, <3>2, Zenon
      <4>2. task'[t].id # f.by
        BY <2>3, <2>5, <4>1, Zenon DEF Spawned
      <4> QED
        BY <2>2, <4>1, <4>2, Zenon DEF Spawned, OnlyTask, At
    <3> QED
      BY <3>1, <3>2, Zenon
  <2> QED
    BY <2>6 DEF Spawned, At
<1>2. ASSUME fwds' \subseteq fwds, \A t \in Tasks : ~Neighbor(t) PROVE Spawned'
  <2> SUFFICES ASSUME NEW f \in fwds
               PROVE  /\ f.by <= requests' /\ f.mir # 0
                      /\ \A u \in Tasks : task'[u].id = f.by =>
                           /\ ~Unsubscribed(task'[u])
                           /\ task'[u].pc = "finalize" => task'[u].mir = f.mir
    BY <1>2, Zenon DEF Spawned, At
  <2>0. /\ f.by <= requests /\ f.mir # 0 /\ f.by \in Nat /\ f.by # 0
        /\ \A u \in Tasks : task[u].id = f.by =>
             ~Unsubscribed(task[u]) /\ (task[u].pc = "finalize" => task[u].mir = f.mir)
    BY <1>0, Zenon DEF Spawned, At
  <2>1. ASSUME NEW t \in Tasks, Started(t)
        PROVE  f.by <= requests' /\ task'[t].id # f.by /\ \A u \in Tasks : u # t => task'[u] = task[u]
    BY <1>0, <2>0, <2>1 DEF Started
  <2>2. ASSUME NEW t \in Tasks, OnlyTask(t), Route(t), task'[t].id = f.by
        PROVE  ~Unsubscribed(task'[t]) /\ task'[t].pc # "finalize"
    <3>1. task[t].id = f.by
      BY <2>0, <2>2, SMTT(40) DEF OnlyTask, Idle
    <3> QED
      BY <1>2, <2>0, <2>2, <3>1, Zenon DEF Route
  <2>3. ASSUME Restart PROVE requests' = requests /\ \A u \in Tasks : task'[u].id = 0
    BY <2>3, Zenon DEF Restart, Idle
  <2>4. CASE \E t \in Tasks : Started(t)
    BY <2>0, <2>1, <2>4, Zenon
  <2>5. CASE \E t \in Tasks : Step(t) /\ OnlyTask(t) /\ OnlyTold(t) /\ Route(t) /\ requests' = requests
    BY <2>0, <2>2, <2>5, Zenon DEF OnlyTask
  <2>6. CASE Restart
    BY <2>0, <2>3, <2>6, Zenon
  <2>7. CASE UNCHANGED <<task, told, requests>>
    BY <2>0, <2>7
  <2> QED
    BY <2>4, <2>5, <2>6, <2>7, TaskIs, Zenon
<1>3. (\A t \in Tasks : ~Neighbor(t)) => fwds' \subseteq fwds
  BY SlotIs, Zenon DEF CloseForget, Forget, Restart, ForwarderExits, Reserve, NoNeighbor, Finalize,
     Finalized, LeaveForget
<1> QED
  BY <1>1, <1>2, <1>3, Zenon

(* No step leaves a forwarder behind that its slot cannot abort.           *)
LEMMA OrphanStep ==
  ASSUME Shape, Spawned, NoOrphanForwarder, [Next]_vars
  PROVE  NoOrphanForwarder'
<1> DEFINE Live(f) == slot = [state |-> "live", by |-> f.by]
           Ends(u, f) == task[u].pc = "finalize" /\ task[u].id = f.by
<1>0. \A f \in fwds : Live(f) \/ \E u \in Tasks : Ends(u, f)
  BY Zenon DEF NoOrphanForwarder, At
<1> SUFFICES ASSUME NEW f \in fwds'
             PROVE  \/ slot' = [state |-> "live", by |-> f.by]
                    \/ \E u \in Tasks : task'[u].pc = "finalize" /\ task'[u].id = f.by
  BY Zenon DEF NoOrphanForwarder, At
<1> DEFINE Goal == \/ slot' = [state |-> "live", by |-> f.by]
                   \/ \E u \in Tasks : task'[u].pc = "finalize" /\ task'[u].id = f.by
<1>1. CASE Restart
  BY <1>1, Zenon DEF Restart
<1>2. ASSUME NEW u \in Tasks, ~Restart, ~Finalize(u), task[u].pc = "finalize"
      PROVE  task'[u] = task[u]
  BY <1>2, PlaceStays, Zenon DEF LeaveForget, At
<1>3. ASSUME NEW t \in Tasks, Neighbor(t), ~Restart PROVE Goal
  <2>1. task'[t].pc = "finalize" /\ task'[t].id = task[t].id
    BY <1>3, GotoMoves DEF Neighbor, Moved, Places, Shape
  <2>2. fwds' = fwds \cup {MyForwarder(t)} /\ slot' = slot /\ task[t].pc # "finalize"
    BY <1>3 DEF Neighbor, At
  <2>3. \A u \in Tasks : task[u].pc = "finalize" => task'[u] = task[u]
    BY <1>2, <1>3, <2>1, Zenon DEF Finalize, Neighbor, Goto, Shape, Types, At
  <2>4. CASE f = MyForwarder(t)
    BY <2>1, <2>4, Zenon DEF MyForwarder
  <2>5. CASE f \in fwds
    BY <1>0, <2>2, <2>3, <2>5, Zenon
  <2> QED
    BY <2>2, <2>4, <2>5, Zenon
<1>4. ASSUME NEW t \in Tasks, Finalize(t), ~Restart PROVE Goal
  <2>1. /\ task[t].pc = "finalize"
        /\ \A u \in Tasks : u # t => task'[u] = task[u]
    BY <1>4, Zenon DEF Finalize, Goto, Shape, Types, At
  <2>2. CASE OursReserved(t)
    <3>1. slot' = [state |-> "live", by |-> task[t].id] /\ fwds' = fwds
      BY <1>4, <2>2, Zenon DEF Finalize, Finalized
    <3>2. ~Live(f)
      BY <2>2, Zenon DEF OursReserved
    <3> QED
      BY <1>0, <2>1, <3>1, <3>2, Zenon
  <2>3. CASE ~OursReserved(t)
    <3>1. slot' = slot /\ f \in fwds /\ f # MyForwarder(t)
      BY <1>4, <2>3, Zenon DEF Finalize, Finalized
    <3>2. ~Ends(t, f)
      <4>1. f \in Fwd
        BY <3>1, Zenon DEF Shape, Types
      <4>2. Ends(t, f) => f.mir = task[t].mir
        BY <3>1, Zenon DEF Spawned, At
      <4> QED
        BY <3>1, <4>1, <4>2, Zenon DEF MyForwarder, Fwd
    <3> QED
      BY <1>0, <2>1, <3>1, <3>2, Zenon
  <2> QED
    BY <2>2, <2>3
<1>5. ASSUME \A t \in Tasks : ~Finalize(t), ~Restart, f \in fwds, Live(f) => slot' = slot
      PROVE  Goal
  BY <1>0, <1>2, <1>5, Zenon
<1>6. ASSUME NEW t \in Tasks, Reserve(t) \/ NoNeighbor(t)
      PROVE  f \in fwds /\ (Live(f) => slot' = slot)
  BY <1>6 DEF Reserve, NoNeighbor, OursReserved
<1>7. ASSUME Forget PROVE f \in fwds /\ ~Live(f)
  BY <1>7 DEF Forget
<1>8. ASSUME NEW g \in fwds, ForwarderExits(g) PROVE f \in fwds /\ slot' = slot
  BY <1>8, Zenon DEF ForwarderExits
<1> QED
  BY <1>1, <1>3, <1>4, <1>5, <1>6, <1>7, <1>8, SlotIs, Zenon DEF LeaveForget, CloseForget

(* The steps that change what the map holds under the session id.          *)
LEMMA SessionsIs ==
  ASSUME [Next]_vars
  PROVE  \/ sessions' = sessions \/ CloseUnmap \/ Restart
         \/ \E t \in Tasks : ClaimInsert(t) \/ Rollback(t) \/ Unmap(t)
<1>1. ASSUME NEW t \in Tasks,
             \/ JoinStart(t) \/ LeaveStart(t) \/ SendStart(t)
             \/ ClaimRead(t) \/ Adopt(t) \/ Await(t) \/ FinishOk(t) \/ FinishFailed(t)
             \/ Reserve(t) \/ Neighbor(t) \/ NoNeighbor(t) \/ Finalize(t) \/ LeaveForget(t)
             \/ SendCheck(t) \/ SendNoTopic(t) \/ Resubscribe(t) \/ SendTimeout(t)
             \/ PublishPresence(t)
             \/ \E answer \in {"ack", "reject"} : SendAnswered(t, answer)
      PROVE  sessions' = sessions
  BY <1>1, Zenon DEF JoinStart, LeaveStart, SendStart, Begin, ClaimRead, Adopt, Await, FinishOk,
     FinishFailed, Reserve, Neighbor, NoNeighbor, Finalize, LeaveForget, SendCheck, SendNoTopic,
     Resubscribe, SendTimeout, PublishPresence, SendAnswered, shared
<1>2. ASSUME NEW t \in Tasks, NEW b \in BOOLEAN,
             \/ ClaimCreate(t, b) \/ RollbackDelete(t, b) \/ Enroll(t, b) \/ Leave(t, b)
             \/ SendForward(t, b)
      PROVE  sessions' = sessions
  BY <1>2 DEF ClaimCreate, RollbackDelete, Enroll, Leave, SendForward, shared
<1>3. ASSUME \/ \E f \in fwds : HearClose(f) \/ ForwarderExits(f)
             \/ CloseForget \/ Admit \/ Dismiss
             \/ \E f \in net, b \in BOOLEAN : HostSend(f, b)
             \/ UNCHANGED vars
      PROVE  sessions' = sessions
  BY <1>3 DEF HearClose, ForwarderExits, CloseForget, Admit, Dismiss, HostSend, Joiner, shared, vars
<1> QED
  BY <1>1, <1>2, <1>3, Zenon DEF Next, Step

(* A removal that has yet to forget the slot still has to afterwards.      *)
LEMMA DueStays ==
  ASSUME Shape, [Next]_vars, ForgetIsDue, ~CloseForget, ~Restart,
         \A t \in Tasks : ~LeaveForget(t)
  PROVE  ForgetIsDue'
<1>1. ASSUME NEW u \in Tasks, At(u, "forget") PROVE ForgetIsDue'
  <2>1. task'[u] = task[u]
    BY <1>1, PlaceStays DEF At, Finalize
  <2> QED
    BY <1>1, <2>1, Zenon DEF ForgetIsDue, At
<1>2. ASSUME closing.pc = "forget" PROVE ForgetIsDue'
  <2>1. closing # NoClose /\ closing.pc # "unmap"
    BY <1>2 DEF NoClose
  <2>2. ASSUME NEW t \in Tasks, JoinStart(t) \/ LeaveStart(t) \/ SendStart(t)
        PROVE  closing' = closing
    BY <2>2, Zenon DEF JoinStart, LeaveStart, SendStart, Begin
  <2>3. ASSUME NEW t \in Tasks,
               \/ ClaimRead(t) \/ ClaimInsert(t) \/ Adopt(t) \/ Await(t) \/ FinishOk(t)
               \/ FinishFailed(t) \/ Rollback(t) \/ Unmap(t)
               \/ Reserve(t) \/ Neighbor(t) \/ NoNeighbor(t) \/ Finalize(t)
               \/ SendCheck(t) \/ SendNoTopic(t) \/ Resubscribe(t) \/ SendTimeout(t)
               \/ PublishPresence(t)
               \/ \E answer \in {"ack", "reject"} : SendAnswered(t, answer)
        PROVE  closing' = closing
    BY <2>3, Zenon DEF ClaimRead, ClaimInsert, Adopt, Await, FinishOk, FinishFailed, Rollback, Unmap,
       Reserve, Neighbor, NoNeighbor, Finalize, SendCheck, SendNoTopic, Resubscribe, SendTimeout,
       PublishPresence, SendAnswered, Silent, Same
  <2>4. ASSUME NEW t \in Tasks, NEW b \in BOOLEAN,
               \/ ClaimCreate(t, b) \/ RollbackDelete(t, b) \/ Enroll(t, b) \/ Leave(t, b)
               \/ SendForward(t, b)
        PROVE  closing' = closing
    BY <2>4 DEF ClaimCreate, RollbackDelete, Enroll, Leave, SendForward, Silent, Same
  <2>5. ASSUME \/ \E f \in fwds : HearClose(f) \/ ForwarderExits(f)
               \/ CloseUnmap \/ Admit \/ Dismiss
               \/ \E f \in net, b \in BOOLEAN : HostSend(f, b)
               \/ UNCHANGED vars
        PROVE  closing' = closing
    BY <2>1, <2>5, Zenon DEF HearClose, ForwarderExits, CloseUnmap, Admit, Dismiss, HostSend, Joiner, vars
  <2>6. closing' = closing
    BY <2>2, <2>3, <2>4, <2>5 DEF Next, Step
  <2> QED
    BY <1>2, <2>6 DEF ForgetIsDue
<1> QED
  BY <1>1, <1>2 DEF ForgetIsDue

(* Unless a removal crosses a subscribe, the map does not change under a   *)
(* request that subscribes.                                                *)
LEMMA MapKept ==
  ASSUME Shape, Feeding, Untaken, Untaken', [Next]_vars, ~Restart,
         NEW u \in Tasks, task[u].pc \in Subscribes
  PROVE  sessions' = sessions
<1>0. Types /\ Refers /\ task[u].mir = sessions /\ sessions # 0
  BY DEF Shape, Feeding, Numbered, Known, Subscribes
<1>1. ASSUME NEW t \in Tasks, ClaimInsert(t) PROVE sessions' = sessions
  BY <1>0, <1>1, Zenon DEF ClaimInsert
<1>2. ASSUME NEW others, u \in others PROVE Subscribing(others)
  BY <1>0, <1>2 DEF Subscribing, Subscribes
<1>3. ASSUME NEW t \in Tasks, Rollback(t) \/ Unmap(t) PROVE FALSE
  <2>1. u \in Tasks \ {t}
    BY <1>3 DEF Rollback, Unmap, At, Subscribes
  <2>2. Subscribing(Tasks \ {t})
    BY <1>2, <2>1
  <2>3. CASE Rollback(t)
    BY <1>0, <2>2, <2>3, RemoveIs, Zenon DEF Rollback
  <2>4. CASE Unmap(t)
    BY <1>0, <2>2, <2>4, RemoveIs, Zenon DEF Unmap
  <2> QED
    BY <1>3, <2>3, <2>4, Zenon
<1>4. ASSUME CloseUnmap PROVE FALSE
  <2>1. Subscribing(Tasks)
    BY <1>2
  <2> QED
    BY <1>0, <1>4, <2>1, RemoveIs, Zenon DEF CloseUnmap
<1> QED
  BY <1>1, <1>3, <1>4, SessionsIs, Zenon

(* Every step keeps the forwarders fed by what the map shows.              *)
LEMMA FeedingStep ==
  ASSUME Shape, Spawned, NoOrphanForwarder, Feeding, [Next]_vars
  PROVE  Feeding'
<1>0. Types /\ Refers /\ Numbered
  BY Zenon DEF Shape
<1>1. CASE Restart
  BY <1>1, Zenon DEF Restart, Feeding, Idle, Subscribes
<1>2. CASE ~Restart
  <2> SUFFICES ASSUME Untaken'
               PROVE  /\ \A t \in Tasks : task'[t].pc \in Subscribes => task'[t].mir = sessions'
                      /\ \A f \in fwds' :
                           \/ f.mir = sessions'
                           \/ slot' = [state |-> "live", by |-> f.by] /\ ForgetIsDue'
    BY DEF Feeding
  <2>0. Untaken
    BY <1>0, MapStep, Zenon DEF Untaken, MirrorsGrow
  <2>a. /\ \A t \in Tasks : task[t].pc \in Subscribes => task[t].mir = sessions
        /\ \A f \in fwds : \/ f.mir = sessions
                           \/ slot = [state |-> "live", by |-> f.by] /\ ForgetIsDue
    BY <2>0 DEF Feeding
  <2>b. \A u \in Tasks : task[u].pc \in Subscribes => sessions' = sessions
    BY <1>2, <2>0, MapKept
  <2>1. ASSUME NEW u \in Tasks, task'[u].pc \in Subscribes PROVE task'[u].mir = sessions'
    <3>1. CASE task'[u] = task[u]
      BY <2>1, <2>a, <2>b, <3>1
    <3>2. ASSUME NEW t \in Tasks, OnlyTask(t), Route(t) PROVE task'[u].mir = sessions'
      BY <2>1, <2>a, <2>b, <3>1, <3>2, Zenon DEF OnlyTask, Route
    <3>3. ASSUME NEW t \in Tasks, Started(t) PROVE task'[u] = task[u]
      BY <2>1, <3>3 DEF Started, Subscribes
    <3> QED
      BY <1>2, <3>1, <3>2, <3>3, TaskIs, Zenon
  <2> DEFINE Fed(f) == \/ f.mir = sessions'
                       \/ slot' = [state |-> "live", by |-> f.by] /\ ForgetIsDue'
  <2>2. ASSUME NEW f \in fwds' PROVE Fed(f)
    <3>1. ASSUME NEW t \in Tasks, Neighbor(t) PROVE Fed(f)
      <4>1. /\ fwds' = fwds \cup {MyForwarder(t)} /\ slot' = slot /\ sessions' = sessions
            /\ task[t].pc = "subscribe"
        BY <3>1, Zenon DEF Neighbor, At
      <4>2. CASE f = MyForwarder(t)
        BY <2>a, <4>1, <4>2, Zenon DEF MyForwarder, Subscribes
      <4>3. CASE f \in fwds
        <5>1. ASSUME NEW u \in Tasks, LeaveForget(u) PROVE FALSE
          <6>1. slot' = NoSlot
            BY <5>1 DEF LeaveForget, Forget
          <6>2. OnlyTask(t) /\ task'[t].pc = "finalize"
            BY <1>0, <3>1, GotoMoves, StepIs, Zenon DEF Neighbor, Moved, Places, Step, Numbered
          <6>3. task'[u].pc = "idle" /\ task[u].pc = "forget"
            BY <1>0, <5>1, AnswerIs DEF LeaveForget, Idle, At
          <6> QED
            BY <4>1, <6>2, <6>3, Zenon DEF OnlyTask
        <5>2. ~CloseForget
          BY <1>0, <3>1, GotoMoves, Zenon DEF CloseForget, Closer, Neighbor, Moved, Places, At
        <5> QED
          BY <1>2, <2>a, <4>1, <4>3, <5>1, <5>2, DueStays, Zenon
      <4> QED
        BY <4>1, <4>2, <4>3, Zenon
    <3>2. ASSUME Forget, sessions' = sessions PROVE Fed(f)
      BY <2>a, <3>2 DEF Forget
    <3>3. ASSUME NEW t \in Tasks, LeaveForget(t) PROVE Fed(f)
      BY <3>2, <3>3, Zenon DEF LeaveForget
    <3>4. ASSUME CloseForget PROVE Fed(f)
      BY <3>2, <3>4, Zenon DEF CloseForget
    <3> DEFINE Stays == /\ f \in fwds
                        /\ slot = [state |-> "live", by |-> f.by] => slot' = slot
    <3>5. ASSUME Stays, sessions' = sessions, ~CloseForget, \A t \in Tasks : ~LeaveForget(t)
          PROVE  Fed(f)
      BY <1>2, <2>a, <3>5, DueStays, Zenon
    <3>6. ASSUME NEW t \in Tasks, Reserve(t) \/ NoNeighbor(t) \/ Finalize(t)
          PROVE  Stays /\ sessions' = sessions
      BY <3>6 DEF Reserve, NoNeighbor, Finalize, Finalized, OursReserved
    <3>7. ASSUME NEW g \in fwds, ForwarderExits(g) PROVE Stays /\ sessions' = sessions
      BY <3>7, Zenon DEF ForwarderExits
    <3>8. ASSUME UNCHANGED <<slot, fwds>>, ~CloseForget, \A t \in Tasks : ~LeaveForget(t)
          PROVE  Fed(f)
      <4>0. f \in fwds /\ f.mir # 0
        BY <3>8, Zenon DEF Spawned
      <4>1. CASE sessions' = sessions
        BY <3>5, <3>8, <4>1, Zenon
      <4>2. ASSUME NEW t \in Tasks, ClaimInsert(t), sessions' # sessions PROVE Fed(f)
        <5>1. sessions = 0
          BY <4>2, Zenon DEF ClaimInsert
        <5> QED
          BY <1>2, <2>a, <3>8, <4>0, <5>1, DueStays
      <4>3. ASSUME NEW others \in SUBSET Tasks, ~Subscribing(others),
                   \A u \in Tasks : u \notin others => task[u].pc # "finalize"
            PROVE  slot = [state |-> "live", by |-> f.by]
        <5>1. ASSUME NEW u \in Tasks, At(u, "finalize"), task[u].id = f.by PROVE FALSE
          <6>1. task[u].mir = sessions /\ u \in others
            BY <2>a, <4>3, <5>1, Zenon DEF At, Subscribes
          <6> QED
            BY <4>3, <5>1, <6>1, Zenon DEF Subscribing, At
        <5> QED
          BY <4>0, <5>1, Zenon DEF NoOrphanForwarder
      <4>4. ASSUME NEW t \in Tasks, Rollback(t), sessions' # sessions PROVE Fed(f)
        <5>1. sessions # 0 /\ ~(Subscribing(Tasks \ {t}) \/ slot # NoSlot)
          BY <1>0, <4>4, RemoveIs, Zenon DEF Rollback
        <5>2. slot = [state |-> "live", by |-> f.by]
          BY <4>3, <4>4, <5>1, Zenon DEF Rollback, At
        <5> QED
          BY <5>1, <5>2 DEF NoSlot
      <4>5. ASSUME NEW t \in Tasks, Unmap(t), sessions' # sessions PROVE Fed(f)
        <5>1. ~Subscribing(Tasks \ {t})
          BY <1>0, <4>5, RemoveIs, Zenon DEF Unmap
        <5>2. slot = [state |-> "live", by |-> f.by]
          BY <4>3, <4>5, <5>1 DEF Unmap, At
        <5>3. task'[t].pc = "forget"
          BY <1>0, <4>5, GotoMoves, Zenon DEF Unmap, Moved, Places
        <5> QED
          BY <3>8, <5>2, <5>3, Zenon DEF ForgetIsDue, At
      <4>6. ASSUME CloseUnmap, sessions' # sessions PROVE Fed(f)
        <5>1. ~Subscribing(Tasks)
          BY <1>0, <4>6, RemoveIs, Zenon DEF CloseUnmap
        <5>2. slot = [state |-> "live", by |-> f.by]
          BY <4>3, <5>1
        <5>3. closing'.pc = "forget"
          BY <1>0, <4>6 DEF CloseUnmap, Types
        <5> QED
          BY <3>8, <5>2, <5>3 DEF ForgetIsDue
      <4> QED
        BY <1>2, <4>1, <4>2, <4>4, <4>5, <4>6, SessionsIs, Zenon
    <3> QED
      BY <1>2, <3>1, <3>3, <3>4, <3>5, <3>6, <3>7, <3>8, SlotIs, Zenon
  <2> QED
    BY <2>1, <2>2, Zenon
<1> QED
  BY <1>1, <1>2
-----------------------------------------------------------------------------
(* Sends and their answers                                                 *)

\* The host handles no request.
SameLog == host'.log = host.log /\ host'.repeated = host.repeated

(* What a step does to the frames and the host's log.                      *)
LEMMA NetIs ==
  ASSUME Shape, [Next]_vars
  PROVE  \/ net' = net /\ SameLog
         \/ net' = net \cup {Announcement} /\ host' = host /\ UNCHANGED <<told, requests>>
         \/ \E t \in Tasks : SendForward(t, TRUE)
         \/ \E f \in net, b \in BOOLEAN : HostSend(f, b)
<1>1. ASSUME NEW t \in Tasks, JoinStart(t) \/ LeaveStart(t) \/ SendStart(t)
      PROVE  UNCHANGED hostVars
  BY <1>1, Zenon DEF JoinStart, LeaveStart, SendStart, Begin
<1>2. ASSUME NEW t \in Tasks,
             \/ ClaimRead(t) \/ ClaimInsert(t) \/ Adopt(t) \/ Await(t) \/ FinishOk(t)
             \/ FinishFailed(t) \/ Rollback(t) \/ Unmap(t) \/ LeaveForget(t)
             \/ Reserve(t) \/ Neighbor(t) \/ NoNeighbor(t) \/ Finalize(t)
             \/ SendCheck(t) \/ SendNoTopic(t) \/ Resubscribe(t) \/ SendTimeout(t)
             \/ \E answer \in {"ack", "reject"} : SendAnswered(t, answer)
      PROVE  UNCHANGED hostVars
  BY <1>2, Zenon DEF ClaimRead, ClaimInsert, Adopt, Await, FinishOk, FinishFailed, Rollback, Unmap,
     LeaveForget, Reserve, Neighbor, NoNeighbor, Finalize, SendCheck, SendNoTopic, Resubscribe,
     SendTimeout, TimedOut, SendAnswered, Silent, Same, hostVars
<1>3. ASSUME NEW t \in Tasks, NEW b \in BOOLEAN,
             \/ ClaimCreate(t, b) \/ RollbackDelete(t, b) \/ Enroll(t, b) \/ Leave(t, b)
             \/ SendForward(t, b) /\ ~b
      PROVE  UNCHANGED hostVars
  BY <1>3 DEF ClaimCreate, RollbackDelete, Enroll, Leave, SendForward, Silent, Same, hostVars
<1>4. ASSUME NEW t \in Tasks, PublishPresence(t)
      PROVE  /\ net' = net \/ net' = net \cup {Announcement}
             /\ host' = host /\ UNCHANGED <<told, requests>>
  BY <1>4, Zenon DEF PublishPresence
<1>5. ASSUME \/ \E f \in fwds : HearClose(f) \/ ForwarderExits(f)
             \/ CloseUnmap \/ CloseForget \/ Restart \/ UNCHANGED vars
      PROVE  UNCHANGED hostVars
  BY <1>5 DEF HearClose, ForwarderExits, CloseUnmap, CloseForget, Closer, Restart, hostVars, vars
<1>6. ASSUME Admit \/ Dismiss PROVE net' = net /\ SameLog
  BY <1>6, Zenon DEF Admit, Dismiss, Shape, Types, HostRec, SameLog
<1>7. ASSUME NEW t \in Tasks, NEW b \in BOOLEAN, SendForward(t, b)
      PROVE  UNCHANGED hostVars \/ SendForward(t, TRUE)
  BY <1>3, <1>7, Zenon
<1>8. UNCHANGED hostVars => net' = net /\ SameLog
  BY Zenon DEF hostVars, SameLog
<1>9. host' = host => SameLog
  BY Zenon DEF SameLog
<1> QED
  BY <1>1, <1>2, <1>3, <1>4, <1>5, <1>6, <1>7, <1>8, <1>9, Zenon DEF Next, Step

(* The frame with which a send is broadcast.                               *)
LEMMA ForwardIs ==
  ASSUME Shape, NEW t \in Tasks, SendForward(t, TRUE)
  PROVE  LET r == Frame("request", task[t].id, task[t].retried) IN
         /\ net' = net \cup {r} /\ r.type = "request" /\ r.id = task[t].id
         /\ host' = host /\ requests' = requests /\ told' = told
         /\ task[t].pc = "forward" /\ task'[t].pc = "sent" /\ task'[t].id = task[t].id
         /\ task[t].id # 0 /\ task[t].id <= requests
         /\ \A u \in Tasks : u # t => task'[u] = task[u]
<1>1. /\ Goto(t, "sent") /\ host' = host /\ requests' = requests /\ told' = told
      /\ net' = net \cup {Frame("request", task[t].id, task[t].retried)}
      /\ task[t].pc = "forward"
  BY Zenon DEF SendForward, At
<1>2. Moved(t, "sent", task[t].mir, task[t].retried)
  BY <1>1, GotoMoves, Zenon DEF Shape, Places
<1>3. task[t].id # 0 /\ task[t].id <= requests
  BY <1>1 DEF Shape, Numbered, Known
<1> QED
  BY <1>1, <1>2, <1>3, Zenon DEF Frame, Moved

(* The frame with which the host answers a request, which has no answer    *)
(* and is not in the log yet unless it was delivered before.               *)
LEMMA HostSendIs ==
  ASSUME Shape, Broadcasts, NEW f \in net, NEW b \in BOOLEAN, HostSend(f, b)
  PROVE  LET g == Frame(IF b THEN "ack" ELSE "reject", f.id, f.try) IN
         /\ net' = net \cup {g} /\ g.id = f.id /\ g.try = f.try
         /\ g.type = (IF b THEN "ack" ELSE "reject")
         /\ Frame("request", f.id, f.try) = f
         /\ host'.log = (IF b THEN Append(host.log, f.id) ELSE host.log)
         /\ host.repeated \subseteq host'.repeated
         /\ f.id \notin host'.repeated =>
              /\ \A h \in net : h.type \in {"ack", "reject"} => h.id # f.id
              /\ \A i \in DOMAIN host.log : host.log[i] # f.id
         /\ UNCHANGED <<task, told, requests>>
<1>1. f \in Frames /\ f.type = "request" /\ net \subseteq Frames /\ host \in HostRec
  BY Zenon DEF HostSend, Shape, Types
<1>2. Frame("request", f.id, f.try) = f
  BY <1>1 DEF Frame, Frames
<1>3. ASSUME NEW h \in net, h.type \in {"ack", "reject"}, h.id = f.id PROVE Answered(f)
  <2>1. Frame("request", h.id, h.try) = f
    <3>1. Frame("request", h.id, h.try) \in net
      BY <1>3, Zenon DEF Broadcasts
    <3>2. /\ Frame("request", h.id, h.try).type = "request"
          /\ Frame("request", h.id, h.try).id = f.id
      BY <1>3 DEF Frame
    <3> QED
      BY <1>1, <3>1, <3>2, Zenon DEF Broadcasts
  <2>2. h.try = f.try
    BY <2>1, Zenon DEF Frame
  <2>3. h = Frame(h.type, f.id, f.try)
    BY <1>1, <1>3, <2>2, Zenon DEF Frame, Frames
  <2> QED
    BY <1>3, <2>3, Zenon DEF Answered
<1>4. ~Answered(f) => /\ \A h \in net : h.type \in {"ack", "reject"} => h.id # f.id
                      /\ \A i \in DOMAIN host.log : host.log[i] # f.id
  BY <1>3, Zenon DEF Broadcasts
<1>5. /\ net' = net \cup {Frame(IF b THEN "ack" ELSE "reject", f.id, f.try)}
      /\ UNCHANGED <<task, told, requests>>
  BY Zenon DEF HostSend, Joiner
<1>6. /\ host'.log = IF b THEN Append(host.log, f.id) ELSE host.log
      /\ host'.repeated = IF Answered(f) THEN host.repeated \cup {f.id} ELSE host.repeated
  BY <1>1, Zenon DEF HostSend, HostRec
<1>7. /\ host.repeated \subseteq host'.repeated
      /\ f.id \notin host'.repeated => ~Answered(f)
  BY <1>6, Zenon
<1> QED
  BY <1>2, <1>4, <1>5, <1>6, <1>7 DEF Frame

(* Every step keeps the rules of the frames, and no message that is        *)
(* delivered once is appended twice.                                       *)
LEMMA BroadcastsStep ==
  ASSUME Shape, Broadcasts, Answers, AppendedOnce, [Next]_vars
  PROVE  Broadcasts' /\ AppendedOnce'
<1>1. CASE net' = net /\ SameLog
  BY <1>1, Zenon DEF SameLog, Broadcasts, AppendedOnce
<1>2. CASE net' = net \cup {Announcement} /\ host' = host
  <2>1. Announcement.type = "announce"
    BY Zenon DEF Announcement, Frame
  <2> QED
    BY <1>2, <2>1 DEF Broadcasts, AppendedOnce
<1>3. ASSUME NEW t \in Tasks, SendForward(t, TRUE) PROVE Broadcasts' /\ AppendedOnce'
  <2> DEFINE r == Frame("request", task[t].id, task[t].retried)
  <2>1. /\ net' = net \cup {r} /\ r.type = "request" /\ r.id = task[t].id /\ host' = host
        /\ task[t].pc = "forward"
    BY <1>3, ForwardIs, Zenon
  <2>2. \A f \in net : f.type = "request" => f.id # r.id
    BY <2>1 DEF Answers, Unasked
  <2> HIDE DEF r
  <2> QED
    BY <2>1, <2>2 DEF Broadcasts, AppendedOnce
<1>4. ASSUME NEW f \in net, NEW b \in BOOLEAN, HostSend(f, b)
      PROVE  Broadcasts' /\ AppendedOnce'
  <2> DEFINE g == Frame(IF b THEN "ack" ELSE "reject", f.id, f.try)
  <2>1. /\ net' = net \cup {g} /\ g.id = f.id /\ g.try = f.try
        /\ g.type = (IF b THEN "ack" ELSE "reject")
        /\ Frame("request", f.id, f.try) = f
        /\ host'.log = (IF b THEN Append(host.log, f.id) ELSE host.log)
        /\ host.repeated \subseteq host'.repeated
        /\ f.id \notin host'.repeated =>
             /\ \A h \in net : h.type \in {"ack", "reject"} => h.id # f.id
             /\ \A i \in DOMAIN host.log : host.log[i] # f.id
    BY <1>4, HostSendIs, Zenon
  <2> HIDE DEF g
  <2>2. host.log \in Seq(Ids) /\ Len(host.log) \in Nat /\ DOMAIN host.log = 1 .. Len(host.log)
    BY DEF Shape, Types, HostRec
  <2>3. /\ \A i \in DOMAIN host.log : i \in DOMAIN host'.log /\ host'.log[i] = host.log[i]
        /\ b => /\ DOMAIN host'.log = DOMAIN host.log \cup {Len(host.log) + 1}
                /\ host'.log[Len(host.log) + 1] = f.id
        /\ ~b => host'.log = host.log
    BY <2>1, <2>2
  <2>4. \A h \in net' : h.type = "request" => h \in net
    BY <2>1, Zenon
  <2>5. \A h \in net' : h.type \in {"ack", "reject"} => Frame("request", h.id, h.try) \in net'
    BY <2>1 DEF Broadcasts
  <2>6. \A h, k \in net' : h.type = "ack" /\ k.type = "reject" =>
                           h.id # k.id \/ h.id \in host'.repeated
    BY <2>1 DEF Broadcasts
  <2>7. \A h \in net' : h.type = "ack" => \E i \in DOMAIN host'.log : host'.log[i] = h.id
    BY <2>1, <2>3 DEF Broadcasts
  <2>8. \A i \in DOMAIN host'.log : \E h \in net' : h.type = "ack" /\ h.id = host'.log[i]
    <3>0. \A i \in DOMAIN host.log : \E h \in net : h.type = "ack" /\ h.id = host.log[i]
      BY Zenon DEF Broadcasts
    <3>1. ASSUME NEW i \in DOMAIN host.log
          PROVE  \E h \in net' : h.type = "ack" /\ h.id = host'.log[i]
      <4>1. PICK h \in net : h.type = "ack" /\ h.id = host.log[i]
        BY <3>0, Zenon
      <4>2. h \in net' /\ h.id = host'.log[i]
        BY <2>1, <2>3, <4>1, Zenon
      <4> QED
        BY <4>1, <4>2, Zenon
    <3>2. b => g \in net' /\ g.type = "ack" /\ g.id = host'.log[Len(host.log) + 1]
      BY <2>1, <2>3, Zenon
    <3> QED
      BY <2>3, <3>1, <3>2, Zenon
  <2>9. AppendedOnce'
    BY <2>1, <2>3 DEF AppendedOnce
  <2> QED
    BY <2>4, <2>5, <2>6, <2>7, <2>8, <2>9, Zenon DEF Broadcasts
<1> QED
  BY <1>1, <1>2, <1>3, <1>4, NetIs, Zenon

\* The clauses of Answers for one connection.
Answered1(t) ==
  /\ task[t].pc # "sent" => Unasked(task[t].id)
  /\ told[t].id <= requests
  /\ \A u \in Tasks : told[t].id # 0 => task[u].id # told[t].id
  /\ told[t].result # "none" => told[t].id # 0
  /\ told[t].result = "failed" => Unasked(told[t].id)
  /\ told[t].result = "ok" /\ told[t].op = "send" =>
       \E f \in net : f.type = "ack" /\ f.id = told[t].id
  /\ told[t].result = "rejected" =>
       \E f \in net : f.type = "reject" /\ f.id = told[t].id

(* Every step keeps what the answers tell about the frames.                *)
LEMMA AnswersStep ==
  ASSUME Shape, Broadcasts, Answers, [Next]_vars
  PROVE  Answers'
<1>0. /\ Types /\ Numbered /\ requests \in Nat
      /\ \A t \in Tasks : task[t].id \in Nat /\ told[t].id \in Nat
      /\ \A f \in net : f.id \in Nat
      /\ task \in [Tasks -> Request] /\ told \in [Tasks -> Told]
      /\ Unasked(0)
  BY BoundIsNat DEF Shape, Types, Request, Told, Frames, Unasked
<1>a. (\A f \in net : f.id <= requests) /\ \A t \in Tasks : Answered1(t)
  BY Zenon DEF Answers, Answered1
<1>b. SUFFICES (\A f \in net' : f.id <= requests') /\ \A t \in Tasks : Answered1(t)'
  BY Zenon DEF Answers, Answered1
<1> DEFINE Goal == (\A f \in net' : f.id <= requests') /\ \A t \in Tasks : Answered1(t)'
<1>1. ASSUME NEW t \in Tasks, SendForward(t, TRUE) PROVE Goal
  <2> DEFINE r == Frame("request", task[t].id, task[t].retried)
  <2>1. /\ net' = net \cup {r} /\ r.type = "request" /\ r.id = task[t].id
        /\ requests' = requests /\ told' = told
        /\ task'[t].pc = "sent" /\ task'[t].id = task[t].id
        /\ task[t].id # 0 /\ task[t].id <= requests
        /\ \A u \in Tasks : u # t => task'[u] = task[u]
    BY <1>1, ForwardIs, Zenon
  <2> HIDE DEF r
  <2>2. \A f \in net' : f.id <= requests'
    BY <1>a, <2>1, Zenon
  <2>3. ASSUME NEW i, Unasked(i), i # task[t].id PROVE Unasked(i)'
    BY <2>1, <2>3, Zenon DEF Unasked
  <2>4. ASSUME NEW u \in Tasks PROVE Answered1(u)'
    <3>1. task'[u].pc # "sent" => Unasked(task[u].id)'
      <4>1. CASE u = t
        BY <2>1, <4>1
      <4>2. CASE u # t
        <5>1. task'[u] = task[u] /\ task[u].id # task[t].id
          BY <1>0, <2>1, <4>2, Zenon DEF Numbered
        <5>2. ASSUME task[u].pc # "sent" PROVE Unasked(task[u].id)
          BY <1>a, <5>2, Zenon DEF Answered1
        <5> QED
          BY <2>1, <5>1, <5>2 DEF Unasked
      <4> QED
        BY <4>1, <4>2
    <3>2. \A w \in Tasks : task'[w].id = task[w].id
      BY <2>1, Zenon
    <3>3. told[u].result = "failed" => Unasked(told[u].id)'
      <4>1. ASSUME told[u].result = "failed" PROVE Unasked(told[u].id) /\ told[u].id # task[t].id
        BY <1>a, <4>1 DEF Answered1
      <4> QED
        BY <2>1, <4>1, Zenon DEF Unasked
    <3> QED
      BY <1>a, <2>1, <3>1, <3>2, <3>3 DEF Answered1
  <2> QED
    BY <2>2, <2>4
<1>2. ASSUME NEW f \in net, NEW b \in BOOLEAN, HostSend(f, b) PROVE Goal
  <2> DEFINE g == Frame(IF b THEN "ack" ELSE "reject", f.id, f.try)
  <2>1. /\ net' = net \cup {g} /\ g.id = f.id /\ g.type # "request"
        /\ UNCHANGED <<task, told, requests>>
    BY <1>2, HostSendIs
  <2> HIDE DEF g
  <2>2. \A h \in net' : h.id <= requests'
    BY <1>a, <2>1
  <2>3. ASSUME NEW u \in Tasks PROVE Answered1(u)'
    BY <1>a, <2>1, Zenon DEF Answered1, Unasked
  <2> QED
    BY <2>2, <2>3, Zenon
<1>3. ASSUME net' = net \/ net' = net \cup {Announcement},
             \A t \in Tasks : ~SendForward(t, TRUE)
      PROVE  Goal
  <2>0. /\ \A f \in net' : f \in net \/ (f.type # "request" /\ f.id = 0)
        /\ net \subseteq net'
    BY <1>3 DEF Announcement, Frame
  <2>u. ASSUME NEW i, Unasked(i) PROVE \A f \in net' : f.type = "request" => f.id # i
    BY <2>0, <2>u, Zenon DEF Unasked
  <2>n. requests' \in Nat /\ requests <= requests' => \A f \in net' : f.id <= requests'
    BY <1>0, <1>a, <2>0
  <2>1. ASSUME NEW t \in Tasks, Started(t) PROVE Goal
    <3>1. /\ requests' = requests + 1 /\ task'[t].id = requests + 1
          /\ \A u \in Tasks : u # t => task'[u] = task[u]
          /\ told' = [told EXCEPT ![t] = Untold] /\ net' = net /\ Untold.id = 0
          /\ Untold.result = "none"
      BY <2>1, Zenon DEF Started, hostVars, Untold
    <3>2. Unasked(requests + 1)
      BY <1>0, <1>a DEF Unasked
    <3>3. ASSUME NEW u \in Tasks PROVE Answered1(u)'
      <4>1. CASE u = t
        BY <1>0, <3>1, <3>2, <4>1 DEF Answered1, Unasked
      <4>2. CASE u # t
        <5>1. told'[u] = told[u] /\ task'[u] = task[u] /\ told[u].id <= requests
          BY <1>0, <1>a, <3>1, <4>2, Zenon DEF Answered1
        <5>2. \A w \in Tasks : told[u].id # 0 => task'[w].id # told[u].id
          BY <1>0, <1>a, <3>1, <5>1 DEF Answered1
        <5>3. Answered1(u) /\ net' = net
          BY <1>a, <3>1, Zenon
        <5>4. told'[u].id <= requests'
          BY <1>0, <3>1, <5>1
        <5> QED
          BY <5>1, <5>2, <5>3, <5>4, Zenon DEF Answered1, Unasked
      <4> QED
        BY <4>1, <4>2, Zenon
    <3> QED
      BY <1>0, <2>n, <3>1, <3>3
  <2>2. ASSUME NEW t \in Tasks, OnlyTask(t), OnlyTold(t), Route(t), requests' = requests
        PROVE  Goal
    <3>1. /\ \A u \in Tasks : u # t => task'[u] = task[u]
          /\ task'[t].id \in {0, task[t].id} /\ task[t].id # 0 /\ task[t].id <= requests
          /\ task'[t].pc # "sent"
      <4>1. /\ \A u \in Tasks : u # t => task'[u] = task[u]
            /\ task[t].pc # "idle" /\ (task'[t] = Idle \/ task'[t].id = task[t].id)
        BY <2>2, Zenon DEF OnlyTask
      <4>2. task[t].id # 0 /\ task[t].id <= requests
        BY <1>0, <4>1 DEF Numbered, Known
      <4>3. task'[t].pc # "sent"
        BY <1>3, <2>2, Zenon DEF Route
      <4> QED
        BY <4>1, <4>2, <4>3 DEF Idle
    <3>2. task'[t].id = 0 \/ (task'[t].id = task[t].id /\ task[t].pc # "sent")
      BY <2>2, <3>1, Zenon DEF Route, OnlyTask, Idle, Known
    <3>3. ASSUME NEW u \in Tasks PROVE task'[u].pc # "sent" => Unasked(task[u].id)'
      <4>1. task'[u].pc # "sent" => Unasked(task'[u].id)
        BY <1>0, <1>a, <3>1, <3>2, Zenon DEF Answered1
      <4> QED
        BY <2>u, <4>1 DEF Unasked
    <3>a. ASSUME NEW u \in Tasks, NEW w \in Tasks, told[u].id # 0
          PROVE  task'[w].id # told[u].id
      <4>1. task[w].id # told[u].id
        BY <1>a, <3>a, Zenon DEF Answered1
      <4>2. task'[w].id \in {0, task[w].id}
        BY <3>1, Zenon
      <4> QED
        BY <3>a, <4>1, <4>2
    <3>4. CASE told' = told
      <4>1. ASSUME NEW u \in Tasks PROVE Answered1(u)'
        <5>1. \A w \in Tasks : told[u].id # 0 => task'[w].id # told[u].id
          BY <3>a, Zenon
        <5>2. told[u].result = "failed" => Unasked(told[u].id)'
          BY <1>a, <2>u, <3>4, Zenon DEF Answered1, Unasked
        <5> QED
          BY <1>a, <2>0, <2>2, <3>3, <3>4, <5>1, <5>2, Zenon DEF Answered1
      <4> QED
        BY <1>0, <2>2, <2>n, <4>1
    <3>5. CASE told' # told
      <4>1. PICK result \in Results :
              /\ told' = [told EXCEPT ![t] = [op |-> task[t].op, id |-> task[t].id,
                                              result |-> result]]
              /\ task'[t] = Idle
              /\ result = "failed" => task[t].pc # "sent"
              /\ result = "rejected" => \E f \in net : f.type = "reject" /\ f.id = task[t].id
              /\ result = "ok" /\ task[t].op = "send" =>
                   \E f \in net : f.type = "ack" /\ f.id = task[t].id
        BY <2>2, <3>5, Zenon DEF OnlyTold
      <4>2. /\ told'[t].op = task[t].op /\ told'[t].id = task[t].id /\ told'[t].result = result
            /\ \A u \in Tasks : u # t => told'[u] = told[u]
            /\ task'[t].id = 0
        <5>1. told \in [Tasks -> Told]
          BY <1>0
        <5>2. /\ told'[t] = [op |-> task[t].op, id |-> task[t].id, result |-> result]
              /\ \A u \in Tasks : u # t => told'[u] = told[u]
          BY <4>1, <5>1, Zenon
        <5>3. task'[t] = Idle /\ Idle.id = 0
          BY <4>1, Zenon DEF Idle
        <5> QED
          BY ONLY <5>2, <5>3
      <4>3. ASSUME NEW u \in Tasks PROVE Answered1(u)'
        <5>1. CASE u = t
          <6>1. \A w \in Tasks : told'[t].id # 0 => task'[w].id # told'[t].id
            BY <1>0, <3>1, <4>2, Zenon DEF Numbered
          <6>2. told'[t].result = "failed" => Unasked(told[t].id)'
            <7>1. result = "failed" => Unasked(task[t].id)
              BY <1>a, <4>1, Zenon DEF Answered1
            <7> QED
              BY <2>u, <4>2, <7>1, Zenon DEF Unasked
          <6> QED
            BY <2>0, <2>2, <3>1, <3>3, <4>1, <4>2, <5>1, <6>1, <6>2, Zenon DEF Answered1
        <5>2. CASE u # t
          <6>1. \A w \in Tasks : told[u].id # 0 => task'[w].id # told[u].id
            BY <3>a, Zenon
          <6>2. told'[u].result = "failed" => Unasked(told[u].id)'
            BY <1>a, <2>u, <4>2, <5>2 DEF Answered1, Unasked
          <6>3. Answered1(u) /\ told'[u] = told[u] /\ requests' = requests /\ net \subseteq net'
            BY <1>a, <2>0, <2>2, <4>2, <5>2, Zenon
          <6> QED
            BY <3>3, <6>1, <6>2, <6>3, Zenon DEF Answered1
        <5> QED
          BY <5>1, <5>2
      <4> QED
        BY <1>0, <2>2, <2>n, <4>3
    <3> QED
      BY <3>4, <3>5, Zenon
  <2>3. ASSUME UNCHANGED <<task, told, requests>> PROVE Goal
    <3>1. ASSUME NEW u \in Tasks PROVE Answered1(u)'
      BY <1>a, <2>0, <2>3, Zenon DEF Answered1, Unasked
    <3> QED
      BY <1>0, <2>3, <2>n, <3>1
  <2>4. ASSUME Restart PROVE Goal
    <3>1. /\ \A u \in Tasks : task'[u] = Idle /\ told'[u] = Untold
          /\ requests' = requests
      BY <2>4 DEF Restart
    <3>2. Idle.id = 0 /\ Untold.id = 0 /\ Untold.result = "none" /\ Unasked(0)'
      BY <1>0, <2>u, Zenon DEF Idle, Untold, Unasked
    <3>3. ASSUME NEW u \in Tasks PROVE Answered1(u)'
      BY <1>0, <3>1, <3>2 DEF Answered1, Unasked
    <3> QED
      BY <1>0, <2>n, <3>1, <3>3
  <2> QED
    BY <2>1, <2>2, <2>3, <2>4, TaskIs, Zenon
<1> QED
  BY <1>1, <1>2, <1>3, NetIs, Zenon
-----------------------------------------------------------------------------
(* The theorems                                                            *)

\* What every reachable state satisfies.
Inv ==
  /\ Shape /\ Spawned /\ NoOrphanForwarder /\ Feeding
  /\ Broadcasts /\ AppendedOnce /\ Answers

(* The invariant holds in a daemon that was just started.                  *)
LEMMA InitInv ==
  ASSUME Init PROVE Inv
<1>1. /\ sessions = 0 /\ mirrors = <<>> /\ dir = NoDir /\ pending = 0 /\ slot = NoSlot /\ fwds = {}
      /\ task = [t \in Tasks |-> Idle] /\ conn = [t \in Tasks |-> FALSE] /\ closing = NoClose
      /\ told = [t \in Tasks |-> Untold] /\ net = {} /\ requests = 0
      /\ host = [member |-> FALSE, log |-> <<>>, repeated |-> {}]
  BY DEF Init
<1>2. /\ Idle \in Request /\ Known(Idle) /\ Idle.id = 0 /\ Idle.mir = 0 /\ Idle.wait = 0
      /\ Idle.pc = "idle" /\ Untold \in Told /\ Untold.id = 0 /\ Untold.result = "none"
      /\ NoDir \in [there : BOOLEAN, member : BOOLEAN]
      /\ NoSlot \in [state : {"none", "reserved", "live"}, by : 0 .. MaxRequests]
      /\ NoClose \in [by : 0 .. MaxRequests, mir : Nat, pc : {"none", "unmap", "forget"}]
  BY BoundIsNat, Zenon DEF Idle, Request, Places, Ops, Known, JoinPlaces, LeavePlaces, Subscribes, Untold,
     Told, NoDir, NoSlot, NoClose
<1>3. mirrors \in Seq(MirrorRec) /\ Len(mirrors) = 0 /\ DOMAIN mirrors = {}
      /\ host.log = <<>> /\ host \in HostRec /\ DOMAIN host.log = {}
  BY <1>1 DEF HostRec
<1>4. Types
  BY <1>1, <1>2, <1>3, BoundIsNat, Zenon DEF Types
<1>5. Refers /\ Numbered
  BY <1>1, <1>2, <1>3 DEF Refers, Numbered
<1>6. Spawned /\ NoOrphanForwarder /\ Feeding
  BY <1>1, <1>2, Zenon DEF Spawned, NoOrphanForwarder, Feeding, Subscribes
<1>7. Broadcasts /\ AppendedOnce
  BY <1>1, <1>3, Zenon DEF Broadcasts, AppendedOnce
<1>8. Answers
  BY <1>1, <1>2 DEF Answers, Unasked
<1> QED
  BY <1>4, <1>5, <1>6, <1>7, <1>8, Zenon DEF Inv, Shape

(* Every reachable state satisfies the invariant.                          *)
LEMMA InvHolds == Spec => []Inv
<1>1. Init => Inv
  BY InitInv
<1>2. Inv /\ [Next]_vars => Inv'
  BY ShapeStep, SpawnedStep, OrphanStep, FeedingStep, BroadcastsStep, AnswersStep, Zenon DEF Inv
<1> QED
  BY <1>1, <1>2, PTL DEF Spec

(* The shapes imply the type invariant that the runs check.                *)
LEMMA ShapeIsTyped ==
  ASSUME Shape PROVE TypeOK
<1>1. /\ Len(mirrors) \in Nat /\ sessions \in Mirrors /\ pending \in Mirrors
  BY DEF Shape, Types, Refers, Mirrors
<1>2. fwds \subseteq [by : Ids, mir : Mirrors]
  BY <1>1 DEF Shape, Types, Refers, Mirrors, Fwd
<1>3. task \in [Tasks -> [pc : Places, op : Ops, id : 0 .. MaxRequests,
                         mir : Mirrors, wait : Mirrors, retried : BOOLEAN]]
  <2>1. ASSUME NEW t \in Tasks
        PROVE  task[t] \in [pc : Places, op : Ops, id : 0 .. MaxRequests,
                            mir : Mirrors, wait : Mirrors, retried : BOOLEAN]
    <3>1. task[t] \in Request /\ task[t].mir <= Len(mirrors) /\ task[t].wait <= Len(mirrors)
      BY DEF Shape, Types, Refers
    <3>2. task[t].mir \in Mirrors /\ task[t].wait \in Mirrors
      BY <1>1, <3>1 DEF Request, Mirrors
    <3> QED
      BY <3>1, <3>2, Zenon DEF Request
  <2> QED
    BY <2>1, Zenon DEF Shape, Types
<1> QED
  BY <1>1, <1>2, <1>3, Zenon DEF TypeOK, Shape, Types, MirrorRec, HostRec

(* SessionSlots and claim_remote_mirror, for any number of connections,    *)
(* requests, closes and crashes: no forwarder is left behind that nobody   *)
(* can stop, and unless a removal crossed another request's subscribe,     *)
(* the live one feeds the mirror the map shows whenever nothing is under   *)
(* way.                                                                    *)
THEOREM ForwardersRight == Spec => []ForwardersAreRight
<1>1. ASSUME Inv PROVE FeedsTheMapped
  <2>1. Settled => ~ForgetIsDue
    BY DEF Settled, ForgetIsDue, NoClose, At
  <2> QED
    BY <1>1, <2>1, Zenon DEF FeedsTheMapped, Inv, Feeding, Untaken
<1>2. Inv => ForwardersAreRight
  BY <1>1, ShapeIsTyped, Zenon DEF Inv, ForwardersAreRight
<1> QED
  BY <1>2, InvHolds, PTL

(* dispatch_send and send_remote, whatever subscriptions, timeouts and     *)
(* crashes come between: the host appends a client's message once at most  *)
(* if gossip delivered it once, a success or a failure agrees with its     *)
(* log, and so does a rejection of what was delivered once.                *)
THEOREM SendsExact == Spec => []SendsAreExact
<1>1. ASSUME Inv, NEW t \in Tasks, told[t].op = "send"
      PROVE  /\ told[t].result = "ok" => InLog(told[t].id)
             /\ told[t].result = "failed" => ~InLog(told[t].id)
             /\ told[t].result = "rejected" /\ told[t].id \notin host.repeated =>
                  ~InLog(told[t].id)
  <2>1. Broadcasts /\ Answered1(t) /\ net \subseteq Frames
    BY <1>1 DEF Inv, Answers, Answered1, Shape, Types
  <2>2. told[t].result = "ok" => InLog(told[t].id)
    BY <1>1, <2>1, Zenon DEF Broadcasts, Answered1, InLog
  <2>3. ASSUME told[t].result = "failed", NEW i \in DOMAIN host.log, host.log[i] = told[t].id
        PROVE  FALSE
    <3>1. PICK f \in net : f.type = "ack" /\ f.id = told[t].id
      BY <2>1, <2>3 DEF Broadcasts
    <3>2. Frame("request", f.id, f.try) \in net
      BY <2>1, <3>1 DEF Broadcasts
    <3> QED
      BY <2>1, <2>3, <3>1, <3>2 DEF Answered1, Unasked, Frame
  <2>4. ASSUME told[t].result = "rejected", told[t].id \notin host.repeated,
               NEW i \in DOMAIN host.log, host.log[i] = told[t].id
        PROVE  FALSE
    <3>1. PICK f \in net : f.type = "ack" /\ f.id = host.log[i]
      BY <2>1, <2>4, Zenon DEF Broadcasts
    <3>2. PICK g \in net : g.type = "reject" /\ g.id = told[t].id
      BY <2>1, <2>4, Zenon DEF Answered1
    <3> QED
      BY <2>1, <2>4, <3>1, <3>2 DEF Broadcasts
  <2> QED
    BY <2>2, <2>3, <2>4, Zenon DEF InLog
<1>2. Inv => SendsAreExact
  BY <1>1 DEF Inv, SendsAreExact, AnswersAgreeWithLog
<1> QED
  BY <1>2, InvHolds, PTL
=============================================================================
