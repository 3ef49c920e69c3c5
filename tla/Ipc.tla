--------------------------------- MODULE Ipc ---------------------------------
(***************************************************************************)
(* One IPC connection between a client process and its daemon: the calls   *)
(* of Client::request multiplexed over it, the client's writer and reader  *)
(* tasks, serve_connection and dispatch on the daemon's side, the          *)
(* subscription forwarders it owns, and the drain at shutdown.             *)
(*                                                                         *)
(* The two directions of the Unix socket hold WireCap frames each.  A call *)
(* is one Client::request; the calls of a behaviour are those of a script, *)
(* issued in its order, any number of them in flight.  There is one        *)
(* session.  What the registry does with a request belongs to other        *)
(* modules: here it succeeds or fails, opens or closes the session and     *)
(* broadcasts.  A send by a task that holds the sink's mutex and finds the *)
(* socket full waits for room; a frame a task had begun to flush when it   *)
(* was aborted is the frame it sent last.                                  *)
(***************************************************************************)
EXTENDS Naturals, Sequences, FiniteSets

CONSTANTS
  Scripts,      \* what a client does: its calls, how many at a time, and the two
                \* bounds below
  OutCap,       \* WRITER_QUEUE_CAPACITY
  WireCap,      \* frames a direction of the socket buffers
  QueueCap,     \* EVENTS_QUEUE_CAPACITY
  RingCap       \* EVENT_CHANNEL_CAPACITY

(* RegisterAttachment, ListAttachments, ForgetAttachment and ListSessions  *)
(* are "plain"; the requests that only check the membership and then ask   *)
(* the registry are "gated".                                               *)
Kinds == {"hello", "host", "join", "subscribe", "send", "leave", "gated", "plain"}

(* A script's bounds: the messages others send in the session; cancelled   *)
(* calls, stalls, deaths, closes from elsewhere and shutdown signals.      *)
ScriptType == [calls : Seq(Kinds), width : Nat \ {0}, events : Nat, trouble : Nat]

ASSUME IpcAssumption ==
  /\ \A s \in Scripts : s \in ScriptType
  /\ {OutCap, WireCap, QueueCap, RingCap} \subseteq Nat \ {0}

VARIABLES
  script,   \* the requests of this behaviour
  call,     \* per request: where its future is, its id, the response delivered to it
  cl,       \* the client: handshake, tasks, queues
  up, down, \* the socket, client to daemon and daemon to client
  srv,      \* serve_connection: control, request in hand, memberships
  fwd,      \* subscription forwarders, in the order they were spawned
  reg,      \* the session: "none", "open" or "closing"
  run,      \* Daemon::run: "up", "draining" or "stopped"
  ghost

vars == <<script, call, cl, up, down, srv, fwd, reg, run, ghost>>

Calls == DOMAIN script.calls
Request(id, k) == [type |-> "request", id |-> id, call |-> k, what |-> script.calls[k]]
Hello(ok) == [type |-> "request", id |-> 0, call |-> 0, what |-> IF ok THEN "hello" ELSE "old"]
Response(id, k, what) == [type |-> "response", id |-> id, call |-> k, what |-> what]
Event(e) == [type |-> "event", id |-> 0, call |-> 0, what |-> e]

InFlight == {"checked", "queue", "wait"}
Alive(f) == fwd[f].st \in {"replay", "live"}
Forwarders == {f \in DOMAIN fwd : Alive(f)}

(* The daemon's end of the socket is closed once serve_connection has      *)
(* returned and no forwarder holds the write half.                         *)
DaemonGone == run = "stopped" \/ (srv.pc = "ended" /\ Forwarders = {})
Trouble == ghost.trouble > 0
Troubled(g) == [g EXCEPT !.trouble = @ - 1]

Init ==
  /\ script \in Scripts
  /\ call = [k \in Calls |-> [pc |-> "idle", id |-> 0, got |-> 0]]
  /\ cl = [pc |-> "hello", gone |-> FALSE, stalled |-> FALSE, next |-> 1,
           out |-> <<>>, writer |-> TRUE, eof |-> FALSE,
           reader |-> "run", closed |-> FALSE, pending |-> {},
           queue |-> <<>>, gap |-> FALSE]
  /\ \E ok \in BOOLEAN : up = <<Hello(ok)>>
  /\ down = <<>>
  /\ srv = [pc |-> "hello", req |-> Hello(TRUE), resp |-> "", member |-> FALSE, fset |-> 0]
  /\ fwd = <<>>
  /\ reg = "none" /\ run = "up"
  /\ ghost = [trouble |-> script.trouble, events |-> script.events, joined |-> FALSE,
              owed |-> FALSE, seen |-> FALSE, late |-> FALSE]

(***************************************************************************)
(* Client::request.  The entry in the pending map belongs to a guard of    *)
(* the future: it goes when the future returns or is dropped.              *)
(***************************************************************************)
Drop(c, k) == [c EXCEPT !.pending = {p \in @ : p.call # k}]
Settle(k, pc) ==
  /\ call' = [call EXCEPT ![k].pc = pc]
  /\ cl' = Drop(cl, k)

(* Mutant: the id is the least one no call is waiting on. *)
AllocIdReusing(c) ==
  CHOOSE n \in 1..Len(script.calls) + 1 :
    /\ \A p \in c.pending : p.id # n
    /\ \A i \in 1..n - 1 : \E p \in c.pending : p.id = i
AllocId(c) == c.next

(* The look at the closed signal, and the entry, are two steps: the reader *)
(* may exit and clear the map in between.                                  *)
Issue(k) ==
  /\ cl.pc = "open" /\ ~cl.stalled
  /\ call[k].pc = "idle" /\ \A j \in 1..k - 1 : call[j].pc # "idle"
  /\ Cardinality({j \in Calls : call[j].pc \in InFlight}) < script.width
  /\ call' = [call EXCEPT ![k].pc = IF cl.closed THEN "closed" ELSE "checked"]
  /\ UNCHANGED <<script, cl, up, down, srv, fwd, reg, run, ghost>>

Register(k) ==
  /\ call[k].pc = "checked" /\ ~cl.stalled
  /\ call' = [call EXCEPT ![k].pc = "queue", ![k].id = AllocId(cl)]
  /\ cl' = [cl EXCEPT !.next = @ + 1,
              !.pending = @ \cup {[id |-> AllocId(cl), call |-> k]}]
  /\ UNCHANGED <<script, up, down, srv, fwd, reg, run, ghost>>

Enqueue(k) ==
  /\ call[k].pc = "queue" /\ ~cl.stalled
  /\ \/ /\ ~cl.writer
        /\ Settle(k, "closed")
     \/ /\ cl.writer /\ Len(cl.out) < OutCap
        /\ call' = [call EXCEPT ![k].pc = "wait"]
        /\ cl' = [cl EXCEPT !.out = Append(@, Request(call[k].id, k))]
  /\ UNCHANGED <<script, up, down, srv, fwd, reg, run, ghost>>

Waits(k) == \E p \in cl.pending : p.call = k

(* The select: the response is polled first, but a poll that found none    *)
(* goes on to the closed signal, whatever is delivered in between.         *)
Return(k) ==
  /\ call[k].pc = "wait" /\ ~cl.stalled
  /\ \/ /\ call[k].got # 0
        /\ Settle(k, "done")
     \/ /\ cl.closed \/ (call[k].got = 0 /\ ~Waits(k))
        /\ Settle(k, "closed")
  /\ UNCHANGED <<script, up, down, srv, fwd, reg, run, ghost>>

Cancel(k) ==
  /\ call[k].pc \in InFlight /\ Trouble /\ ~cl.stalled
  /\ Settle(k, "cancelled")
  /\ ghost' = Troubled(ghost)
  /\ UNCHANGED <<script, up, down, srv, fwd, reg, run>>

(***************************************************************************)
(* Client::handshake, and the two tasks of a connected client.             *)
(***************************************************************************)
Handshake ==
  /\ cl.pc = "hello" /\ ~cl.stalled
  /\ \/ /\ down # <<>> /\ Head(down).what = "ok"
        /\ cl' = [cl EXCEPT !.pc = "open"]
        /\ down' = Tail(down)
     \/ /\ (down # <<>> /\ Head(down).what # "ok") \/ (down = <<>> /\ DaemonGone)
        /\ cl' = [cl EXCEPT !.pc = "failed", !.gone = TRUE, !.eof = TRUE,
                            !.writer = FALSE, !.reader = "done", !.closed = TRUE]
        /\ down' = <<>>
  /\ UNCHANGED <<script, call, up, srv, fwd, reg, run, ghost>>

(* Mutant: the write half is not shut down. *)
WriterSilent ==
  /\ cl.pc = "dropped" /\ cl.out = <<>> /\ cl.writer /\ ~cl.stalled
  /\ cl' = [cl EXCEPT !.writer = FALSE]
  /\ UNCHANGED <<script, call, up, down, srv, fwd, reg, run, ghost>>

(* spawn_writer, the end: every sender is gone and the queue is drained. *)
WriterCloses ==
  /\ cl.pc = "dropped" /\ cl.out = <<>> /\ cl.writer /\ ~cl.stalled
  /\ cl' = [cl EXCEPT !.writer = FALSE, !.eof = TRUE]
  /\ UNCHANGED <<script, call, up, down, srv, fwd, reg, run, ghost>>

WriterSends ==
  /\ cl.writer /\ cl.out # <<>> /\ ~cl.stalled
  /\ \/ /\ DaemonGone
        /\ cl' = [cl EXCEPT !.writer = FALSE, !.eof = TRUE, !.out = <<>>]
        /\ UNCHANGED up
     \/ /\ ~DaemonGone /\ Len(up) < WireCap
        /\ cl' = [cl EXCEPT !.out = Tail(@)]
        /\ up' = Append(up, Head(cl.out))
  /\ UNCHANGED <<script, call, down, srv, fwd, reg, run, ghost>>

(* A response goes to the call waiting under its id, if there is one. *)
ReadResponse ==
  /\ cl.reader = "run" /\ cl.pc # "hello" /\ ~cl.stalled
  /\ down # <<>> /\ Head(down).type = "response"
  /\ down' = Tail(down)
  /\ LET to == {p \in cl.pending : p.id = Head(down).id} IN
       /\ cl' = [cl EXCEPT !.pending = @ \ to]
       /\ call' = [k \in Calls |-> IF \E p \in to : p.call = k
                                   THEN [call[k] EXCEPT !.got = Head(down).call] ELSE call[k]]
  /\ UNCHANGED <<script, up, srv, fwd, reg, run, ghost>>

(* Mutant: the reader waits for room in the events queue. *)
ReadEventBlocking ==
  /\ cl.reader = "run" /\ cl.pc # "hello" /\ ~cl.stalled
  /\ down # <<>> /\ Head(down).type = "event"
  /\ Len(cl.queue) < QueueCap
  /\ down' = Tail(down)
  /\ cl' = [cl EXCEPT !.queue = Append(@, Head(down).what)]
  /\ ghost' = [ghost EXCEPT !.seen = @ \/ Head(down).what = "closed"]
  /\ UNCHANGED <<script, call, up, srv, fwd, reg, run>>

(* An event never waits: one that finds the queue full is dropped, and so  *)
(* is every later one until the gap has been reported.                     *)
ReadEvent ==
  /\ cl.reader = "run" /\ cl.pc # "hello" /\ ~cl.stalled
  /\ down # <<>> /\ Head(down).type = "event"
  /\ down' = Tail(down)
  /\ LET full == cl.gap \/ Len(cl.queue) >= QueueCap IN
       cl' = IF cl.pc = "dropped" THEN cl
             ELSE IF full THEN [cl EXCEPT !.gap = TRUE]
             ELSE [cl EXCEPT !.queue = Append(@, Head(down).what)]
  /\ ghost' = [ghost EXCEPT !.seen = @ \/ Head(down).what = "closed"]
  /\ UNCHANGED <<script, call, up, srv, fwd, reg, run>>

(* The gap is reported when the queue has room again. *)
FlushGap ==
  /\ cl.reader = "run" /\ ~cl.stalled
  /\ cl.gap /\ Len(cl.queue) < QueueCap
  /\ cl' = [cl EXCEPT !.gap = FALSE, !.queue = Append(@, "gap")]
  /\ UNCHANGED <<script, call, up, down, srv, fwd, reg, run, ghost>>

(* The stream ended: the closed signal first, then the map is cleared. *)
ReaderCloses ==
  /\ cl.pc # "hello" /\ ~cl.stalled
  /\ \/ /\ cl.reader = "run" /\ down = <<>> /\ DaemonGone
        /\ cl' = [cl EXCEPT !.closed = TRUE, !.reader = "clear"]
     \/ /\ cl.reader = "clear"
        /\ cl' = [cl EXCEPT !.pending = {}, !.reader = "done"]
  /\ UNCHANGED <<script, call, up, down, srv, fwd, reg, run, ghost>>

(* The application drains its events at its own pace, or not at all. *)
Consume ==
  /\ cl.queue # <<>> /\ cl.pc = "open" /\ ~cl.stalled
  /\ cl' = [cl EXCEPT !.queue = Tail(@)]
  /\ UNCHANGED <<script, call, up, down, srv, fwd, reg, run, ghost>>

DropClient ==
  /\ cl.pc = "open" /\ ~cl.stalled
  /\ \A k \in Calls : call[k].pc \notin InFlight
  /\ cl' = [cl EXCEPT !.pc = "dropped", !.queue = <<>>, !.gap = FALSE]
  /\ UNCHANGED <<script, call, up, down, srv, fwd, reg, run, ghost>>

(* The process stops running (suspended, swapped out), or is killed. *)
Stall ==
  /\ Trouble /\ ~cl.stalled /\ ~cl.gone
  /\ cl' = [cl EXCEPT !.stalled = TRUE]
  /\ ghost' = Troubled(ghost)
  /\ UNCHANGED <<script, call, up, down, srv, fwd, reg, run>>

Die ==
  /\ Trouble /\ ~cl.gone
  /\ cl' = [cl EXCEPT !.gone = TRUE, !.eof = TRUE, !.stalled = TRUE, !.pending = {},
                      !.out = <<>>, !.queue = <<>>, !.gap = FALSE]
  /\ call' = [k \in Calls |-> IF call[k].pc \in InFlight THEN [call[k] EXCEPT !.pc = "cancelled"]
                              ELSE call[k]]
  /\ down' = <<>>
  /\ ghost' = Troubled(ghost)
  /\ UNCHANGED <<script, up, srv, fwd, reg, run>>

(***************************************************************************)
(* serve_connection.  Requests are served one at a time: dispatch and the  *)
(* reply are awaited before the next frame is read.                        *)
(***************************************************************************)
Aborted(fs) == [f \in DOMAIN fwd |-> IF f \in fs THEN [fwd[f] EXCEPT !.aborted = TRUE] ELSE fwd[f]]

(* Every return drops the ForwarderSet. *)
End ==
  /\ srv' = [srv EXCEPT !.pc = "ended", !.fset = 0]
  /\ fwd' = Aborted({srv.fset})

Reply(what) == [srv EXCEPT !.pc = "reply", !.resp = what]

FirstFrame ==
  /\ srv.pc = "hello" /\ up # <<>>
  /\ up' = Tail(up)
  /\ srv' = [srv EXCEPT !.pc = "reply", !.req = Head(up),
                        !.resp = IF Head(up).what = "hello" THEN "ok" ELSE "mismatch"]
  /\ UNCHANGED <<script, call, cl, down, fwd, reg, run, ghost>>

Hangup ==
  /\ srv.pc \in {"hello", "loop"}
  /\ (up = <<>> /\ cl.eof) \/ run = "draining"
  /\ End
  /\ UNCHANGED <<script, call, cl, up, down, reg, run, ghost>>

(* Leave takes the membership out before it asks the registry, or answers  *)
(* at once if there is none.                                               *)
Dispatch ==
  /\ srv.pc = "loop" /\ up # <<>>
  /\ up' = Tail(up)
  /\ LET leave == Head(up).what = "leave"
         asks == [srv EXCEPT !.pc = "busy", !.req = Head(up), !.member = @ /\ ~leave]
     IN  srv' = IF leave /\ ~srv.member
                THEN [asks EXCEPT !.pc = "reply", !.resp = "error"] ELSE asks
  /\ UNCHANGED <<script, call, cl, down, fwd, reg, run, ghost>>

(* An event on the session's broadcast channel, for every receiver open on *)
(* it; one that has fallen behind loses the oldest.                        *)
Broadcast(e) ==
  [f \in DOMAIN fwd |->
     IF ~Alive(f) \/ fwd[f].eof THEN fwd[f]
     ELSE IF Len(fwd[f].ring) < RingCap THEN [fwd[f] EXCEPT !.ring = Append(@, e)]
     ELSE [fwd[f] EXCEPT !.ring = Append(Tail(@), e), !.lag = TRUE]]
Closed(fs) == [f \in DOMAIN fs |-> [fs[f] EXCEPT !.eof = TRUE]]

(* A receiver that must bring this client the session's last event. *)
Owes == \E f \in Forwarders : ~fwd[f].eof /\ ~fwd[f].aborted

Busy(what) == srv.pc = "busy" /\ srv.req.what = what

(* The registry opens the session, or finds it open, or fails. *)
Opens ==
  /\ \/ /\ reg # "closing"
        /\ reg' = "open"
        /\ srv' = [Reply("ok") EXCEPT !.member = TRUE]
        /\ ghost' = [ghost EXCEPT !.joined = TRUE]
     \/ /\ srv' = Reply("error")
        /\ UNCHANGED <<reg, ghost>>
  /\ UNCHANGED <<script, call, cl, up, down, fwd, run>>

DispatchHost == Busy("host") /\ Opens
DispatchJoin == Busy("join") /\ Opens

(* Subscribe spawns a forwarder for the registry's snapshot and receiver.  *)
(* It asks for no membership.                                              *)
DispatchSubscribe ==
  /\ Busy("subscribe")
  /\ \/ /\ reg # "none"
        /\ fwd' = Append(fwd, [st |-> "replay", ring |-> <<>>, lag |-> FALSE,
                               eof |-> FALSE, aborted |-> FALSE])
        /\ srv' = [srv EXCEPT !.pc = "insert"]
        /\ ghost' = [ghost EXCEPT !.late = @ \/ ghost.owed]
     \/ /\ reg = "none"
        /\ srv' = Reply("error")
        /\ UNCHANGED <<fwd, ghost>>
  /\ UNCHANGED <<script, call, cl, up, down, reg, run>>

(* ForwarderSet::insert: the earlier forwarder of the session, which may   *)
(* have been forwarding beside the new one until now, is aborted.          *)
Insert ==
  /\ srv.pc = "insert"
  /\ srv' = [Reply("ok") EXCEPT !.fset = Len(fwd)]
  /\ fwd' = Aborted({srv.fset})
  /\ UNCHANGED <<script, call, cl, up, down, reg, run, ghost>>

DispatchSend ==
  /\ Busy("send")
  /\ \/ /\ srv.member /\ reg = "open"
        /\ fwd' = Broadcast("message")
        /\ srv' = Reply("ok")
     \/ /\ srv' = Reply("error")
        /\ UNCHANGED fwd
  /\ UNCHANGED <<script, call, cl, up, down, reg, run, ghost>>

(* Mutant: a leave aborts the session's forwarder. *)
LeaveAborts ==
  /\ Busy("leave")
  /\ \/ /\ reg = "open"
        /\ fwd' = [f \in DOMAIN fwd |-> [Closed(Broadcast("closed"))[f] EXCEPT !.aborted = TRUE]]
        /\ reg' = "none"
        /\ srv' = Reply("ok")
        /\ ghost' = [ghost EXCEPT !.joined = FALSE, !.owed = @ \/ Owes]
     \/ /\ srv' = [Reply("error") EXCEPT !.member = TRUE]
        /\ UNCHANGED <<fwd, reg, ghost>>
  /\ UNCHANGED <<script, call, cl, up, down, run>>

(* LeaveSession: a member's leave deletes the session here, with the last  *)
(* event on its channel, or fails and the membership is put back.  The     *)
(* forwarder is left to deliver that event and to end by itself.           *)
DispatchLeave ==
  /\ Busy("leave")
  /\ \/ /\ reg = "open"
        /\ fwd' = Closed(Broadcast("closed"))
        /\ reg' = "none"
        /\ srv' = Reply("ok")
        /\ ghost' = [ghost EXCEPT !.joined = FALSE, !.owed = @ \/ Owes]
     \/ /\ srv' = [Reply("error") EXCEPT !.member = TRUE]
        /\ UNCHANGED <<fwd, reg, ghost>>
  /\ UNCHANGED <<script, call, cl, up, down, run>>

(* IssueTicket, RevokeTicket, ListTickets, RemoveSessionMember, the three  *)
(* deliveries and PublishWorkspaceTicket.                                  *)
DispatchGated ==
  /\ Busy("gated")
  /\ \E what \in IF srv.member /\ reg = "open" THEN {"ok", "error"} ELSE {"error"} :
       srv' = Reply(what)
  /\ UNCHANGED <<script, call, cl, up, down, fwd, reg, run, ghost>>

DispatchAttachment ==
  /\ Busy("plain")
  /\ \E what \in {"ok", "error"} : srv' = Reply(what)
  /\ UNCHANGED <<script, call, cl, up, down, fwd, reg, run, ghost>>

DispatchHello ==
  /\ Busy("hello")
  /\ srv' = Reply("error")
  /\ UNCHANGED <<script, call, cl, up, down, fwd, reg, run, ghost>>

Dispatched ==
  \/ DispatchHost \/ DispatchJoin \/ DispatchSubscribe \/ Insert \/ DispatchSend
  \/ DispatchLeave \/ DispatchGated \/ DispatchAttachment \/ DispatchHello

(* The reply; one to a refused Hello is the last frame. *)
SendReply ==
  /\ srv.pc = "reply"
  /\ \/ /\ cl.gone
        /\ End
        /\ UNCHANGED down
     \/ /\ ~cl.gone /\ Len(down) < WireCap
        /\ down' = Append(down, Response(srv.req.id, srv.req.call, srv.resp))
        /\ IF srv.resp = "mismatch" THEN End
           ELSE /\ srv' = [srv EXCEPT !.pc = "loop"]
                /\ UNCHANGED fwd
  /\ UNCHANGED <<script, call, cl, up, reg, run, ghost>>

(***************************************************************************)
(* spawn_subscription_forwarder: replay, ReplayComplete, live events, a    *)
(* Gap in the place of the ones lost.  It ends with the channel, on a dead *)
(* socket, at shutdown, or when it is aborted.                             *)
(***************************************************************************)
Push(f, e, g) ==
  /\ Len(down) < WireCap
  /\ down' = Append(down, Event(e))
  /\ fwd' = [fwd EXCEPT ![f] = g]

Forward(f) ==
  /\ Alive(f) /\ ~cl.gone
  /\ LET g == fwd[f] IN
       \/ /\ g.st = "replay"
          /\ Push(f, "replayed", [g EXCEPT !.st = "live"])
       \/ /\ g.st = "live" /\ g.lag
          /\ Push(f, "gap", [g EXCEPT !.lag = FALSE])
       \/ /\ g.st = "live" /\ ~g.lag /\ g.ring # <<>>
          /\ Push(f, Head(g.ring), [g EXCEPT !.ring = Tail(@)])
  /\ UNCHANGED <<script, call, cl, up, srv, reg, run, ghost>>

ForwarderEnds(f) ==
  /\ Alive(f)
  /\ \/ fwd[f].aborted
     \/ cl.gone /\ (fwd[f].st = "replay" \/ fwd[f].lag \/ fwd[f].ring # <<>>)
     \/ fwd[f].st = "live" /\ (run = "draining" \/ (fwd[f].eof /\ fwd[f].ring = <<>> /\ ~fwd[f].lag))
  /\ fwd' = [fwd EXCEPT ![f] = [@ EXCEPT !.st = "over", !.ring = <<>>, !.lag = FALSE]]
  /\ UNCHANGED <<script, call, cl, up, down, srv, reg, run, ghost>>

(***************************************************************************)
(* The session's other users: another member sends; another connection of  *)
(* this daemon leaves, or the remote host closes, in two steps.            *)
(***************************************************************************)
Emit ==
  /\ reg = "open" /\ ghost.events > 0 /\ run # "stopped"
  /\ fwd' = Broadcast("message")
  /\ ghost' = [ghost EXCEPT !.events = @ - 1]
  /\ UNCHANGED <<script, call, cl, up, down, srv, reg, run>>

CloseElsewhere ==
  /\ reg = "open" /\ Trouble /\ run # "stopped"
  /\ reg' = "closing"
  /\ fwd' = Broadcast("closed")
  /\ ghost' = [Troubled(ghost) EXCEPT !.owed = @ \/ Owes]
  /\ UNCHANGED <<script, call, cl, up, down, srv, run>>

RemoveElsewhere ==
  /\ reg = "closing"
  /\ reg' = "none"
  /\ fwd' = Closed(fwd)
  /\ UNCHANGED <<script, call, cl, up, down, srv, run, ghost>>

(***************************************************************************)
(* Daemon::run on the shutdown signal.                                     *)
(***************************************************************************)
Trigger ==
  /\ run = "up" /\ Trouble
  /\ run' = "draining"
  /\ ghost' = Troubled(ghost)
  /\ UNCHANGED <<script, call, cl, up, down, srv, fwd, reg>>

(* The connection task finishes, or is aborted at the deadline; then the   *)
(* process ends and takes what is left with it.                            *)
Drain ==
  /\ run = "draining"
  /\ \/ /\ srv.pc \notin {"insert", "ended"}
        /\ End
        /\ UNCHANGED run
     \/ /\ srv.pc = "ended"
        /\ run' = "stopped"
        /\ fwd' = Aborted(DOMAIN fwd)
        /\ UNCHANGED srv
  /\ UNCHANGED <<script, call, cl, up, down, reg, ghost>>

Writer == WriterSends \/ WriterCloses
Reader == Handshake \/ ReadResponse \/ ReadEvent \/ FlushGap \/ ReaderCloses
CallStep(k) == Register(k) \/ Enqueue(k) \/ Return(k)
ServerStep == FirstFrame \/ Hangup \/ Dispatch \/ Dispatched \/ SendReply
ForwarderStep(f) == Forward(f) \/ ForwarderEnds(f)

(* The tasks of both processes run; a request the registry has taken is    *)
(* answered.  Nothing makes the application drain its events, issue a call *)
(* or drop its client.  A behaviour has finitely many steps (its calls and *)
(* events are), so fairness to the tasks together is fairness to each.     *)
TaskStep ==
  \/ \E k \in Calls : CallStep(k)
  \/ Writer \/ Reader \/ ServerStep \/ Drain \/ RemoveElsewhere
  \/ \E f \in DOMAIN fwd : ForwarderStep(f)
Fairness == WF_vars(TaskStep)

Next ==
  \/ TaskStep
  \/ \E k \in Calls : Issue(k) \/ Cancel(k)
  \/ Consume \/ DropClient \/ Stall \/ Die
  \/ Emit \/ CloseElsewhere \/ Trigger

Spec == Init /\ [][Next]_vars
FairSpec == Spec /\ Fairness

-----------------------------------------------------------------------------
(* Every variable has its type: the ids on the wire are ones that were     *)
(* handed out, and no queue exceeds its capacity.                          *)
TypeOK ==
  /\ \A k \in Calls : /\ call[k].pc \in InFlight \cup {"idle", "done", "closed", "cancelled"}
                      /\ call[k].id \in 0..cl.next - 1 /\ call[k].got \in {0} \cup Calls
  /\ cl.pc \in {"hello", "open", "dropped", "failed"} /\ cl.reader \in {"run", "clear", "done"}
  /\ Len(cl.out) <= OutCap /\ Len(cl.queue) <= QueueCap
  /\ Len(up) <= WireCap /\ Len(down) <= WireCap
  /\ srv.pc \in {"hello", "loop", "busy", "insert", "reply", "ended"}
  /\ srv.fset \in 0..Len(fwd)
  /\ \A f \in DOMAIN fwd : fwd[f].st \in {"replay", "live", "over"} /\ Len(fwd[f].ring) <= RingCap
  /\ reg \in {"none", "open", "closing"} /\ run \in {"up", "draining", "stopped"}

(* A call that returns a response returns the one to its own request, also *)
(* when earlier calls were cancelled and their responses come late.        *)
OwnResponse == \A k \in Calls : call[k].pc = "done" => call[k].got = k

(* The pending map holds calls that are still waiting: one that returned,  *)
(* failed or was dropped has left no entry (PendingGuard).                 *)
PendingIsLive == \A p \in cl.pending : call[p.call].pc \in InFlight

(* Between requests, the memberships of a connection are what its answered *)
(* requests made them: a leave the registry refused changes nothing.       *)
MembershipHolds == srv.pc \in {"loop", "reply"} => srv.member = ghost.joined

(* At most one forwarder feeds a connection with a session's events,       *)
(* except while a Subscribe replaces it, and an ended connection has none: *)
(* all others have been told to stop (ForwarderSet).                       *)
OneForwarder ==
  LET owned == {f \in Forwarders : ~fwd[f].aborted} IN
    /\ srv.pc # "insert" => owned \subseteq {srv.fset}
    /\ srv.pc = "ended" => owned = {}

(* Every call returns, whatever the application does with its events and   *)
(* whatever becomes of the daemon, unless its own process stands still.    *)
RequestsReturn == <>[](cl.stalled \/ \A k \in Calls : call[k].pc \notin InFlight)

(* A daemon that begins to shut down stops, also with a client that        *)
(* neither reads nor hangs up.                                             *)
DaemonStops == run = "draining" ~> run = "stopped"

(* When a client drops its connection or dies, the daemon lets go of it:   *)
(* serve_connection returns and no forwarder stays behind on a quiet       *)
(* session.                                                                *)
ConnectionIsReleased ==
  cl.pc = "dropped" \/ cl.gone ~>
    (cl.stalled /\ ~cl.gone) \/ (srv.pc = "ended" /\ Forwarders = {})

(* The end of a session reaches the reader of a client subscribed to it,   *)
(* whoever ended it, unless the connection ends first or the client        *)
(* subscribes again after the end.                                         *)
ClosureIsSeen ==
  ghost.owed ~> ghost.seen \/ ghost.late \/ cl.stalled \/ srv.pc = "ended"

(* The books of the two ends of a connection: a response goes to the call  *)
(* that asked, the pending table holds live calls only, the server's       *)
(* memberships are those the registry granted and did not take back, and a *)
(* session has one forwarder.                                              *)
ConnectionIsConsistent ==
  /\ TypeOK
  /\ OwnResponse
  /\ PendingIsLive
  /\ MembershipHolds
  /\ OneForwarder

(* Shutdown of the daemon and the end of a connection come to an end, with *)
(* clients that do not read, hang up or stay quiet.                        *)
TeardownCompletes ==
  /\ DaemonStops
  /\ ConnectionIsReleased
=============================================================================
