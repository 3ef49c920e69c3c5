--------------------------- MODULE TicketDelivery ---------------------------
(***************************************************************************)
(* The host daemon's direct deliveries to the members of a session: the    *)
(* workspace ticket, which is retried, and the one-shot signals (upgrade,  *)
(* downgrade, rotation) that an IPC client asks for.                       *)
(*                                                                         *)
(* A delivery is a task of the host and, at the receiver, the handler of   *)
(* one connection.  The host gives an attempt up when its timeout expires; *)
(* a handler that has read the frame by then goes on without it.           *)
(*                                                                         *)
(* The number of a publish stands for the bytes of its envelope.  Tasks    *)
(* keep the Session object they were started with; a session that is left  *)
(* and hosted again is another object.                                     *)
(***************************************************************************)
EXTENDS Naturals, Sequences, FiniteSets

CONSTANTS Peers,                 \* the remote peers
          Retries,               \* WORKSPACE_TICKET_DELIVERY_RETRIES
          MaxAccepts,            \* MAX_CONCURRENT_ACCEPTS
          MaxPublishes, MaxTasks, MaxResets     \* bounds

ASSUME TicketDeliveryAssumption ==
  /\ IsFiniteSet(Peers) /\ Retries \in Nat \ {0} /\ MaxAccepts \in Nat \ {0}
  /\ {MaxPublishes, MaxTasks, MaxResets} \subseteq Nat

VARIABLES arcs,       \* the host's Session objects: members and envelope, 0: none,
                      \* and whether Registry::load made it
          current,    \* the one the registry's map holds, 0: none
          spawns,     \* deliveries about to be spawned: peer and envelope
          tasks,      \* every delivery started
          conns,      \* connections: what they carry, how far the handler is
          mirror,     \* each peer's workspace ticket, None without a mirror
          announced,  \* peers whose JoinAnnouncement is on the topic
          emitted,    \* signals emitted at their receiver
          published,
          resets      \* closes and restarts of the session so far

registry == <<arcs, current, published, resets>>
receiver == <<mirror, announced, emitted>>
vars     == <<registry, spawns, tasks, conns, receiver>>

None == MaxPublishes + 1      \* no mirror of the session

NewArc == [members |-> {}, envelope |-> 0, loaded |-> FALSE]

Init ==
  /\ arcs = <<NewArc>> /\ current = 1 /\ spawns = {} /\ tasks = <<>> /\ conns = {}
  /\ mirror = [p \in Peers |-> None] /\ announced = {} /\ emitted = {}
  /\ published = 0 /\ resets = 0
-----------------------------------------------------------------------------
(* The host's registry                                                     *)

\* publish_workspace_ticket under the session lock: store, memory and the members
Publish ==
  /\ current # 0 /\ published < MaxPublishes
  /\ published' = published + 1
  /\ arcs' = [arcs EXCEPT ![current].envelope = published + 1]
  /\ spawns' = spawns \cup [peer : arcs[current].members, env : {published + 1}]
  /\ UNCHANGED <<current, tasks, conns, receiver, resets>>

\* Mutant: only a member admitted before is sent the envelope.
OwedAgain(p) == arcs[current].envelope # 0 /\ p \in arcs[current].members

\* ensure_member snapshots the envelope for fresh and re-announcing members alike
Owed(p) == arcs[current].envelope # 0

\* ensure_member, with the announcement that drives it
EnsureMember(p) ==
  /\ current # 0 /\ p \in announced
  /\ announced' = announced \ {p}
  /\ arcs' = [arcs EXCEPT ![current].members = @ \cup {p}]
  /\ spawns' = IF Owed(p)
               THEN spawns \cup {[peer |-> p, env |-> arcs[current].envelope]}
               ELSE spawns
  /\ UNCHANGED <<current, tasks, conns, mirror, emitted, published, resets>>

\* remove_member
RemoveMember(p) ==
  /\ current # 0 /\ p \in arcs[current].members
  /\ arcs' = [arcs EXCEPT ![current].members = @ \ {p}]
  /\ UNCHANGED <<current, spawns, tasks, conns, receiver, published, resets>>

\* The host leaves: the object goes out of the map as it is
CloseSession ==
  /\ current # 0 /\ current' = 0
  /\ resets < MaxResets /\ resets' = resets + 1
  /\ UNCHANGED <<arcs, spawns, tasks, conns, receiver, published>>

HostAgain ==
  /\ current = 0
  /\ arcs' = Append(arcs, NewArc) /\ current' = Len(arcs) + 1
  /\ UNCHANGED <<spawns, tasks, conns, receiver, published, resets>>

\* The daemon restarts: members and envelope are on disk, deliveries are not
RestartHost ==
  /\ current # 0 /\ current' = 1 /\ resets < MaxResets /\ resets' = resets + 1
  /\ arcs' = <<[arcs[current] EXCEPT !.loaded = TRUE]>>
  /\ spawns' = {} /\ tasks' = <<>> /\ emitted' = {}
  /\ conns' = {[c EXCEPT !.task = 0] : c \in {d \in conns : d.pc = "read"}}
  /\ UNCHANGED <<mirror, announced, published>>
-----------------------------------------------------------------------------
(* Delivery tasks of the host                                              *)

Started(kind, p, env, pc) ==
  [kind |-> kind, arc |-> current, peer |-> p, env |-> env, tries |-> 0, pc |-> pc]

\* deliver_workspace_ticket_to looks the session up after its caller's lock is gone
Spawn(s) ==
  /\ s \in spawns /\ Len(tasks) < MaxTasks
  /\ spawns' = spawns \ {s}
  /\ tasks' = IF current = 0 THEN tasks
              ELSE Append(tasks, Started("ticket", s.peer, s.env, "ready"))
  /\ UNCHANGED <<registry, conns, receiver>>

\* The connection that the next attempt of t opens, as task i
Connection(i, t) ==
  [task |-> i, try |-> t.tries, kind |-> t.kind, peer |-> t.peer, env |-> t.env,
   pc |-> "open"]

Open(i) == Connection(i, tasks[i])

\* dispatch_deliver_upgrade, _downgrade and _rotate: one attempt, for the host alone
Signal(p) ==
  /\ current # 0 /\ Len(tasks) < MaxTasks
  /\ LET t == Started("signal", p, 0, "sending") IN
     /\ tasks' = Append(tasks, t)
     /\ conns' = conns \cup {Connection(Len(tasks) + 1, t)}
  /\ UNCHANGED <<registry, spawns, receiver>>

\* A task that is over; what it tried no longer matters
End(i, how) == [tasks EXCEPT ![i].pc = how, ![i].tries = 0]

\* The lane of a session object and a peer
LaneFree(i) ==
  \A j \in DOMAIN tasks :
    ~(/\ tasks[j].kind = "ticket" /\ tasks[j].pc = "sending"
      /\ tasks[j].arc = tasks[i].arc /\ tasks[j].peer = tasks[i].peer)

\* Mutant: a retry does not look whether its envelope is still the one.
StillMember(i) == tasks[i].peer \in arcs[tasks[i].arc].members

\* delivery_still_current, on the object the task was started with
StillCurrent(i) ==
  /\ tasks[i].peer \in arcs[tasks[i].arc].members
  /\ tasks[i].env = arcs[tasks[i].arc].envelope

\* run_delivery_with_retry: the check and the attempt under the lane's lock
Attempt(i) ==
  /\ tasks[i].pc = "ready" /\ LaneFree(i)
  /\ IF StillCurrent(i)
     THEN /\ tasks' = [tasks EXCEPT ![i].pc = "sending"]
          /\ conns' = conns \cup {Open(i)}
     ELSE tasks' = End(i, "superseded") /\ UNCHANGED conns
  /\ UNCHANGED <<registry, spawns, receiver>>

\* The ACK byte is read in time
Acked(i) ==
  /\ tasks[i].pc = "sending" /\ [Open(i) EXCEPT !.pc = "acked"] \in conns
  /\ tasks' = End(i, "delivered")
  /\ conns' = conns \ {[Open(i) EXCEPT !.pc = "acked"]}
  /\ UNCHANGED <<registry, spawns, receiver>>

Limit(i) == IF tasks[i].kind = "ticket" THEN Retries ELSE 1

\* Mutant: the attempt is not counted.
FailedUncounted(i) == [tasks EXCEPT ![i].pc = "ready"]

\* The last attempt ends the task, any other releases the lane for the backoff
Failed(i) ==
  IF tasks[i].tries + 1 = Limit(i) THEN End(i, "gave up")
  ELSE [tasks EXCEPT ![i].tries = @ + 1, ![i].pc = "ready"]

\* deliver_frame fails: a step of it does, or DELIVER_FRAME_TIMEOUT expires.  The
\* connection is dropped: a frame still on its way and an ACK not yet read are lost, a
\* frame that was read is not.
AttemptFails(i) ==
  /\ tasks[i].pc = "sending" /\ tasks' = Failed(i)
  /\ conns' = {c \in conns : c.task = i => c.pc = "read"}
  /\ UNCHANGED <<registry, spawns, receiver>>
-----------------------------------------------------------------------------
(* The receiver: one handler per connection                                *)

Handling(p) == {c \in conns : c.peer = p /\ c.pc # "open"}
Host == UNCHANGED <<registry, spawns, tasks>>

\* The task that opened the connection still waits for its ACK
Waiting(c) ==
  c.task # 0 /\ tasks[c.task].pc = "sending" /\ tasks[c.task].tries = c.try

\* accept claims a permit and reads the frame; over the cap the connection is dropped
Accept(c) ==
  /\ c \in conns /\ c.pc = "open"
  /\ conns' = (conns \ {c}) \cup
              (IF Cardinality(Handling(c.peer)) < MaxAccepts
               THEN {[c EXCEPT !.pc = "read"]} ELSE {})
  /\ UNCHANGED receiver /\ Host

\* A read or a write of the stream fails, or ACCEPT_TIMEOUT expires
DropConnection(c) ==
  /\ c \in conns /\ conns' = conns \ {c}
  /\ UNCHANGED receiver /\ Host

Ack(c, ok) == IF ok /\ Waiting(c) THEN {[c EXCEPT !.pc = "acked"]} ELSE {}

\* lock_remote_session_from_host: the session is known here, as a mirror of the sender
MirrorOf(p) == mirror[p] # None

\* emit_workspace_ticket, store before memory
Stored(c) ==
  IF c.kind = "ticket" THEN [mirror EXCEPT ![c.peer] = c.env] ELSE mirror

\* emit_upgrade, emit_downgrade and emit_rotate: an event, nothing on disk
Emitted(c) == IF c.kind = "signal" THEN emitted \cup ({c.task} \ {0}) ELSE emitted

\* handle_accept with the frame it read; when there is no mirror, or the store fails,
\* it ends without an ACK
Dispatch(c, ok) ==
  /\ c \in conns /\ c.pc = "read"
  /\ ok => MirrorOf(c.peer)
  /\ mirror' = IF ok THEN Stored(c) ELSE mirror
  /\ emitted' = IF ok THEN Emitted(c) ELSE emitted
  /\ conns' = (conns \ {c}) \cup Ack(c, ok)
  /\ UNCHANGED announced /\ Host

\* A join makes the mirror before it announces itself
JoinAndAnnounce(p) ==
  /\ current # 0 /\ mirror[p] = None
  /\ mirror' = [mirror EXCEPT ![p] = 0] /\ announced' = announced \cup {p}
  /\ UNCHANGED <<conns, emitted>> /\ Host

\* A leave, or the host's SessionClosed
DropMirror(p) ==
  /\ mirror[p] # None
  /\ mirror' = [mirror EXCEPT ![p] = None] /\ announced' = announced \ {p}
  /\ UNCHANGED <<conns, emitted>> /\ Host

\* The mirror and its ticket are on disk, the handlers are not
RestartPeer(p) ==
  /\ Handling(p) # {} /\ conns' = {c \in conns : c.peer # p}
  /\ UNCHANGED receiver /\ Host
-----------------------------------------------------------------------------
Next ==
  \/ Publish \/ CloseSession \/ HostAgain \/ RestartHost
  \/ \E p \in Peers : \/ EnsureMember(p) \/ RemoveMember(p) \/ Signal(p)
                      \/ JoinAndAnnounce(p) \/ DropMirror(p) \/ RestartPeer(p)
  \/ \E s \in spawns : Spawn(s)
  \/ \E i \in DOMAIN tasks : Attempt(i) \/ Acked(i) \/ AttemptFails(i)
  \/ \E c \in conns : \/ Accept(c) \/ DropConnection(c)
                      \/ \E ok \in BOOLEAN : Dispatch(c, ok)

Spec == Init /\ [][Next]_vars

\* The runtime polls every task, and its timers fire
FairSpec ==
  /\ Spec
  /\ \A i \in 1 .. MaxTasks :
       /\ WF_vars(i \in DOMAIN tasks /\ Attempt(i))
       /\ WF_vars(i \in DOMAIN tasks /\ AttemptFails(i))
-----------------------------------------------------------------------------
Ended == {"delivered", "superseded", "gave up"}

\* Objects, tasks, connections and mirrors have their types, and no task attempts
\* more often than its limit.
TypeOK ==
  /\ arcs \in Seq([members : SUBSET Peers, envelope : 0 .. MaxPublishes, loaded : BOOLEAN])
  /\ current \in 0 .. Len(arcs)
  /\ spawns \subseteq [peer : Peers, env : 1 .. MaxPublishes]
  /\ \A i \in DOMAIN tasks :
       /\ tasks[i].kind \in {"ticket", "signal"} /\ tasks[i].arc \in 1 .. Len(arcs)
       /\ tasks[i].peer \in Peers /\ tasks[i].env \in 0 .. MaxPublishes
       /\ tasks[i].pc \in {"ready", "sending"} \cup Ended
       /\ tasks[i].tries \in 0 .. Limit(i) - 1
  /\ \A c \in conns : c.task \in 0 .. Len(tasks) /\ c.pc \in {"open", "read", "acked"}
  /\ mirror \in [Peers -> 0 .. None] /\ announced \subseteq Peers
  /\ emitted \subseteq DOMAIN tasks

\* ensure_member and publish_workspace_ticket close the publish-before-admission race:
\* a member of the session is owed the current envelope, and unless the daemon was
\* restarted since, a delivery of it to them is on its way or has had its attempts.
NobodyForgotten ==
  current # 0 /\ ~arcs[current].loaded =>
    \A p \in arcs[current].members :
      LET e == arcs[current].envelope IN
      \/ e = 0 \/ [peer |-> p, env |-> e] \in spawns
      \/ \E i \in DOMAIN tasks : /\ tasks[i].kind = "ticket" /\ tasks[i].peer = p
                                 /\ tasks[i].env = e /\ tasks[i].pc # "superseded"

\* run_delivery_with_retry (M2): holding the lane across the check and the send keeps
\* an older envelope from replacing a newer one in a mirror.  Only a handler whose
\* sender has given it up, or whose session is gone, can still do so.
NoStaleTicket ==
  [][\A p \in Peers : mirror'[p] < mirror[p] /\ mirror[p] # None /\ mirror'[p] # 0 =>
       \E c \in conns : /\ c.pc = "read" /\ c.peer = p /\ c.env = mirror'[p]
                        /\ ~(Waiting(c) /\ tasks[c.task].arc = current)]_vars

\* deliver_frame: a signal reported as delivered was emitted at the receiver, whatever
\* was lost on the way.
DeliveredIsEmitted ==
  \A i \in DOMAIN tasks :
    tasks[i].kind = "signal" /\ tasks[i].pc = "delivered" => i \in emitted

\* Every delivery ends: acknowledged, superseded, or given up after its last attempt.
\* A peer that cannot be reached blocks neither its lane nor a client's request.
DeliveriesEnd ==
  \A i \in 1 .. MaxTasks :
    (i \in DOMAIN tasks /\ tasks[i].pc \notin Ended) ~>
      (i \in DOMAIN tasks => tasks[i].pc \in Ended)

(* publish_workspace_ticket and admission together leave no member without *)
(* a task for the current envelope, and a signal that was reported as      *)
(* delivered was emitted at its receiver.                                  *)
NothingIsForgotten ==
  /\ TypeOK
  /\ NobodyForgotten
  /\ DeliveredIsEmitted
=============================================================================
