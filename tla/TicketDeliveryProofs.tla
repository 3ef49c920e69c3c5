------------------------ MODULE TicketDeliveryProofs ------------------------
(***************************************************************************)
(* Proofs about TicketDelivery, for any number of peers, publishes,        *)
(* deliveries and resets, and any retry and accept limits.                 *)
(*                                                                         *)
(* Nobody is forgotten because an envelope number belongs to one session   *)
(* object: a delivery of the current envelope was started with the current *)
(* object, so only a membership that is gone supersedes it.                *)
(*                                                                         *)
(* No stale ticket replaces a newer one because of the lane: while the     *)
(* delivery i of the last object holds it, every frame under way to i's    *)
(* peer, and the peer's mirror, are of i's envelope or an older one.       *)
(***************************************************************************)
EXTENDS TicketDelivery, TLAPS

Arc   == [members : SUBSET Peers, envelope : 0 .. MaxPublishes, loaded : BOOLEAN]
Spawned == [peer : Peers, env : 1 .. MaxPublishes]
Task  == [kind : {"ticket", "signal"}, arc : Nat, peer : Peers,
          env : 0 .. MaxPublishes, tries : Nat, pc : {"ready", "sending"} \cup Ended]
Conn  == [task : Nat, try : Nat, kind : {"ticket", "signal"}, peer : Peers,
          env : 0 .. MaxPublishes, pc : {"open", "read", "acked"}]

\* TypeOK, with the shapes of tasks and connections.
Types ==
  /\ arcs \in Seq(Arc) /\ spawns \subseteq Spawned /\ tasks \in Seq(Task)
  /\ conns \subseteq Conn /\ mirror \in [Peers -> 0 .. None]
  /\ announced \subseteq Peers /\ emitted \subseteq DOMAIN tasks
  /\ published \in 0 .. MaxPublishes

\* The object in the map is the last one made, and tasks belong to objects that
\* exist.
Objects ==
  /\ Len(arcs) >= 1 /\ current \in {0, Len(arcs)}
  /\ \A i \in DOMAIN tasks : tasks[i].arc \in 1 .. Len(arcs)

\* No task attempts more often than its limit.
WithinLimit == \A i \in DOMAIN tasks : tasks[i].tries <= Limit(i) - 1

\* A connection carries what its task delivers, and one that acknowledges a signal
\* has emitted it.
OfItsTask ==
  \A c \in conns :
    /\ c.task # 0 => /\ c.task \in DOMAIN tasks /\ c.kind = tasks[c.task].kind
                     /\ c.peer = tasks[c.task].peer /\ c.env = tasks[c.task].env
    /\ c.kind = "signal" /\ c.pc = "acked" => c.task \in emitted

LastEnvelope == arcs[Len(arcs)].envelope

\* Envelopes are numbered in the order of the publishes.  The last object has the
\* newest or none, and its tasks are the ones that deliver it.
Numbered ==
  /\ LastEnvelope \in {0, published}
  /\ \A k \in DOMAIN arcs : arcs[k].envelope <= published
  /\ \A s \in spawns : s.env <= published
  /\ \A c \in conns : c.env <= published
  /\ \A p \in Peers : mirror[p] = None \/ mirror[p] <= published
  /\ \A i \in DOMAIN tasks :
       /\ tasks[i].env <= published
       /\ tasks[i].kind = "ticket" =>
            tasks[i].env # 0 /\ (tasks[i].env = LastEnvelope => tasks[i].arc = Len(arcs))

\* Task i holds the lane of the last object to its peer.
Holds(i) ==
  tasks[i].kind = "ticket" /\ tasks[i].pc = "sending" /\ tasks[i].arc = Len(arcs)

\* While a delivery holds the lane, nothing newer is under way or has arrived.
LaneIsNewest ==
  \A i \in DOMAIN tasks : Holds(i) =>
    /\ mirror[tasks[i].peer] = None \/ mirror[tasks[i].peer] <= tasks[i].env
    /\ \A c \in conns : c.peer = tasks[i].peer => c.env <= tasks[i].env
    /\ \A k \in 1 .. Len(arcs) - 1 : arcs[k].envelope <= tasks[i].env
-----------------------------------------------------------------------------
(* What a step does to the tasks                                           *)

(* The constants as the provers need them.                                 *)
LEMMA ConstantsAreNat ==
  /\ MaxPublishes \in Nat /\ MaxTasks \in Nat /\ MaxResets \in Nat
  /\ Retries \in Nat /\ Retries >= 1 /\ None = MaxPublishes + 1
BY TicketDeliveryAssumption DEF None

\* Task i may change where it is and how often it has tried, nothing else changes.
OnlyTask(i) ==
  /\ tasks' \in Seq(Task) /\ Len(tasks') = Len(tasks) /\ DOMAIN tasks' = DOMAIN tasks
  /\ \A j \in DOMAIN tasks :
       /\ j # i => tasks'[j] = tasks[j]
       /\ tasks'[j].kind = tasks[j].kind /\ tasks'[j].arc = tasks[j].arc
       /\ tasks'[j].peer = tasks[j].peer /\ tasks'[j].env = tasks[j].env

(* The update of one task in the sequence.                                 *)
LEMMA EditIs ==
  ASSUME tasks \in Seq(Task), NEW i \in DOMAIN tasks, NEW u \in Task,
         tasks' = [tasks EXCEPT ![i] = u],
         u.kind = tasks[i].kind, u.arc = tasks[i].arc, u.peer = tasks[i].peer,
         u.env = tasks[i].env
  PROVE  OnlyTask(i) /\ tasks'[i] = u
<1>1. i \in 1 .. Len(tasks)
  OBVIOUS
<1>2. tasks' \in Seq(Task) /\ Len(tasks') = Len(tasks)
  BY <1>1
<1>3. DOMAIN tasks' = DOMAIN tasks /\ tasks'[i] = u
      /\ \A j \in DOMAIN tasks : j # i => tasks'[j] = tasks[j]
  OBVIOUS
<1> QED
  BY <1>2, <1>3 DEF OnlyTask

(* A delivery that ends keeps what it delivers.                            *)
LEMMA EndIs ==
  ASSUME tasks \in Seq(Task), NEW i \in DOMAIN tasks, NEW how \in Ended,
         tasks' = End(i, how)
  PROVE  OnlyTask(i) /\ tasks'[i].pc = how /\ tasks'[i].tries = 0
<1> DEFINE u == [tasks[i] EXCEPT !.pc = how, !.tries = 0]
<1>1. tasks[i] \in Task
  OBVIOUS
<1>2. /\ u \in Task /\ u.pc = how /\ u.tries = 0 /\ u.kind = tasks[i].kind
      /\ u.arc = tasks[i].arc /\ u.peer = tasks[i].peer /\ u.env = tasks[i].env
  BY <1>1, Zenon DEF Task, Ended
<1>3. tasks' = [tasks EXCEPT ![i] = u]
  BY Zenon DEF End
<1> HIDE DEF u
<1> QED
  BY <1>2, <1>3, EditIs, Zenon

(* A new task is the last one.                                             *)
LEMMA StartIs ==
  ASSUME tasks \in Seq(Task), NEW t \in Task, tasks' = Append(tasks, t)
  PROVE  /\ tasks' \in Seq(Task) /\ Len(tasks') = Len(tasks) + 1 /\ Len(tasks) \in Nat
         /\ DOMAIN tasks' = DOMAIN tasks \cup {Len(tasks) + 1}
         /\ DOMAIN tasks = 1 .. Len(tasks)
         /\ \A j \in DOMAIN tasks : tasks'[j] = tasks[j]
         /\ tasks'[Len(tasks) + 1] = t
<1>1. /\ tasks' \in Seq(Task) /\ Len(tasks') = Len(tasks) + 1 /\ Len(tasks) \in Nat
      /\ DOMAIN tasks = 1 .. Len(tasks) /\ DOMAIN tasks' = 1 .. Len(tasks) + 1
      /\ \A j \in 1 .. Len(tasks) : tasks'[j] = tasks[j]
      /\ tasks'[Len(tasks) + 1] = t
  OBVIOUS
<1>2. 1 .. Len(tasks) + 1 = (1 .. Len(tasks)) \cup {Len(tasks) + 1}
  BY <1>1
<1> QED
  BY <1>1, <1>2

(* run_delivery_with_retry: an attempt ends superseded or sends.           *)
LEMMA AttemptIs ==
  ASSUME Types, NEW i \in DOMAIN tasks, Attempt(i)
  PROVE  /\ OnlyTask(i) /\ tasks[i].pc = "ready"
         /\ \/ /\ StillCurrent(i) /\ tasks'[i].pc = "sending"
               /\ tasks'[i].tries = tasks[i].tries /\ conns' = conns \cup {Open(i)}
            \/ /\ ~StillCurrent(i) /\ tasks'[i].pc = "superseded"
               /\ tasks'[i].tries = 0 /\ conns' = conns
<1> DEFINE u == [tasks[i] EXCEPT !.pc = "sending"]
<1>0. tasks \in Seq(Task) /\ tasks[i] \in Task
  BY DEF Types
<1>1. CASE StillCurrent(i)
  <2>1. /\ u \in Task /\ u.pc = "sending" /\ u.tries = tasks[i].tries
        /\ u.kind = tasks[i].kind
        /\ u.arc = tasks[i].arc /\ u.peer = tasks[i].peer /\ u.env = tasks[i].env
    BY <1>0, Zenon DEF Task
  <2>2. tasks' = [tasks EXCEPT ![i] = u]
    BY <1>1 DEF Attempt
  <2> HIDE DEF u
  <2>3. OnlyTask(i) /\ tasks'[i] = u
    BY <1>0, <2>1, <2>2, EditIs, Zenon
  <2> QED
    BY <1>1, <2>1, <2>3 DEF Attempt
<1>2. CASE ~StillCurrent(i)
  <2>1. OnlyTask(i) /\ tasks'[i].pc = "superseded" /\ tasks'[i].tries = 0
    BY <1>0, <1>2, EndIs, Zenon DEF Attempt, Ended
  <2> QED
    BY <1>2, <2>1 DEF Attempt
<1> QED
  BY <1>1, <1>2

(* An ACK in time ends the delivery.                                       *)
LEMMA AckedIs ==
  ASSUME Types, NEW i \in DOMAIN tasks, Acked(i)
  PROVE  /\ OnlyTask(i) /\ tasks[i].pc = "sending" /\ tasks'[i].pc = "delivered"
         /\ tasks'[i].tries = 0 /\ conns' \subseteq conns
BY EndIs, Zenon DEF Types, Acked, Ended

(* A failed attempt ends the delivery or counts and releases the lane.     *)
LEMMA FailsIs ==
  ASSUME Types, NEW i \in DOMAIN tasks, AttemptFails(i)
  PROVE  /\ OnlyTask(i) /\ tasks[i].pc = "sending" /\ conns' \subseteq conns
         /\ \/ tasks'[i].pc = "gave up" /\ tasks'[i].tries = 0
            \/ /\ tasks'[i].pc = "ready" /\ tasks'[i].tries = tasks[i].tries + 1
               /\ tasks[i].tries + 1 # Limit(i)
<1> DEFINE u == [tasks[i] EXCEPT !.tries = tasks[i].tries + 1, !.pc = "ready"]
<1>0. tasks \in Seq(Task) /\ tasks[i] \in Task
  BY DEF Types
<1>1. CASE tasks[i].tries + 1 = Limit(i)
  BY <1>0, <1>1, EndIs, Zenon DEF AttemptFails, Failed, Ended
<1>2. CASE tasks[i].tries + 1 # Limit(i)
  <2>0. tasks[i].tries + 1 \in Nat
    BY <1>0 DEF Task
  <2>1. /\ u \in Task /\ u.pc = "ready" /\ u.tries = tasks[i].tries + 1
        /\ u.kind = tasks[i].kind
        /\ u.arc = tasks[i].arc /\ u.peer = tasks[i].peer /\ u.env = tasks[i].env
    BY <1>0, <2>0, Zenon DEF Task
  <2>2. tasks' = [tasks EXCEPT ![i] = u]
    BY <1>2, Zenon DEF AttemptFails, Failed
  <2> HIDE DEF u
  <2>3. OnlyTask(i) /\ tasks'[i] = u
    BY <1>0, <2>1, <2>2, EditIs, Zenon
  <2> QED
    BY <1>2, <2>1, <2>3, Zenon DEF AttemptFails
<1> QED
  BY <1>1, <1>2, Zenon
-----------------------------------------------------------------------------
(* What a step does to the session objects and to the connections          *)

\* The object in the map may change, nothing else does.
OnlyCurrent ==
  /\ arcs' \in Seq(Arc) /\ Len(arcs') = Len(arcs) /\ DOMAIN arcs' = DOMAIN arcs
  /\ \A k \in DOMAIN arcs : k # current => arcs'[k] = arcs[k]
  /\ current' = current /\ current \in DOMAIN arcs

(* The update of the object in the map.                                    *)
LEMMA ArcEditIs ==
  ASSUME arcs \in Seq(Arc), current \in DOMAIN arcs, NEW a \in Arc,
         arcs' = [arcs EXCEPT ![current] = a], current' = current
  PROVE  OnlyCurrent /\ arcs'[current] = a
<1>1. current \in 1 .. Len(arcs)
  OBVIOUS
<1>2. arcs' \in Seq(Arc) /\ Len(arcs') = Len(arcs)
  BY <1>1
<1> QED
  BY <1>2 DEF OnlyCurrent

(* The object in the map exists.                                           *)
LEMMA CurrentExists ==
  ASSUME Types, Objects, current # 0
  PROVE  current \in DOMAIN arcs /\ arcs[current] \in Arc /\ current = Len(arcs)
BY DEF Types, Objects

(* publish_workspace_ticket numbers the envelope and keeps the members.    *)
LEMMA PublishIs ==
  ASSUME Types, Objects, Publish
  PROVE  /\ OnlyCurrent /\ arcs'[current].envelope = published + 1
         /\ arcs'[current].members = arcs[current].members
         /\ arcs'[current].loaded = arcs[current].loaded
         /\ published + 1 \in 1 .. MaxPublishes
         /\ spawns' \subseteq Spawned
         /\ \A s \in spawns' : s \in spawns \/ s.env = published + 1
         /\ \A p \in arcs[current].members :
              [peer |-> p, env |-> published + 1] \in spawns'
<1> DEFINE a == [arcs[current] EXCEPT !.envelope = published + 1]
<1>1. current \in DOMAIN arcs /\ arcs[current] \in Arc /\ arcs \in Seq(Arc)
  BY CurrentExists DEF Publish, Types
<1>2. published + 1 \in 1 .. MaxPublishes
  BY ConstantsAreNat DEF Types, Publish
<1>3. /\ a \in Arc /\ a.envelope = published + 1 /\ a.members = arcs[current].members
      /\ a.loaded = arcs[current].loaded
  BY <1>1, <1>2 DEF Arc
<1>4. arcs' = [arcs EXCEPT ![current] = a] /\ current' = current
  BY DEF Publish
<1> HIDE DEF a
<1>5. OnlyCurrent /\ arcs'[current] = a
  BY <1>1, <1>3, <1>4, ArcEditIs, Zenon
<1>6. arcs[current].members \subseteq Peers
  BY <1>1 DEF Arc
<1>7. /\ spawns' = spawns \cup [peer : arcs[current].members, env : {published + 1}]
      /\ spawns \subseteq Spawned
  BY DEF Publish, Types
<1>8. [peer : arcs[current].members, env : {published + 1}] \subseteq Spawned
  BY <1>2, <1>6 DEF Spawned
<1> QED
  BY <1>2, <1>3, <1>5, <1>7, <1>8

(* ensure_member and remove_member change the members alone.               *)
LEMMA MembersIs ==
  ASSUME Types, Objects, NEW p \in Peers, EnsureMember(p) \/ RemoveMember(p)
  PROVE  /\ OnlyCurrent /\ arcs'[current].envelope = arcs[current].envelope
         /\ arcs'[current].loaded = arcs[current].loaded
         /\ EnsureMember(p) => arcs'[current].members = arcs[current].members \cup {p}
         /\ RemoveMember(p) => arcs'[current].members = arcs[current].members \ {p}
         /\ spawns' \subseteq Spawned
         /\ \A s \in spawns' : s \in spawns \/ s.env = arcs[current].envelope
<1> DEFINE a == [arcs[current] EXCEPT !.members = arcs[current].members \cup {p}]
           b == [arcs[current] EXCEPT !.members = arcs[current].members \ {p}]
<1>1. current \in DOMAIN arcs /\ arcs[current] \in Arc /\ arcs \in Seq(Arc)
  BY CurrentExists DEF EnsureMember, RemoveMember, Types
<1>2. arcs[current].members \subseteq Peers /\ arcs[current].envelope \in 0 .. MaxPublishes
  BY <1>1 DEF Arc
<1>3. /\ a \in Arc /\ a.envelope = arcs[current].envelope
      /\ a.members = arcs[current].members \cup {p} /\ a.loaded = arcs[current].loaded
  BY <1>1, <1>2, Zenon DEF Arc
<1>4. /\ b \in Arc /\ b.envelope = arcs[current].envelope
      /\ b.members = arcs[current].members \ {p} /\ b.loaded = arcs[current].loaded
  BY <1>1, <1>2, Zenon DEF Arc
<1>5. EnsureMember(p) => arcs' = [arcs EXCEPT ![current] = a] /\ current' = current
  BY DEF EnsureMember
<1>6. RemoveMember(p) => arcs' = [arcs EXCEPT ![current] = b] /\ current' = current
  BY DEF RemoveMember
<1> HIDE DEF a, b
<1>7. EnsureMember(p) => OnlyCurrent /\ arcs'[current] = a
  BY <1>1, <1>3, <1>5, ArcEditIs
<1>8. RemoveMember(p) => OnlyCurrent /\ arcs'[current] = b
  BY <1>1, <1>4, <1>6, ArcEditIs
<1>9. /\ spawns' \subseteq Spawned
      /\ \A s \in spawns' : s \in spawns \/ s.env = arcs[current].envelope
  <2>1. CASE spawns' = spawns
    BY <2>1 DEF Types
  <2>2. CASE /\ arcs[current].envelope # 0
             /\ spawns' = spawns \cup {[peer |-> p, env |-> arcs[current].envelope]}
    <3>1. [peer |-> p, env |-> arcs[current].envelope] \in Spawned
      BY <1>2, <2>2, ConstantsAreNat DEF Spawned
    <3> QED
      BY <2>2, <3>1 DEF Types
  <2> QED
    BY <2>1, <2>2 DEF EnsureMember, RemoveMember, Owed
<1>10. \/ EnsureMember(p) /\ OnlyCurrent /\ arcs'[current] = a
       \/ RemoveMember(p) /\ OnlyCurrent /\ arcs'[current] = b
  BY <1>7, <1>8
<1>11. EnsureMember(p) => arcs'[current].members = arcs[current].members \cup {p}
  BY <1>3, <1>7
<1>12. RemoveMember(p) => arcs'[current].members = arcs[current].members \ {p}
  BY <1>4, <1>8
<1> QED
  BY <1>3, <1>4, <1>9, <1>10, <1>11, <1>12

\* A step opens no connection; what an acknowledged signal carries was emitted.
Descends ==
  /\ conns' \subseteq Conn /\ emitted \subseteq emitted'
  /\ \A d \in conns' : \E c \in conns :
       /\ d.task = c.task /\ d.kind = c.kind /\ d.peer = c.peer /\ d.env = c.env
       /\ d.kind = "signal" /\ d.pc = "acked" => c.pc = "acked" \/ d.task \in emitted'

(* A step that only drops connections opens none.                          *)
LEMMA FewerDescend ==
  ASSUME Types, conns' \subseteq conns, emitted' = emitted
  PROVE  Descends
BY DEF Types, Descends

(* A handler's steps, with the signal emitted before its ACK.              *)
LEMMA HandlerIs ==
  ASSUME Types, OfItsTask, NEW c \in conns, NEW ok \in BOOLEAN,
         Accept(c) \/ DropConnection(c) \/ Dispatch(c, ok)
  PROVE  Descends /\ emitted' \subseteq DOMAIN tasks
<1>0. c \in Conn /\ conns \subseteq Conn /\ emitted \subseteq DOMAIN tasks
  BY DEF Types
<1>1. CASE Accept(c)
  <2> DEFINE d == [c EXCEPT !.pc = "read"]
  <2>1. /\ d \in Conn /\ d.task = c.task /\ d.kind = c.kind /\ d.peer = c.peer
        /\ d.env = c.env /\ d.pc # "acked"
    BY <1>0 DEF Conn
  <2>2. conns' \subseteq conns \cup {d} /\ emitted' = emitted
    BY <1>1 DEF Accept, receiver
  <2> HIDE DEF d
  <2> QED
    BY <1>0, <2>1, <2>2 DEF Descends
<1>2. CASE DropConnection(c)
  BY <1>0, <1>2, FewerDescend DEF DropConnection, receiver
<1>3. CASE Dispatch(c, ok)
  <2> DEFINE d == [c EXCEPT !.pc = "acked"]
  <2>1. /\ d \in Conn /\ d.task = c.task /\ d.kind = c.kind /\ d.peer = c.peer
        /\ d.env = c.env
    BY <1>0 DEF Conn
  <2>2. conns' \subseteq conns \cup {d} /\ (d \in conns' => d \in conns \/ (ok /\ Waiting(c)))
    BY <1>3 DEF Dispatch, Ack
  <2> HIDE DEF d
  <2>3. emitted \subseteq emitted' /\ emitted' \subseteq DOMAIN tasks
    BY <1>0, <1>3 DEF Dispatch, Emitted, OfItsTask
  <2>4. ok /\ Waiting(c) /\ c.kind = "signal" => c.task \in emitted'
    BY <1>3 DEF Dispatch, Emitted, Waiting
  <2> QED
    BY <1>0, <2>1, <2>2, <2>3, <2>4 DEF Descends
<1> QED
  BY <1>1, <1>2, <1>3
-----------------------------------------------------------------------------
(* Shapes                                                                  *)

Shape == Types /\ Objects /\ WithinLimit /\ OfItsTask

(* A step that edits one task, within its limit, and opens no connection.  *)
LEMMA EditKeepsShape ==
  ASSUME Shape, NEW i \in DOMAIN tasks, OnlyTask(i), Descends,
         tasks'[i].tries <= Limit(i) - 1,
         UNCHANGED <<registry, spawns, receiver>>
  PROVE  Shape'
<1>1. Types'
  BY DEF Shape, Types, OnlyTask, Descends, registry, receiver
<1>2. Objects'
  BY DEF Shape, Objects, OnlyTask, registry
<1>3. WithinLimit'
  BY DEF Shape, WithinLimit, OnlyTask, Limit
<1>4. OfItsTask'
  BY DEF Shape, OfItsTask, OnlyTask, Descends, receiver
<1> QED
  BY <1>1, <1>2, <1>3, <1>4 DEF Shape

(* A step of the receiver.                                                 *)
LEMMA ReceiverKeepsShape ==
  ASSUME Shape, Host, Descends, emitted' \subseteq DOMAIN tasks,
         mirror' \in [Peers -> 0 .. None], announced' \subseteq Peers
  PROVE  Shape'
<1>1. Types' /\ Objects' /\ WithinLimit'
  BY DEF Shape, Types, Objects, WithinLimit, Limit, Host, Descends, registry
<1>2. OfItsTask'
  BY DEF Shape, OfItsTask, Descends, Host
<1> QED
  BY <1>1, <1>2 DEF Shape

(* A step of the registry that edits the object in the map.                *)
LEMMA RegistryKeepsShape ==
  ASSUME Shape, OnlyCurrent, spawns' \subseteq Spawned, announced' \subseteq Peers,
         published' \in 0 .. MaxPublishes, UNCHANGED <<tasks, conns, mirror, emitted>>
  PROVE  Shape'
<1>1. Types'
  BY DEF Shape, Types, OnlyCurrent
<1>2. Objects' /\ WithinLimit' /\ OfItsTask'
  BY DEF Shape, Objects, WithinLimit, Limit, OfItsTask, OnlyCurrent
<1> QED
  BY <1>1, <1>2 DEF Shape

(* A delivery that starts, with the connection of a signal's one attempt.  *)
LEMMA StartKeepsShape ==
  ASSUME Shape, NEW t \in Task, tasks' = Append(tasks, t), t.tries = 0,
         t.arc \in 1 .. Len(arcs), spawns' \subseteq spawns,
         \/ conns' = conns
         \/ conns' = conns \cup {Connection(Len(tasks) + 1, t)},
         UNCHANGED <<registry, receiver>>
  PROVE  Shape'
<1> DEFINE n == Len(tasks) + 1
           c == Connection(n, t)
<1>0. tasks \in Seq(Task)
  BY DEF Shape, Types
<1>1. /\ tasks' \in Seq(Task) /\ n \in Nat /\ n # 0
      /\ DOMAIN tasks' = DOMAIN tasks \cup {n} /\ n \notin DOMAIN tasks
      /\ \A j \in DOMAIN tasks : tasks'[j] = tasks[j]
      /\ tasks'[n] = t
  BY <1>0, StartIs
<1>2. /\ c \in Conn /\ c.task = n /\ c.kind = t.kind /\ c.peer = t.peer /\ c.env = t.env
      /\ c.pc = "open"
  BY <1>1 DEF Connection, Conn, Task
<1>3. conns' \subseteq conns \cup {c}
  OBVIOUS
<1> HIDE DEF n, c
<1>4. Types'
  BY <1>1, <1>2, <1>3, Zenon DEF Shape, Types, registry, receiver
<1>5. Objects'
  BY <1>1 DEF Shape, Objects, registry
<1>6. WithinLimit'
  <2>2. ASSUME NEW j \in DOMAIN tasks' PROVE tasks'[j].tries <= Limit(j)' - 1
    <3>1. CASE j \in DOMAIN tasks
      BY <1>1, <3>1 DEF Shape, WithinLimit, Limit
    <3>2. CASE j = n
      BY <1>1, <3>2, ConstantsAreNat DEF Limit
    <3> QED
      BY <1>1, <3>1, <3>2
  <2> QED
    BY <2>2 DEF WithinLimit
<1>7. OfItsTask'
  BY <1>1, <1>2, <1>3 DEF Shape, OfItsTask, receiver
<1> QED
  BY <1>4, <1>5, <1>6, <1>7 DEF Shape

(* Every step keeps the shapes.                                            *)
LEMMA ShapeStep ==
  ASSUME Shape, [Next]_vars
  PROVE  Shape'
<1>0. Types /\ Objects /\ OfItsTask /\ WithinLimit /\ tasks \in Seq(Task)
  BY DEF Shape, Types
<1>1. CASE Publish
  <2>1. published' \in 0 .. MaxPublishes
    BY <1>0, <1>1, PublishIs, ConstantsAreNat DEF Publish
  <2> QED
    BY <1>0, <1>1, <2>1, PublishIs, RegistryKeepsShape DEF Publish, receiver, Types
<1>2. ASSUME NEW p \in Peers, EnsureMember(p) \/ RemoveMember(p) PROVE Shape'
  <2>1. announced' \subseteq Peers /\ published' = published
        /\ UNCHANGED <<tasks, conns, mirror, emitted>>
    BY <1>0, <1>2, Zenon DEF EnsureMember, RemoveMember, receiver, Types
  <2> QED
    BY <1>0, <1>2, <2>1, MembersIs, RegistryKeepsShape, Zenon DEF Types
<1>3. CASE CloseSession
  BY <1>0, <1>3, Zenon DEF CloseSession, receiver, Shape, Types, Objects, WithinLimit, Limit,
                    OfItsTask
<1>4. CASE HostAgain
  <2>1. NewArc \in Arc
    BY ConstantsAreNat DEF NewArc, Arc
  <2>2. /\ arcs' \in Seq(Arc) /\ Len(arcs') = Len(arcs) + 1 /\ current' = Len(arcs')
        /\ Len(arcs) \in Nat
    BY <1>0, <1>4, <2>1 DEF HostAgain, Types
  <2>3. Types'
    BY <1>0, <1>4, <2>2, Zenon DEF HostAgain, receiver, Types
  <2>4. Objects'
    BY <1>0, <1>4, <2>2 DEF HostAgain, Objects
  <2> QED
    BY <1>0, <1>4, <2>3, <2>4, Zenon DEF HostAgain, receiver, Shape, WithinLimit, Limit, OfItsTask
<1>5. CASE RestartHost
  <2> DEFINE a == [arcs[current] EXCEPT !.loaded = TRUE]
  <2>1. a \in Arc
    BY <1>0, <1>5, CurrentExists, Zenon DEF RestartHost, Arc
  <2>2. arcs' = <<a>> /\ tasks' = <<>> /\ spawns' = {} /\ emitted' = {} /\ current' = 1
    BY <1>5 DEF RestartHost
  <2> HIDE DEF a
  <2>3. /\ arcs' \in Seq(Arc) /\ Len(arcs') = 1 /\ tasks' \in Seq(Task)
        /\ DOMAIN tasks' = {}
    BY <2>1, <2>2
  <2>4. ASSUME NEW d \in conns' PROVE d \in Conn /\ d.task = 0 /\ d.pc = "read"
    <3>1. PICK c \in conns : c.pc = "read" /\ d = [c EXCEPT !.task = 0]
      BY <1>5 DEF RestartHost
    <3>2. c \in Conn
      BY <1>0 DEF Types
    <3> QED
      BY <3>1, <3>2 DEF Conn
  <2>5. Types'
    BY <1>0, <1>5, <2>2, <2>3, <2>4 DEF RestartHost, Types
  <2>6. Objects' /\ WithinLimit' /\ OfItsTask'
    BY <2>2, <2>3, <2>4 DEF Objects, WithinLimit, OfItsTask
  <2> QED
    BY <2>5, <2>6 DEF Shape
<1>6. ASSUME NEW p \in Peers, Signal(p) PROVE Shape'
  <2> DEFINE t == Started("signal", p, 0, "sending")
  <2>1. t \in Task /\ t.tries = 0 /\ t.arc \in 1 .. Len(arcs)
    BY <1>0, <1>6, CurrentExists, ConstantsAreNat DEF Signal, Started, Task, Types
  <2>2. tasks' = Append(tasks, t) /\ conns' = conns \cup {Connection(Len(tasks) + 1, t)}
    BY <1>6 DEF Signal
  <2> HIDE DEF t
  <2> QED
    BY <1>6, <2>1, <2>2, StartKeepsShape DEF Signal
<1>7. ASSUME NEW s \in spawns, Spawn(s) PROVE Shape'
  <2>1. CASE current = 0
    BY <1>0, <1>7, <2>1 DEF Spawn, registry, receiver, Shape, Types, Objects, WithinLimit,
                            Limit, OfItsTask
  <2>2. CASE current # 0
    <3> DEFINE t == Started("ticket", s.peer, s.env, "ready")
    <3>1. s.peer \in Peers /\ s.env \in 0 .. MaxPublishes
      BY <1>0, ConstantsAreNat DEF Types, Spawned
    <3>2. t \in Task /\ t.tries = 0 /\ t.arc \in 1 .. Len(arcs)
      BY <1>0, <2>2, <3>1, CurrentExists DEF Started, Task, Types
    <3>3. tasks' = Append(tasks, t) /\ spawns' \subseteq spawns /\ conns' = conns
      BY <1>7, <2>2 DEF Spawn
    <3> HIDE DEF t
    <3> QED
      BY <1>7, <3>2, <3>3, StartKeepsShape DEF Spawn
  <2> QED
    BY <2>1, <2>2
<1>8. ASSUME NEW i \in DOMAIN tasks
      PROVE  Limit(i) >= 1 /\ Limit(i) \in Nat /\ tasks[i].tries \in Nat
             /\ tasks[i].tries <= Limit(i) - 1
  <2>1. tasks[i] \in Task
    BY <1>0
  <2>2. Limit(i) >= 1 /\ Limit(i) \in Nat
    BY ConstantsAreNat DEF Limit
  <2> QED
    BY <1>0, <2>1, <2>2 DEF WithinLimit, Task
<1>9. ASSUME NEW i \in DOMAIN tasks, Attempt(i) PROVE Shape'
  <2>0. OnlyTask(i) /\ UNCHANGED <<registry, spawns, receiver>>
        /\ tasks'[i].tries <= Limit(i) - 1
    BY <1>0, <1>8, <1>9, AttemptIs DEF Attempt
  <2>1. CASE conns' = conns
    BY <1>0, <2>0, <2>1, FewerDescend, EditKeepsShape DEF receiver
  <2>2. CASE conns' = conns \cup {Open(i)}
    <3>1. /\ Open(i) \in Conn /\ Open(i).task = i /\ Open(i).kind = tasks[i].kind
          /\ Open(i).peer = tasks[i].peer /\ Open(i).env = tasks[i].env
          /\ Open(i).pc = "open"
      <4>1. tasks[i] \in Task /\ i \in Nat
        BY <1>0
      <4> QED
        BY <4>1 DEF Open, Connection, Conn, Task
    <3>2. Types'
      BY <1>0, <2>0, <2>2, <3>1, Zenon DEF Types, OnlyTask, registry, receiver
    <3>3. Objects'
      BY <1>0, <2>0, Zenon DEF Objects, OnlyTask, registry
    <3>4. WithinLimit'
      BY <1>0, <2>0 DEF WithinLimit, OnlyTask, Limit
    <3>5. OfItsTask'
      BY <1>0, <2>0, <2>2, <3>1 DEF OfItsTask, OnlyTask, receiver
    <3> QED
      BY <3>2, <3>3, <3>4, <3>5 DEF Shape
  <2> QED
    BY <1>0, <1>9, <2>1, <2>2, AttemptIs
<1>10. ASSUME NEW i \in DOMAIN tasks, Acked(i) PROVE Shape'
  <2>1. OnlyTask(i) /\ UNCHANGED <<registry, spawns, receiver>>
        /\ conns' \subseteq conns /\ tasks'[i].tries = 0
    BY <1>0, <1>10, AckedIs, Zenon DEF Acked
  <2>2. tasks'[i].tries <= Limit(i) - 1
    BY <1>8, <2>1
  <2> QED
    BY <1>0, <2>1, <2>2, FewerDescend, EditKeepsShape, Zenon DEF receiver
<1>11. ASSUME NEW i \in DOMAIN tasks, AttemptFails(i) PROVE Shape'
  <2>1. /\ OnlyTask(i) /\ UNCHANGED <<registry, spawns, receiver>>
        /\ conns' \subseteq conns
        /\ \/ tasks'[i].tries = 0
           \/ tasks'[i].tries = tasks[i].tries + 1 /\ tasks[i].tries + 1 # Limit(i)
    BY <1>0, <1>11, FailsIs, Zenon DEF AttemptFails
  <2>2. tasks'[i].tries <= Limit(i) - 1
    BY <1>8, <2>1
  <2> QED
    BY <1>0, <2>1, <2>2, FewerDescend, EditKeepsShape, Zenon DEF receiver
<1>12. ASSUME NEW c \in conns, NEW ok \in BOOLEAN,
              Accept(c) \/ DropConnection(c) \/ Dispatch(c, ok)
       PROVE  Shape'
  <2>1. Host /\ announced' \subseteq Peers
    BY <1>0, <1>12, Zenon DEF Accept, DropConnection, Dispatch, receiver, Types
  <2>2. mirror' \in [Peers -> 0 .. None]
    <3>1. c.peer \in Peers /\ c.env \in 0 .. None
      BY <1>0, ConstantsAreNat DEF Types, Conn
    <3> QED
      BY <1>0, <1>12, <3>1, Zenon DEF Accept, DropConnection, Dispatch, Stored, receiver, Types
  <2> QED
    BY <1>0, <1>12, <2>1, <2>2, HandlerIs, ReceiverKeepsShape, Zenon
<1>13. ASSUME NEW p \in Peers, JoinAndAnnounce(p) \/ DropMirror(p) \/ RestartPeer(p)
       PROVE  Shape'
  <2>1. Host /\ announced' \subseteq Peers /\ emitted' = emitted /\ conns' \subseteq conns
    BY <1>0, <1>13, Zenon DEF JoinAndAnnounce, DropMirror, RestartPeer, receiver, Types
  <2>2. mirror' \in [Peers -> 0 .. None]
    BY <1>0, <1>13, ConstantsAreNat DEF JoinAndAnnounce, DropMirror, RestartPeer, receiver,
                                        Types
  <2> QED
    BY <1>0, <2>1, <2>2, FewerDescend, ReceiverKeepsShape, Zenon DEF Types
<1>14. CASE UNCHANGED vars
  BY <1>0, <1>14, Zenon DEF vars, registry, receiver, Shape, Types, Objects, WithinLimit, Limit,
                     OfItsTask
<1> QED
  BY <1>1, <1>2, <1>3, <1>4, <1>5, <1>6, <1>7, <1>9, <1>10, <1>11, <1>12, <1>13, <1>14, Zenon
     DEF Next
-----------------------------------------------------------------------------
(* Envelope numbers and lanes                                              *)

(* The envelopes compared below are numbers.                               *)
LEMMA EnvelopesAreNat ==
  ASSUME Types
  PROVE  /\ published \in Nat /\ Len(arcs) \in Nat /\ DOMAIN arcs = 1 .. Len(arcs)
         /\ \A k \in DOMAIN arcs : arcs[k].envelope \in Nat
         /\ \A i \in DOMAIN tasks : tasks[i].env \in Nat /\ tasks[i].peer \in Peers
         /\ \A s \in spawns : s.env \in Nat /\ s.env # 0
         /\ \A c \in conns : c.env \in Nat /\ c.peer \in Peers
         /\ \A p \in Peers : mirror[p] \in Nat
<1>1. /\ published \in Nat /\ \A p \in Peers : mirror[p] \in Nat
      /\ \A c \in conns : c.env \in Nat /\ c.peer \in Peers
      /\ \A s \in spawns : s.env \in Nat /\ s.env # 0
  BY ConstantsAreNat DEF Types, Conn, Spawned
<1>2. /\ \A k \in DOMAIN arcs : arcs[k] \in Arc
      /\ \A i \in DOMAIN tasks : tasks[i] \in Task
      /\ Len(arcs) \in Nat /\ DOMAIN arcs = 1 .. Len(arcs)
  BY DEF Types
<1>3. /\ \A k \in DOMAIN arcs : arcs[k].envelope \in Nat
      /\ \A i \in DOMAIN tasks : tasks[i].env \in Nat /\ tasks[i].peer \in Peers
  BY <1>2 DEF Arc, Task
<1> QED
  BY <1>1, <1>2, <1>3, Zenon

\* The clauses of Numbered for the session objects, the tasks and the receiver.
ArcsNumbered ==
  LastEnvelope \in {0, published} /\ \A k \in DOMAIN arcs : arcs[k].envelope <= published
TasksNumbered ==
  \A i \in DOMAIN tasks :
    /\ tasks[i].env <= published
    /\ tasks[i].kind = "ticket" =>
         tasks[i].env # 0 /\ (tasks[i].env = LastEnvelope => tasks[i].arc = Len(arcs))
OthersNumbered ==
  /\ \A s \in spawns : s.env <= published
  /\ \A c \in conns : c.env <= published
  /\ \A p \in Peers : mirror[p] = None \/ mirror[p] <= published

(* They are all of it.                                                     *)
LEMMA NumberedIs == Numbered <=> ArcsNumbered /\ TasksNumbered /\ OthersNumbered
BY Zenon DEF Numbered, ArcsNumbered, TasksNumbered, OthersNumbered

(* Every step keeps the envelopes in the order of the publishes.           *)
LEMMA NumberedStep ==
  ASSUME Shape, Numbered, [Next]_vars
  PROVE  Numbered'
<1>0. Types /\ Objects /\ OfItsTask /\ tasks \in Seq(Task)
  BY DEF Shape, Types
<1>a. ArcsNumbered /\ TasksNumbered /\ OthersNumbered
  BY NumberedIs
<1>b. SUFFICES ArcsNumbered' /\ TasksNumbered' /\ OthersNumbered'
  BY NumberedIs DEF Numbered, ArcsNumbered, TasksNumbered, OthersNumbered
<1>c. UNCHANGED registry => ArcsNumbered' /\ LastEnvelope' = LastEnvelope
  BY <1>a DEF registry, ArcsNumbered, LastEnvelope
<1>1. CASE Publish
  <2>0. /\ published' = published + 1 /\ UNCHANGED <<tasks, conns, mirror>>
    BY <1>1 DEF Publish, receiver
  <2>1. /\ OnlyCurrent /\ current = Len(arcs) /\ LastEnvelope' = published + 1
    BY <1>0, <1>1, PublishIs, CurrentExists, Zenon DEF Publish, LastEnvelope, OnlyCurrent
  <2>2. ArcsNumbered'
    BY <1>0, <1>1, <1>a, <2>0, <2>1, PublishIs, EnvelopesAreNat
       DEF ArcsNumbered, OnlyCurrent
  <2>3. TasksNumbered'
    BY <1>0, <1>a, <2>0, <2>1, EnvelopesAreNat DEF TasksNumbered
  <2>4. \A s \in spawns' : s \in spawns \/ s.env = published + 1
    BY <1>0, <1>1, PublishIs, Zenon
  <2>5. OthersNumbered'
    BY <1>0, <1>a, <2>0, <2>4, EnvelopesAreNat DEF OthersNumbered
  <2> QED
    BY <2>2, <2>3, <2>5
<1>2. ASSUME NEW p \in Peers, EnsureMember(p) \/ RemoveMember(p)
      PROVE  ArcsNumbered' /\ TasksNumbered' /\ OthersNumbered'
  <2>0. published' = published /\ UNCHANGED <<tasks, conns, mirror>>
    BY <1>2, Zenon DEF EnsureMember, RemoveMember, receiver
  <2>1. /\ OnlyCurrent /\ arcs'[current].envelope = arcs[current].envelope
        /\ \A s \in spawns' : s \in spawns \/ s.env = arcs[current].envelope
    BY <1>0, <1>2, MembersIs, Zenon
  <2>2. \A k \in DOMAIN arcs : arcs'[k].envelope = arcs[k].envelope
    BY <2>1, Zenon DEF OnlyCurrent
  <2>3. LastEnvelope' = LastEnvelope /\ Len(arcs') = Len(arcs) /\ DOMAIN arcs' = DOMAIN arcs
    BY <1>0, <2>1, <2>2, EnvelopesAreNat DEF LastEnvelope, OnlyCurrent, Objects
  <2>4. ArcsNumbered' /\ TasksNumbered'
    BY <1>a, <2>0, <2>2, <2>3, Zenon DEF ArcsNumbered, TasksNumbered
  <2>5. OthersNumbered'
    BY <1>a, <2>0, <2>1, Zenon DEF OthersNumbered, ArcsNumbered, OnlyCurrent
  <2> QED
    BY <2>4, <2>5
<1>3. CASE CloseSession
  BY <1>a, <1>3, Zenon DEF CloseSession, receiver, ArcsNumbered, TasksNumbered, OthersNumbered,
                    LastEnvelope
<1>4. CASE HostAgain
  <2>0. published' = published /\ UNCHANGED <<spawns, tasks, conns, mirror>>
    BY <1>4 DEF HostAgain, receiver
  <2>1. /\ Len(arcs') = Len(arcs) + 1 /\ DOMAIN arcs' = 1 .. Len(arcs) + 1
        /\ arcs'[Len(arcs) + 1] = NewArc
        /\ \A k \in 1 .. Len(arcs) : arcs'[k] = arcs[k]
    BY <1>0, <1>4 DEF HostAgain, Types
  <2>2. LastEnvelope' = 0
    BY <2>1 DEF LastEnvelope, NewArc
  <2>3. ASSUME NEW k \in DOMAIN arcs' PROVE arcs'[k].envelope <= published
    <3>1. CASE k \in 1 .. Len(arcs)
      BY <1>0, <1>a, <2>1, <3>1, EnvelopesAreNat, Zenon DEF ArcsNumbered
    <3>2. CASE k = Len(arcs) + 1
      BY <1>0, <2>1, <3>2, EnvelopesAreNat DEF NewArc
    <3> QED
      BY <1>0, <2>1, <3>1, <3>2, EnvelopesAreNat
  <2>4. ArcsNumbered'
    BY <2>0, <2>2, <2>3, Zenon DEF ArcsNumbered
  <2>5. TasksNumbered'
    BY <1>a, <2>0, <2>2, Zenon DEF TasksNumbered
  <2>6. OthersNumbered'
    BY <1>a, <2>0, Zenon DEF OthersNumbered
  <2> QED
    BY <2>4, <2>5, <2>6
<1>5. CASE RestartHost
  <2>0. published' = published /\ mirror' = mirror /\ spawns' = {} /\ tasks' = <<>>
    BY <1>5 DEF RestartHost
  <2>1. /\ Len(arcs') = 1 /\ DOMAIN arcs' = {1}
        /\ arcs'[1].envelope = arcs[current].envelope
    BY <1>0, <1>5, CurrentExists DEF RestartHost, Arc
  <2>2. ArcsNumbered'
    BY <1>0, <1>5, <1>a, <2>0, <2>1, CurrentExists, Zenon
       DEF RestartHost, ArcsNumbered, LastEnvelope
  <2>3. TasksNumbered'
    BY <2>0 DEF TasksNumbered
  <2>4. ASSUME NEW d \in conns' PROVE d.env <= published
    <3>1. PICK c \in conns : d = [c EXCEPT !.task = 0]
      BY <1>5 DEF RestartHost
    <3>2. d.env = c.env
      BY <1>0, <3>1 DEF Types, Conn
    <3> QED
      BY <1>a, <3>2 DEF OthersNumbered
  <2>5. OthersNumbered'
    BY <1>a, <2>0, <2>4 DEF OthersNumbered
  <2> QED
    BY <2>2, <2>3, <2>5
<1>6. ASSUME NEW p \in Peers, Signal(p)
      PROVE  ArcsNumbered' /\ TasksNumbered' /\ OthersNumbered'
  <2> DEFINE t == Started("signal", p, 0, "sending")
             c == Connection(Len(tasks) + 1, t)
  <2>0. UNCHANGED <<registry, spawns, mirror>>
    BY <1>6, Zenon DEF Signal, receiver
  <2>1. t \in Task /\ t.kind = "signal" /\ t.env = 0 /\ c.env = 0
    BY <1>0, <1>6, CurrentExists, ConstantsAreNat DEF Signal, Started, Task, Types, Connection
  <2>2. tasks' = Append(tasks, t) /\ conns' = conns \cup {c}
    BY <1>6, Zenon DEF Signal
  <2> HIDE DEF t, c
  <2>3. TasksNumbered'
    BY <1>0, <1>a, <1>c, <2>0, <2>1, <2>2, StartIs, EnvelopesAreNat
       DEF TasksNumbered, registry
  <2>4. OthersNumbered'
    BY <1>0, <1>a, <2>0, <2>1, <2>2, EnvelopesAreNat DEF OthersNumbered, registry
  <2> QED
    BY <1>c, <2>0, <2>3, <2>4
<1>7. ASSUME NEW s \in spawns, Spawn(s)
      PROVE  ArcsNumbered' /\ TasksNumbered' /\ OthersNumbered'
  <2>0. UNCHANGED <<registry, conns, mirror>> /\ spawns' \subseteq spawns
    BY <1>7, Zenon DEF Spawn, receiver
  <2>1. OthersNumbered'
    BY <1>a, <2>0, Zenon DEF OthersNumbered, registry
  <2>2. CASE current = 0
    BY <1>7, <1>a, <1>c, <2>0, <2>1, <2>2, Zenon DEF Spawn, TasksNumbered, registry
  <2>3. CASE current # 0
    <3> DEFINE t == Started("ticket", s.peer, s.env, "ready")
    <3>1. s.peer \in Peers /\ s.env \in 0 .. MaxPublishes
      BY <1>0, ConstantsAreNat DEF Types, Spawned
    <3>2. t \in Task /\ t.arc = Len(arcs) /\ t.env = s.env
      BY <1>0, <2>3, <3>1, CurrentExists DEF Started, Task, Types
    <3>3. tasks' = Append(tasks, t)
      BY <1>7, <2>3, Zenon DEF Spawn
    <3>4. s.env <= published /\ s.env # 0
      BY <1>0, <1>a, EnvelopesAreNat, Zenon DEF OthersNumbered
    <3> HIDE DEF t
    <3>5. TasksNumbered'
      BY <1>0, <1>a, <1>c, <2>0, <3>2, <3>3, <3>4, StartIs DEF TasksNumbered, registry
    <3> QED
      BY <1>c, <2>0, <2>1, <3>5, Zenon
  <2> QED
    BY <2>2, <2>3, Zenon
<1>8. ASSUME NEW i \in DOMAIN tasks, OnlyTask(i), UNCHANGED registry PROVE TasksNumbered'
  BY <1>8, <1>a, <1>c DEF TasksNumbered, OnlyTask, registry
<1>9. ASSUME NEW i \in DOMAIN tasks, Attempt(i)
      PROVE  ArcsNumbered' /\ TasksNumbered' /\ OthersNumbered'
  <2>0. /\ OnlyTask(i) /\ UNCHANGED <<registry, spawns, mirror>>
        /\ conns' \subseteq conns \cup {Open(i)} /\ Open(i).env = tasks[i].env
    BY <1>0, <1>9, AttemptIs DEF Attempt, receiver, Open, Connection
  <2>1. OthersNumbered'
    BY <1>a, <2>0 DEF OthersNumbered, TasksNumbered, registry
  <2> QED
    BY <1>8, <1>c, <2>0, <2>1
<1>10. ASSUME NEW i \in DOMAIN tasks, Acked(i) \/ AttemptFails(i)
       PROVE  ArcsNumbered' /\ TasksNumbered' /\ OthersNumbered'
  <2>0. OnlyTask(i) /\ UNCHANGED <<registry, spawns, mirror>> /\ conns' \subseteq conns
    BY <1>0, <1>10, AckedIs, FailsIs, Zenon DEF Acked, AttemptFails, receiver
  <2>1. OthersNumbered'
    BY <1>a, <2>0, Zenon DEF OthersNumbered, registry
  <2> QED
    BY <1>8, <1>c, <2>0, <2>1
<1>11. Host => TasksNumbered' /\ ArcsNumbered'
  BY <1>a, <1>c, Zenon DEF Host, TasksNumbered, registry
<1>12. ASSUME NEW c \in conns, NEW ok \in BOOLEAN,
              Accept(c) \/ DropConnection(c) \/ Dispatch(c, ok)
       PROVE  ArcsNumbered' /\ TasksNumbered' /\ OthersNumbered'
  <2>1. Host /\ \A p \in Peers : mirror'[p] \in {mirror[p], c.env}
    BY <1>0, <1>12, Zenon DEF Accept, DropConnection, Dispatch, Stored, receiver, Types
  <2>2. \A d \in conns' : \E e \in conns : d.env = e.env
    BY <1>0, <1>12, HandlerIs, Zenon DEF Descends
  <2>3. OthersNumbered'
    BY <1>a, <2>1, <2>2, Zenon DEF OthersNumbered, Host, registry
  <2> QED
    BY <1>11, <2>1, <2>3, Zenon
<1>13. ASSUME NEW p \in Peers, JoinAndAnnounce(p) \/ DropMirror(p) \/ RestartPeer(p)
       PROVE  ArcsNumbered' /\ TasksNumbered' /\ OthersNumbered'
  <2>1. Host /\ conns' \subseteq conns
    BY <1>13, Zenon DEF JoinAndAnnounce, DropMirror, RestartPeer
  <2>2. \A q \in Peers : mirror'[q] \in {mirror[q], 0, None}
    BY <1>0, <1>13, Zenon DEF JoinAndAnnounce, DropMirror, RestartPeer, receiver, Types
  <2>3. OthersNumbered'
    BY <1>0, <1>a, <2>1, <2>2, EnvelopesAreNat DEF OthersNumbered, Host, registry
  <2> QED
    BY <1>11, <2>1, <2>3, Zenon
<1>14. CASE UNCHANGED vars
  BY <1>a, <1>c, <1>14, Zenon DEF vars, registry, receiver, TasksNumbered, OthersNumbered
<1> QED
  BY <1>1, <1>2, <1>3, <1>4, <1>5, <1>6, <1>7, <1>9, <1>10, <1>12, <1>13, <1>14, Zenon DEF Next

\* LaneIsNewest for one delivery.
Newest(i) ==
  /\ mirror[tasks[i].peer] = None \/ mirror[tasks[i].peer] <= tasks[i].env
  /\ \A c \in conns : c.peer = tasks[i].peer => c.env <= tasks[i].env
  /\ \A k \in 1 .. Len(arcs) - 1 : arcs[k].envelope <= tasks[i].env

(* A delivery that keeps the lane keeps its advantage when what arrives or *)
(* is under way to its peer was under way before, or starts over.          *)
LEMMA NewestStays ==
  ASSUME Types, NEW i \in DOMAIN tasks, Newest(i),
         tasks'[i].peer = tasks[i].peer, tasks'[i].env = tasks[i].env,
         \/ mirror'[tasks[i].peer] \in {mirror[tasks[i].peer], 0, None}
         \/ \E c \in conns : /\ c.peer = tasks[i].peer
                             /\ mirror'[tasks[i].peer] = c.env,
         \A d \in conns' : \/ \E c \in conns : d.peer = c.peer /\ d.env = c.env
                           \/ d.peer = tasks[i].peer => d.env <= tasks[i].env,
         Len(arcs') = Len(arcs), \A k \in 1 .. Len(arcs) - 1 : arcs'[k] = arcs[k]
  PROVE  Newest(i)'
<1>0. tasks[i].env \in Nat /\ tasks[i].peer \in Peers /\ mirror[tasks[i].peer] \in Nat
  BY EnvelopesAreNat, Zenon
<1>1. mirror'[tasks[i].peer] = None \/ mirror'[tasks[i].peer] <= tasks[i].env
  BY <1>0 DEF Newest
<1>2. ASSUME NEW d \in conns', d.peer = tasks[i].peer PROVE d.env <= tasks[i].env
  BY <1>2, Zenon DEF Newest
<1>3. \A k \in 1 .. Len(arcs) - 1 : arcs'[k].envelope <= tasks[i].env
  BY Zenon DEF Newest
<1> QED
  BY <1>1, <1>2, <1>3, Zenon DEF Newest, None

(* Every step keeps the lane's rule.                                       *)
LEMMA LaneStep ==
  ASSUME Shape, Numbered, LaneIsNewest, [Next]_vars
  PROVE  LaneIsNewest'
<1>0. Types /\ Objects /\ OfItsTask /\ tasks \in Seq(Task) /\ arcs \in Seq(Arc)
  BY DEF Shape, Types
<1>a. \A i \in DOMAIN tasks : Holds(i) => Newest(i)
  BY DEF LaneIsNewest, Newest
<1>b. SUFFICES \A i \in DOMAIN tasks' : Holds(i)' => Newest(i)'
  BY Zenon DEF LaneIsNewest, Newest
<1> DEFINE Goal == \A i \in DOMAIN tasks' : Holds(i)' => Newest(i)'
<1>1. ASSUME OnlyCurrent, UNCHANGED <<tasks, conns, mirror>> PROVE Goal
  <2>1. current = Len(arcs) /\ Len(arcs) \in Nat /\ DOMAIN arcs = 1 .. Len(arcs)
    BY <1>0, <1>1, EnvelopesAreNat DEF OnlyCurrent, Objects
  <2>2. Len(arcs') = Len(arcs) /\ \A k \in 1 .. Len(arcs) - 1 : arcs'[k] = arcs[k]
    BY <1>1, <2>1 DEF OnlyCurrent
  <2> SUFFICES ASSUME NEW i \in DOMAIN tasks, Holds(i)' PROVE Newest(i)'
    BY <1>1, Zenon
  <2>3. Holds(i)
    BY <1>1, <2>2, Zenon DEF Holds
  <2> QED
    BY <1>0, <1>1, <1>a, <2>2, <2>3, NewestStays, Zenon
<1>2. CASE Publish
  BY <1>0, <1>1, <1>2, PublishIs, Zenon DEF Publish, receiver
<1>3. ASSUME NEW p \in Peers, EnsureMember(p) \/ RemoveMember(p) PROVE Goal
  BY <1>0, <1>1, <1>3, MembersIs, Zenon DEF EnsureMember, RemoveMember, receiver
<1>4. CASE CloseSession
  BY <1>a, <1>4, Zenon DEF CloseSession, receiver, Holds, Newest
<1>5. CASE HostAgain
  <2>1. tasks' = tasks /\ Len(arcs') = Len(arcs) + 1 /\ Len(arcs) \in Nat
    BY <1>0, <1>5 DEF HostAgain
  <2> QED
    BY <1>0, <2>1 DEF Objects, Holds
<1>6. CASE RestartHost
  BY <1>6 DEF RestartHost
<1>7. ASSUME NEW t \in Task, tasks' = Append(tasks, t), UNCHANGED <<registry, mirror>>,
             t.kind = "signal" \/ t.pc = "ready",
             \A d \in conns' : d \in conns \/ d.env = 0
      PROVE  Goal
  <2>1. /\ DOMAIN tasks' = DOMAIN tasks \cup {Len(tasks) + 1}
        /\ \A j \in DOMAIN tasks : tasks'[j] = tasks[j]
        /\ tasks'[Len(tasks) + 1] = t
    BY <1>0, <1>7, StartIs, Zenon
  <2>2. ASSUME NEW i, i = Len(tasks) + 1, Holds(i)' PROVE FALSE
    <3>1. tasks'[i] = t /\ arcs' = arcs /\ i \notin DOMAIN tasks
      BY <1>0, <1>7, <2>1, <2>2 DEF registry
    <3>2. tasks'[i].kind = "ticket" /\ tasks'[i].pc = "sending"
      BY <2>2, Zenon DEF Holds
    <3> QED
      BY <1>7, <3>1, <3>2, Zenon
  <2>3. ASSUME NEW i \in DOMAIN tasks, Holds(i)' PROVE Newest(i)'
    <3>1. Holds(i)
      BY <1>7, <2>1, <2>3 DEF Holds, registry
    <3>2. tasks[i].env \in Nat
      BY <1>0, EnvelopesAreNat
    <3> QED
      BY <1>0, <1>7, <1>a, <2>1, <3>1, <3>2, NewestStays DEF registry
  <2> QED
    BY <2>1, <2>2, <2>3, Zenon
<1>8. ASSUME NEW p \in Peers, Signal(p) PROVE Goal
  <2> DEFINE t == Started("signal", p, 0, "sending")
             c == Connection(Len(tasks) + 1, t)
  <2>1. t \in Task /\ t.kind = "signal" /\ c.env = 0
    BY <1>0, <1>8, CurrentExists, ConstantsAreNat DEF Signal, Started, Task, Types, Connection
  <2>2. tasks' = Append(tasks, t) /\ conns' = conns \cup {c}
    BY <1>8 DEF Signal
  <2> HIDE DEF t, c
  <2> QED
    BY <1>7, <1>8, <2>1, <2>2 DEF Signal, receiver
<1>9. ASSUME NEW s \in spawns, Spawn(s) PROVE Goal
  <2>1. CASE current = 0
    BY <1>9, <1>a, <2>1, Zenon DEF Spawn, registry, receiver, Holds, Newest
  <2>2. CASE current # 0
    <3> DEFINE t == Started("ticket", s.peer, s.env, "ready")
    <3>1. s.peer \in Peers /\ s.env \in 0 .. MaxPublishes
      BY <1>0, ConstantsAreNat DEF Types, Spawned
    <3>2. t \in Task /\ t.pc = "ready"
      BY <1>0, <2>2, <3>1, CurrentExists DEF Started, Task, Types
    <3>3. tasks' = Append(tasks, t) /\ conns' = conns
      BY <1>9, <2>2 DEF Spawn
    <3> HIDE DEF t
    <3> QED
      BY <1>7, <1>9, <3>2, <3>3, Zenon DEF Spawn, receiver
  <2> QED
    BY <2>1, <2>2, Zenon
<1>10. ASSUME NEW j \in DOMAIN tasks, Attempt(j) PROVE Goal
  <2>0. /\ OnlyTask(j) /\ UNCHANGED <<registry, mirror>> /\ LaneFree(j)
        /\ tasks[j].pc = "ready" /\ UNCHANGED <<arcs, published>>
    BY <1>0, <1>10, AttemptIs, Zenon DEF Attempt, receiver, registry
  <2>1. \/ tasks'[j].pc = "superseded" /\ conns' = conns
        \/ StillCurrent(j) /\ conns' = conns \cup {Open(j)}
    BY <1>0, <1>10, AttemptIs, Zenon
  <2>2. Open(j).peer = tasks[j].peer /\ Open(j).env = tasks[j].env
    BY Zenon DEF Open, Connection
  <2> SUFFICES ASSUME NEW i \in DOMAIN tasks, Holds(i)' PROVE Newest(i)'
    BY <2>0, Zenon DEF OnlyTask
  <2>3. CASE i = j
    <3>1. /\ tasks'[j].pc = "sending" /\ tasks[j].kind = "ticket"
          /\ tasks[j].arc = Len(arcs)
      BY <2>0, <2>3, Zenon DEF Holds, OnlyTask
    <3>2. StillCurrent(j) /\ conns' = conns \cup {Open(j)}
      BY <2>1, <3>1, Zenon
    <3>3. tasks[j].env = published
      BY <3>1, <3>2, Zenon DEF StillCurrent, Numbered, LastEnvelope
    <3>4. tasks'[j].peer = tasks[j].peer /\ tasks'[j].env = published
      BY <2>0, <3>3, Zenon DEF OnlyTask
    <3>5. \A d \in conns' : d.env <= published
      BY <1>0, <2>2, <3>2, <3>3, EnvelopesAreNat, Zenon DEF Numbered
    <3>6. \A k \in 1 .. Len(arcs) - 1 : arcs[k].envelope <= published
      <4>1. Len(arcs) \in Nat /\ DOMAIN arcs = 1 .. Len(arcs)
        BY <1>0, EnvelopesAreNat, Zenon
      <4>2. 1 .. Len(arcs) - 1 \subseteq DOMAIN arcs
        BY ONLY <4>1
      <4> QED
        BY <1>0, <4>2, Zenon DEF Numbered
    <3>7. mirror[tasks[j].peer] = None \/ mirror[tasks[j].peer] <= published
      BY <1>0, EnvelopesAreNat, Zenon DEF Numbered
    <3> QED
      BY <2>0, <2>3, <3>4, <3>5, <3>6, <3>7, Zenon DEF Newest, None
  <2>4. CASE i # j
    <3>1. Holds(i) /\ Newest(i) /\ tasks'[i] = tasks[i]
      BY <1>a, <2>0, <2>4, Zenon DEF Holds, OnlyTask
    <3>2. ASSUME tasks[j].peer = tasks[i].peer, StillCurrent(j)
          PROVE  tasks[j].env <= tasks[i].env
      <4>1. tasks[j].arc # Len(arcs)
        BY <2>0, <3>1, <3>2, Zenon DEF LaneFree, Holds
      <4>2. tasks[j].arc \in 1 .. Len(arcs) /\ Len(arcs) \in Nat
        BY <1>0, EnvelopesAreNat, Zenon DEF Objects
      <4>3. tasks[j].arc \in 1 .. Len(arcs) - 1
        BY <4>1, <4>2
      <4> QED
        BY <3>1, <3>2, <4>3, Zenon DEF Newest, StillCurrent
    <3> QED
      BY <1>0, <2>0, <2>1, <2>2, <3>1, <3>2, NewestStays, Zenon
  <2> QED
    BY <2>3, <2>4, Zenon
<1>11. ASSUME NEW j \in DOMAIN tasks, Acked(j) \/ AttemptFails(j) PROVE Goal
  <2>0. /\ OnlyTask(j) /\ UNCHANGED <<arcs, mirror>> /\ conns' \subseteq conns
        /\ tasks'[j].pc # "sending"
    BY <1>0, <1>11, AckedIs, FailsIs, Zenon DEF Acked, AttemptFails, receiver, registry
  <2> SUFFICES ASSUME NEW i \in DOMAIN tasks, Holds(i)' PROVE Newest(i)'
    BY <2>0, Zenon DEF OnlyTask
  <2>1. i # j
    BY <2>0, Zenon DEF Holds
  <2>2. Holds(i) /\ tasks'[i] = tasks[i]
    BY <2>0, <2>1, Zenon DEF Holds, OnlyTask
  <2> QED
    BY <1>0, <1>a, <2>0, <2>2, NewestStays, Zenon
<1>12. ASSUME NEW c \in conns, NEW ok \in BOOLEAN,
              Accept(c) \/ DropConnection(c) \/ Dispatch(c, ok)
       PROVE  Goal
  <2>1. /\ UNCHANGED <<arcs, tasks>>
        /\ \A p \in Peers : \/ mirror'[p] = mirror[p]
                            \/ c.peer = p /\ mirror'[p] = c.env
    BY <1>0, <1>12, Zenon DEF Accept, DropConnection, Dispatch, Stored, receiver, Types, Host,
                       registry
  <2>2. \A d \in conns' : \E e \in conns : d.peer = e.peer /\ d.env = e.env
    BY <1>0, <1>12, HandlerIs, Zenon DEF Descends
  <2> SUFFICES ASSUME NEW i \in DOMAIN tasks, Holds(i)' PROVE Newest(i)'
    BY <2>1, Zenon
  <2>3. Holds(i) /\ tasks[i].peer \in Peers
    BY <1>0, <2>1, EnvelopesAreNat, Zenon DEF Holds
  <2> QED
    BY <1>0, <1>a, <2>1, <2>2, <2>3, NewestStays, Zenon
<1>13. ASSUME NEW p \in Peers, JoinAndAnnounce(p) \/ DropMirror(p) \/ RestartPeer(p)
       PROVE  Goal
  <2>1. /\ UNCHANGED <<arcs, tasks>> /\ conns' \subseteq conns
        /\ \A q \in Peers : mirror'[q] \in {mirror[q], 0, None}
    BY <1>0, <1>13, Zenon DEF JoinAndAnnounce, DropMirror, RestartPeer, receiver, Types, Host,
                       registry
  <2> SUFFICES ASSUME NEW i \in DOMAIN tasks, Holds(i)' PROVE Newest(i)'
    BY <2>1, Zenon
  <2>2. Holds(i) /\ tasks[i].peer \in Peers
    BY <1>0, <2>1, EnvelopesAreNat, Zenon DEF Holds
  <2> QED
    BY <1>0, <1>a, <2>1, <2>2, NewestStays, Zenon
<1>14. CASE UNCHANGED vars
  BY <1>a, <1>14 DEF vars, registry, receiver, Holds, Newest
<1> QED
  BY <1>2, <1>3, <1>4, <1>5, <1>6, <1>8, <1>9, <1>10, <1>11, <1>12, <1>13, <1>14, Zenon DEF Next
-----------------------------------------------------------------------------
(* Nobody is forgotten                                                     *)

\* Task i delivers the envelope e to p and was not superseded.
Delivers(i, p, e) ==
  /\ tasks[i].kind = "ticket" /\ tasks[i].peer = p
  /\ tasks[i].env = e /\ tasks[i].pc # "superseded"

\* What NobodyForgotten says of one member and one envelope.
Remembered(p, e) ==
  e = 0 \/ [peer |-> p, env |-> e] \in spawns \/ \E i \in DOMAIN tasks : Delivers(i, p, e)

(* NobodyForgotten, member by member.                                      *)
LEMMA ForgottenIs ==
  NobodyForgotten <=> (current # 0 /\ ~arcs[current].loaded =>
                         \A p \in arcs[current].members :
                           Remembered(p, arcs[current].envelope))
BY DEF NobodyForgotten, Remembered, Delivers

(* A member stays remembered while spawns and tasks are only added.        *)
LEMMA RememberedStays ==
  ASSUME NEW p, NEW e, Remembered(p, e), spawns \subseteq spawns',
         DOMAIN tasks \subseteq DOMAIN tasks',
         \A i \in DOMAIN tasks :
           /\ tasks'[i].kind = tasks[i].kind /\ tasks'[i].peer = tasks[i].peer
           /\ tasks'[i].env = tasks[i].env
           /\ tasks'[i].pc = "superseded" => tasks[i].pc = "superseded"
  PROVE  \/ e = 0 \/ [peer |-> p, env |-> e] \in spawns'
         \/ \E i \in DOMAIN tasks' :
              /\ tasks'[i].kind = "ticket" /\ tasks'[i].peer = p
              /\ tasks'[i].env = e /\ tasks'[i].pc # "superseded"
BY DEF Remembered, Delivers

(* Every step keeps NobodyForgotten.  A delivery of the current envelope   *)
(* is superseded only when its peer is no member any more.                 *)
LEMMA ForgottenStep ==
  ASSUME Shape, Numbered, NobodyForgotten, [Next]_vars
  PROVE  NobodyForgotten'
<1>0. Types /\ Objects /\ OfItsTask /\ tasks \in Seq(Task) /\ arcs \in Seq(Arc)
  BY DEF Shape, Types
<1>b. SUFFICES ASSUME current' # 0, ~arcs'[current'].loaded,
                      NEW p \in arcs'[current'].members, arcs'[current'].envelope # 0,
                      [peer |-> p, env |-> arcs'[current'].envelope] \notin spawns'
               PROVE  \E i \in DOMAIN tasks' :
                        /\ tasks'[i].kind = "ticket" /\ tasks'[i].peer = p
                        /\ tasks'[i].env = arcs'[current'].envelope
                        /\ tasks'[i].pc # "superseded"
  BY Zenon DEF NobodyForgotten
<1> DEFINE e == arcs'[current'].envelope
           Goal == \E i \in DOMAIN tasks' :
                     /\ tasks'[i].kind = "ticket" /\ tasks'[i].peer = p
                     /\ tasks'[i].env = e /\ tasks'[i].pc # "superseded"
<1>c. ASSUME current' = current, UNCHANGED arcs
      PROVE  Remembered(p, e) /\ p \in arcs[current].members /\ e = arcs[current].envelope
  BY <1>b, <1>c, ForgottenIs
<1>1. CASE Publish
  <2>1. current' = current /\ arcs'[current].members = arcs[current].members
        /\ e = published + 1
    BY <1>0, <1>1, PublishIs DEF OnlyCurrent
  <2>2. [peer |-> p, env |-> published + 1] \in spawns'
    BY <1>0, <1>1, <2>1, PublishIs
  <2> QED
    BY <1>b, <2>1, <2>2
<1>2. ASSUME NEW q \in Peers, EnsureMember(q) \/ RemoveMember(q) PROVE Goal
  <2>1. /\ current' = current /\ e = arcs[current].envelope /\ tasks' = tasks
        /\ ~arcs[current].loaded /\ current # 0
    BY <1>0, <1>2, <1>b, MembersIs, Zenon DEF OnlyCurrent, EnsureMember, RemoveMember
  <2>2. spawns \subseteq spawns'
    BY <1>2 DEF EnsureMember, RemoveMember
  <2>3. CASE p \in arcs[current].members
    BY <1>b, <2>1, <2>2, <2>3, ForgottenIs, RememberedStays
  <2>4. CASE p \notin arcs[current].members
    <3>1. EnsureMember(q) /\ p = q
      BY <1>0, <1>2, <1>b, <2>1, <2>4, MembersIs
    <3>2. [peer |-> p, env |-> e] \in spawns'
      BY <1>b, <2>1, <3>1 DEF EnsureMember, Owed
    <3> QED
      BY <1>b, <3>2
  <2> QED
    BY <2>3, <2>4
<1>3. CASE CloseSession
  BY <1>b, <1>3 DEF CloseSession
<1>4. CASE HostAgain
  <2>1. arcs'[current'] = NewArc
    BY <1>0, <1>4 DEF HostAgain
  <2> QED
    BY <1>b, <2>1 DEF NewArc
<1>5. CASE RestartHost
  <2>1. arcs[current] \in Arc
    BY <1>0, <1>5, CurrentExists DEF RestartHost
  <2>2. arcs'[current'] = [arcs[current] EXCEPT !.loaded = TRUE]
    BY <1>5 DEF RestartHost
  <2>3. arcs'[current'].loaded
    BY <2>1, <2>2 DEF Arc
  <2> QED
    BY <1>b, <2>3
<1>6. ASSUME NEW q \in Peers, Signal(q) PROVE Goal
  <2> DEFINE t == Started("signal", q, 0, "sending")
  <2>1. t \in Task
    BY <1>0, <1>6, CurrentExists, ConstantsAreNat DEF Signal, Started, Task, Types
  <2>2. tasks' = Append(tasks, t) /\ spawns' = spawns /\ current' = current /\ arcs' = arcs
    BY <1>6 DEF Signal, registry
  <2> HIDE DEF t
  <2>3. /\ DOMAIN tasks \subseteq DOMAIN tasks'
        /\ \A j \in DOMAIN tasks : tasks'[j] = tasks[j]
    BY <1>0, <2>1, <2>2, StartIs
  <2> QED
    BY <1>b, <1>c, <2>2, <2>3, RememberedStays
<1>7. ASSUME NEW s \in spawns, Spawn(s) PROVE Goal
  <2> DEFINE t == Started("ticket", s.peer, s.env, "ready")
  <2>0. UNCHANGED <<arcs, current>> /\ current # 0 /\ spawns' = spawns \ {s}
        /\ tasks' = Append(tasks, t)
    BY <1>7, <1>b DEF Spawn, registry
  <2>1. s \in Spawned /\ s.peer \in Peers /\ s.env \in 0 .. MaxPublishes
    BY <1>0, ConstantsAreNat DEF Types, Spawned
  <2>2. /\ t \in Task /\ t.kind = "ticket" /\ t.peer = s.peer /\ t.env = s.env
        /\ t.pc # "superseded"
    BY <1>0, <2>0, <2>1, CurrentExists DEF Started, Task, Types
  <2> HIDE DEF t
  <2>3. /\ DOMAIN tasks' = DOMAIN tasks \cup {Len(tasks) + 1}
        /\ \A j \in DOMAIN tasks : tasks'[j] = tasks[j]
        /\ tasks'[Len(tasks) + 1] = t
    BY <1>0, <2>0, <2>2, StartIs
  <2>4. CASE s = [peer |-> p, env |-> e]
    BY <2>2, <2>3, <2>4
  <2>5. CASE s # [peer |-> p, env |-> e]
    <3>1. [peer |-> p, env |-> e] \notin spawns
      BY <1>b, <2>0, <2>5
    <3>2. PICK i \in DOMAIN tasks : Delivers(i, p, e)
      BY <1>b, <1>c, <2>0, <3>1 DEF Remembered
    <3> QED
      BY <2>3, <3>2 DEF Delivers
  <2> QED
    BY <2>4, <2>5
<1>8. ASSUME NEW j \in DOMAIN tasks, Attempt(j) PROVE Goal
  <2>0. /\ OnlyTask(j) /\ UNCHANGED <<arcs, current, spawns>>
        /\ tasks[j].pc = "ready"
        /\ tasks'[j].pc = "superseded" => ~StillCurrent(j)
    BY <1>0, <1>8, AttemptIs DEF Attempt, registry
  <2>1. PICK i \in DOMAIN tasks : Delivers(i, p, e)
    BY <1>b, <1>c, <2>0 DEF Remembered
  <2>2. CASE i # j
    BY <2>0, <2>1, <2>2 DEF OnlyTask, Delivers
  <2>3. CASE i = j
    <3>1. current = Len(arcs) /\ e = LastEnvelope
      BY <1>0, <1>b, <2>0, CurrentExists DEF LastEnvelope
    <3>2. tasks[j].arc = current
      BY <2>1, <2>3, <3>1 DEF Numbered, Delivers
    <3>3. StillCurrent(j)
      BY <1>c, <2>0, <2>1, <2>3, <3>2 DEF StillCurrent, Delivers
    <3> QED
      BY <2>0, <2>1, <2>3, <3>3 DEF OnlyTask, Delivers
  <2> QED
    BY <2>2, <2>3
<1>9. ASSUME NEW j \in DOMAIN tasks, Acked(j) \/ AttemptFails(j) PROVE Goal
  <2>0. /\ OnlyTask(j) /\ UNCHANGED <<arcs, current, spawns>>
        /\ tasks'[j].pc # "superseded"
    BY <1>0, <1>9, AckedIs, FailsIs, Zenon DEF Acked, AttemptFails, registry
  <2>1. PICK i \in DOMAIN tasks : Delivers(i, p, e)
    BY <1>b, <1>c, <2>0 DEF Remembered
  <2> QED
    BY <2>0, <2>1 DEF OnlyTask, Delivers
<1>10. ASSUME UNCHANGED <<registry, spawns, tasks>> PROVE Goal
  BY <1>b, <1>c, <1>10, RememberedStays DEF registry
<1>11. ASSUME NEW q \in Peers, JoinAndAnnounce(q) \/ DropMirror(q) \/ RestartPeer(q)
       PROVE  Goal
  BY <1>10, <1>11 DEF JoinAndAnnounce, DropMirror, RestartPeer, Host
<1>12. ASSUME NEW c \in conns, NEW ok \in BOOLEAN,
              Accept(c) \/ DropConnection(c) \/ Dispatch(c, ok)
       PROVE  Goal
  BY <1>10, <1>12 DEF Accept, DropConnection, Dispatch, Host
<1>13. CASE UNCHANGED vars
  BY <1>10, <1>13 DEF vars
<1> QED
  BY <1>1, <1>2, <1>3, <1>4, <1>5, <1>6, <1>7, <1>8, <1>9, <1>11, <1>12, <1>13, Zenon DEF Next

(* Every step keeps DeliveredIsEmitted: an ACK of a signal is read from a  *)
(* connection whose handler emitted it.                                    *)
LEMMA EmittedStep ==
  ASSUME Shape, DeliveredIsEmitted, [Next]_vars
  PROVE  DeliveredIsEmitted'
<1>0. Types /\ Objects /\ OfItsTask /\ tasks \in Seq(Task)
  BY DEF Shape, Types
<1>1. ASSUME NEW t \in Task, tasks' = Append(tasks, t), t.pc # "delivered",
             emitted' = emitted
      PROVE  DeliveredIsEmitted'
  BY <1>0, <1>1, StartIs DEF DeliveredIsEmitted
<1>2. ASSUME NEW p \in Peers, Signal(p) PROVE DeliveredIsEmitted'
  <2> DEFINE t == Started("signal", p, 0, "sending")
  <2>1. t \in Task /\ t.pc # "delivered"
    BY <1>0, <1>2, CurrentExists, ConstantsAreNat DEF Signal, Started, Task, Types
  <2>2. tasks' = Append(tasks, t) /\ emitted' = emitted
    BY <1>2 DEF Signal, receiver
  <2> HIDE DEF t
  <2> QED
    BY <1>1, <2>1, <2>2
<1>3. ASSUME NEW s \in spawns, Spawn(s) PROVE DeliveredIsEmitted'
  <2>1. CASE current = 0
    BY <1>3, <2>1 DEF Spawn, receiver, DeliveredIsEmitted
  <2>2. CASE current # 0
    <3> DEFINE t == Started("ticket", s.peer, s.env, "ready")
    <3>1. s.peer \in Peers /\ s.env \in 0 .. MaxPublishes
      BY <1>0, ConstantsAreNat DEF Types, Spawned
    <3>2. t \in Task /\ t.pc # "delivered"
      BY <1>0, <2>2, <3>1, CurrentExists DEF Started, Task, Types
    <3>3. tasks' = Append(tasks, t) /\ emitted' = emitted
      BY <1>3, <2>2 DEF Spawn, receiver
    <3> HIDE DEF t
    <3> QED
      BY <1>1, <3>2, <3>3
  <2> QED
    BY <2>1, <2>2
<1>4. ASSUME NEW j \in DOMAIN tasks, Attempt(j) \/ AttemptFails(j)
      PROVE  DeliveredIsEmitted'
  <2>1. OnlyTask(j) /\ tasks'[j].pc # "delivered" /\ emitted' = emitted
    BY <1>0, <1>4, AttemptIs, FailsIs, Zenon DEF Attempt, AttemptFails, receiver
  <2> QED
    BY <2>1 DEF OnlyTask, DeliveredIsEmitted
<1>5. ASSUME NEW j \in DOMAIN tasks, Acked(j) PROVE DeliveredIsEmitted'
  <2> DEFINE c == [Open(j) EXCEPT !.pc = "acked"]
  <2>1. c \in conns /\ emitted' = emitted /\ OnlyTask(j)
    BY <1>0, <1>5, AckedIs DEF Acked, receiver
  <2>2. c.task = j /\ c.kind = tasks[j].kind /\ c.pc = "acked"
    BY DEF Open, Connection
  <2> HIDE DEF c
  <2>3. tasks[j].kind = "signal" => j \in emitted
    BY <1>0, <2>1, <2>2 DEF OfItsTask
  <2> QED
    BY <2>1, <2>3 DEF OnlyTask, DeliveredIsEmitted
<1>6. ASSUME NEW c \in conns, NEW ok \in BOOLEAN,
             Accept(c) \/ DropConnection(c) \/ Dispatch(c, ok)
      PROVE  DeliveredIsEmitted'
  <2>1. tasks' = tasks /\ emitted \subseteq emitted'
    BY <1>0, <1>6, HandlerIs DEF Descends, Accept, DropConnection, Dispatch, Host
  <2> QED
    BY <2>1 DEF DeliveredIsEmitted
<1>7. CASE RestartHost
  BY <1>7 DEF RestartHost, DeliveredIsEmitted
<1>8. ASSUME UNCHANGED <<tasks, emitted>> PROVE DeliveredIsEmitted'
  BY <1>8 DEF DeliveredIsEmitted
<1>9. CASE Publish \/ CloseSession \/ HostAgain
  BY <1>8, <1>9 DEF Publish, CloseSession, HostAgain, receiver
<1>10. ASSUME NEW p \in Peers, \/ EnsureMember(p) \/ RemoveMember(p)
                               \/ JoinAndAnnounce(p) \/ DropMirror(p) \/ RestartPeer(p)
       PROVE  DeliveredIsEmitted'
  BY <1>8, <1>10 DEF EnsureMember, RemoveMember, JoinAndAnnounce, DropMirror, RestartPeer,
                     Host, receiver
<1>11. CASE UNCHANGED vars
  BY <1>8, <1>11 DEF vars, receiver
<1> QED
  BY <1>2, <1>3, <1>4, <1>5, <1>6, <1>7, <1>9, <1>10, <1>11, Zenon DEF Next
-----------------------------------------------------------------------------
(* The theorems                                                            *)

\* What every reachable state satisfies.
Inv == Shape /\ Numbered /\ LaneIsNewest /\ NobodyForgotten /\ DeliveredIsEmitted

(* The invariant holds when the session is first hosted.                   *)
LEMMA InitInv ==
  ASSUME Init PROVE Inv
<1>1. NewArc \in Arc /\ NewArc.envelope = 0 /\ NewArc.members = {}
  BY ConstantsAreNat DEF NewArc, Arc
<1>2. arcs \in Seq(Arc) /\ Len(arcs) = 1 /\ arcs[1] = NewArc /\ DOMAIN arcs = {1}
  BY <1>1 DEF Init
<1>3. tasks = <<>> /\ DOMAIN tasks = {} /\ tasks \in Seq(Task)
  BY DEF Init
<1>4. mirror = [p \in Peers |-> None] /\ None \in 0 .. None
  BY ConstantsAreNat DEF Init
<1>5. Types /\ Objects
  BY <1>2, <1>3, <1>4, ConstantsAreNat DEF Init, Types, Objects
<1>6. WithinLimit /\ OfItsTask /\ LaneIsNewest /\ DeliveredIsEmitted
  BY <1>3 DEF Init, WithinLimit, OfItsTask, LaneIsNewest, DeliveredIsEmitted
<1>7. Numbered
  BY <1>1, <1>2, <1>3, <1>4 DEF Init, Numbered, LastEnvelope
<1>8. NobodyForgotten
  BY <1>1, <1>2 DEF Init, NobodyForgotten
<1> QED
  BY <1>5, <1>6, <1>7, <1>8 DEF Inv, Shape

(* Every reachable state satisfies the invariant.                          *)
LEMMA InvHolds == Spec => []Inv
<1>1. Init => Inv
  BY InitInv
<1>2. Inv /\ [Next]_vars => Inv'
  BY ShapeStep, NumberedStep, LaneStep, ForgottenStep, EmittedStep DEF Inv
<1> QED
  BY <1>1, <1>2, PTL DEF Spec

(* The shapes imply the type invariant that the runs check.                *)
LEMMA ShapeIsTyped ==
  ASSUME Shape PROVE TypeOK
<1>1. \A i \in DOMAIN tasks : tasks[i] \in Task
  BY DEF Shape, Types
<1>2. \A i \in DOMAIN tasks : Limit(i) \in Nat /\ Limit(i) >= 1
  BY ConstantsAreNat DEF Limit
<1>3. ASSUME NEW i \in DOMAIN tasks
      PROVE  /\ tasks[i].kind \in {"ticket", "signal"} /\ tasks[i].arc \in 1 .. Len(arcs)
             /\ tasks[i].peer \in Peers /\ tasks[i].env \in 0 .. MaxPublishes
             /\ tasks[i].pc \in {"ready", "sending"} \cup Ended
             /\ tasks[i].tries \in 0 .. Limit(i) - 1
  <2>1. tasks[i] \in Task /\ tasks[i].tries <= Limit(i) - 1 /\ tasks[i].arc \in 1 .. Len(arcs)
    BY <1>1 DEF Shape, WithinLimit, Objects
  <2>2. tasks[i].tries \in Nat
    BY <2>1 DEF Task
  <2>3. tasks[i].tries \in 0 .. Limit(i) - 1
    BY <1>2, <2>1, <2>2
  <2> QED
    BY <2>1, <2>3 DEF Task
<1>4. current \in 0 .. Len(arcs)
  BY DEF Shape, Types, Objects
<1>5. \A c \in conns : c.task \in 0 .. Len(tasks) /\ c.pc \in {"open", "read", "acked"}
  <2> SUFFICES ASSUME NEW c \in conns
               PROVE  c.task \in 0 .. Len(tasks) /\ c.pc \in {"open", "read", "acked"}
    OBVIOUS
  <2>1. c \in Conn /\ tasks \in Seq(Task) /\ (c.task = 0 \/ c.task \in DOMAIN tasks)
    BY DEF Shape, Types, OfItsTask
  <2> QED
    BY <2>1 DEF Conn
<1> QED
  BY <1>3, <1>4, <1>5 DEF TypeOK, Shape, Types, Arc, Spawned

(* publish_workspace_ticket and ensure_member, on either side of the race, *)
(* leave no member of a session without a delivery of its current          *)
(* envelope, and deliver_frame reports no signal that was not emitted: for *)
(* any number of peers, publishes, tasks and resets.                       *)
THEOREM NothingForgotten == Spec => []NothingIsForgotten
<1>1. Inv => NothingIsForgotten
  BY ShapeIsTyped DEF Inv, NothingIsForgotten
<1> QED
  BY <1>1, InvHolds, PTL

(* The lane that run_delivery_with_retry holds across its check and its    *)
(* send keeps an older envelope from replacing a newer one in a mirror; a  *)
(* handler whose sender gave it up, or whose session is gone, is the only  *)
(* exception.                                                              *)
THEOREM StaleTicketsLose == Spec => NoStaleTicket
<1> DEFINE Older(p) == mirror'[p] < mirror[p] /\ mirror[p] # None /\ mirror'[p] # 0
           Abandoned(p) == \E c \in conns :
                             /\ c.pc = "read" /\ c.peer = p /\ c.env = mirror'[p]
                             /\ ~(Waiting(c) /\ tasks[c.task].arc = current)
<1>1. ASSUME Inv, [Next]_vars, NEW p \in Peers, Older(p) PROVE Abandoned(p)
  <2>0. /\ Types /\ Objects /\ OfItsTask /\ mirror[p] \in Nat /\ None \in Nat
        /\ mirror \in [Peers -> 0 .. None] /\ mirror[p] < None
    BY <1>1, ConstantsAreNat DEF Inv, Shape, Types
  <2>1. mirror'[p] # mirror[p] /\ mirror'[p] # None /\ mirror'[p] # 0
    BY <1>1, <2>0
  <2>2. CASE \E c \in conns, ok \in BOOLEAN : Dispatch(c, ok)
    <3>1. PICK c \in conns, ok \in BOOLEAN : Dispatch(c, ok)
      BY <2>2
    <3>2. c.pc = "read" /\ c.kind = "ticket" /\ c.peer = p /\ mirror'[p] = c.env
      BY <2>0, <2>1, <3>1 DEF Dispatch, Stored
    <3>3. ASSUME Waiting(c), tasks[c.task].arc = current PROVE FALSE
      <4>1. /\ c.task \in DOMAIN tasks /\ tasks[c.task].kind = "ticket"
            /\ tasks[c.task].peer = p /\ tasks[c.task].env = c.env
        BY <2>0, <3>2, <3>3 DEF OfItsTask, Waiting
      <4>2. current = Len(arcs)
        <5>1. tasks[c.task].arc \in 1 .. Len(arcs) /\ Len(arcs) \in Nat
          BY <2>0, <4>1, EnvelopesAreNat, Zenon DEF Objects
        <5>2. current # 0
          BY <3>3, <5>1
        <5> QED
          BY <2>0, <5>2 DEF Objects
      <4>3. Holds(c.task)
        BY <3>3, <4>1, <4>2 DEF Holds, Waiting
      <4>4. mirror[p] <= c.env /\ c.env \in Nat
        BY <1>1, <2>0, <4>1, <4>3, EnvelopesAreNat DEF Inv, LaneIsNewest
      <4> QED
        BY <1>1, <2>0, <3>2, <4>4
    <3> QED
      BY <3>2, <3>3
  <2>3. CASE UNCHANGED mirror
    BY <2>1, <2>3
  <2>4. ASSUME NEW q \in Peers, JoinAndAnnounce(q) \/ DropMirror(q) \/ RestartPeer(q)
        PROVE  FALSE
    BY <2>0, <2>1, <2>4 DEF JoinAndAnnounce, DropMirror, RestartPeer, receiver
  <2>5. CASE \/ Publish \/ CloseSession \/ HostAgain \/ RestartHost
             \/ \E q \in Peers : EnsureMember(q) \/ RemoveMember(q) \/ Signal(q)
             \/ \E s \in spawns : Spawn(s)
             \/ \E i \in DOMAIN tasks : Attempt(i) \/ Acked(i) \/ AttemptFails(i)
             \/ \E c \in conns : Accept(c) \/ DropConnection(c)
             \/ UNCHANGED vars
    <3>1. UNCHANGED mirror
      BY <2>5, Zenon DEF Publish, CloseSession, HostAgain, RestartHost, EnsureMember, RemoveMember,
                  Signal, Spawn, Attempt, Acked, AttemptFails, Accept, DropConnection,
                  receiver, vars
    <3> QED
      BY <2>3, <3>1
  <2> QED
    BY <1>1, <2>2, <2>4, <2>5 DEF Next
<1>2. Inv /\ [Next]_vars => [\A p \in Peers : Older(p) => Abandoned(p)]_vars
  BY <1>1
<1> QED
  BY <1>2, InvHolds, PTL DEF Spec, NoStaleTicket
=============================================================================
