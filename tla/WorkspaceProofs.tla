-------------------------- MODULE WorkspaceProofs --------------------------
(***************************************************************************)
(* Proofs about Workspace, for any number of attempts on the directory,    *)
(* any callers of shutdown and any number of faults, connections and       *)
(* rotation signals: a failed constructor has undone what it made, the     *)
(* clean-up of one attempt does not reach another's session, and neither   *)
(* shutdown nor Drop calls an open endpoint closed.                        *)
(*                                                                         *)
(* Every action replaces one ws[a].  The inductive invariant is therefore  *)
(* a predicate of one handle (Local: what the node, the listener, the      *)
(* guard and the shutdown calls are follows from where the constructor     *)
(* stands), which each action must keep, and five statements about all of  *)
(* them: at most one attempt has the stores open (Exclusive), an attempt   *)
(* the daemon knows of has a clean-up armed or is excused (Armed), a       *)
(* joiner's session is not its own (Member), an established host that no   *)
(* late request met is listed (Listing), and a late request is one its     *)
(* role can make, of an attempt no clean-up is owed for (Late).            *)
(* Exclusive is what keeps attempts apart: whoever speaks to the daemon    *)
(* about the session and waits for the answer has the stores.              *)
(***************************************************************************)
EXTENDS Workspace, TLAPS

Guard == [listener : BOOLEAN, leave : BOOLEAN, forget : BOOLEAN, node : BOOLEAN]

Con == {"idle", "up", "failed", "cancelled"} \cup Building

Handle ==
  [con : Con, rb : Guard,
   node : {"none", "bound", "stores", "open", "draining", "closed", "failed", "dropped", "expired"},
   gate : {"none", "initializing", "replaying", "ready", "closed"},
   listener : {"none", "live", "aborting", "over"}, hooks : Nat,
   reaper : BOOLEAN, excused : BOOLEAN, slot : BOOLEAN,
   lock : {"free", "rotation"} \cup Callers, token : BOOLEAN, docToken : BOOLEAN,
   docTasks : 0 .. 1, oldTasks : Nat,
   rot : {"off", "idle", "wait", "lock", "snapshot", "import", "respawn", "over"},
   handle : BOOLEAN, did : BOOLEAN, bomb : {"armed", "fired", "silent"},
   call : [Callers -> {"idle", "lock", "drain", "ok", "err", "cancelled"}]]

\* The steps at which the guard holds an open node.
Opened == {"open", "register", "attach", "scan", "upgrade", "listen", "replay", "publish",
           "import", "sync", "export", "announce"}

\* How far the node is follows from where the constructor stands.
NodeOf(w) ==
  /\ w.con \in {"idle", "subscribe", "ticket", "bind"} => w.node = "none" /\ ~w.rb.node
  /\ w.con = "stores" => w.node = "bound" /\ ~w.rb.node
  /\ w.con = "relay" => w.node = "stores" /\ ~w.rb.node
  /\ w.con \in Opened => w.node = "open" /\ w.rb.node
  /\ w.con \in {"leave", "forget", "close"} => IF w.rb.node THEN w.node = "open" ELSE ~HoldsStores(w)
  /\ w.con = "drain" => w.node = "draining"
  /\ w.con = "failed" => ~HoldsStores(w)
  /\ w.slot => w.con = "up" /\ w.node = "open"
  /\ w.rb.leave \/ w.rb.forget => w.rb.node
  /\ w.reaper => w.con = "cancelled"

\* A running listener belongs to the step that awaits it, to the guard or to the handle.
ListenerOf(w) ==
  w.listener = "live" => w.con \in {"replay", "up"} \/ (w.con \in Steps /\ w.rb.listener)

\* A host arms LeaveSession before it is listed, a joiner ForgetAttachment with it.
RoleOf(r, w) ==
  /\ r = "host" => /\ w.con \notin {"subscribe", "ticket", "import", "sync", "export", "announce"}
                   /\ ~w.rb.forget
                   /\ w.con \in {"attach", "scan", "upgrade", "listen", "replay", "publish"} => w.rb.leave
  /\ r = "joiner" => /\ w.con \notin {"open", "register", "scan", "upgrade", "publish"}
                     /\ ~w.rb.leave

\* The slot, the lock, the shutdown calls and the drop bomb.
LifeOf(w) ==
  /\ w.con = "idle" => w = Fresh
  /\ w.con # "up" => /\ \A c \in Callers : w.call[c] = "idle"
                     /\ w.lock = "free" /\ w.rot = "off" /\ ~w.did /\ w.bomb = "armed" /\ ~w.handle
  /\ ~w.handle => \A c \in Callers : Returned(w, c)
  /\ w.slot => \A c \in Callers : w.call[c] \in {"idle", "lock", "cancelled"}
  /\ \A c \in Callers : w.call[c] = "drain" => w.lock = c /\ w.node = "draining"
  /\ w.rot = "snapshot" => w.lock = "rotation"
  /\ w.con = "up" /\ ~w.slot /\ w.bomb = "armed" =>
       w.node = "closed" \/ \E c \in Callers : w.call[c] \in {"drain", "err", "cancelled"}
  /\ \A c \in Callers : w.call[c] = "ok" =>
       w.node = "closed" \/ \E d \in Callers : w.call[d] \in {"err", "cancelled"}
  /\ w.bomb # "armed" => ~w.handle /\ ~w.slot
  /\ w.did => ~w.slot /\ w.node = "closed"
  /\ w.bomb = "silent" => w.did

Local(r, w) == NodeOf(w) /\ ListenerOf(w) /\ RoleOf(r, w) /\ LifeOf(w)

\* A clean-up is still to come for what the attempt made in the daemon, or nobody owes one.
Arms(r, w) ==
  \/ w.excused
  \/ w.con \in {"up", "cancelled"}
  \/ r = "host" /\ w.rb.leave /\ w.con \in Steps \cup {"leave"}
  \/ r = "joiner" /\ w.rb.forget /\ w.con \in Steps \cup {"leave", "forget"}

\* A host between its attachment and the end of its shutdown.
Established(r, w) ==
  /\ r = "host"
  /\ \/ w.con \in {"scan", "upgrade", "listen", "replay", "publish"}
     \/ w.con = "up" /\ w.slot

\* An attempt for which nobody owes the daemon a clean-up.
Unowed(w) == w.excused \/ w.con \in {"up", "cancelled"}

\* The requests a constructor of either role makes.
Owed(r, op) == (r = "joiner" => op \notin {"host", "leave"}) /\ (r = "host" => op # "forget")

DaemonRec == [session : Owners, listed : Owners, left : BOOLEAN,
              late : SUBSET Requests, crossed : SUBSET Attempts]

Typed ==
  /\ role \in {"host", "joiner"} /\ ws \in [Attempts -> Handle]
  /\ daemon \in DaemonRec
  /\ dir \in [docId : BOOLEAN, files : BOOLEAN] /\ budget \in ScenarioType

Locals == \A a \in Attempts : Local(role, ws[a])

Exclusive == \A a, b \in Attempts : HoldsStores(ws[a]) /\ HoldsStores(ws[b]) => a = b

Armed == \A a \in Attempts : a \in {daemon.session, daemon.listed} => Arms(role, ws[a])

Member ==
  role = "joiner" => /\ daemon.session \in {Earlier, Nobody}
                     /\ ~daemon.left => daemon.session # Nobody

Listing ==
  \A a \in Attempts : Established(role, ws[a]) /\ ~daemon.left /\ a \notin daemon.crossed =>
    daemon.session # Nobody /\ daemon.listed = a

Late == \A q \in daemon.late : Unowed(ws[q.by]) /\ Owed(role, q.op)

Inv == Typed /\ Locals /\ Exclusive /\ Armed /\ Member /\ Listing /\ Late

\* Nothing changes but the constructor, its guard, the node and the listener.
SameLife(w, v) ==
  /\ v.slot = w.slot /\ v.lock = w.lock /\ v.rot = w.rot /\ v.handle = w.handle
  /\ v.did = w.did /\ v.bomb = w.bomb /\ v.call = w.call

\* A step of one handle that says nothing to the daemon.
Fine(r, w, v) ==
  /\ v \in Handle /\ Local(r, v)
  /\ HoldsStores(v) => HoldsStores(w)
  /\ Arms(r, w) => Arms(r, v)
  /\ Established(r, v) => Established(r, w)
  /\ Unowed(w) => Unowed(v)
-----------------------------------------------------------------------------
(* Updates of a handle                                                     *)

(* Where a constructor can stand.                                          *)
LEMMA ConIs ==
  /\ Building \subseteq Con /\ Steps \subseteq Building /\ Opened \subseteq Steps
  /\ {"idle", "up", "failed", "cancelled"} \subseteq Con
  /\ {"leave", "forget", "close", "drain"} \subseteq Building
  /\ {"idle", "up", "failed", "cancelled", "leave", "forget", "close", "drain"} \cap Steps = {}
  /\ {"idle", "up", "failed", "cancelled"} \cap Building = {}
BY Zenon DEF Con, Building, Steps, Undoing, Opened

(* Goto changes the step alone.                                            *)
LEMMA GotoIs ==
  ASSUME NEW w \in Handle, NEW s \in Con
  PROVE  /\ Goto(w, s) \in Handle /\ SameLife(w, Goto(w, s))
         /\ Goto(w, s).con = s /\ Goto(w, s).rb = w.rb /\ Goto(w, s).node = w.node
         /\ Goto(w, s).gate = w.gate /\ Goto(w, s).listener = w.listener
         /\ Goto(w, s).excused = w.excused /\ Goto(w, s).reaper = w.reaper
BY DEF Goto, Handle, SameLife

(* So does an excuse.                                                      *)
LEMMA ExcusedIs ==
  ASSUME NEW w \in Handle
  PROVE  LET v == [w EXCEPT !.excused = TRUE] IN
         /\ v \in Handle /\ SameLife(w, v) /\ v.excused = TRUE
         /\ v.con = w.con /\ v.rb = w.rb /\ v.node = w.node /\ v.gate = w.gate
         /\ v.listener = w.listener /\ v.reaper = w.reaper
BY Zenon DEF Handle, SameLife

(* An abort stops a running listener.                                      *)
LEMMA AbortIs ==
  ASSUME NEW w \in Handle
  PROVE  LET v == AbortListener(w) IN
         /\ v \in Handle /\ SameLife(w, v) /\ v.listener # "live"
         /\ v.con = w.con /\ v.rb = w.rb /\ v.node = w.node /\ v.gate = w.gate
         /\ v.excused = w.excused /\ v.reaper = w.reaper
BY DEF AbortListener, Handle, SameLife

(* Closing the projection leaves the rest.                                 *)
LEMMA CloseGateIs ==
  ASSUME NEW w \in Handle
  PROVE  LET v == CloseGate(w) IN
         /\ v \in Handle /\ SameLife(w, v) /\ v.listener = w.listener
         /\ v.con = w.con /\ v.rb = w.rb /\ v.node = w.node
         /\ v.excused = w.excused /\ v.reaper = w.reaper
BY DEF CloseGate, Handle, SameLife

(* The node leaves the slot.                                               *)
LEMMA EmptiedIs ==
  ASSUME NEW w \in Handle
  PROVE  LET v == [w EXCEPT !.node = "draining", !.slot = FALSE] IN
         /\ v \in Handle /\ v.node = "draining" /\ v.slot = FALSE
         /\ v.lock = w.lock /\ v.rot = w.rot /\ v.handle = w.handle
         /\ v.did = w.did /\ v.bomb = w.bomb /\ v.call = w.call
         /\ v.con = w.con /\ v.rb = w.rb /\ v.listener = w.listener
         /\ v.excused = w.excused /\ v.reaper = w.reaper
<1>1. [w EXCEPT !.node = "draining", !.slot = FALSE] \in Handle
  BY Zenon DEF Handle
<1> QED
  BY <1>1 DEF Handle

(* WorkspaceNode::shutdown takes the node out of the slot.                 *)
LEMMA NodeShutdownIs ==
  ASSUME NEW w \in Handle
  PROVE  LET v == NodeShutdown(w) IN
         /\ v \in Handle /\ v.node = "draining" /\ v.slot = FALSE
         /\ v.lock = w.lock /\ v.rot = w.rot /\ v.handle = w.handle
         /\ v.did = w.did /\ v.bomb = w.bomb /\ v.call = w.call
         /\ v.con = w.con /\ v.rb = w.rb /\ v.listener = w.listener
         /\ v.excused = w.excused /\ v.reaper = w.reaper
<1> DEFINE u == CloseGate(w)
           v == NodeShutdown(w)
<1>1. /\ u \in Handle /\ u.listener = w.listener
      /\ u.lock = w.lock /\ u.rot = w.rot /\ u.handle = w.handle
      /\ u.did = w.did /\ u.bomb = w.bomb /\ u.call = w.call
      /\ u.con = w.con /\ u.rb = w.rb /\ u.excused = w.excused /\ u.reaper = w.reaper
  BY CloseGateIs DEF SameLife
<1>2. v = [u EXCEPT !.node = "draining", !.slot = FALSE]
  BY DEF NodeShutdown
<1> HIDE DEF u, v
<1>3. /\ v \in Handle /\ v.node = "draining" /\ v.slot = FALSE
      /\ v.lock = u.lock /\ v.rot = u.rot /\ v.handle = u.handle
      /\ v.did = u.did /\ v.bomb = u.bomb /\ v.call = u.call
      /\ v.con = u.con /\ v.rb = u.rb /\ v.listener = u.listener
      /\ v.excused = u.excused /\ v.reaper = u.reaper
  BY <1>1, <1>2, EmptiedIs, Zenon
<1> QED
  BY <1>1, <1>3, Zenon DEF v

(* rollback() begins: a listener the guard knows of is aborted.            *)
LEMMA FailIs ==
  ASSUME NEW w \in Handle
  PROVE  LET v == Fail(w) IN
         /\ v \in Handle /\ SameLife(w, v) /\ v.con = "leave" /\ v.rb = w.rb /\ v.node = w.node
         /\ v.excused = w.excused /\ v.reaper = w.reaper
         /\ v.listener = "live" => w.listener = "live" /\ ~w.rb.listener
<1>1. "leave" \in Con
  BY ConIs
<1>2. CASE w.rb.listener
  <2>1. Fail(w) = Goto(AbortListener(w), "leave")
    BY <1>2 DEF Fail, Goto
  <2>2. AbortListener(w) \in Handle
    BY AbortIs
  <2> QED
    BY <1>1, <2>1, <2>2, GotoIs, AbortIs DEF SameLife
<1>3. CASE ~w.rb.listener
  <2>1. Fail(w) = Goto(w, "leave")
    BY <1>3 DEF Fail, Goto
  <2> QED
    BY <1>1, <1>3, <2>1, GotoIs
<1> QED
  BY <1>2, <1>3
-----------------------------------------------------------------------------
(* From one handle to all of them                                          *)

(* An attempt is neither nobody nor a handle from before.                  *)
LEMMA AttemptIs ==
  /\ Nobody \notin Attempts /\ Earlier \notin Attempts /\ Earlier # Nobody
  /\ Attempts \subseteq Owners /\ Nobody \in Owners /\ Earlier \in Owners
BY WorkspaceAssumption DEF Attempts, Nobody, Earlier, Owners

(* An established host has the stores open, and so has whoever can make,   *)
(* list or leave the session.                                              *)
LEMMA EstablishedHolds ==
  ASSUME NEW r, NEW w, NodeOf(w), Established(r, w) PROVE HoldsStores(w)
BY DEF NodeOf, Established, HoldsStores, Opened

(* One handle takes a step and tells the daemon of it, or not.             *)
LEMMA StepKeeps ==
  ASSUME Inv, NEW a \in Attempts, NEW v \in Handle, Local(role, v), Set(a, v),
         HoldsStores(v) => HoldsStores(ws[a]) \/ \A b \in Attempts \ {a} : ~HoldsStores(ws[b]),
         role' = role, dir' \in [docId : BOOLEAN, files : BOOLEAN], budget' \in ScenarioType,
         daemon' \in DaemonRec,
         a \in {daemon'.session, daemon'.listed} => Arms(role, v),
         {daemon'.session, daemon'.listed} \subseteq {daemon.session, daemon.listed, a, Nobody},
         role = "joiner" => daemon'.session = daemon.session,
         daemon'.left = daemon.left, daemon'.crossed = daemon.crossed,
         Established(role, v) /\ ~daemon.left /\ a \notin daemon.crossed =>
           daemon'.session # Nobody /\ daemon'.listed = a,
         HoldsStores(ws[a]) \/ (daemon'.session = daemon.session /\ daemon'.listed = daemon.listed),
         Unowed(ws[a]) => Unowed(v),
         \A q \in daemon'.late : q \in daemon.late \/ (q.by = a /\ Unowed(v) /\ Owed(role, q.op))
  PROVE  Inv'
<1>1. Typed /\ Locals /\ Exclusive /\ Armed /\ Member /\ Listing /\ Late
  BY DEF Inv
<1>2. /\ ws'[a] = v /\ ws' \in [Attempts -> Handle]
      /\ \A b \in Attempts : b # a => ws'[b] = ws[b]
  BY <1>1 DEF Typed, Set
<1>3. Typed'
  BY <1>1, <1>2 DEF Typed
<1>4. Locals'
  BY <1>1, <1>2 DEF Locals
<1>5. Exclusive'
  <2> SUFFICES ASSUME NEW b \in Attempts, NEW c \in Attempts, HoldsStores(ws'[b]), HoldsStores(ws'[c])
               PROVE  b = c
    BY DEF Exclusive
  <2> QED
    BY <1>1, <1>2, Zenon DEF Exclusive
<1>6. Armed'
  <2> SUFFICES ASSUME NEW b \in Attempts, b \in {daemon'.session, daemon'.listed}
               PROVE  Arms(role, ws'[b])
    BY DEF Armed
  <2> QED
    BY <1>1, <1>2, AttemptIs, Zenon DEF Armed
<1>7. Member'
  BY <1>1 DEF Member
<1>8. Listing'
  <2> SUFFICES ASSUME NEW b \in Attempts, Established(role, ws'[b]), ~daemon.left, b \notin daemon.crossed
               PROVE  daemon'.session # Nobody /\ daemon'.listed = b
    BY DEF Listing
  <2>1. CASE b = a
    BY <1>2, <2>1
  <2>2. CASE b # a
    <3>1. Established(role, ws[b]) /\ HoldsStores(ws[b])
      BY <1>1, <1>2, <2>2, EstablishedHolds DEF Locals, Local
    <3>2. daemon'.session = daemon.session /\ daemon'.listed = daemon.listed
      BY <1>1, <2>2, <3>1 DEF Exclusive
    <3> QED
      BY <1>1, <3>1, <3>2 DEF Listing
  <2> QED
    BY <2>1, <2>2
<1>9. Late'
  <2> SUFFICES ASSUME NEW q \in daemon'.late PROVE Unowed(ws'[q.by]) /\ Owed(role, q.op)
    BY DEF Late
  <2>1. q.by \in Attempts
    BY DEF DaemonRec, Requests
  <2>2. CASE q \in daemon.late
    BY <1>1, <1>2, <2>1, <2>2, Zenon DEF Late
  <2>3. CASE q.by = a /\ Unowed(v) /\ Owed(role, q.op)
    BY <1>2, <2>3, Zenon
  <2> QED
    BY <2>2, <2>3, Zenon
<1> QED
  BY <1>3, <1>4, <1>5, <1>6, <1>7, <1>8, <1>9 DEF Inv

(* One handle takes a step the daemon does not hear of.                    *)
LEMMA FineKeeps ==
  ASSUME Inv, NEW a \in Attempts, NEW v, Fine(role, ws[a], v), Set(a, v), UNCHANGED <<role, daemon>>,
         dir' \in [docId : BOOLEAN, files : BOOLEAN], budget' \in ScenarioType
  PROVE  Inv'
<1>1. Typed /\ Locals /\ Exclusive /\ Armed /\ Member /\ Listing
  BY DEF Inv
<1>2. /\ v \in Handle /\ Local(role, v) /\ (HoldsStores(v) => HoldsStores(ws[a]))
      /\ Arms(role, ws[a]) => Arms(role, v)
      /\ Established(role, v) => Established(role, ws[a])
      /\ Unowed(ws[a]) => Unowed(v)
  BY DEF Fine
<1>3. a \in {daemon.session, daemon.listed} => Arms(role, v)
  BY <1>1, <1>2 DEF Armed
<1>4. Established(role, v) /\ ~daemon.left /\ a \notin daemon.crossed =>
        daemon.session # Nobody /\ daemon.listed = a
  BY <1>1, <1>2 DEF Listing
<1> QED
  BY <1>1, <1>2, <1>3, <1>4, StepKeeps DEF Typed

(* A fault is spent from the budget.                                       *)
LEMMA SpendIs ==
  ASSUME budget \in ScenarioType, Spend PROVE budget' \in ScenarioType
BY DEF Spend, ScenarioType

(* A local step that succeeds or starts the rollback.                      *)
LEMMA LocalStepKeeps ==
  ASSUME Inv, NEW a \in Attempts, NEW v, NEW f, Fine(role, ws[a], v), Fine(role, ws[a], f),
         LocalStep(a, v, f), dir' \in [docId : BOOLEAN, files : BOOLEAN]
  PROVE  Inv'
<1>1. budget \in ScenarioType /\ UNCHANGED <<role, daemon>>
  BY DEF Inv, Typed, LocalStep
<1>2. CASE Set(a, v) /\ UNCHANGED budget
  BY <1>1, <1>2, FineKeeps
<1>3. CASE Set(a, f) /\ Spend
  BY <1>1, <1>3, FineKeeps, SpendIs
<1> QED
  BY <1>2, <1>3 DEF LocalStep
-----------------------------------------------------------------------------
(* Steps of a constructor                                                  *)

(* What a guard consists of.                                               *)
LEMMA GuardIs ==
  ASSUME NEW w \in Handle
  PROVE  /\ w.rb \in Guard
         /\ w.rb.listener \in BOOLEAN /\ w.rb.leave \in BOOLEAN
         /\ w.rb.forget \in BOOLEAN /\ w.rb.node \in BOOLEAN
BY DEF Handle, Guard

(* Before a handle is up there is no call, no rotation and no slot.        *)
LEMMA BuildKeeps ==
  ASSUME NEW r, NEW w \in Handle, NEW v \in Handle, Local(r, w), w.con # "up",
         SameLife(w, v), v.con \notin {"idle", "up"}, NodeOf(v), ListenerOf(v), RoleOf(r, v)
  PROVE  Local(r, v)
<1>1. /\ \A c \in Callers : v.call[c] = "idle"
      /\ v.lock = "free" /\ v.rot = "off" /\ ~v.did /\ v.bomb = "armed" /\ ~v.handle /\ ~v.slot
  BY DEF Local, LifeOf, NodeOf, SameLife
<1>2. LifeOf(v)
  BY <1>1, Zenon DEF LifeOf, Returned
<1> QED
  BY <1>2 DEF Local

(* A step that fails starts the rollback; u is the handle at that moment.  *)
LEMMA FailFine ==
  ASSUME NEW r, NEW w \in Handle, Local(r, w), w.con \in Steps,
         NEW u \in Handle, SameLife(w, u), u.rb = w.rb, u.excused = w.excused, u.reaper = w.reaper,
         u.listener = "live" => w.rb.listener,
         IF w.rb.node THEN u.node = "open" ELSE ~HoldsStores(u)
  PROVE  Fine(r, w, Fail(u)) /\ Fine(r, w, [Fail(u) EXCEPT !.excused = TRUE])
<1>1. ASSUME NEW v \in Handle, SameLife(w, v), v.con = "leave", v.rb = w.rb, v.node = u.node,
             v.reaper = w.reaper, v.listener # "live", w.excused => v.excused
      PROVE  Fine(r, w, v)
  <2>1. w.con \notin {"up", "idle", "cancelled", "failed"} /\ ~w.reaper /\ ~w.slot
    BY ConIs DEF Local, NodeOf
  <2>2. NodeOf(v)
    BY <1>1, <2>1 DEF NodeOf, Local, SameLife, HoldsStores, Opened
  <2>3. ListenerOf(v)
    BY <1>1 DEF ListenerOf
  <2>4. RoleOf(r, v)
    BY <1>1 DEF RoleOf, Local
  <2>5. Local(r, v)
    BY <1>1, <2>1, <2>2, <2>3, <2>4, BuildKeeps
  <2>6. HoldsStores(v) => HoldsStores(w)
    <3>1. w.rb.node => w.node = "open"
      BY <2>1 DEF Local, NodeOf, Steps, Opened
    <3> QED
      BY <1>1, <3>1 DEF HoldsStores
  <2>7. Arms(r, w) => Arms(r, v)
    BY <1>1, <2>1 DEF Arms
  <2>8. ~Established(r, v) /\ (Unowed(w) => Unowed(v))
    BY <1>1, <2>1 DEF Established, Unowed
  <2> QED
    BY <2>5, <2>6, <2>7, <2>8 DEF Fine
<1>2. /\ Fail(u) \in Handle /\ SameLife(w, Fail(u)) /\ Fail(u).con = "leave" /\ Fail(u).rb = w.rb
      /\ Fail(u).node = u.node /\ Fail(u).reaper = w.reaper /\ Fail(u).excused = w.excused
      /\ Fail(u).listener # "live"
  BY FailIs DEF SameLife
<1>3. Fine(r, w, Fail(u))
  BY <1>1, <1>2
<1> DEFINE f == Fail(u)
           v == [f EXCEPT !.excused = TRUE]
<1> HIDE DEF f
<1>4. /\ v \in Handle /\ SameLife(f, v) /\ v.excused = TRUE /\ v.con = f.con /\ v.rb = f.rb
      /\ v.node = f.node /\ v.listener = f.listener /\ v.reaper = f.reaper
  BY <1>2, ExcusedIs, Zenon DEF f
<1> HIDE DEF v
<1>5. SameLife(w, v)
  BY <1>2, <1>4 DEF SameLife, f
<1>6. Fine(r, w, v)
  BY <1>1, <1>2, <1>4, <1>5, Zenon DEF f
<1> QED
  BY <1>3, <1>6 DEF f, v

(* Most steps fail with the handle as it is.                               *)
LEMMA FailsFine ==
  ASSUME NEW r, NEW w \in Handle, Local(r, w), w.con \in Steps, w.con \notin {"relay", "replay"}
  PROVE  Fine(r, w, Fail(w)) /\ Fine(r, w, [Fail(w) EXCEPT !.excused = TRUE])
<1>1. w.con \notin {"up", "idle", "cancelled", "failed"}
  BY ConIs
<1>2. w.listener = "live" => w.rb.listener
  BY <1>1 DEF Local, ListenerOf
<1>3. IF w.rb.node THEN w.node = "open" ELSE ~HoldsStores(w)
  BY <1>1 DEF Local, NodeOf, HoldsStores, Steps, Opened
<1>4. SameLife(w, w)
  BY DEF SameLife
<1> QED
  BY <1>2, <1>3, <1>4, FailFine

(* An error inside WorkspaceNode::spawn drops the endpoint.                *)
LEMMA SpawnFailsFine ==
  ASSUME NEW r, NEW w \in Handle, Local(r, w), w.con \in {"stores", "relay"}
  PROVE  Fine(r, w, Fail([w EXCEPT !.node = "dropped"]))
<1> DEFINE u == [w EXCEPT !.node = "dropped"]
<1>1. u \in Handle
  BY Zenon DEF Handle
<1>2. /\ SameLife(w, u) /\ u.rb = w.rb /\ u.excused = w.excused /\ u.reaper = w.reaper
      /\ u.listener = w.listener /\ u.node = "dropped"
  BY DEF Handle, SameLife
<1> HIDE DEF u
<1>3. w.con \in Steps
  BY DEF Steps
<1>4. ~w.rb.node /\ (w.listener = "live" => w.rb.listener)
  BY DEF Local, NodeOf, ListenerOf
<1>5. ~HoldsStores(u)
  BY <1>2 DEF HoldsStores
<1> QED
  BY <1>1, <1>2, <1>3, <1>4, <1>5, FailFine, Zenon DEF u

(* A step of a constructor, by what it makes of the handle.                *)
LEMMA BuildFine ==
  ASSUME NEW r, NEW w \in Handle, NEW v \in Handle, Local(r, w), w.con \in Steps, SameLife(w, v),
         v.con \in Steps, v.excused = w.excused, NodeOf(v), ListenerOf(v), RoleOf(r, v),
         HoldsStores(v) => HoldsStores(w), w.rb.leave => v.rb.leave, w.rb.forget => v.rb.forget,
         Established(r, v) => Established(r, w)
  PROVE  Fine(r, w, v)
<1>1. w.con \notin {"up", "cancelled"} /\ v.con \notin {"idle", "up", "cancelled"}
  BY ConIs
<1>2. Local(r, v)
  BY <1>1, BuildKeeps
<1>3. Arms(r, w) => Arms(r, v)
  BY <1>1, ConIs DEF Arms
<1>4. Unowed(w) => Unowed(v)
  BY <1>1, Zenon DEF Unowed
<1> QED
  BY <1>2, <1>3, <1>4 DEF Fine

(* The steps that leave a handle as it was.                                *)
LEMMA GotoFine ==
  ASSUME NEW r \in {"host", "joiner"}, NEW w \in Handle, Local(r, w), NEW s,
         <<w.con, s>> \in {<<"subscribe", "ticket">>, <<"open", "register">>, <<"scan", "upgrade">>,
                           <<"upgrade", "listen">>, <<"import", "attach">>, <<"sync", "export">>,
                           <<"export", "announce">>}
  PROVE  Fine(r, w, Goto(w, s))
<1> DEFINE v == Goto(w, s)
<1>1. s \in Steps /\ w.con \in Steps /\ s \in Con
  BY ConIs DEF Steps
<1>2. /\ v \in Handle /\ SameLife(w, v) /\ v.con = s /\ v.rb = w.rb /\ v.node = w.node
      /\ v.listener = w.listener /\ v.excused = w.excused /\ v.reaper = w.reaper
  BY <1>1, GotoIs
<1> HIDE DEF v
<1>3. NodeOf(v)
  BY <1>2 DEF Local, NodeOf, SameLife, Opened, HoldsStores
<1>4. ListenerOf(v)
  BY <1>1, <1>2 DEF Local, ListenerOf, Steps
<1>5. RoleOf(r, v)
  BY <1>2 DEF Local, RoleOf
<1>6. (HoldsStores(v) => HoldsStores(w)) /\ (Established(r, v) => Established(r, w))
  BY <1>2 DEF HoldsStores, Established
<1> QED
  BY <1>1, <1>2, <1>3, <1>4, <1>5, <1>6, BuildFine DEF v

(* The ticket has come: the peer map is made.                              *)
LEMMA TicketFine ==
  ASSUME NEW r \in {"host", "joiner"}, NEW w \in Handle, Local(r, w), w.con = "ticket"
  PROVE  Fine(r, w, [w EXCEPT !.con = "bind", !.gate = "initializing"])
<1> DEFINE v == [w EXCEPT !.con = "bind", !.gate = "initializing"]
<1>1. "bind" \in Con /\ "bind" \in Steps /\ w.con \in Steps
  BY DEF Con, Steps, Building
<1>2. v \in Handle
  BY <1>1, Zenon DEF Handle
<1>3. /\ SameLife(w, v) /\ v.con = "bind" /\ v.rb = w.rb /\ v.node = w.node
      /\ v.listener = w.listener /\ v.excused = w.excused /\ v.reaper = w.reaper
  BY DEF Handle, SameLife
<1> HIDE DEF v
<1>4. NodeOf(v)
  BY <1>3 DEF Local, NodeOf, SameLife, Opened, HoldsStores
<1>5. ListenerOf(v) /\ RoleOf(r, v)
  BY <1>1, <1>3 DEF Local, ListenerOf, RoleOf
<1>6. (HoldsStores(v) => HoldsStores(w)) /\ (Established(r, v) => Established(r, w))
  BY <1>3 DEF HoldsStores, Established
<1> QED
  BY <1>1, <1>2, <1>3, <1>4, <1>5, <1>6, BuildFine, Zenon DEF v

(* The endpoint is bound.                                                  *)
LEMMA BindFine ==
  ASSUME NEW r \in {"host", "joiner"}, NEW w \in Handle, Local(r, w), w.con = "bind"
  PROVE  Fine(r, w, [w EXCEPT !.con = "stores", !.node = "bound"])
<1> DEFINE v == [w EXCEPT !.con = "stores", !.node = "bound"]
<1>1. "stores" \in Con /\ "stores" \in Steps /\ w.con \in Steps
  BY DEF Con, Steps, Building
<1>2. v \in Handle
  BY <1>1, Zenon DEF Handle
<1>3. /\ SameLife(w, v) /\ v.con = "stores" /\ v.rb = w.rb /\ v.node = "bound"
      /\ v.listener = w.listener /\ v.excused = w.excused /\ v.reaper = w.reaper
  BY DEF Handle, SameLife
<1> HIDE DEF v
<1>4. NodeOf(v)
  BY <1>3 DEF Local, NodeOf, SameLife, Opened, HoldsStores
<1>5. ListenerOf(v) /\ RoleOf(r, v)
  BY <1>1, <1>3 DEF Local, ListenerOf, RoleOf
<1>6. ~HoldsStores(v) /\ ~Established(r, v)
  BY <1>3 DEF HoldsStores, Established
<1> QED
  BY <1>1, <1>2, <1>3, <1>4, <1>5, <1>6, BuildFine, Zenon DEF v

(* The stores are open.                                                    *)
LEMMA StoresKeep ==
  ASSUME NEW r \in {"host", "joiner"}, NEW w \in Handle, Local(r, w), w.con = "stores"
  PROVE  LET v == [w EXCEPT !.con = "relay", !.node = "stores"] IN
         /\ v \in Handle /\ Local(r, v) /\ ~Established(r, v)
         /\ Arms(r, w) => Arms(r, v)
         /\ Unowed(w) => Unowed(v)
<1> DEFINE v == [w EXCEPT !.con = "relay", !.node = "stores"]
<1>1. "relay" \in Con /\ "relay" \in Steps /\ w.con \in Steps
  BY DEF Con, Steps, Building
<1>2. v \in Handle
  BY <1>1, Zenon DEF Handle
<1>3. /\ SameLife(w, v) /\ v.con = "relay" /\ v.rb = w.rb /\ v.node = "stores"
      /\ v.listener = w.listener /\ v.excused = w.excused /\ v.reaper = w.reaper
  BY DEF Handle, SameLife
<1> HIDE DEF v
<1>4. NodeOf(v)
  BY <1>3 DEF Local, NodeOf, SameLife, Opened, HoldsStores
<1>5. ListenerOf(v) /\ RoleOf(r, v)
  BY <1>1, <1>3 DEF Local, ListenerOf, RoleOf
<1>6. Local(r, v)
  BY <1>2, <1>3, <1>4, <1>5, BuildKeeps
<1>7. ~Established(r, v)
  BY <1>3 DEF Established
<1>8. Arms(r, w) => Arms(r, v)
  BY <1>1, <1>3 DEF Arms
<1>9. Unowed(w) => Unowed(v)
  BY <1>3, Zenon DEF Unowed
<1> QED
  BY <1>2, <1>6, <1>7, <1>8, <1>9, Zenon DEF v

(* The relay has the endpoint, and the guard the node.                     *)
LEMMA RelayFine ==
  ASSUME NEW r \in {"host", "joiner"}, NEW w \in Handle, Local(r, w), w.con = "relay",
         NEW s, s = IF r = "host" THEN "open" ELSE "listen"
  PROVE  Fine(r, w, [w EXCEPT !.con = s, !.node = "open", !.rb.node = TRUE])
<1> DEFINE v == [w EXCEPT !.con = s, !.node = "open", !.rb.node = TRUE]
<1>1. s \in Con /\ s \in Steps /\ w.con \in Steps
  BY DEF Con, Steps, Building
<1>2. [w.rb EXCEPT !.node = TRUE] \in Guard
  BY GuardIs, Zenon DEF Guard
<1>3. /\ [w.rb EXCEPT !.node = TRUE].node = TRUE
      /\ [w.rb EXCEPT !.node = TRUE].leave = w.rb.leave
      /\ [w.rb EXCEPT !.node = TRUE].forget = w.rb.forget
      /\ [w.rb EXCEPT !.node = TRUE].listener = w.rb.listener
  BY GuardIs, Zenon DEF Guard
<1>4. v = [w EXCEPT !.con = s, !.node = "open", !.rb = [w.rb EXCEPT !.node = TRUE]]
  BY DEF Handle
<1>5. v \in Handle
  BY <1>1, <1>2, <1>4, ZenonT(40) DEF Handle
<1>6. /\ SameLife(w, v) /\ v.con = s /\ v.node = "open" /\ v.rb = [w.rb EXCEPT !.node = TRUE]
      /\ v.listener = w.listener /\ v.excused = w.excused /\ v.reaper = w.reaper
  BY DEF Handle, SameLife
<1> HIDE DEF v
<1>7. v.rb.node = TRUE /\ v.rb.leave = w.rb.leave /\ v.rb.forget = w.rb.forget /\ v.rb.listener = w.rb.listener
  BY <1>3, <1>6, Zenon
<1>8. NodeOf(v)
  BY <1>6, <1>7 DEF Local, NodeOf, SameLife, Opened, HoldsStores
<1>9. ListenerOf(v) /\ RoleOf(r, v)
  BY <1>1, <1>6, <1>7 DEF Local, ListenerOf, RoleOf, NodeOf
<1>10. HoldsStores(w) /\ ~Established(r, v)
  BY <1>6 DEF Local, NodeOf, HoldsStores, Established
<1> QED
  BY <1>1, <1>5, <1>6, <1>7, <1>8, <1>9, <1>10, BuildFine, Zenon DEF v

(* A clean-up is armed, or a listener handed to the guard.                 *)
LEMMA ArmedGuard ==
  ASSUME NEW g \in Guard
  PROVE  /\ LET h == [g EXCEPT !.leave = TRUE] IN
            /\ h \in Guard /\ h.leave = TRUE /\ h.forget = g.forget
            /\ h.node = g.node /\ h.listener = g.listener
         /\ LET h == [g EXCEPT !.forget = TRUE] IN
            /\ h \in Guard /\ h.forget = TRUE /\ h.leave = g.leave
            /\ h.node = g.node /\ h.listener = g.listener
         /\ LET h == [g EXCEPT !.listener = TRUE] IN
            /\ h \in Guard /\ h.listener = TRUE /\ h.leave = g.leave
            /\ h.node = g.node /\ h.forget = g.forget
BY Zenon DEF Guard

(* The step and the guard change together.                                 *)
LEMMA ConGuardIs ==
  ASSUME NEW w \in Handle, NEW s \in Con, NEW g \in Guard
  PROVE  LET v == [w EXCEPT !.con = s, !.rb = g] IN
         /\ v \in Handle /\ SameLife(w, v) /\ v.con = s /\ v.rb = g /\ v.node = w.node
         /\ v.listener = w.listener /\ v.excused = w.excused /\ v.reaper = w.reaper
<1>1. [w EXCEPT !.con = s, !.rb = g] \in Handle
  BY Zenon DEF Handle
<1> QED
  BY <1>1 DEF Handle, SameLife

(* What a step that arms a clean-up makes of the handle.                   *)
LEMMA ArmIs ==
  ASSUME NEW w \in Handle, NEW s \in Con
  PROVE  /\ LET v == [w EXCEPT !.con = s, !.rb.leave = TRUE] IN
            /\ v \in Handle /\ SameLife(w, v) /\ v.con = s /\ v.node = w.node
            /\ v.listener = w.listener /\ v.excused = w.excused /\ v.reaper = w.reaper
            /\ v.rb.leave = TRUE /\ v.rb.forget = w.rb.forget
            /\ v.rb.node = w.rb.node /\ v.rb.listener = w.rb.listener
         /\ LET v == [w EXCEPT !.con = s, !.rb.forget = TRUE] IN
            /\ v \in Handle /\ SameLife(w, v) /\ v.con = s /\ v.node = w.node
            /\ v.listener = w.listener /\ v.excused = w.excused /\ v.reaper = w.reaper
            /\ v.rb.forget = TRUE /\ v.rb.leave = w.rb.leave
            /\ v.rb.node = w.rb.node /\ v.rb.listener = w.rb.listener
         /\ LET v == [w EXCEPT !.con = s, !.rb.listener = TRUE] IN
            /\ v \in Handle /\ SameLife(w, v) /\ v.con = s /\ v.node = w.node
            /\ v.listener = w.listener /\ v.excused = w.excused /\ v.reaper = w.reaper
            /\ v.rb.listener = TRUE /\ v.rb.leave = w.rb.leave
            /\ v.rb.node = w.rb.node /\ v.rb.forget = w.rb.forget
<1>1. w.rb \in Guard
  BY GuardIs
<1>2. /\ [w EXCEPT !.con = s, !.rb.leave = TRUE] = [w EXCEPT !.con = s, !.rb = [w.rb EXCEPT !.leave = TRUE]]
      /\ [w EXCEPT !.con = s, !.rb.forget = TRUE] = [w EXCEPT !.con = s, !.rb = [w.rb EXCEPT !.forget = TRUE]]
      /\ [w EXCEPT !.con = s, !.rb.listener = TRUE] = [w EXCEPT !.con = s, !.rb = [w.rb EXCEPT !.listener = TRUE]]
  BY DEF Handle
<1> DEFINE L == [w.rb EXCEPT !.leave = TRUE]
           F == [w.rb EXCEPT !.forget = TRUE]
           T == [w.rb EXCEPT !.listener = TRUE]
<1>3. /\ L \in Guard /\ L.leave = TRUE /\ L.forget = w.rb.forget
      /\ L.node = w.rb.node /\ L.listener = w.rb.listener
      /\ F \in Guard /\ F.forget = TRUE /\ F.leave = w.rb.leave
      /\ F.node = w.rb.node /\ F.listener = w.rb.listener
      /\ T \in Guard /\ T.listener = TRUE /\ T.leave = w.rb.leave
      /\ T.node = w.rb.node /\ T.forget = w.rb.forget
  BY <1>1, ArmedGuard
<1> HIDE DEF L, F, T
<1> DEFINE l == [w EXCEPT !.con = s, !.rb = L]
           f == [w EXCEPT !.con = s, !.rb = F]
           t == [w EXCEPT !.con = s, !.rb = T]
<1>4. /\ l \in Handle /\ SameLife(w, l) /\ l.con = s /\ l.rb = L /\ l.node = w.node
      /\ l.listener = w.listener /\ l.excused = w.excused /\ l.reaper = w.reaper
  BY <1>3, ConGuardIs, Zenon
<1>5. /\ f \in Handle /\ SameLife(w, f) /\ f.con = s /\ f.rb = F /\ f.node = w.node
      /\ f.listener = w.listener /\ f.excused = w.excused /\ f.reaper = w.reaper
  BY <1>3, ConGuardIs, Zenon
<1>6. /\ t \in Handle /\ SameLife(w, t) /\ t.con = s /\ t.rb = T /\ t.node = w.node
      /\ t.listener = w.listener /\ t.excused = w.excused /\ t.reaper = w.reaper
  BY <1>3, ConGuardIs, Zenon
<1> HIDE DEF l, f, t
<1>7. /\ [w EXCEPT !.con = s, !.rb.leave = TRUE] = l
      /\ [w EXCEPT !.con = s, !.rb.forget = TRUE] = f
      /\ [w EXCEPT !.con = s, !.rb.listener = TRUE] = t
  BY <1>2, Zenon DEF l, f, t, L, F, T
<1> QED
  BY <1>3, <1>4, <1>5, <1>6, <1>7, Zenon

\* The three ways to arm the guard.
ArmLeave(w, s) == [w EXCEPT !.con = s, !.rb.leave = TRUE]
ArmForget(w, s) == [w EXCEPT !.con = s, !.rb.forget = TRUE]
ArmListener(w, s) == [w EXCEPT !.con = s, !.rb.listener = TRUE]

(* The same, named: a host's LeaveSession ...                              *)
LEMMA ArmLeaveIs ==
  ASSUME NEW w \in Handle, NEW s \in Con
  PROVE  LET v == ArmLeave(w, s) IN
         /\ v \in Handle /\ SameLife(w, v) /\ v.con = s /\ v.node = w.node
         /\ v.listener = w.listener /\ v.excused = w.excused /\ v.reaper = w.reaper
         /\ v.rb.leave = TRUE /\ v.rb.forget = w.rb.forget
         /\ v.rb.node = w.rb.node /\ v.rb.listener = w.rb.listener
BY ArmIs, Zenon DEF ArmLeave

(* ... a joiner's ForgetAttachment ...                                     *)
LEMMA ArmForgetIs ==
  ASSUME NEW w \in Handle, NEW s \in Con
  PROVE  LET v == ArmForget(w, s) IN
         /\ v \in Handle /\ SameLife(w, v) /\ v.con = s /\ v.node = w.node
         /\ v.listener = w.listener /\ v.excused = w.excused /\ v.reaper = w.reaper
         /\ v.rb.forget = TRUE /\ v.rb.leave = w.rb.leave
         /\ v.rb.node = w.rb.node /\ v.rb.listener = w.rb.listener
BY ArmIs, Zenon DEF ArmForget

(* ... and the listener of either.                                         *)
LEMMA ArmListenerIs ==
  ASSUME NEW w \in Handle, NEW s \in Con
  PROVE  LET v == ArmListener(w, s) IN
         /\ v \in Handle /\ SameLife(w, v) /\ v.con = s /\ v.node = w.node
         /\ v.listener = w.listener /\ v.excused = w.excused /\ v.reaper = w.reaper
         /\ v.rb.listener = TRUE /\ v.rb.leave = w.rb.leave
         /\ v.rb.node = w.rb.node /\ v.rb.forget = w.rb.forget
BY ArmIs, Zenon DEF ArmListener

\* What a request may do to the daemon's record, and the handle that made it.
Effect(a, e) ==
  /\ HoldsStores(ws[a])
  /\ e \in DaemonRec /\ e.left = daemon.left /\ e.late = daemon.late /\ e.crossed = daemon.crossed
  /\ {e.session, e.listed} \subseteq {daemon.session, daemon.listed, a, Nobody}
  /\ role = "joiner" => e.session = daemon.session

Told(a, e, v) ==
  /\ v \in Handle /\ Local(role, v) /\ (HoldsStores(v) => HoldsStores(ws[a]))
  /\ a \in {e.session, e.listed} => Arms(role, v)
  /\ Established(role, v) /\ ~daemon.left /\ a \notin daemon.crossed => e.session # Nobody /\ e.listed = a
  /\ Unowed(ws[a]) => Unowed(v)

(* A request whose sender does not learn what came of it.                  *)
LEMMA LostKeeps ==
  ASSUME Inv, NEW a \in Attempts, NEW v, Fine(role, ws[a], v), Unowed(v), Set(a, v),
         NEW late \in SUBSET Requests, \A q \in late : q.by = a /\ Owed(role, q.op),
         daemon' = [daemon EXCEPT !.late = @ \cup late],
         role' = role, dir' \in [docId : BOOLEAN, files : BOOLEAN], budget' \in ScenarioType
  PROVE  Inv'
<1>1. Typed /\ Armed /\ Member /\ Listing
  BY DEF Inv
<1>2. /\ v \in Handle /\ Local(role, v) /\ (HoldsStores(v) => HoldsStores(ws[a]))
      /\ Arms(role, ws[a]) => Arms(role, v)
      /\ Established(role, v) => Established(role, ws[a])
  BY Zenon DEF Fine
<1>3. /\ daemon' \in DaemonRec /\ daemon'.session = daemon.session /\ daemon'.listed = daemon.listed
      /\ daemon'.left = daemon.left /\ daemon'.crossed = daemon.crossed
      /\ daemon'.late = daemon.late \cup late
  BY <1>1 DEF Typed, DaemonRec
<1>4. a \in {daemon.session, daemon.listed} => Arms(role, v)
  BY <1>1, <1>2, Zenon DEF Armed
<1>5. Established(role, v) /\ ~daemon.left /\ a \notin daemon.crossed =>
        daemon.session # Nobody /\ daemon.listed = a
  BY <1>1, <1>2, Zenon DEF Listing
<1>6. \A q \in daemon'.late : q \in daemon.late \/ (q.by = a /\ Unowed(v) /\ Owed(role, q.op))
  BY <1>3, Zenon
<1> QED
  BY <1>2, <1>3, <1>4, <1>5, <1>6, StepKeeps, Zenon

(* A request that is answered, refused or lost.                            *)
LEMMA RequestKeeps ==
  ASSUME Inv, NEW a \in Attempts, NEW op \in {"host", "list", "leave", "forget"}, NEW v, NEW f,
         Request(a, op, v, f), Owed(role, op), Effect(a, Carried(op, a)), Told(a, Carried(op, a), v),
         Fine(role, ws[a], f), Fine(role, ws[a], [f EXCEPT !.excused = TRUE]),
         [f EXCEPT !.excused = TRUE].excused = TRUE,
         dir' \in [docId : BOOLEAN, files : BOOLEAN]
  PROVE  Inv'
<1> DEFINE e == Carried(op, a)
           x == [f EXCEPT !.excused = TRUE]
           q == [op |-> op, by |-> a]
<1>1. budget \in ScenarioType /\ role' = role
  BY DEF Inv, Typed, Request
<1>2. CASE Set(a, v) /\ daemon' = e /\ UNCHANGED budget
  <2> HIDE DEF e
  <2>1. Effect(a, e) /\ Told(a, e, v)
    BY DEF e
  <2> QED
    BY <1>1, <1>2, <2>1, StepKeeps DEF Told, Effect
<1>3. CASE Set(a, f) /\ UNCHANGED daemon /\ Spend
  BY <1>1, <1>3, FineKeeps, SpendIs
<1>4. CASE Set(a, x) /\ daemon' = [daemon EXCEPT !.late = @ \cup {q}] /\ Spend
  <2>1. q \in Requests /\ q.by = a /\ q.op = op
    BY DEF Requests
  <2>2. Unowed(x)
    BY Zenon DEF Unowed
  <2> HIDE DEF x, q
  <2>3. Fine(role, ws[a], x)
    BY DEF x
  <2> QED
    <3>1. {q} \in SUBSET Requests /\ \A p \in {q} : p.by = a /\ Owed(role, p.op)
      BY <2>1, Zenon
    <3> QED
      BY <1>1, <1>4, <2>2, <2>3, <3>1, LostKeeps, SpendIs, Zenon
<1> QED
  BY <1>2, <1>3, <1>4 DEF Request

(* What the invariant says of one handle.                                  *)
LEMMA HandleIs ==
  ASSUME Inv, NEW a \in Attempts
  PROVE  /\ ws[a] \in Handle /\ Local(role, ws[a]) /\ role \in {"host", "joiner"}
         /\ dir \in [docId : BOOLEAN, files : BOOLEAN] /\ budget \in ScenarioType
         /\ daemon \in DaemonRec
BY DEF Inv, Typed, Locals

(* Where an attempt has opened its node, it has the stores.                *)
LEMMA OpenedHolds ==
  ASSUME NEW w, NodeOf(w), w.con \in Opened PROVE HoldsStores(w) /\ w.rb.node /\ w.node = "open"
BY DEF NodeOf, HoldsStores

(* HostSession makes the session or finds it.                              *)
LEMMA HostedIs ==
  ASSUME daemon \in DaemonRec, NEW a \in Attempts
  PROVE  LET e == Carried("host", a) IN
         /\ e \in DaemonRec /\ e.session = IF daemon.session = Nobody THEN a ELSE daemon.session
         /\ e.listed = daemon.listed /\ e.left = daemon.left
         /\ e.late = daemon.late /\ e.crossed = daemon.crossed
<1>1. Carried("host", a) = Hosted(a)
  BY DEF Carried
<1> QED
  BY <1>1, AttemptIs DEF Hosted, DaemonRec

(* The daemon keeps one attachment, of a session it knows.                 *)
LEMMA ListedIs ==
  ASSUME daemon \in DaemonRec, NEW a \in Attempts
  PROVE  LET e == Carried("list", a) IN
         /\ e \in DaemonRec /\ e.session = daemon.session
         /\ e.listed = IF daemon.session = Nobody THEN daemon.listed ELSE a
         /\ e.left = daemon.left /\ e.late = daemon.late /\ e.crossed = daemon.crossed
<1>1. Carried("list", a) = Listed(a)
  BY DEF Carried
<1> QED
  BY <1>1, AttemptIs DEF Listed, DaemonRec

(* LeaveSession removes both ...                                           *)
LEMMA DeletedIs ==
  ASSUME daemon \in DaemonRec, NEW a
  PROVE  LET e == Carried("leave", a) IN
         /\ e \in DaemonRec /\ e.session = Nobody /\ e.listed = Nobody
         /\ e.left = daemon.left /\ e.late = daemon.late /\ e.crossed = daemon.crossed
<1>1. Carried("leave", a) = Deleted
  BY DEF Carried
<1> QED
  BY <1>1, AttemptIs, Zenon DEF Deleted, DaemonRec

(* ... ForgetAttachment the attachment.                                    *)
LEMMA ForgottenIs ==
  ASSUME daemon \in DaemonRec, NEW a
  PROVE  LET e == Carried("forget", a) IN
         /\ e \in DaemonRec /\ e.session = daemon.session /\ e.listed = Nobody
         /\ e.left = daemon.left /\ e.late = daemon.late /\ e.crossed = daemon.crossed
<1>1. Carried("forget", a) = [daemon EXCEPT !.listed = Nobody]
  BY DEF Carried
<1> QED
  BY <1>1, AttemptIs DEF DaemonRec

(* Whatever is carried out, for whomever, stays within these bounds.       *)
LEMMA CarriedIs ==
  ASSUME daemon \in DaemonRec, NEW a \in Attempts, NEW op \in {"host", "list", "leave", "forget"},
         Owed(role, op)
  PROVE  LET e == Carried(op, a) IN
         /\ e \in DaemonRec /\ e.left = daemon.left /\ e.late = daemon.late /\ e.crossed = daemon.crossed
         /\ {e.session, e.listed} \subseteq {daemon.session, daemon.listed, a, Nobody}
         /\ role = "joiner" => e.session = daemon.session
         /\ op = "host" => e.session # Nobody /\ e.listed = daemon.listed
<1> DEFINE e == Carried(op, a)
<1>1. CASE op = "host"
  <2>1. /\ e \in DaemonRec /\ e.session = IF daemon.session = Nobody THEN a ELSE daemon.session
        /\ e.listed = daemon.listed /\ e.left = daemon.left
        /\ e.late = daemon.late /\ e.crossed = daemon.crossed
    BY <1>1, HostedIs
  <2>2. role # "joiner" /\ a # Nobody
    BY <1>1, AttemptIs, Zenon DEF Owed
  <2> HIDE DEF e
  <2> QED
    BY <2>1, <2>2 DEF e
<1>2. CASE op = "list"
  <2>1. /\ e \in DaemonRec /\ e.session = daemon.session
        /\ e.listed \in {daemon.listed, a}
        /\ e.left = daemon.left /\ e.late = daemon.late /\ e.crossed = daemon.crossed
    BY <1>2, ListedIs
  <2> HIDE DEF e
  <2> QED
    BY <1>2, <2>1 DEF e
<1>3. CASE op = "leave"
  <2>1. /\ e \in DaemonRec /\ e.session = Nobody /\ e.listed = Nobody
        /\ e.left = daemon.left /\ e.late = daemon.late /\ e.crossed = daemon.crossed
    BY <1>3, DeletedIs
  <2>2. role # "joiner"
    BY <1>3, Zenon DEF Owed
  <2> HIDE DEF e
  <2> QED
    BY <1>3, <2>1, <2>2 DEF e
<1>4. CASE op = "forget"
  <2>1. /\ e \in DaemonRec /\ e.session = daemon.session /\ e.listed = Nobody
        /\ e.left = daemon.left /\ e.late = daemon.late /\ e.crossed = daemon.crossed
    BY <1>4, ForgottenIs
  <2> HIDE DEF e
  <2> QED
    BY <1>4, <2>1 DEF e
<1> QED
  BY <1>1, <1>2, <1>3, <1>4

(* A constructor that has the stores makes a request of its role.          *)
LEMMA EffectIs ==
  ASSUME Inv, NEW a \in Attempts, NEW op \in {"host", "list", "leave", "forget"}, Owed(role, op),
         HoldsStores(ws[a])
  PROVE  Effect(a, Carried(op, a))
<1>1. daemon \in DaemonRec
  BY HandleIs
<1> QED
  BY <1>1, CarriedIs, Zenon DEF Effect

(* The failure branch of a request of a constructor.                       *)
LEMMA RequestFails ==
  ASSUME Inv, NEW a \in Attempts, ws[a].con \in {"register", "attach", "upgrade"}
  PROVE  /\ Fine(role, ws[a], Fail(ws[a])) /\ Fine(role, ws[a], [Fail(ws[a]) EXCEPT !.excused = TRUE])
         /\ [Fail(ws[a]) EXCEPT !.excused = TRUE].excused = TRUE
<1> DEFINE f == Fail(ws[a])
<1>1. ws[a] \in Handle /\ Local(role, ws[a])
  BY HandleIs
<1>2. ws[a].con \in Steps /\ ws[a].con \notin {"relay", "replay"}
  BY DEF Steps
<1>3. Fine(role, ws[a], f) /\ Fine(role, ws[a], [f EXCEPT !.excused = TRUE])
  BY <1>1, <1>2, FailsFine
<1>4. f \in Handle
  BY <1>1, FailIs
<1> HIDE DEF f
<1>5. [f EXCEPT !.excused = TRUE].excused = TRUE
  BY <1>4, ExcusedIs, Zenon
<1> QED
  BY <1>3, <1>5, Zenon DEF f
-----------------------------------------------------------------------------
(* The constructors, step by step                                          *)

(* The steps of a constructor that only move on, or fail.                  *)
LEMMA MovesKeep ==
  ASSUME Inv, NEW a \in Attempts,
         Subscribe(a) \/ TakeTicket(a) \/ Bind(a) \/ OpenDoc(a) \/ Scan(a)
           \/ ImportDoc(a) \/ InitialSync(a) \/ BulkExport(a)
  PROVE  Inv'
<1>1. /\ ws[a] \in Handle /\ Local(role, ws[a]) /\ role \in {"host", "joiner"}
      /\ dir \in [docId : BOOLEAN, files : BOOLEAN]
  BY HandleIs
<1>2. ASSUME ws[a].con \in {"subscribe", "ticket", "bind", "open", "scan", "import", "sync", "export"}
      PROVE  Fine(role, ws[a], Fail(ws[a]))
  <2>1. ws[a].con \in Steps /\ ws[a].con \notin {"relay", "replay"}
    BY <1>2 DEF Steps
  <2> QED
    BY <1>1, <2>1, FailsFine, Zenon
<1>3. /\ [dir EXCEPT !.docId = TRUE] \in [docId : BOOLEAN, files : BOOLEAN]
      /\ [dir EXCEPT !.files = TRUE] \in [docId : BOOLEAN, files : BOOLEAN]
  BY <1>1, Zenon
<1>4. CASE Subscribe(a)
  <2>1. ws[a].con = "subscribe"
    BY <1>4 DEF Subscribe
  <2>2. Fine(role, ws[a], Fail(ws[a])) /\ Fine(role, ws[a], Goto(ws[a], "ticket"))
    BY <1>1, <1>2, <2>1, GotoFine
  <2> QED
    BY <1>1, <1>4, <2>2, LocalStepKeeps, Zenon DEF Subscribe
<1>5. CASE TakeTicket(a)
  <2>1. ws[a].con = "ticket"
    BY <1>5 DEF TakeTicket
  <2>2. Fine(role, ws[a], Fail(ws[a])) /\ Fine(role, ws[a], [ws[a] EXCEPT !.con = "bind", !.gate = "initializing"])
    BY <1>1, <1>2, <2>1, TicketFine, Zenon
  <2> QED
    BY <1>1, <1>5, <2>2, LocalStepKeeps DEF TakeTicket
<1>6. CASE Bind(a)
  <2>1. ws[a].con = "bind"
    BY <1>6 DEF Bind
  <2>2. Fine(role, ws[a], Fail(ws[a])) /\ Fine(role, ws[a], [ws[a] EXCEPT !.con = "stores", !.node = "bound"])
    BY <1>1, <1>2, <2>1, BindFine, Zenon
  <2> QED
    BY <1>1, <1>6, <2>2, LocalStepKeeps DEF Bind
<1>7. CASE OpenDoc(a)
  <2>1. ws[a].con = "open" /\ dir' \in [docId : BOOLEAN, files : BOOLEAN]
    BY <1>1, <1>3, <1>7, Zenon DEF OpenDoc
  <2>2. Fine(role, ws[a], Fail(ws[a])) /\ Fine(role, ws[a], Goto(ws[a], "register"))
    BY <1>1, <1>2, <2>1, GotoFine
  <2> QED
    BY <1>7, <2>1, <2>2, LocalStepKeeps DEF OpenDoc
<1>8. CASE Scan(a)
  <2>1. ws[a].con = "scan"
    BY <1>8 DEF Scan
  <2>2. Fine(role, ws[a], Fail(ws[a])) /\ Fine(role, ws[a], Goto(ws[a], "upgrade"))
    BY <1>1, <1>2, <2>1, GotoFine
  <2> QED
    BY <1>1, <1>8, <2>2, LocalStepKeeps DEF Scan
<1>9. CASE ImportDoc(a)
  <2>1. ws[a].con = "import"
    BY <1>9 DEF ImportDoc
  <2>2. Fine(role, ws[a], Fail(ws[a])) /\ Fine(role, ws[a], Goto(ws[a], "attach"))
    BY <1>1, <1>2, <2>1, GotoFine
  <2> QED
    BY <1>1, <1>9, <2>2, LocalStepKeeps, Zenon DEF ImportDoc
<1>10. CASE InitialSync(a)
  <2>1. ws[a].con = "sync"
    BY <1>10 DEF InitialSync
  <2>2. Fine(role, ws[a], Fail(ws[a])) /\ Fine(role, ws[a], Goto(ws[a], "export"))
    BY <1>1, <1>2, <2>1, GotoFine
  <2> QED
    BY <1>1, <1>10, <2>2, LocalStepKeeps DEF InitialSync
<1>11. CASE BulkExport(a)
  <2>1. ws[a].con = "export" /\ dir' \in [docId : BOOLEAN, files : BOOLEAN]
    BY <1>3, <1>11 DEF BulkExport
  <2>2. Fine(role, ws[a], Fail(ws[a])) /\ Fine(role, ws[a], Goto(ws[a], "announce"))
    BY <1>1, <1>2, <2>1, GotoFine
  <2> QED
    BY <1>11, <2>1, <2>2, LocalStepKeeps, Zenon DEF BulkExport
<1> QED
  BY <1>4, <1>5, <1>6, <1>7, <1>8, <1>9, <1>10, <1>11

(* OpenStores takes the stores only when no other attempt has them.        *)
LEMMA OpenStoresKeeps ==
  ASSUME Inv, NEW a \in Attempts, OpenStores(a) PROVE Inv'
<1>1. /\ ws[a] \in Handle /\ Local(role, ws[a]) /\ role \in {"host", "joiner"} /\ budget \in ScenarioType
      /\ dir \in [docId : BOOLEAN, files : BOOLEAN]
      /\ daemon \in DaemonRec
  BY HandleIs
<1>2. ws[a].con = "stores" /\ UNCHANGED <<role, daemon, dir>>
  BY DEF OpenStores
<1> DEFINE f == Fail([ws[a] EXCEPT !.node = "dropped"])
           v == [ws[a] EXCEPT !.con = "relay", !.node = "stores"]
<1>3. Fine(role, ws[a], f)
  BY <1>1, <1>2, SpawnFailsFine
<1>4. /\ v \in Handle /\ Local(role, v) /\ ~Established(role, v)
      /\ Arms(role, ws[a]) => Arms(role, v)
      /\ Unowed(ws[a]) => Unowed(v)
  BY <1>1, <1>2, StoresKeep, Zenon
<1>5. a \in {daemon.session, daemon.listed} => Arms(role, ws[a])
  BY DEF Inv, Armed
<1>6. CASE Set(a, f) /\ (UNCHANGED budget \/ Spend)
  BY <1>1, <1>2, <1>3, <1>6, FineKeeps, SpendIs, Zenon
<1>7. CASE Set(a, v) /\ UNCHANGED budget /\ ~\E b \in Attempts \ {a} : HoldsStores(ws[b])
  <2> HIDE DEF v
  <2> QED
    BY <1>1, <1>2, <1>4, <1>5, <1>7, StepKeeps, Zenon
<1> QED
  BY <1>6, <1>7 DEF OpenStores

(* AwaitRelay hands the node to the guard.                                 *)
LEMMA AwaitRelayKeeps ==
  ASSUME Inv, NEW a \in Attempts, AwaitRelay(a) PROVE Inv'
<1>1. /\ ws[a] \in Handle /\ Local(role, ws[a]) /\ role \in {"host", "joiner"} /\ budget \in ScenarioType
      /\ dir \in [docId : BOOLEAN, files : BOOLEAN]
  BY HandleIs
<1>2. ws[a].con = "relay" /\ UNCHANGED <<role, daemon, dir>>
  BY DEF AwaitRelay
<1> DEFINE f == Fail([ws[a] EXCEPT !.node = "dropped"])
           v == [ws[a] EXCEPT !.con = IF role = "host" THEN "open" ELSE "listen",
                              !.node = "open", !.rb.node = TRUE]
<1>3. Fine(role, ws[a], f)
  BY <1>1, <1>2, SpawnFailsFine
<1>4. Fine(role, ws[a], v)
  BY <1>1, <1>2, RelayFine, Zenon
<1>5. budget' \in ScenarioType /\ (Set(a, f) \/ Set(a, v))
  BY <1>1, SpendIs DEF AwaitRelay
<1> HIDE DEF f, v
<1> QED
  BY <1>1, <1>2, <1>3, <1>4, <1>5, FineKeeps

(* An armed clean-up of a host, and what follows for its handle.           *)
LEMMA RegisterHostKeeps ==
  ASSUME Inv, NEW a \in Attempts, RegisterHost(a) PROVE Inv'
<1> DEFINE w == ws[a]
           v == ArmLeave(w, "attach")
<1>1. /\ w \in Handle /\ Local(role, w) /\ role \in {"host", "joiner"}
      /\ dir \in [docId : BOOLEAN, files : BOOLEAN] /\ w.con = "register" /\ dir' = dir
  BY HandleIs DEF RegisterHost
<1>2. role = "host" /\ w.con \in Opened /\ NodeOf(w)
  BY <1>1 DEF Local, RoleOf, Opened
<1>3. HoldsStores(w) /\ w.rb.node /\ w.node = "open"
  BY <1>2, OpenedHolds
<1>4. /\ Fine(role, w, Fail(w)) /\ Fine(role, w, [Fail(w) EXCEPT !.excused = TRUE])
      /\ [Fail(w) EXCEPT !.excused = TRUE].excused = TRUE
      /\ Owed(role, "host") /\ Effect(a, Carried("host", a))
  <2>1. Owed(role, "host")
    BY <1>2 DEF Owed
  <2> QED
    BY <1>1, <1>2, <1>3, <2>1, RequestFails, EffectIs
<1>5. Request(a, "host", v, Fail(w))
  BY DEF RegisterHost, ArmLeave
<1>6. "attach" \in Con /\ "attach" \in Steps
  BY DEF Con, Steps, Building
<1> HIDE DEF w
<1>7. /\ v \in Handle /\ SameLife(w, v) /\ v.con = "attach" /\ v.node = w.node
      /\ v.listener = w.listener /\ v.excused = w.excused /\ v.reaper = w.reaper
      /\ v.rb.leave = TRUE /\ v.rb.forget = w.rb.forget
      /\ v.rb.node = w.rb.node /\ v.rb.listener = w.rb.listener
  BY <1>1, <1>6, ArmLeaveIs, Zenon
<1> HIDE DEF v
<1>8. NodeOf(v)
  BY <1>1, <1>3, <1>7 DEF Local, NodeOf, SameLife, Opened, HoldsStores
<1>9. ListenerOf(v) /\ RoleOf(role, v)
  BY <1>1, <1>2, <1>6, <1>7 DEF Local, ListenerOf, RoleOf
<1>10. Local(role, v)
  BY <1>1, <1>7, <1>8, <1>9, BuildKeeps, Zenon
<1>11. /\ Arms(role, v) /\ ~Established(role, v) /\ HoldsStores(v)
       /\ Unowed(w) => Unowed(v)
  BY <1>1, <1>2, <1>3, <1>6, <1>7, Zenon DEF Arms, Established, HoldsStores, Unowed
<1>12. Told(a, Carried("host", a), v)
  BY <1>3, <1>7, <1>10, <1>11 DEF Told, w
<1> QED
  BY <1>1, <1>4, <1>5, <1>12, RequestKeeps DEF w

(* The workspace is listed; a host is established with that.               *)
LEMMA RegisterAttachmentKeeps ==
  ASSUME Inv, NEW a \in Attempts, RegisterAttachment(a) PROVE Inv'
<1> DEFINE w == ws[a]
           v == Goto(w, "scan")
           u == ArmForget(w, "sync")
<1>1. /\ w \in Handle /\ Local(role, w) /\ role \in {"host", "joiner"} /\ budget \in ScenarioType
      /\ dir \in [docId : BOOLEAN, files : BOOLEAN] /\ w.con = "attach" /\ dir' = dir
  BY HandleIs DEF RegisterAttachment
<1>2. w.con \in Opened /\ NodeOf(w) /\ w.con \in Steps
  BY <1>1 DEF Local, Opened, Steps
<1>3. HoldsStores(w) /\ w.rb.node /\ w.node = "open"
  BY <1>2, OpenedHolds
<1> DEFINE e == Carried("list", a)
<1>4. /\ Fine(role, w, Fail(w)) /\ Fine(role, w, [Fail(w) EXCEPT !.excused = TRUE])
      /\ [Fail(w) EXCEPT !.excused = TRUE].excused = TRUE
      /\ Owed(role, "list") /\ Effect(a, e)
      /\ daemon.session # Nobody => e.session # Nobody /\ e.listed = a
  <2>1. Owed(role, "list")
    BY DEF Owed
  <2>2. daemon \in DaemonRec
    BY HandleIs
  <2> QED
    BY <1>1, <1>3, <2>1, <2>2, RequestFails, EffectIs, ListedIs
<1> HIDE DEF e
<1>5. CASE daemon.session = Nobody
  <2>1. Set(a, Fail(w)) /\ UNCHANGED <<role, daemon, budget>>
    BY <1>5 DEF RegisterAttachment
  <2> QED
    BY <1>1, <1>4, <2>1, FineKeeps DEF w
<1>6. CASE daemon.session # Nobody /\ role = "host"
  <2>1. Request(a, "list", v, Fail(w))
    BY <1>6 DEF RegisterAttachment
  <2>2. "scan" \in Con /\ "scan" \in Steps
    BY DEF Con, Steps, Building
  <2> HIDE DEF w
  <2>3. /\ v \in Handle /\ SameLife(w, v) /\ v.con = "scan" /\ v.rb = w.rb /\ v.node = w.node
        /\ v.listener = w.listener /\ v.excused = w.excused /\ v.reaper = w.reaper
    BY <1>1, <2>2, GotoIs
  <2> HIDE DEF v
  <2>4. NodeOf(v)
    BY <1>1, <1>3, <2>3 DEF Local, NodeOf, SameLife, Opened, HoldsStores
  <2>5. ListenerOf(v) /\ RoleOf(role, v) /\ w.rb.leave
    BY <1>1, <1>2, <1>6, <2>2, <2>3 DEF Local, ListenerOf, RoleOf
  <2>6. Local(role, v)
    BY <1>1, <2>3, <2>4, <2>5, BuildKeeps
  <2>7. Arms(role, v) /\ HoldsStores(v) /\ (Unowed(w) => Unowed(v))
    BY <1>1, <1>3, <1>6, <2>2, <2>3, <2>5 DEF Arms, HoldsStores, Unowed
  <2>8. Told(a, e, v)
    BY <1>3, <1>4, <1>6, <2>3, <2>6, <2>7, Zenon DEF Told, w
  <2> QED
    BY <1>1, <1>4, <2>1, <2>8, RequestKeeps DEF w, e
<1>7. CASE daemon.session # Nobody /\ role = "joiner"
  <2>1. Request(a, "list", u, Fail(w))
    BY <1>7 DEF RegisterAttachment, ArmForget
  <2>2. "sync" \in Con /\ "sync" \in Steps
    BY DEF Con, Steps, Building
  <2> HIDE DEF w
  <2>3. /\ u \in Handle /\ SameLife(w, u) /\ u.con = "sync" /\ u.node = w.node
        /\ u.listener = w.listener /\ u.excused = w.excused /\ u.reaper = w.reaper
        /\ u.rb.forget = TRUE /\ u.rb.leave = w.rb.leave
        /\ u.rb.node = w.rb.node /\ u.rb.listener = w.rb.listener
    BY <1>1, <2>2, ArmForgetIs, Zenon
  <2> HIDE DEF u
  <2>4. NodeOf(u)
    BY <1>1, <1>3, <2>3 DEF Local, NodeOf, SameLife, Opened, HoldsStores
  <2>5. ListenerOf(u) /\ RoleOf(role, u)
    BY <1>1, <1>2, <1>7, <2>2, <2>3 DEF Local, ListenerOf, RoleOf
  <2>6. Local(role, u)
    BY <1>1, <2>3, <2>4, <2>5, BuildKeeps, Zenon
  <2>7. Arms(role, u) /\ HoldsStores(u) /\ ~Established(role, u) /\ (Unowed(w) => Unowed(u))
    BY <1>1, <1>3, <1>7, <2>2, <2>3, Zenon DEF Arms, HoldsStores, Established, Unowed
  <2>8. Told(a, e, u)
    BY <1>3, <2>3, <2>6, <2>7 DEF Told, w
  <2> QED
    BY <1>1, <1>4, <2>1, <2>8, RequestKeeps DEF w, e
<1> QED
  BY <1>1, <1>5, <1>6, <1>7

(* Re-hosting the session leaves an established host established.          *)
LEMMA ConnectUpgradeKeeps ==
  ASSUME Inv, NEW a \in Attempts, ConnectUpgrade(a) PROVE Inv'
<1> DEFINE w == ws[a]
           v == Goto(w, "listen")
<1>1. /\ w \in Handle /\ Local(role, w) /\ role \in {"host", "joiner"}
      /\ dir \in [docId : BOOLEAN, files : BOOLEAN] /\ w.con = "upgrade" /\ dir' = dir
  BY HandleIs DEF ConnectUpgrade
<1>2. role = "host" /\ w.con \in Opened /\ NodeOf(w) /\ w.rb.leave
  BY <1>1 DEF Local, RoleOf, Opened
<1>3. HoldsStores(w)
  BY <1>2, OpenedHolds
<1>4. /\ Fine(role, w, Fail(w)) /\ Fine(role, w, [Fail(w) EXCEPT !.excused = TRUE])
      /\ [Fail(w) EXCEPT !.excused = TRUE].excused = TRUE
      /\ Owed(role, "host") /\ Effect(a, Carried("host", a))
      /\ Carried("host", a).session # Nobody /\ Carried("host", a).listed = daemon.listed
  <2>1. Owed(role, "host")
    BY <1>2 DEF Owed
  <2>2. daemon \in DaemonRec
    BY HandleIs
  <2>3. Carried("host", a).session # Nobody /\ Carried("host", a).listed = daemon.listed
    BY <2>1, <2>2, CarriedIs
  <2> QED
    BY <1>1, <1>2, <1>3, <2>1, <2>3, RequestFails, EffectIs
<1>5. Request(a, "host", v, Fail(w))
  BY DEF ConnectUpgrade
<1>6. Fine(role, w, v)
  BY <1>1, GotoFine
<1>7. "listen" \in Con /\ "listen" \in Steps
  BY DEF Con, Steps, Building
<1>8. v.con = "listen" /\ v.rb = w.rb
  BY <1>1, <1>7, GotoIs
<1>9. Established(role, w)
  BY <1>1, <1>2 DEF Established
<1>10. ~daemon.left /\ a \notin daemon.crossed => daemon.listed = a
  BY <1>9 DEF Inv, Listing
<1> HIDE DEF w, v
<1>11. Arms(role, v)
  BY <1>2, <1>7, <1>8 DEF Arms
<1>12. Told(a, Carried("host", a), v)
  BY <1>4, <1>6, <1>10, <1>11 DEF Told, Fine, w
<1> QED
  BY <1>1, <1>4, <1>5, <1>12, RequestKeeps, Zenon DEF w

(* The listener runs and its replay is awaited.                            *)
LEMMA SpawnListenerFine ==
  ASSUME NEW r \in {"host", "joiner"}, NEW w \in Handle, Local(r, w), w.con = "listen"
  PROVE  Fine(r, w, [w EXCEPT !.con = "replay", !.listener = "live"])
<1> DEFINE v == [w EXCEPT !.con = "replay", !.listener = "live"]
<1>1. "replay" \in Con /\ "replay" \in Steps /\ w.con \in Steps
  BY DEF Con, Steps, Building
<1>2. v \in Handle
  BY <1>1, Zenon DEF Handle
<1>3. /\ SameLife(w, v) /\ v.con = "replay" /\ v.rb = w.rb /\ v.node = w.node
      /\ v.excused = w.excused /\ v.reaper = w.reaper
  BY DEF Handle, SameLife
<1> HIDE DEF v
<1>4. NodeOf(v)
  BY <1>3 DEF Local, NodeOf, SameLife, Opened, HoldsStores
<1>5. ListenerOf(v) /\ RoleOf(r, v)
  BY <1>3 DEF Local, ListenerOf, RoleOf
<1>6. (HoldsStores(v) => HoldsStores(w)) /\ (Established(r, v) => Established(r, w))
  BY <1>3 DEF HoldsStores, Established
<1> QED
  BY <1>1, <1>2, <1>3, <1>4, <1>5, <1>6, BuildFine, Zenon DEF v

(* The replay is applied: the guard takes the listener.                    *)
LEMMA ReplayFine ==
  ASSUME NEW r \in {"host", "joiner"}, NEW w \in Handle, Local(r, w), w.con = "replay",
         NEW s, s = IF r = "host" THEN "publish" ELSE "import"
  PROVE  Fine(r, w, ArmListener(w, s))
<1> DEFINE v == ArmListener(w, s)
<1>1. s \in Con /\ s \in Steps /\ w.con \in Steps
  BY DEF Con, Steps, Building
<1>2. /\ v \in Handle /\ SameLife(w, v) /\ v.con = s /\ v.node = w.node
      /\ v.listener = w.listener /\ v.excused = w.excused /\ v.reaper = w.reaper
      /\ v.rb.listener = TRUE /\ v.rb.leave = w.rb.leave
      /\ v.rb.node = w.rb.node /\ v.rb.forget = w.rb.forget
  BY <1>1, ArmListenerIs, ZenonT(40)
<1> HIDE DEF v
<1>3. NodeOf(v)
  BY <1>2 DEF Local, NodeOf, SameLife, Opened, HoldsStores
<1>4. ListenerOf(v) /\ RoleOf(r, v)
  BY <1>1, <1>2 DEF Local, ListenerOf, RoleOf
<1>5. (HoldsStores(v) => HoldsStores(w)) /\ (Established(r, v) => Established(r, w))
  BY <1>2 DEF HoldsStores, Established
<1> QED
  BY <1>1, <1>2, <1>3, <1>4, <1>5, BuildFine, Zenon DEF v

(* A wait that ends with a closed projection aborts the listener.          *)
LEMMA ReplayFailsFine ==
  ASSUME NEW r, NEW w \in Handle, Local(r, w), w.con = "replay"
  PROVE  Fine(r, w, Fail(AbortListener(w)))
<1> DEFINE u == AbortListener(w)
<1>1. /\ u \in Handle /\ SameLife(w, u) /\ u.listener # "live" /\ u.rb = w.rb /\ u.node = w.node
      /\ u.excused = w.excused /\ u.reaper = w.reaper
  BY AbortIs
<1> HIDE DEF u
<1>2. w.con \in Steps
  BY DEF Steps
<1>3. w.rb.node /\ u.node = "open"
  BY <1>1 DEF Local, NodeOf, Opened
<1> QED
  BY <1>1, <1>2, <1>3, FailFine, Zenon DEF u

(* A handle as it is returned: the guard is disarmed.                      *)
LEMMA UpIs ==
  ASSUME NEW w \in Handle
  PROVE  LET v == Up(w) IN
         /\ v \in Handle /\ v.con = "up" /\ v.rb = NoGuard /\ v.slot = TRUE /\ v.handle = TRUE
         /\ v.node = w.node /\ v.listener = w.listener /\ v.reaper = w.reaper
         /\ v.lock = w.lock /\ v.rot = w.rot /\ v.did = w.did /\ v.bomb = w.bomb /\ v.call = w.call
<1>1. "up" \in Con
  BY ConIs
<1>2. NoGuard \in Guard
  BY DEF NoGuard, Guard
<1>3. Up(w) \in Handle
  BY <1>1, <1>2, Zenon DEF Up, Handle
<1> HIDE DEF NoGuard
<1>4. Up(w).rb = NoGuard /\ Up(w).node = w.node /\ Up(w).listener = w.listener /\ Up(w).reaper = w.reaper
  BY Zenon DEF Up, Handle
<1> QED
  BY <1>3, <1>4 DEF Up, Handle

(* A constructor returns a handle.                                         *)
LEMMA UpFine ==
  ASSUME NEW r \in {"host", "joiner"}, NEW w \in Handle, Local(r, w),
         w.con = IF r = "host" THEN "publish" ELSE "announce"
  PROVE  Fine(r, w, Up(w))
<1> DEFINE v == Up(w)
<1>1. /\ v \in Handle /\ v.con = "up" /\ v.rb = NoGuard /\ v.slot = TRUE /\ v.handle = TRUE
      /\ v.node = w.node /\ v.listener = w.listener /\ v.reaper = w.reaper
      /\ v.lock = w.lock /\ v.rot = w.rot /\ v.did = w.did /\ v.bomb = w.bomb /\ v.call = w.call
  BY UpIs, Zenon
<1> HIDE DEF v
<1>2. ~v.rb.node /\ ~v.rb.leave /\ ~v.rb.forget
  BY <1>1 DEF NoGuard
<1>3. w.node = "open" /\ ~w.reaper
  BY Zenon DEF Local, NodeOf, Opened
<1>4. /\ \A c \in Callers : v.call[c] = "idle"
      /\ v.lock = "free" /\ v.rot = "off" /\ ~v.did /\ v.bomb = "armed"
  BY <1>1 DEF Local, LifeOf
<1>5. NodeOf(v)
  BY <1>1, <1>2, <1>3 DEF NodeOf, Opened
<1>6. ListenerOf(v) /\ RoleOf(r, v)
  BY <1>1, <1>2, Zenon DEF ListenerOf, RoleOf
<1>7. LifeOf(v)
  BY <1>1, <1>4, Zenon DEF LifeOf
<1>8. /\ Arms(r, v) /\ HoldsStores(w) /\ (Established(r, v) => Established(r, w))
      /\ Unowed(w) => Unowed(v)
  BY <1>1, <1>3 DEF Arms, HoldsStores, Established, Unowed
<1> QED
  BY <1>1, <1>5, <1>6, <1>7, <1>8 DEF Fine, Local, v

(* The listener, its replay and the last step of a constructor.            *)
LEMMA LaterMovesKeep ==
  ASSUME Inv, NEW a \in Attempts, SpawnListener(a) \/ AwaitReplay(a) \/ Publish(a) \/ Announce(a)
  PROVE  Inv'
<1>1. /\ ws[a] \in Handle /\ Local(role, ws[a]) /\ role \in {"host", "joiner"} /\ budget \in ScenarioType
      /\ dir \in [docId : BOOLEAN, files : BOOLEAN]
  BY HandleIs
<1>2. ASSUME ws[a].con \in {"listen", "publish"} PROVE Fine(role, ws[a], Fail(ws[a]))
  <2>1. ws[a].con \in Steps /\ ws[a].con \notin {"relay", "replay"}
    BY <1>2 DEF Steps
  <2> QED
    BY <1>1, <2>1, FailsFine, Zenon
<1>3. ws[a].con = "publish" => role = "host"
  BY <1>1 DEF Local, RoleOf
<1>4. ws[a].con = "announce" => role = "joiner"
  BY <1>1 DEF Local, RoleOf
<1>5. CASE SpawnListener(a)
  <2> DEFINE v == [ws[a] EXCEPT !.con = "replay", !.listener = "live"]
             f == Fail(ws[a])
  <2>1. ws[a].con = "listen" /\ dir' = dir
    BY <1>5 DEF SpawnListener
  <2>2. Fine(role, ws[a], f) /\ Fine(role, ws[a], v)
    BY <1>1, <1>2, <2>1, SpawnListenerFine, Zenon
  <2>3. LocalStep(a, IF daemon.session = Nobody THEN f ELSE v, f)
    BY <1>5 DEF SpawnListener
  <2> HIDE DEF f, v
  <2> QED
    BY <1>1, <2>1, <2>2, <2>3, LocalStepKeeps, Zenon
<1>6. CASE AwaitReplay(a)
  <2> DEFINE s == IF role = "host" THEN "publish" ELSE "import"
             v == ArmListener(ws[a], s)
             f == Fail(AbortListener(ws[a]))
  <2>1. /\ ws[a].con = "replay" /\ UNCHANGED <<role, daemon, dir, budget>>
        /\ Set(a, v) \/ Set(a, f)
    BY <1>6, Zenon DEF AwaitReplay, ArmListener
  <2>2. Fine(role, ws[a], f)
    BY <1>1, <2>1, ReplayFailsFine, Zenon
  <2>3. Fine(role, ws[a], v)
    BY <1>1, <2>1, ReplayFine, Zenon
  <2> HIDE DEF f, v
  <2> QED
    BY <1>1, <2>1, <2>2, <2>3, FineKeeps
<1>7. CASE Publish(a)
  <2> DEFINE v == Up(ws[a])
             f == Fail(ws[a])
  <2>1. ws[a].con = "publish" /\ dir' = dir /\ LocalStep(a, IF daemon.session = Nobody THEN f ELSE v, f)
    BY <1>7, Zenon DEF Publish
  <2>2. Fine(role, ws[a], f) /\ Fine(role, ws[a], v)
    BY <1>1, <1>2, <1>3, <2>1, UpFine, Zenon
  <2> HIDE DEF f, v
  <2> QED
    BY <1>1, <2>1, <2>2, LocalStepKeeps, Zenon
<1>8. CASE Announce(a)
  <2>1. ws[a].con = "announce" /\ Set(a, Up(ws[a])) /\ UNCHANGED <<role, daemon, dir, budget>>
    BY <1>8 DEF Announce
  <2>2. Fine(role, ws[a], Up(ws[a]))
    BY <1>1, <1>4, <2>1, UpFine, Zenon
  <2> QED
    BY <1>1, <2>1, <2>2, FineKeeps, Zenon
<1> QED
  BY <1>5, <1>6, <1>7, <1>8
-----------------------------------------------------------------------------
(* The rollback                                                            *)

(* One clean-up is done and the next is due.                               *)
LEMMA UndoFine ==
  ASSUME NEW r \in {"host", "joiner"}, NEW w \in Handle, Local(r, w), NEW s, NEW v \in Handle,
         <<w.con, s>> \in {<<"leave", "forget">>, <<"forget", "close">>},
         SameLife(w, v), v.con = s, v.rb = w.rb, v.node = w.node,
         v.listener = w.listener, v.reaper = w.reaper
  PROVE  /\ Local(r, v) /\ (HoldsStores(v) => HoldsStores(w)) /\ ~Established(r, v)
         /\ w.con = "leave" /\ ~w.rb.leave /\ v.excused = w.excused => Fine(r, w, v)
         /\ w.con = "forget" /\ ~w.rb.forget /\ v.excused = w.excused => Fine(r, w, v)
         /\ v.excused = TRUE => Fine(r, w, v)
<1>1. w.listener # "live"
  BY ConIs, Zenon DEF Local, ListenerOf
<1>2. NodeOf(v)
  BY DEF Local, NodeOf, SameLife, Opened, HoldsStores
<1>3. ListenerOf(v) /\ RoleOf(r, v)
  BY <1>1 DEF Local, ListenerOf, RoleOf
<1>4. Local(r, v)
  BY <1>2, <1>3, BuildKeeps
<1>5. (HoldsStores(v) => HoldsStores(w)) /\ ~Established(r, v)
  BY DEF HoldsStores, Established
<1>6. /\ w.con = "leave" /\ ~w.rb.leave /\ v.excused = w.excused => (Arms(r, w) => Arms(r, v))
      /\ w.con = "forget" /\ ~w.rb.forget /\ v.excused = w.excused => (Arms(r, w) => Arms(r, v))
      /\ v.excused = w.excused => (Unowed(w) => Unowed(v))
  BY ConIs DEF Arms, Unowed
<1>7. v.excused = TRUE => Arms(r, v) /\ Unowed(v)
  BY DEF Arms, Unowed
<1> QED
  BY <1>4, <1>5, <1>6, <1>7 DEF Fine

(* What Goto and an excuse make of a handle in the rollback.               *)
LEMMA NextIs ==
  ASSUME NEW w \in Handle, NEW s \in {"forget", "close"}
  PROVE  /\ LET v == Goto(w, s) IN
            /\ v \in Handle /\ SameLife(w, v) /\ v.con = s /\ v.rb = w.rb /\ v.node = w.node
            /\ v.listener = w.listener /\ v.reaper = w.reaper /\ v.excused = w.excused
         /\ LET v == [Goto(w, s) EXCEPT !.excused = TRUE] IN
            /\ v \in Handle /\ SameLife(w, v) /\ v.con = s /\ v.rb = w.rb /\ v.node = w.node
            /\ v.listener = w.listener /\ v.reaper = w.reaper /\ v.excused = TRUE
         /\ [[Goto(w, s) EXCEPT !.excused = TRUE] EXCEPT !.excused = TRUE]
              = [Goto(w, s) EXCEPT !.excused = TRUE]
<1> DEFINE g == Goto(w, s)
           v == [g EXCEPT !.excused = TRUE]
<1>1. s \in Con
  BY ConIs
<1>2. /\ g \in Handle /\ SameLife(w, g) /\ g.con = s /\ g.rb = w.rb /\ g.node = w.node
      /\ g.listener = w.listener /\ g.reaper = w.reaper /\ g.excused = w.excused
  BY <1>1, GotoIs
<1> HIDE DEF g
<1>3. /\ v \in Handle /\ SameLife(g, v) /\ v.excused = TRUE /\ v.con = g.con /\ v.rb = g.rb
      /\ v.node = g.node /\ v.listener = g.listener /\ v.reaper = g.reaper
  BY <1>2, ExcusedIs, Zenon
<1>4. SameLife(w, v)
  BY <1>2, <1>3 DEF SameLife
<1>5. [v EXCEPT !.excused = TRUE] = v
  BY <1>2, Zenon DEF Handle
<1> HIDE DEF v
<1> QED
  BY <1>2, <1>3, <1>4, <1>5, Zenon DEF g, v

(* LeaveSession, if armed.                                                 *)
LEMMA UndoLeaveKeeps ==
  ASSUME Inv, NEW a \in Attempts, UndoLeave(a) PROVE Inv'
<1> DEFINE w == ws[a]
           g == Goto(w, "forget")
           f == [g EXCEPT !.excused = TRUE]
           e == Carried("leave", a)
<1>1. /\ w \in Handle /\ Local(role, w) /\ role \in {"host", "joiner"} /\ budget \in ScenarioType
      /\ dir \in [docId : BOOLEAN, files : BOOLEAN] /\ w.con = "leave" /\ dir' = dir
  BY HandleIs DEF UndoLeave
<1>2. IF w.rb.leave THEN Request(a, "leave", g, f) ELSE Set(a, g) /\ UNCHANGED <<role, daemon, budget>>
  BY Zenon DEF UndoLeave
<1>3. w.rb.leave => role = "host" /\ HoldsStores(w)
  BY <1>1 DEF Local, RoleOf, NodeOf, HoldsStores
<1>4. w.rb.leave => /\ Effect(a, e) /\ e.session = Nobody /\ e.listed = Nobody
                    /\ Owed(role, "leave")
  <2>1. daemon \in DaemonRec
    BY HandleIs
  <2>2. role = "host" => Owed(role, "leave")
    BY DEF Owed
  <2> QED
    BY <1>3, <2>1, <2>2, EffectIs, DeletedIs
<1> HIDE DEF w, e
<1>5. /\ g \in Handle /\ SameLife(w, g) /\ g.con = "forget" /\ g.rb = w.rb /\ g.node = w.node
      /\ g.listener = w.listener /\ g.reaper = w.reaper /\ g.excused = w.excused
      /\ f \in Handle /\ SameLife(w, f) /\ f.con = "forget" /\ f.rb = w.rb /\ f.node = w.node
      /\ f.listener = w.listener /\ f.reaper = w.reaper /\ f.excused = TRUE
      /\ [f EXCEPT !.excused = TRUE] = f
  BY <1>1, NextIs, Zenon
<1> HIDE DEF g, f
<1>6. /\ Local(role, g) /\ (HoldsStores(g) => HoldsStores(w)) /\ ~Established(role, g)
      /\ ~w.rb.leave => Fine(role, w, g)
      /\ Unowed(w) => Unowed(g)
  BY <1>1, <1>5, UndoFine, Zenon DEF Unowed
<1>7. Fine(role, w, f)
  BY <1>1, <1>5, UndoFine, Zenon
<1>8. CASE ~w.rb.leave
  BY <1>1, <1>2, <1>6, <1>8, FineKeeps, Zenon DEF w
<1>9. CASE w.rb.leave
  <2>1. Told(a, e, g)
    BY <1>4, <1>5, <1>6, <1>9, AttemptIs, Zenon DEF Told, w
  <2> QED
    BY <1>1, <1>2, <1>4, <1>5, <1>7, <1>9, <2>1, RequestKeeps, Zenon DEF w, e
<1> QED
  BY <1>8, <1>9

(* ForgetAttachment, if armed.                                             *)
LEMMA UndoForgetKeeps ==
  ASSUME Inv, NEW a \in Attempts, UndoForget(a) PROVE Inv'
<1> DEFINE w == ws[a]
           g == Goto(w, "close")
           f == [g EXCEPT !.excused = TRUE]
           e == Carried("forget", a)
<1>1. /\ w \in Handle /\ Local(role, w) /\ role \in {"host", "joiner"} /\ budget \in ScenarioType
      /\ dir \in [docId : BOOLEAN, files : BOOLEAN] /\ w.con = "forget" /\ dir' = dir
  BY HandleIs DEF UndoForget
<1>2. IF w.rb.forget THEN Request(a, "forget", g, f) ELSE Set(a, g) /\ UNCHANGED <<role, daemon, budget>>
  BY Zenon DEF UndoForget
<1>3. w.rb.forget => role = "joiner" /\ HoldsStores(w)
  BY <1>1 DEF Local, RoleOf, NodeOf, HoldsStores
<1>4. w.rb.forget => /\ Effect(a, e) /\ e.session = daemon.session /\ e.listed = Nobody
                     /\ Owed(role, "forget")
  <2>1. daemon \in DaemonRec
    BY HandleIs
  <2>2. role = "joiner" => Owed(role, "forget")
    BY DEF Owed
  <2> QED
    BY <1>3, <2>1, <2>2, EffectIs, ForgottenIs
<1>5. role = "joiner" => daemon.session \in {Earlier, Nobody}
  BY DEF Inv, Member
<1> HIDE DEF w, e
<1>6. /\ g \in Handle /\ SameLife(w, g) /\ g.con = "close" /\ g.rb = w.rb /\ g.node = w.node
      /\ g.listener = w.listener /\ g.reaper = w.reaper /\ g.excused = w.excused
      /\ f \in Handle /\ SameLife(w, f) /\ f.con = "close" /\ f.rb = w.rb /\ f.node = w.node
      /\ f.listener = w.listener /\ f.reaper = w.reaper /\ f.excused = TRUE
      /\ [f EXCEPT !.excused = TRUE] = f
  BY <1>1, NextIs, Zenon
<1> HIDE DEF g, f
<1>7. /\ Local(role, g) /\ (HoldsStores(g) => HoldsStores(w)) /\ ~Established(role, g)
      /\ ~w.rb.forget => Fine(role, w, g)
      /\ Unowed(w) => Unowed(g)
  BY <1>1, <1>6, UndoFine, Zenon DEF Unowed
<1>8. Fine(role, w, f)
  BY <1>1, <1>6, UndoFine, Zenon
<1>9. CASE ~w.rb.forget
  BY <1>1, <1>2, <1>7, <1>9, FineKeeps, Zenon DEF w
<1>10. CASE w.rb.forget
  <2>1. Told(a, e, g)
    BY <1>3, <1>4, <1>5, <1>6, <1>7, <1>10, AttemptIs, Zenon DEF Told, w
  <2> QED
    BY <1>1, <1>2, <1>4, <1>6, <1>8, <1>10, <2>1, RequestKeeps, Zenon DEF w, e
<1> QED
  BY <1>9, <1>10

(* The router is down, or reports that it is not.                          *)
LEMMA DrainedKeeps ==
  ASSUME Inv, NEW a \in Attempts, NEW v, NEW f, Fine(role, ws[a], v), Fine(role, ws[a], f), Drained(a, v, f)
  PROVE  Inv'
<1>1. /\ dir \in [docId : BOOLEAN, files : BOOLEAN] /\ budget \in ScenarioType
      /\ UNCHANGED <<role, daemon, dir>>
  BY HandleIs DEF Drained
<1>2. budget' \in ScenarioType /\ (Set(a, v) \/ Set(a, f))
  BY <1>1, SpendIs DEF Drained
<1> QED
  BY <1>1, <1>2, FineKeeps, Zenon

(* The end of a constructor or of its node, once nothing is armed for it.  *)
LEMMA EndFine ==
  ASSUME NEW r \in {"host", "joiner"}, NEW w \in Handle, NEW v \in Handle, Local(r, w), w.con # "up",
         SameLife(w, v), v.con \in {"drain", "failed", "cancelled"},
         v.con = "drain" => v.node = "draining", v.con = "failed" => ~HoldsStores(v),
         v.reaper => v.con = "cancelled", v.rb \in {w.rb, NoGuard}, v.listener # "live",
         v.con = "cancelled" \/ (v.excused = w.excused /\ w.con \in {"close", "drain"}),
         HoldsStores(v) => HoldsStores(w)
  PROVE  Fine(r, w, v)
<1>1. ~v.slot
  BY Zenon DEF Local, NodeOf, SameLife
<1>2. NodeOf(v)
  BY <1>1 DEF Local, NodeOf, Opened, NoGuard
<1>3. ListenerOf(v) /\ RoleOf(r, v)
  BY DEF Local, ListenerOf, RoleOf, NoGuard
<1>4. Local(r, v)
  BY <1>2, <1>3, BuildKeeps, Zenon
<1>5. (Arms(r, w) => Arms(r, v)) /\ (Unowed(w) => Unowed(v))
  BY ConIs DEF Arms, Unowed
<1>6. ~Established(r, v)
  BY <1>1 DEF Established
<1> QED
  BY <1>4, <1>5, <1>6, Zenon DEF Fine

\* A rollback, and the task of a dropped guard, at the end of the node.
Ended(w, n) == [w EXCEPT !.con = "failed", !.node = n]
Reaped(w, n) == [w EXCEPT !.reaper = FALSE, !.node = n]

(* The node ends with the rollback ...                                     *)
LEMMA EndedIs ==
  ASSUME NEW w \in Handle, NEW n \in {"closed", "failed"}
  PROVE  LET v == Ended(w, n) IN
         /\ v \in Handle /\ SameLife(w, v) /\ v.con = "failed" /\ v.node = n /\ v.rb = w.rb
         /\ v.listener = w.listener /\ v.reaper = w.reaper /\ v.excused = w.excused
<1>1. "failed" \in Con
  BY ConIs
<1>2. Ended(w, n) \in Handle
  BY <1>1, Zenon DEF Ended, Handle
<1> QED
  BY <1>2 DEF Ended, Handle, SameLife

(* ... or with the task that Drop spawned.                                 *)
LEMMA ReapedIs ==
  ASSUME NEW w \in Handle, NEW n \in {"closed", "failed"}
  PROVE  LET v == Reaped(w, n) IN
         /\ v \in Handle /\ SameLife(w, v) /\ v.con = w.con /\ v.node = n /\ v.rb = w.rb
         /\ v.listener = w.listener /\ v.reaper = FALSE /\ v.excused = w.excused
<1>1. Reaped(w, n) \in Handle
  BY Zenon DEF Reaped, Handle
<1> QED
  BY <1>1, Zenon DEF Reaped, Handle, SameLife

(* The rollback closes the node, and ends.                                 *)
LEMMA UndoNodeKeeps ==
  ASSUME Inv, NEW a \in Attempts, UndoNode(a) PROVE Inv'
<1> DEFINE w == ws[a]
           u == NodeShutdown(w)
           v == Goto(u, "drain")
           f == Goto(w, "failed")
<1>1. /\ w \in Handle /\ Local(role, w) /\ role \in {"host", "joiner"} /\ budget \in ScenarioType
      /\ dir \in [docId : BOOLEAN, files : BOOLEAN] /\ w.con = "close"
      /\ UNCHANGED <<role, daemon, dir, budget>> /\ Set(a, IF w.rb.node THEN v ELSE f)
  BY HandleIs, Zenon DEF UndoNode
<1>2. /\ IF w.rb.node THEN w.node = "open" ELSE ~HoldsStores(w)
      /\ ~w.slot /\ w.slot \in BOOLEAN /\ ~w.reaper /\ w.listener # "live"
  BY <1>1, ConIs DEF Local, NodeOf, ListenerOf, Handle
<1>3. "drain" \in Con /\ "failed" \in Con
  BY ConIs
<1> HIDE DEF w
<1>4. /\ u \in Handle /\ u.node = "draining" /\ u.slot = FALSE
      /\ u.lock = w.lock /\ u.rot = w.rot /\ u.handle = w.handle
      /\ u.did = w.did /\ u.bomb = w.bomb /\ u.call = w.call
      /\ u.con = w.con /\ u.rb = w.rb /\ u.listener = w.listener
      /\ u.excused = w.excused /\ u.reaper = w.reaper
  BY <1>1, NodeShutdownIs, Zenon
<1> HIDE DEF u
<1>5. CASE w.rb.node
  <2>1. /\ v \in Handle /\ SameLife(u, v) /\ v.con = "drain" /\ v.rb = u.rb /\ v.node = u.node
        /\ v.listener = u.listener /\ v.excused = u.excused /\ v.reaper = u.reaper
    BY <1>3, <1>4, GotoIs, Zenon
  <2> HIDE DEF v
  <2>2. SameLife(w, v)
    BY <1>2, <1>4, <2>1, Zenon DEF SameLife
  <2>3. HoldsStores(w)
    BY <1>2, <1>5, Zenon DEF HoldsStores
  <2>4. Fine(role, w, v)
    BY <1>1, <1>2, <1>4, <2>1, <2>2, <2>3, EndFine, Zenon
  <2> QED
    BY <1>1, <1>5, <2>4, FineKeeps DEF w
<1>6. CASE ~w.rb.node
  <2>1. /\ f \in Handle /\ SameLife(w, f) /\ f.con = "failed" /\ f.rb = w.rb /\ f.node = w.node
        /\ f.listener = w.listener /\ f.excused = w.excused /\ f.reaper = w.reaper
    BY <1>1, <1>3, GotoIs, Zenon
  <2> HIDE DEF f
  <2>2. ~HoldsStores(f)
    BY <1>2, <1>6, <2>1, Zenon DEF HoldsStores
  <2>3. Fine(role, w, f)
    BY <1>1, <1>2, <2>1, <2>2, EndFine, Zenon
  <2> QED
    BY <1>1, <1>6, <2>3, FineKeeps DEF w
<1> QED
  BY <1>5, <1>6

(* The drained router ends a rollback, or the task of a dropped guard.     *)
LEMMA DrainsKeep ==
  ASSUME Inv, NEW a \in Attempts, UndoDrained(a) \/ Reaper(a) PROVE Inv'
<1> DEFINE w == ws[a]
           f(n) == Ended(w, n)
           g(n) == Reaped(w, n)
<1>1. w \in Handle /\ Local(role, w) /\ role \in {"host", "joiner"}
  BY HandleIs, Zenon
<1>2. w.con \in {"drain", "cancelled"} => w.listener # "live" /\ (w.con = "drain" => ~w.reaper)
  BY <1>1, ConIs, Zenon DEF Local, NodeOf, ListenerOf
<1>3. CASE UndoDrained(a)
  <2>1. w.con = "drain" /\ Drained(a, f("closed"), f("failed"))
    BY <1>3 DEF UndoDrained, Ended
  <2> HIDE DEF w
  <2>2. ASSUME NEW n \in {"closed", "failed"} PROVE Fine(role, w, f(n))
    <3> DEFINE v == f(n)
    <3>1. /\ v \in Handle /\ SameLife(w, v) /\ v.con = "failed" /\ v.node = n /\ v.rb = w.rb
          /\ v.listener = w.listener /\ v.reaper = w.reaper /\ v.excused = w.excused
      BY <1>1, EndedIs, Zenon
    <3> HIDE DEF v
    <3>2. ~HoldsStores(v)
      BY <3>1 DEF HoldsStores
    <3>3. Fine(role, w, v)
      BY <1>1, <1>2, <2>1, <3>1, <3>2, EndFine, Zenon
    <3> QED
      BY <3>3 DEF v
  <2> HIDE DEF f
  <2> QED
    BY <2>1, <2>2, DrainedKeeps DEF w
<1>4. CASE Reaper(a)
  <2>1. w.con = "cancelled" /\ Drained(a, g("closed"), g("failed"))
    BY <1>1, <1>4 DEF Reaper, Local, NodeOf, Reaped
  <2> HIDE DEF w
  <2>2. ASSUME NEW n \in {"closed", "failed"} PROVE Fine(role, w, g(n))
    <3> DEFINE v == g(n)
    <3>1. /\ v \in Handle /\ SameLife(w, v) /\ v.con = w.con /\ v.node = n /\ v.rb = w.rb
          /\ v.listener = w.listener /\ v.reaper = FALSE /\ v.excused = w.excused
      BY <1>1, ReapedIs, Zenon
    <3> HIDE DEF v
    <3>2. ~HoldsStores(v)
      BY <3>1 DEF HoldsStores
    <3>3. Fine(role, w, v)
      BY <1>1, <1>2, <2>1, <3>1, <3>2, EndFine
    <3> QED
      BY <3>3 DEF v
  <2> HIDE DEF g
  <2> QED
    BY <2>1, <2>2, DrainedKeeps DEF w
<1> QED
  BY <1>3, <1>4
-----------------------------------------------------------------------------
(* A constructor whose future is dropped                                   *)

\* The guard is gone with the future, the node as it is or left to a task.
Dropped(u, n) == [u EXCEPT !.node = n]
Spawned(u) == [NodeShutdown(u) EXCEPT !.reaper = TRUE]
Cancelled(u) == [u EXCEPT !.con = "cancelled", !.rb = NoGuard]

(* The node falls with the future ...                                      *)
LEMMA DroppedIs ==
  ASSUME NEW w \in Handle, NEW n \in {w.node, "dropped"}
  PROVE  LET v == Dropped(w, n) IN
         /\ v \in Handle /\ SameLife(w, v) /\ v.con = w.con /\ v.node = n /\ v.rb = w.rb
         /\ v.listener = w.listener /\ v.reaper = w.reaper /\ v.excused = w.excused
<1>1. Dropped(w, n) \in Handle
  BY DEF Dropped, Handle
<1> QED
  BY <1>1 DEF Dropped, Handle, SameLife

(* ... or a task drains it ...                                             *)
LEMMA SpawnedIs ==
  ASSUME NEW w \in Handle, w.slot = FALSE
  PROVE  LET v == Spawned(w) IN
         /\ v \in Handle /\ SameLife(w, v) /\ v.con = w.con /\ v.node = "draining" /\ v.rb = w.rb
         /\ v.listener = w.listener /\ v.excused = w.excused
<1> DEFINE u == NodeShutdown(w)
           v == [u EXCEPT !.reaper = TRUE]
<1>1. /\ u \in Handle /\ u.node = "draining" /\ u.slot = FALSE
      /\ u.lock = w.lock /\ u.rot = w.rot /\ u.handle = w.handle
      /\ u.did = w.did /\ u.bomb = w.bomb /\ u.call = w.call
      /\ u.con = w.con /\ u.rb = w.rb /\ u.listener = w.listener
      /\ u.excused = w.excused /\ u.reaper = w.reaper
  BY NodeShutdownIs, Zenon
<1> HIDE DEF u
<1>2. v \in Handle
  BY <1>1, Zenon DEF Handle
<1>3. /\ SameLife(u, v) /\ v.con = u.con /\ v.node = u.node /\ v.rb = u.rb
      /\ v.listener = u.listener /\ v.excused = u.excused
  BY <1>1, Zenon DEF Handle, SameLife
<1> HIDE DEF v
<1>4. SameLife(w, v)
  BY <1>1, <1>3, Zenon DEF SameLife
<1>5. Spawned(w) = v
  BY DEF Spawned, v, u
<1> QED
  BY <1>1, <1>2, <1>3, <1>4, <1>5, Zenon

(* ... and the guard is gone.                                              *)
LEMMA CancelledIs ==
  ASSUME NEW w \in Handle
  PROVE  LET v == Cancelled(w) IN
         /\ v \in Handle /\ SameLife(w, v) /\ v.con = "cancelled" /\ v.node = w.node /\ v.rb = NoGuard
         /\ v.listener = w.listener /\ v.reaper = w.reaper /\ v.excused = w.excused
<1>1. "cancelled" \in Con /\ NoGuard \in Guard
  BY ConIs DEF NoGuard, Guard
<1> HIDE DEF NoGuard
<1>2. Cancelled(w) \in Handle
  BY <1>1, Zenon DEF Cancelled, Handle
<1> QED
  BY <1>2, Zenon DEF Cancelled, Handle, SameLife

(* Drop for WorkspaceRollback: no listener is left running, and the stores *)
(* are held only if they were.                                             *)
LEMMA CancelFine ==
  ASSUME NEW r \in {"host", "joiner"}, NEW w \in Handle, Local(r, w), w.con \in Building
  PROVE  LET v == Cancelled(DropGuard(w)) IN
         Fine(r, w, v) /\ Unowed(v)
<1> DEFINE u == IF w.rb.listener \/ w.con = "replay" THEN AbortListener(w) ELSE w
           x == DropGuard(w)
           v == Cancelled(x)
<1>1. w.con \notin {"idle", "up", "failed", "cancelled"} /\ w.slot = FALSE
  BY ConIs DEF Local, NodeOf, Handle
<1>2. /\ u \in Handle /\ SameLife(w, u) /\ u.listener # "live" /\ u.con = w.con
      /\ u.rb = w.rb /\ u.node = w.node /\ u.excused = w.excused
  <2>1. w.listener = "live" => w.con = "replay" \/ w.rb.listener
    BY <1>1 DEF Local, ListenerOf
  <2>2. SameLife(w, w)
    BY DEF SameLife
  <2> QED
    BY <2>1, <2>2, AbortIs
<1> DEFINE n == IF u.node \in {"bound", "stores", "draining"} THEN "dropped" ELSE u.node
<1>3. x = IF w.rb.node /\ w.con # "drain" THEN Spawned(u) ELSE Dropped(u, n)
  BY DEF DropGuard, Spawned, Dropped
<1> HIDE DEF u, x
<1>4. u.slot = FALSE
  BY <1>1, <1>2 DEF SameLife
<1>5. w.rb.node /\ w.con # "drain" => HoldsStores(w)
  BY <1>1 DEF Local, NodeOf, HoldsStores, Building, Steps, Undoing, Opened
<1>6. /\ x \in Handle /\ SameLife(u, x) /\ x.listener = u.listener
      /\ HoldsStores(x) => HoldsStores(w)
  <2>1. CASE w.rb.node /\ w.con # "drain"
    <3>1. x = Spawned(u)
      BY <1>3, <2>1
    <3> QED
      BY <1>2, <1>4, <1>5, <2>1, <3>1, SpawnedIs, Zenon
  <2>2. CASE ~(w.rb.node /\ w.con # "drain")
    <3>1. x = Dropped(u, n) /\ n \in {u.node, "dropped"}
      BY <1>3, <2>2
    <3> HIDE DEF n
    <3>2. x \in Handle /\ SameLife(u, x) /\ x.listener = u.listener /\ x.node = n
      BY <1>2, <3>1, DroppedIs, Zenon
    <3> QED
      BY <1>2, <3>1, <3>2 DEF HoldsStores
  <2> QED
    BY <2>1, <2>2
<1>7. /\ v \in Handle /\ SameLife(x, v) /\ v.con = "cancelled" /\ v.node = x.node /\ v.rb = NoGuard
      /\ v.listener = x.listener
  BY <1>6, CancelledIs, Zenon
<1> HIDE DEF v
<1>8. SameLife(w, v)
  BY <1>2, <1>6, <1>7 DEF SameLife
<1>9. HoldsStores(v) => HoldsStores(w)
  BY <1>6, <1>7 DEF HoldsStores
<1>10. v.listener # "live" /\ w.con # "up"
  BY <1>1, <1>2, <1>6, <1>7, Zenon
<1>11. Fine(r, w, v)
  BY <1>7, <1>8, <1>9, <1>10, EndFine, Zenon
<1>12. Unowed(v)
  BY <1>7, Zenon DEF Unowed
<1> QED
  BY <1>11, <1>12, Zenon DEF v, x

(* A request in flight is one that the role of the constructor makes.      *)
LEMMA InFlightIs ==
  ASSUME Inv, NEW a \in Attempts
  PROVE  InFlight(a) \in SUBSET Requests /\ \A q \in InFlight(a) : q.by = a /\ Owed(role, q.op)
<1>1. RoleOf(role, ws[a])
  BY HandleIs, Zenon DEF Local
<1>2. ASSUME NEW q \in InFlight(a) PROVE q.by = a /\ Owed(role, q.op)
  <2>1. /\ q.by = a
        /\ q.op \in {"host"} => ws[a].con \in {"register", "upgrade"}
        /\ q.op = "leave" => ws[a].rb.leave
        /\ q.op = "forget" => ws[a].rb.forget
    BY <1>2 DEF InFlight
  <2> QED
    BY <1>1, <2>1, Zenon DEF RoleOf, Owed
<1>3. InFlight(a) \in SUBSET Requests
  BY Zenon DEF InFlight
<1> QED
  BY <1>2, <1>3, Zenon

(* The caller drops the future of a constructor.                           *)
LEMMA CancelKeeps ==
  ASSUME Inv, NEW a \in Attempts, Cancel(a) PROVE Inv'
<1> DEFINE w == ws[a]
           v == Cancelled(DropGuard(w))
<1>1. /\ w \in Handle /\ Local(role, w) /\ role \in {"host", "joiner"} /\ budget \in ScenarioType
      /\ dir \in [docId : BOOLEAN, files : BOOLEAN] /\ w.con \in Building
  BY HandleIs DEF Cancel
<1>2. /\ Spend /\ Set(a, v) /\ UNCHANGED <<role, dir>>
      /\ daemon' = [daemon EXCEPT !.late = @ \cup InFlight(a)]
  BY DEF Cancel, Cancelled
<1>3. budget' \in ScenarioType
  BY <1>1, <1>2, SpendIs
<1>4. Fine(role, w, v) /\ Unowed(v)
  BY <1>1, CancelFine, Zenon
<1> HIDE DEF v
<1> QED
  BY <1>1, <1>2, <1>3, <1>4, InFlightIs, LostKeeps, Zenon DEF w

(* The daemon comes to a request nobody waits for.                         *)
LEMMA LateRequestKeeps ==
  ASSUME Inv, NEW q \in daemon.late, LateRequest(q) PROVE Inv'
<1> DEFINE e == Carried(q.op, q.by)
<1>1. Typed /\ Locals /\ Exclusive /\ Armed /\ Member /\ Listing /\ Late
  BY DEF Inv
<1>2. /\ q.op \in {"host", "list", "leave", "forget"} /\ q.by \in Attempts
      /\ Unowed(ws[q.by]) /\ Owed(role, q.op)
  BY <1>1 DEF Typed, DaemonRec, Requests, Late
<1>3. /\ e \in DaemonRec /\ e.left = daemon.left /\ e.late = daemon.late /\ e.crossed = daemon.crossed
      /\ {e.session, e.listed} \subseteq {daemon.session, daemon.listed, q.by, Nobody}
      /\ role = "joiner" => e.session = daemon.session
      /\ q.op = "host" => e.session # Nobody /\ e.listed = daemon.listed
  BY <1>1, <1>2, CarriedIs, Zenon DEF Typed
<1>4. /\ daemon' = [e EXCEPT !.late = @ \ {q}, !.crossed = @ \cup Crossed(q)]
      /\ UNCHANGED <<role, ws, dir, budget>>
  BY DEF LateRequest
<1> HIDE DEF e
<1>5. /\ daemon' \in DaemonRec /\ daemon'.session = e.session /\ daemon'.listed = e.listed
      /\ daemon'.left = e.left /\ daemon'.late = e.late \ {q}
      /\ daemon'.crossed = e.crossed \cup Crossed(q)
  <2>1. Crossed(q) \subseteq Attempts
    BY DEF Crossed
  <2> QED
    BY <1>3, <1>4, <2>1, Zenon DEF DaemonRec
<1>6. Typed' /\ Locals' /\ Exclusive'
  BY <1>1, <1>4, <1>5, Zenon DEF Typed, Locals, Exclusive
<1>7. Armed'
  <2> SUFFICES ASSUME NEW b \in Attempts, b \in {daemon'.session, daemon'.listed}
               PROVE  Arms(role, ws[b])
    BY <1>4 DEF Armed
  <2>1. CASE b \in {daemon.session, daemon.listed}
    BY <1>1, <2>1, Zenon DEF Armed
  <2>2. CASE b = q.by
    BY <1>2, <2>2, Zenon DEF Arms, Unowed
  <2> QED
    BY <1>3, <1>5, <2>1, <2>2, AttemptIs, Zenon
<1>8. Member'
  BY <1>1, <1>3, <1>4, <1>5 DEF Member
<1>9. Listing'
  <2> SUFFICES ASSUME NEW b \in Attempts, Established(role, ws[b]), ~daemon.left, b \notin daemon'.crossed
               PROVE  daemon'.session # Nobody /\ daemon'.listed = b
    BY <1>3, <1>4, <1>5 DEF Listing
  <2>1. b \notin daemon.crossed /\ b \notin Crossed(q)
    BY <1>3, <1>5, Zenon
  <2>2. role = "host" /\ ws[b].con \in Attached
    BY DEF Established, Attached
  <2>3. q.op = "host"
    BY <1>2, <2>1, <2>2 DEF Crossed, Owed
  <2> QED
    BY <1>1, <1>3, <1>5, <2>1, <2>3 DEF Listing
<1>10. Late'
  BY <1>1, <1>3, <1>4, <1>5 DEF Late
<1> QED
  BY <1>6, <1>7, <1>8, <1>9, <1>10, Zenon DEF Inv
-----------------------------------------------------------------------------
(* The tasks of a handle                                                   *)

\* A step of a task: the constructor, its guard, the node and the calls stay as they are.
Aside(w, v) ==
  /\ v \in Handle /\ v.con = w.con /\ v.rb = w.rb /\ v.node = w.node
  /\ v.excused = w.excused /\ v.reaper = w.reaper /\ v.slot = w.slot /\ v.handle = w.handle
  /\ v.did = w.did /\ v.bomb = w.bomb /\ v.call = w.call
  /\ v.listener = "live" => w.listener = "live"

(* Such a step is fine if it keeps the lock from those that do not have it. *)
LEMMA AsideFine ==
  ASSUME NEW r, NEW w \in Handle, NEW v, Local(r, w), Aside(w, v), w.con # "idle",
         w.con # "up" => v.lock = w.lock /\ v.rot = w.rot,
         v.rot = "snapshot" => v.lock = "rotation",
         w.lock \in Callers => v.lock = w.lock
  PROVE  Fine(r, w, v)
<1>1. NodeOf(v)
  BY DEF Local, NodeOf, Aside, HoldsStores
<1>2. ListenerOf(v) /\ RoleOf(r, v)
  BY DEF Local, ListenerOf, RoleOf, Aside
<1>3. v.con # "idle" /\ v.con = w.con /\ v.slot = w.slot /\ v.handle = w.handle /\ v.node = w.node
      /\ v.did = w.did /\ v.bomb = w.bomb /\ v.call = w.call
  BY Zenon DEF Aside
<1>4. \A c \in Callers : w.call[c] = "drain" => v.lock = c
  BY DEF Local, LifeOf
<1>5. LifeOf(w)
  BY DEF Local
<1>6. LifeOf(v)
  BY <1>3, <1>4, <1>5, Zenon DEF LifeOf, Returned
<1>7. /\ HoldsStores(v) => HoldsStores(w)
      /\ Arms(r, w) => Arms(r, v)
      /\ Established(r, v) => Established(r, w)
      /\ Unowed(w) => Unowed(v)
  BY DEF Aside, HoldsStores, Arms, Established, Unowed
<1> QED
  BY <1>1, <1>2, <1>6, <1>7, Zenon DEF Fine, Local, Aside

(* A handle nobody has begun on has no task, no node and no hook.          *)
LEMMA BegunIs ==
  ASSUME NEW r, NEW w, Local(r, w),
         \/ w.listener # "none" \/ w.hooks # 0 \/ w.docTasks # 0 \/ w.oldTasks # 0
         \/ w.node # "none" \/ w.rot # "off"
  PROVE  w.con # "idle" /\ (w.rot # "off" => w.con = "up")
BY DEF Local, LifeOf, Fresh

\* The updates of the tasks
Gated(w, s) == [w EXCEPT !.gate = s]
Silenced(w) == [CloseGate(w) EXCEPT !.listener = "over"]
Hooked(w, n) == [w EXCEPT !.hooks = n]
Tasked(w, n) == [w EXCEPT !.docTasks = n]
Aged(w, n) == [w EXCEPT !.oldTasks = n]
Rotated(w, s) == [w EXCEPT !.rot = s]
Locked(w, s, l) == [w EXCEPT !.rot = s, !.lock = l]
Reimported(w) == [w EXCEPT !.rot = "respawn", !.docToken = w.token,
                           !.docTasks = 0, !.oldTasks = w.oldTasks + w.docTasks]

Rots == {"off", "idle", "wait", "lock", "snapshot", "import", "respawn", "over"}

(* The projection opens or closes.                                         *)
LEMMA GatedIs ==
  ASSUME NEW w \in Handle, NEW s \in {"ready", "replaying"}
  PROVE  LET v == Gated(w, s) IN Aside(w, v) /\ v.lock = w.lock /\ v.rot = w.rot
<1>1. Gated(w, s) \in Handle
  BY DEF Gated, Handle
<1> QED
  BY <1>1 DEF Gated, Handle, Aside

(* The listener stops and the projection closes.                           *)
LEMMA SilencedIs ==
  ASSUME NEW w \in Handle
  PROVE  LET v == Silenced(w) IN Aside(w, v) /\ v.lock = w.lock /\ v.rot = w.rot
<1> DEFINE u == CloseGate(w)
           v == [u EXCEPT !.listener = "over"]
<1>1. /\ u \in Handle /\ SameLife(w, u) /\ u.con = w.con /\ u.rb = w.rb /\ u.node = w.node
      /\ u.excused = w.excused /\ u.reaper = w.reaper
  BY CloseGateIs, Zenon
<1> HIDE DEF u
<1>2. v \in Handle
  BY <1>1 DEF Handle
<1>3. /\ SameLife(u, v) /\ v.con = u.con /\ v.rb = u.rb /\ v.node = u.node
      /\ v.excused = u.excused /\ v.reaper = u.reaper /\ v.listener = "over"
  BY <1>1 DEF Handle, SameLife
<1> HIDE DEF v
<1>4. Aside(w, v) /\ v.lock = w.lock /\ v.rot = w.rot
  BY <1>1, <1>2, <1>3, Zenon DEF SameLife, Aside
<1> QED
  BY <1>4, Zenon DEF Silenced, v, u

(* A hook waits or returns, a task starts or stops.                        *)
LEMMA CountsAre ==
  ASSUME NEW w \in Handle, NEW n \in Nat, NEW k \in 0 .. 1
  PROVE  /\ Aside(w, Hooked(w, n)) /\ Hooked(w, n).lock = w.lock /\ Hooked(w, n).rot = w.rot
         /\ Aside(w, Tasked(w, k)) /\ Tasked(w, k).lock = w.lock /\ Tasked(w, k).rot = w.rot
         /\ Aside(w, Aged(w, n)) /\ Aged(w, n).lock = w.lock /\ Aged(w, n).rot = w.rot
<1>1. Hooked(w, n) \in Handle
  BY DEF Hooked, Handle
<1>2. Tasked(w, k) \in Handle
  BY DEF Tasked, Handle
<1>3. Aged(w, n) \in Handle
  BY DEF Aged, Handle
<1>4. Aside(w, Hooked(w, n)) /\ Hooked(w, n).lock = w.lock /\ Hooked(w, n).rot = w.rot
  BY <1>1 DEF Hooked, Handle, Aside
<1>5. Aside(w, Tasked(w, k)) /\ Tasked(w, k).lock = w.lock /\ Tasked(w, k).rot = w.rot
  BY <1>2 DEF Tasked, Handle, Aside
<1>6. Aside(w, Aged(w, n)) /\ Aged(w, n).lock = w.lock /\ Aged(w, n).rot = w.rot
  BY <1>3 DEF Aged, Handle, Aside
<1> QED
  BY <1>4, <1>5, <1>6

(* The rotation task moves, with the lock or without it.                   *)
LEMMA RotatedIs ==
  ASSUME NEW w \in Handle, NEW s \in Rots
  PROVE  LET v == Rotated(w, s) IN Aside(w, v) /\ v.lock = w.lock /\ v.rot = s
<1>1. Rotated(w, s) \in Handle
  BY DEF Rotated, Handle, Rots
<1> QED
  BY <1>1 DEF Rotated, Handle, Aside

(* It takes the lock or lets it go.                                        *)
LEMMA LockedIs ==
  ASSUME NEW w \in Handle, NEW s \in Rots, NEW l \in {"free", "rotation"}
  PROVE  LET v == Locked(w, s, l) IN Aside(w, v) /\ v.lock = l /\ v.rot = s
<1>1. l \in {"free", "rotation"} \cup Callers /\ Rots = {"off", "idle", "wait", "lock", "snapshot", "import", "respawn", "over"}
  BY DEF Rots
<1>2. Locked(w, s, l) \in Handle
  BY <1>1, Zenon DEF Locked, Handle
<1> QED
  BY <1>2 DEF Locked, Handle, Aside

(* A rotation replaces the doc token and the tasks.                        *)
LEMMA ReimportedIs ==
  ASSUME NEW w \in Handle
  PROVE  LET v == Reimported(w) IN Aside(w, v) /\ v.lock = w.lock /\ v.rot = "respawn"
<1>1. w.token \in BOOLEAN /\ w.oldTasks + w.docTasks \in Nat /\ 0 \in 0 .. 1
  BY DEF Handle
<1>2. Reimported(w) \in Handle
  BY <1>1, Zenon DEF Reimported, Handle
<1> QED
  BY <1>2 DEF Reimported, Handle, Aside

(* A step of a task leaves the lock and the rotation alone ...             *)
LEMMA QuietKeeps ==
  ASSUME Inv, NEW a \in Attempts, NEW v, Aside(ws[a], v), v.lock = ws[a].lock, v.rot = ws[a].rot,
         ws[a].con # "idle", Set(a, v), UNCHANGED <<role, daemon, dir>>, budget' \in ScenarioType
  PROVE  Inv'
<1>1. ws[a] \in Handle /\ Local(role, ws[a]) /\ dir \in [docId : BOOLEAN, files : BOOLEAN]
  BY HandleIs, Zenon
<1>2. v.rot = "snapshot" => v.lock = "rotation"
  BY <1>1 DEF Local, LifeOf
<1>3. Fine(role, ws[a], v)
  BY <1>1, <1>2, AsideFine, Zenon
<1> QED
  BY <1>1, <1>3, FineKeeps, Zenon

(* ... or is one of the rotation task, which holds the lock in one step.   *)
LEMMA RotationKeeps ==
  ASSUME Inv, NEW a \in Attempts, NEW v, Aside(ws[a], v), ws[a].con = "up",
         v.rot = "snapshot" => v.lock = "rotation", ws[a].lock \in Callers => v.lock = ws[a].lock,
         Set(a, v), UNCHANGED <<role, daemon, dir>>, budget' \in ScenarioType
  PROVE  Inv'
<1>1. ws[a] \in Handle /\ Local(role, ws[a]) /\ dir \in [docId : BOOLEAN, files : BOOLEAN]
  BY HandleIs
<1>2. Fine(role, ws[a], v)
  BY <1>1, AsideFine, Zenon
<1> QED
  BY <1>1, <1>2, FineKeeps, Zenon

(* The listener and its troubles.                                          *)
LEMMA ListenersKeep ==
  ASSUME Inv, NEW a \in Attempts, ListenerStep(a) \/ ListenerTrouble(a) PROVE Inv'
<1> DEFINE w == ws[a]
<1>1. w \in Handle /\ Local(role, w) /\ budget \in ScenarioType
  BY HandleIs
<1>2. w.listener # "none" /\ UNCHANGED <<role, daemon, dir>>
  BY DEF ListenerStep, ListenerTrouble
<1>3. w.con # "idle"
  BY <1>1, <1>2, BegunIs
<1>4. budget' \in ScenarioType
  BY <1>1, SpendIs DEF ListenerStep, ListenerTrouble
<1>5. Set(a, Gated(w, "ready")) \/ Set(a, Gated(w, "replaying")) \/ Set(a, Silenced(w))
  BY Zenon DEF ListenerStep, ListenerTrouble, Gated, Silenced
<1>6. ASSUME NEW s \in {"ready", "replaying"}, Set(a, Gated(w, s)) PROVE Inv'
  <2>1. Aside(w, Gated(w, s)) /\ Gated(w, s).lock = w.lock /\ Gated(w, s).rot = w.rot
    BY <1>1, GatedIs, Zenon
  <2> QED
    BY <1>2, <1>3, <1>4, <1>6, <2>1, QuietKeeps, Zenon
<1>7. CASE Set(a, Silenced(w))
  <2>1. Aside(w, Silenced(w)) /\ Silenced(w).lock = w.lock /\ Silenced(w).rot = w.rot
    BY <1>1, SilencedIs, Zenon
  <2> QED
    BY <1>2, <1>3, <1>4, <1>7, <2>1, QuietKeeps, Zenon
<1> QED
  BY <1>5, <1>6, <1>7

(* The hooks of peer connections.                                          *)
LEMMA HooksKeep ==
  ASSUME Inv, NEW a \in Attempts, Connect(a) \/ HookReturns(a) PROVE Inv'
<1> DEFINE w == ws[a]
<1>1. w \in Handle /\ Local(role, w) /\ budget \in ScenarioType /\ w.hooks \in Nat
  BY HandleIs DEF Handle
<1>2. UNCHANGED <<role, daemon, dir>> /\ (w.hooks # 0 \/ w.node # "none")
  BY <1>1 DEF Connect, HookReturns
<1>3. w.con # "idle"
  BY <1>1, <1>2, BegunIs
<1>4. budget' \in ScenarioType
  BY <1>1 DEF Connect, HookReturns, ScenarioType
<1>5. PICK n \in Nat : Set(a, Hooked(w, n))
  <2>1. CASE Connect(a)
    <3>1. Set(a, Hooked(w, w.hooks + 1))
      BY <2>1 DEF Connect, Hooked
    <3> QED
      BY <1>1, <3>1
  <2>2. CASE HookReturns(a)
    <3>1. Set(a, Hooked(w, w.hooks - 1)) /\ w.hooks - 1 \in Nat
      BY <1>1, <2>2 DEF HookReturns, Hooked
    <3> QED
      BY <3>1
  <2> QED
    BY <2>1, <2>2, Zenon
<1>6. Aside(w, Hooked(w, n)) /\ Hooked(w, n).lock = w.lock /\ Hooked(w, n).rot = w.rot
  <2>1. 0 \in 0 .. 1
    OBVIOUS
  <2> QED
    BY <1>1, <2>1, CountsAre, Zenon
<1> QED
  BY <1>2, <1>3, <1>4, <1>5, <1>6, QuietKeeps, Zenon

(* The watcher and the applier.                                            *)
LEMMA DocTaskStopsKeeps ==
  ASSUME Inv, NEW a \in Attempts, DocTaskStops(a) PROVE Inv'
<1> DEFINE w == ws[a]
<1>1. w \in Handle /\ Local(role, w) /\ budget \in ScenarioType /\ w.oldTasks \in Nat
  BY HandleIs DEF Handle
<1>2. UNCHANGED <<role, daemon, dir, budget>> /\ (w.docTasks # 0 \/ w.oldTasks # 0)
  BY <1>1 DEF DocTaskStops
<1>3. w.con # "idle"
  BY <1>1, <1>2, BegunIs, Zenon
<1>4. CASE Set(a, Tasked(w, 0))
  <2>1. Aside(w, Tasked(w, 0)) /\ Tasked(w, 0).lock = w.lock /\ Tasked(w, 0).rot = w.rot
    BY <1>1, CountsAre
  <2> QED
    BY <1>1, <1>2, <1>3, <1>4, <2>1, QuietKeeps, Zenon
<1>5. CASE w.oldTasks > 0 /\ Set(a, Aged(w, w.oldTasks - 1))
  <2>1. w.oldTasks - 1 \in Nat /\ 0 \in 0 .. 1
    BY <1>1, <1>5
  <2>2. LET n == w.oldTasks - 1 IN
        Aside(w, Aged(w, n)) /\ Aged(w, n).lock = w.lock /\ Aged(w, n).rot = w.rot
    BY <1>1, <2>1, CountsAre, Zenon
  <2> QED
    BY <1>1, <1>2, <1>3, <1>5, <2>2, QuietKeeps, Zenon
<1>6. Set(a, Tasked(w, 0)) \/ (w.oldTasks > 0 /\ Set(a, Aged(w, w.oldTasks - 1)))
  BY DEF DocTaskStops, Tasked, Aged
<1> QED
  BY <1>4, <1>5, <1>6, Zenon

(* The rotation task starts with the doc tasks, and starts them again.     *)
LEMMA RespawnedIs ==
  ASSUME NEW w \in Handle
  PROVE  LET v == Rotated(Tasked(w, 1), "idle") IN Aside(w, v) /\ v.lock = w.lock /\ v.rot = "idle"
<1> DEFINE u == Tasked(w, 1)
           v == Rotated(u, "idle")
<1>1. Aside(w, u) /\ u.lock = w.lock /\ u \in Handle
  BY CountsAre DEF Aside
<1> HIDE DEF u
<1>2. Aside(u, v) /\ v.lock = u.lock /\ v.rot = "idle"
  BY <1>1, RotatedIs, Zenon DEF Rots
<1> HIDE DEF v
<1>3. Aside(w, v)
  BY <1>1, <1>2, Zenon DEF Aside
<1> QED
  BY <1>1, <1>2, <1>3, Zenon DEF v, u

(* A step of the rotation task without the lock.                           *)
LEMMA RotatedKeeps ==
  ASSUME Inv, NEW a \in Attempts, NEW s \in Rots \ {"snapshot"}, ws[a].rot # "off",
         Set(a, Rotated(ws[a], s)), UNCHANGED <<role, daemon, dir>>, budget' \in ScenarioType
  PROVE  Inv'
<1> DEFINE w == ws[a]
           v == Rotated(w, s)
<1>1. w \in Handle /\ Local(role, w)
  BY HandleIs, Zenon
<1>2. w.con = "up"
  BY <1>1, BegunIs
<1>3. Aside(w, v) /\ v.lock = w.lock /\ v.rot = s
  BY <1>1, RotatedIs, Zenon
<1> HIDE DEF v
<1>4. Set(a, v)
  BY DEF v
<1> QED
  BY <1>2, <1>3, <1>4, RotationKeeps, Zenon

(* The start of the tasks, and a signal.                                   *)
LEMMA RunsKeep ==
  ASSUME Inv, NEW a \in Attempts, Run(a) \/ RotationSignal(a) \/ RotationRespawns(a) PROVE Inv'
<1> DEFINE w == ws[a]
           v == Rotated(Tasked(w, 1), "idle")
<1>1. w \in Handle /\ Local(role, w) /\ budget \in ScenarioType
  BY HandleIs, Zenon
<1>2. CASE Run(a) \/ RotationRespawns(a)
  <2>1. UNCHANGED <<role, daemon, dir, budget>> /\ Set(a, v)
    BY <1>2 DEF Run, RotationRespawns, SpawnDocTasks, Rotated, Tasked
  <2>2. w.con = "up"
    BY <1>1, <1>2, BegunIs DEF Run, RotationRespawns
  <2>3. Aside(w, v) /\ v.lock = w.lock /\ v.rot = "idle"
    BY <1>1, RespawnedIs, Zenon
  <2> HIDE DEF v
  <2> QED
    BY <1>1, <2>1, <2>2, <2>3, RotationKeeps, Zenon
<1>3. CASE RotationSignal(a)
  <2>1. UNCHANGED <<role, daemon, dir>> /\ w.rot # "off" /\ budget' \in ScenarioType
    BY <1>1, <1>3 DEF RotationSignal, ScenarioType
  <2>2. \E s \in {"import", "wait", "idle"} : Set(a, Rotated(w, s))
    BY <1>3 DEF RotationSignal, Rotated
  <2>3. {"import", "wait", "idle"} \subseteq Rots \ {"snapshot"}
    BY DEF Rots
  <2> QED
    BY <2>1, <2>2, <2>3, RotatedKeeps, Zenon
<1> QED
  BY <1>2, <1>3

(* The rotation takes the lock only when it is free, and gives it back.    *)
LEMMA RotateKeeps ==
  ASSUME Inv, NEW a \in Attempts, Rotate(a) PROVE Inv'
<1> DEFINE w == ws[a]
<1>1. w \in Handle /\ Local(role, w) /\ budget \in ScenarioType
  BY HandleIs
<1>2. UNCHANGED <<role, daemon, dir, budget>> /\ w.rot # "off"
  BY DEF Rotate, RotationWaits, RotationLocks, RotationSnapshot, RotationImports,
         RotationRespawns, RotationStops
<1>3. w.con = "up"
  BY <1>1, <1>2, BegunIs, Zenon
<1>4. ASSUME NEW s \in {"lock", "idle", "over"}, Set(a, Rotated(w, s)) PROVE Inv'
  <2>1. s \in Rots \ {"snapshot"}
    BY DEF Rots
  <2> QED
    BY <1>1, <1>2, <1>4, <2>1, RotatedKeeps, Zenon
<1>5. CASE RotationWaits(a)
  <2>1. Set(a, Rotated(w, "lock")) \/ Set(a, Rotated(w, "idle"))
    BY <1>5 DEF RotationWaits, Rotated
  <2> QED
    BY <1>4, <2>1
<1>6. CASE RotationLocks(a)
  <2>1. w.lock = "free" /\ (Set(a, Locked(w, "snapshot", "rotation")) \/ Set(a, Rotated(w, "idle")))
    BY <1>6 DEF RotationLocks, Rotated, Locked
  <2> DEFINE v == Locked(w, "snapshot", "rotation")
  <2>2. Aside(w, v) /\ v.lock = "rotation"
    BY <1>1, LockedIs, Zenon DEF Rots
  <2>3. w.lock \notin Callers
    BY <2>1, WorkspaceAssumption, Zenon
  <2>4. CASE Set(a, v)
    <3> HIDE DEF v
    <3> QED
      BY <1>1, <1>2, <1>3, <2>2, <2>3, <2>4, RotationKeeps, Zenon
  <2> QED
    BY <1>4, <2>1, <2>4
<1>7. CASE RotationSnapshot(a)
  <2>1. PICK s \in {"import", "idle"} : Set(a, Locked(w, s, "free"))
    BY <1>7 DEF RotationSnapshot, Locked
  <2> DEFINE v == Locked(w, s, "free")
  <2>2. Aside(w, v) /\ v.rot # "snapshot"
    BY <1>1, LockedIs DEF Rots
  <2>3. w.lock \notin Callers
    BY <1>1, <1>7, WorkspaceAssumption, Zenon DEF RotationSnapshot, Local, LifeOf
  <2>4. Set(a, v)
    BY <2>1
  <2> HIDE DEF v
  <2> QED
    BY <1>1, <1>2, <1>3, <2>2, <2>3, <2>4, RotationKeeps, Zenon
<1>8. CASE RotationImports(a)
  <2>1. Set(a, Reimported(w)) \/ Set(a, Rotated(w, "idle"))
    BY <1>8 DEF RotationImports, Rotated, Reimported
  <2> DEFINE v == Reimported(w)
  <2>2. Aside(w, v) /\ v.lock = w.lock /\ v.rot = "respawn"
    BY <1>1, ReimportedIs, Zenon
  <2>3. CASE Set(a, v)
    <3> HIDE DEF v
    <3> QED
      BY <1>1, <1>2, <1>3, <2>2, <2>3, RotationKeeps, Zenon
  <2> QED
    BY <1>4, <2>1, <2>3
<1>9. CASE RotationRespawns(a)
  BY <1>9, RunsKeep
<1>10. CASE RotationStops(a)
  <2>1. Set(a, Rotated(w, "over"))
    BY <1>10 DEF RotationStops, Rotated
  <2> QED
    BY <1>4, <2>1
<1> QED
  BY <1>5, <1>6, <1>7, <1>8, <1>9, <1>10, Zenon DEF Rotate
-----------------------------------------------------------------------------
(* Shutdown and Drop                                                       *)

\* The states of a shutdown call
CallStates == {"idle", "lock", "drain", "ok", "err", "cancelled"}

\* One call moves to s.
Moves(w, v, c, s) ==
  /\ v \in Handle /\ v.call = [w.call EXCEPT ![c] = s]
  /\ v.con = w.con /\ v.rb = w.rb /\ v.reaper = w.reaper /\ v.rot = w.rot
  /\ v.handle = w.handle /\ v.bomb = w.bomb

\* The updates of shutdown
Called(w, c) == [w EXCEPT !.token = TRUE, !.docToken = TRUE, !.call[c] = "lock"]
Answered(w, c, s) == [w EXCEPT !.call[c] = s]
Taken(w, c) == [NodeShutdown(w) EXCEPT !.call[c] = "drain", !.lock = c]
Closed(w, c) == [[w EXCEPT !.lock = "free"] EXCEPT !.call[c] = "ok", !.node = "closed", !.did = TRUE]
Broken(w, c) == [[w EXCEPT !.lock = "free"] EXCEPT !.call[c] = "err", !.node = "failed"]
Abandoned(w, c) == [w EXCEPT !.call[c] = "cancelled", !.lock = "free", !.node = "dropped"]

(* A call asks for the lock.                                               *)
LEMMA CalledIs ==
  ASSUME NEW w \in Handle, NEW c \in Callers
  PROVE  LET v == Called(w, c) IN
         Moves(w, v, c, "lock") /\ v.slot = w.slot /\ v.lock = w.lock /\ v.node = w.node /\ v.did = w.did
<1> DEFINE C == [w.call EXCEPT ![c] = "lock"]
           v == [w EXCEPT !.token = TRUE, !.docToken = TRUE, !.call = C]
<1>1. Called(w, c) = v
  BY DEF Called, Handle
<1>2. C \in [Callers -> {"idle", "lock", "drain", "ok", "err", "cancelled"}]
  BY DEF Handle
<1> HIDE DEF C
<1>3. v \in Handle
  BY <1>2, Zenon DEF Handle
<1>4. /\ v.call = C /\ v.con = w.con /\ v.rb = w.rb /\ v.reaper = w.reaper /\ v.rot = w.rot
      /\ v.handle = w.handle /\ v.bomb = w.bomb
      /\ v.slot = w.slot /\ v.lock = w.lock /\ v.node = w.node /\ v.did = w.did
  BY DEF Handle
<1> HIDE DEF v
<1> QED
  BY <1>1, <1>3, <1>4, Zenon DEF Moves, C

(* A call returns, with nothing to do or dropped before the lock.          *)
LEMMA AnsweredIs ==
  ASSUME NEW w \in Handle, NEW c \in Callers, NEW s \in CallStates
  PROVE  LET v == Answered(w, c, s) IN
         Moves(w, v, c, s) /\ v.slot = w.slot /\ v.lock = w.lock /\ v.node = w.node /\ v.did = w.did
<1> DEFINE C == [w.call EXCEPT ![c] = s]
           v == [w EXCEPT !.call = C]
<1>1. Answered(w, c, s) = v
  BY DEF Answered, Handle
<1>2. C \in [Callers -> {"idle", "lock", "drain", "ok", "err", "cancelled"}]
  BY DEF Handle, CallStates
<1> HIDE DEF C
<1>3. v \in Handle
  BY <1>2, Zenon DEF Handle
<1>4. /\ v.call = C /\ v.con = w.con /\ v.rb = w.rb /\ v.reaper = w.reaper /\ v.rot = w.rot
      /\ v.handle = w.handle /\ v.bomb = w.bomb
      /\ v.slot = w.slot /\ v.lock = w.lock /\ v.node = w.node /\ v.did = w.did
  BY DEF Handle
<1> HIDE DEF v
<1> QED
  BY <1>1, <1>3, <1>4, Zenon DEF Moves, C

(* A call takes the node, with the lock.                                   *)
LEMMA TakenIs ==
  ASSUME NEW w \in Handle, NEW c \in Callers
  PROVE  LET v == Taken(w, c) IN
         /\ Moves(w, v, c, "drain") /\ v.slot = FALSE /\ v.lock = c
         /\ v.node = "draining" /\ v.did = w.did
<1> DEFINE u == NodeShutdown(w)
           C == [w.call EXCEPT ![c] = "drain"]
           v == [u EXCEPT !.call = C, !.lock = c]
<1>1. /\ u \in Handle /\ u.node = "draining" /\ u.slot = FALSE
      /\ u.lock = w.lock /\ u.rot = w.rot /\ u.handle = w.handle
      /\ u.did = w.did /\ u.bomb = w.bomb /\ u.call = w.call
      /\ u.con = w.con /\ u.rb = w.rb /\ u.listener = w.listener
      /\ u.excused = w.excused /\ u.reaper = w.reaper
  BY NodeShutdownIs, Zenon
<1> HIDE DEF u
<1>2. Taken(w, c) = v
  BY <1>1 DEF Taken, Handle, u
<1>3. C \in [Callers -> {"idle", "lock", "drain", "ok", "err", "cancelled"}]
  BY DEF Handle
<1> HIDE DEF C
<1>4. v \in Handle
  BY <1>1, <1>3, Zenon DEF Handle
<1>5. /\ v.call = C /\ v.con = u.con /\ v.rb = u.rb /\ v.reaper = u.reaper /\ v.rot = u.rot
      /\ v.handle = u.handle /\ v.bomb = u.bomb
      /\ v.slot = u.slot /\ v.lock = c /\ v.node = u.node /\ v.did = u.did
  BY <1>1 DEF Handle
<1> HIDE DEF v
<1> QED
  BY <1>1, <1>2, <1>4, <1>5, Zenon DEF Moves, C

(* The router is down: the endpoint is closed ...                          *)
LEMMA ClosedIs ==
  ASSUME NEW w \in Handle, NEW c \in Callers
  PROVE  LET v == Closed(w, c) IN
         /\ Moves(w, v, c, "ok") /\ v.slot = w.slot /\ v.lock = "free"
         /\ v.node = "closed" /\ v.did = TRUE
<1> DEFINE C == [w.call EXCEPT ![c] = "ok"]
           v == [w EXCEPT !.lock = "free", !.call = C, !.node = "closed", !.did = TRUE]
<1>1. Closed(w, c) = v
  BY DEF Closed, Handle
<1>2. C \in [Callers -> {"idle", "lock", "drain", "ok", "err", "cancelled"}]
  BY DEF Handle
<1> HIDE DEF C
<1>3. v \in Handle
  BY <1>2, Zenon DEF Handle
<1>4. /\ v.call = C /\ v.con = w.con /\ v.rb = w.rb /\ v.reaper = w.reaper /\ v.rot = w.rot
      /\ v.handle = w.handle /\ v.bomb = w.bomb
      /\ v.slot = w.slot /\ v.lock = "free" /\ v.node = "closed"
  BY DEF Handle
<1>5. v.did = TRUE
  BY Zenon DEF Handle
<1> HIDE DEF v
<1> QED
  BY <1>1, <1>3, <1>4, <1>5, Zenon DEF Moves, C

(* ... or is not.                                                          *)
LEMMA BrokenIs ==
  ASSUME NEW w \in Handle, NEW c \in Callers
  PROVE  LET v == Broken(w, c) IN
         /\ Moves(w, v, c, "err") /\ v.slot = w.slot /\ v.lock = "free"
         /\ v.node = "failed" /\ v.did = w.did
<1> DEFINE C == [w.call EXCEPT ![c] = "err"]
           v == [w EXCEPT !.lock = "free", !.call = C, !.node = "failed"]
<1>1. Broken(w, c) = v
  BY DEF Broken, Handle
<1>2. C \in [Callers -> {"idle", "lock", "drain", "ok", "err", "cancelled"}]
  BY DEF Handle
<1> HIDE DEF C
<1>3. v \in Handle
  BY <1>2, Zenon DEF Handle
<1>4. /\ v.call = C /\ v.con = w.con /\ v.rb = w.rb /\ v.reaper = w.reaper /\ v.rot = w.rot
      /\ v.handle = w.handle /\ v.bomb = w.bomb
      /\ v.slot = w.slot /\ v.lock = "free" /\ v.node = "failed" /\ v.did = w.did
  BY DEF Handle
<1> HIDE DEF v
<1> QED
  BY <1>1, <1>3, <1>4, Zenon DEF Moves, C

(* A call dropped with the node in its hands drops the node.               *)
LEMMA AbandonedIs ==
  ASSUME NEW w \in Handle, NEW c \in Callers
  PROVE  LET v == Abandoned(w, c) IN
         /\ Moves(w, v, c, "cancelled") /\ v.slot = w.slot /\ v.lock = "free"
         /\ v.node = "dropped" /\ v.did = w.did
<1> DEFINE C == [w.call EXCEPT ![c] = "cancelled"]
           v == [w EXCEPT !.call = C, !.lock = "free", !.node = "dropped"]
<1>1. Abandoned(w, c) = v
  BY DEF Abandoned, Handle
<1>2. C \in [Callers -> {"idle", "lock", "drain", "ok", "err", "cancelled"}]
  BY DEF Handle
<1> HIDE DEF C
<1>3. v \in Handle
  BY <1>2, Zenon DEF Handle
<1>4. /\ v.call = C /\ v.con = w.con /\ v.rb = w.rb /\ v.reaper = w.reaper /\ v.rot = w.rot
      /\ v.handle = w.handle /\ v.bomb = w.bomb
      /\ v.slot = w.slot /\ v.lock = "free" /\ v.node = "dropped" /\ v.did = w.did
  BY DEF Handle
<1> HIDE DEF v
<1> QED
  BY <1>1, <1>3, <1>4, Zenon DEF Moves, C

(* A step of a handle that is up.                                          *)
LEMMA LifeFine ==
  ASSUME NEW r, NEW w \in Handle, NEW v \in Handle, Local(r, w), w.con = "up", v.con = "up",
         v.rb = w.rb, v.reaper = w.reaper, v.slot => w.slot /\ v.node = w.node, LifeOf(v),
         HoldsStores(v) => HoldsStores(w)
  PROVE  Fine(r, w, v)
<1>1. NodeOf(v)
  BY DEF Local, NodeOf, Opened
<1>2. ListenerOf(v) /\ RoleOf(r, v)
  BY DEF Local, ListenerOf, RoleOf
<1>3. Arms(r, v) /\ (Established(r, v) => Established(r, w)) /\ Unowed(v)
  BY Zenon DEF Arms, Established, Unowed
<1> QED
  BY <1>1, <1>2, <1>3, Zenon DEF Fine, Local

(* A call in progress belongs to a handle that is up and not let go.       *)
LEMMA InCallIs ==
  ASSUME NEW r, NEW w \in Handle, Local(r, w), NEW c \in Callers, w.call[c] \in {"lock", "drain"}
  PROVE  w.con = "up" /\ w.handle /\ w.bomb = "armed"
<1>1. LifeOf(w)
  BY Zenon DEF Local
<1>2. w.con = "up"
  BY <1>1, Zenon DEF LifeOf
<1>3. w.handle
  BY <1>1, Zenon DEF LifeOf, Returned
<1> QED
  BY <1>1, <1>2, <1>3, Zenon DEF LifeOf

(* Who has the lock drains alone.                                          *)
LEMMA LockIs ==
  ASSUME NEW r, NEW w \in Handle, Local(r, w)
  PROVE  /\ w.lock = "free" => w.rot # "snapshot" /\ \A d \in Callers : w.call[d] # "drain"
         /\ \A c \in Callers : w.call[c] = "drain" =>
              w.rot # "snapshot" /\ \A d \in Callers \ {c} : w.call[d] # "drain"
BY WorkspaceAssumption, Zenon DEF Local, LifeOf

(* The calls after one of them has moved.                                  *)
LEMMA MovesIs ==
  ASSUME NEW w \in Handle, NEW v, NEW c \in Callers, NEW s, Moves(w, v, c, s)
  PROVE  v.call[c] = s /\ \A d \in Callers \ {c} : v.call[d] = w.call[d]
BY DEF Moves, Handle

(* shutdown is called.                                                     *)
LEMMA CalledFine ==
  ASSUME NEW r, NEW w \in Handle, Local(r, w), NEW c \in Callers,
         w.con = "up", w.handle, w.call[c] = "idle"
  PROVE  Fine(r, w, Called(w, c))
<1> DEFINE v == Called(w, c)
<1>1. Moves(w, v, c, "lock") /\ v.slot = w.slot /\ v.lock = w.lock /\ v.node = w.node /\ v.did = w.did
  BY CalledIs, Zenon
<1> HIDE DEF v
<1>2. /\ v \in Handle /\ v.con = w.con /\ v.rb = w.rb /\ v.reaper = w.reaper /\ v.rot = w.rot
      /\ v.handle = w.handle /\ v.bomb = w.bomb
  BY <1>1, Zenon DEF Moves
<1>3. v.call[c] = "lock" /\ \A d \in Callers \ {c} : v.call[d] = w.call[d]
  BY <1>1, MovesIs
<1>4. LifeOf(w)
  BY Zenon DEF Local
<1>5. /\ v.slot => \A d \in Callers : v.call[d] \in {"idle", "lock", "cancelled"}
      /\ \A d \in Callers : v.call[d] = "drain" => v.lock = d /\ v.node = "draining"
  BY <1>1, <1>3, <1>4, Zenon DEF LifeOf
<1>6. v.con = "up" /\ ~v.slot /\ v.bomb = "armed" =>
        v.node = "closed" \/ \E d \in Callers : v.call[d] \in {"drain", "err", "cancelled"}
  BY <1>1, <1>2, <1>3, <1>4, Zenon DEF LifeOf
<1>7. \A d \in Callers : v.call[d] = "ok" =>
        v.node = "closed" \/ \E x \in Callers : v.call[x] \in {"err", "cancelled"}
  BY <1>1, <1>3, <1>4, Zenon DEF LifeOf
<1>8. LifeOf(v)
  BY <1>1, <1>2, <1>4, <1>5, <1>6, <1>7, Zenon DEF LifeOf
<1>9. HoldsStores(v) => HoldsStores(w)
  BY <1>1, Zenon DEF HoldsStores
<1> QED
  BY <1>1, <1>2, <1>8, <1>9, LifeFine, Zenon DEF v

(* A call that finds the slot empty returns Ok: the call that emptied it   *)
(* has closed the node, or failed, or was dropped.                         *)
LEMMA EmptyFine ==
  ASSUME NEW r, NEW w \in Handle, Local(r, w), NEW c \in Callers,
         w.call[c] = "lock", w.lock = "free", ~w.slot
  PROVE  Fine(r, w, Answered(w, c, "ok"))
<1> DEFINE v == Answered(w, c, "ok")
<1>1. Moves(w, v, c, "ok") /\ v.slot = w.slot /\ v.lock = w.lock /\ v.node = w.node /\ v.did = w.did
  <2>1. "ok" \in CallStates
    BY Zenon DEF CallStates
  <2> QED
    BY <2>1, AnsweredIs, Zenon
<1> HIDE DEF v
<1>2. /\ v \in Handle /\ v.con = w.con /\ v.rb = w.rb /\ v.reaper = w.reaper /\ v.rot = w.rot
      /\ v.handle = w.handle /\ v.bomb = w.bomb
  BY <1>1, Zenon DEF Moves
<1>3. v.call[c] = "ok" /\ \A d \in Callers \ {c} : v.call[d] = w.call[d]
  BY <1>1, MovesIs
<1>4. LifeOf(w) /\ w.con = "up" /\ w.handle /\ w.bomb = "armed"
  BY InCallIs, Zenon DEF Local
<1>5. \A d \in Callers : w.call[d] # "drain" /\ v.call[d] # "drain"
  BY <1>3, LockIs, Zenon
<1>6. w.node = "closed" \/ \E d \in Callers : w.call[d] \in {"err", "cancelled"}
  BY <1>4, <1>5, Zenon DEF LifeOf
<1>7. v.node = "closed" \/ \E d \in Callers : v.call[d] \in {"err", "cancelled"}
  BY <1>1, <1>3, <1>6, Zenon
<1>8. LifeOf(v)
  BY <1>1, <1>2, <1>4, <1>5, <1>7, Zenon DEF LifeOf
<1>9. HoldsStores(v) => HoldsStores(w)
  BY <1>1, Zenon DEF HoldsStores
<1> QED
  BY <1>1, <1>2, <1>4, <1>8, <1>9, LifeFine, Zenon DEF v

(* A call takes the node: nobody was told Ok before.                       *)
LEMMA TakenFine ==
  ASSUME NEW r, NEW w \in Handle, Local(r, w), NEW c \in Callers,
         w.call[c] = "lock", w.lock = "free", w.slot
  PROVE  Fine(r, w, Taken(w, c))
<1> DEFINE v == Taken(w, c)
<1>1. Moves(w, v, c, "drain") /\ v.slot = FALSE /\ v.lock = c /\ v.node = "draining" /\ v.did = w.did
  BY TakenIs, Zenon
<1> HIDE DEF v
<1>2. /\ v \in Handle /\ v.con = w.con /\ v.rb = w.rb /\ v.reaper = w.reaper /\ v.rot = w.rot
      /\ v.handle = w.handle /\ v.bomb = w.bomb
  BY <1>1, Zenon DEF Moves
<1>3. v.call[c] = "drain" /\ \A d \in Callers \ {c} : v.call[d] = w.call[d]
  BY <1>1, MovesIs
<1>4. LifeOf(w) /\ w.con = "up" /\ w.handle /\ w.bomb = "armed"
  BY InCallIs, Zenon DEF Local
<1>5. /\ \A d \in Callers \ {c} : v.call[d] \in {"idle", "lock", "cancelled"}
      /\ ~w.did /\ w.rot # "snapshot"
  BY <1>3, <1>4, LockIs, Zenon DEF LifeOf
<1>6. LifeOf(v)
  BY <1>1, <1>2, <1>3, <1>4, <1>5, Zenon DEF LifeOf
<1>7. HoldsStores(w)
  BY Zenon DEF Local, NodeOf, HoldsStores
<1> QED
  BY <1>1, <1>2, <1>4, <1>6, <1>7, LifeFine, Zenon DEF v

(* The end of a drain, by whatever end: the lock is free again.            *)
LEMMA DrainFine ==
  ASSUME NEW r, NEW w \in Handle, Local(r, w), NEW c \in Callers, w.call[c] = "drain", NEW v, NEW s,
         Moves(w, v, c, s), v.slot = w.slot, v.lock = "free",
         \/ s = "ok" /\ v.node = "closed"
         \/ s = "err" /\ v.node = "failed" /\ v.did = w.did
         \/ s = "cancelled" /\ v.node = "dropped" /\ v.did = w.did
  PROVE  Fine(r, w, v)
<1>1. /\ v \in Handle /\ v.con = w.con /\ v.rb = w.rb /\ v.reaper = w.reaper /\ v.rot = w.rot
      /\ v.handle = w.handle /\ v.bomb = w.bomb
  BY Zenon DEF Moves
<1>2. v.call[c] = s /\ \A d \in Callers \ {c} : v.call[d] = w.call[d]
  BY MovesIs
<1>3. LifeOf(w) /\ NodeOf(w) /\ w.con = "up" /\ w.handle /\ w.bomb = "armed"
  BY InCallIs, Zenon DEF Local
<1>4. w.node = "draining" /\ ~w.slot /\ ~w.did
  BY <1>3, Zenon DEF LifeOf, NodeOf
<1>5. w.rot # "snapshot" /\ \A d \in Callers : v.call[d] # "drain"
  BY <1>2, LockIs, Zenon
<1>6. v.node = "closed" \/ \E d \in Callers : v.call[d] \in {"err", "cancelled"}
  BY <1>2
<1>7. v.did => v.node = "closed"
  BY <1>4, Zenon
<1>8. LifeOf(v)
  BY <1>1, <1>3, <1>4, <1>5, <1>6, <1>7, Zenon DEF LifeOf
<1>9. ~HoldsStores(v)
  BY Zenon DEF HoldsStores
<1> QED
  BY <1>1, <1>3, <1>4, <1>8, <1>9, LifeFine, Zenon

(* A call dropped before it had the lock.                                  *)
LEMMA DroppedCallFine ==
  ASSUME NEW r, NEW w \in Handle, Local(r, w), NEW c \in Callers, w.call[c] = "lock"
  PROVE  Fine(r, w, Answered(w, c, "cancelled"))
<1> DEFINE v == Answered(w, c, "cancelled")
<1>1. Moves(w, v, c, "cancelled") /\ v.slot = w.slot /\ v.lock = w.lock /\ v.node = w.node /\ v.did = w.did
  <2>1. "cancelled" \in CallStates
    BY Zenon DEF CallStates
  <2> QED
    BY <2>1, AnsweredIs, Zenon
<1> HIDE DEF v
<1>2. /\ v \in Handle /\ v.con = w.con /\ v.rb = w.rb /\ v.reaper = w.reaper /\ v.rot = w.rot
      /\ v.handle = w.handle /\ v.bomb = w.bomb
  BY <1>1, Zenon DEF Moves
<1>3. v.call[c] = "cancelled" /\ \A d \in Callers \ {c} : v.call[d] = w.call[d]
  BY <1>1, MovesIs
<1>4. LifeOf(w) /\ w.con = "up" /\ w.handle /\ w.bomb = "armed"
  BY InCallIs, Zenon DEF Local
<1>5. /\ v.slot => \A d \in Callers : v.call[d] \in {"idle", "lock", "cancelled"}
      /\ \A d \in Callers : v.call[d] = "drain" => v.lock = d /\ v.node = "draining"
      /\ \E d \in Callers : v.call[d] \in {"err", "cancelled"}
  BY <1>1, <1>3, <1>4, Zenon DEF LifeOf
<1>6. LifeOf(v)
  BY <1>1, <1>2, <1>4, <1>5, Zenon DEF LifeOf
<1>7. HoldsStores(v) => HoldsStores(w)
  BY <1>1 DEF HoldsStores
<1> QED
  BY <1>1, <1>2, <1>4, <1>6, <1>7, LifeFine, Zenon DEF v

(* The calls of shutdown, step by step.                                    *)
LEMMA ShutdownsKeep ==
  ASSUME Inv, NEW a \in Attempts, NEW c \in Callers,
         ShutdownCall(a, c) \/ ShutdownTakes(a, c) \/ ShutdownDrained(a, c) \/ ShutdownCancelled(a, c)
  PROVE  Inv'
<1> DEFINE w == ws[a]
<1>1. /\ w \in Handle /\ Local(role, w) /\ budget \in ScenarioType
      /\ dir \in [docId : BOOLEAN, files : BOOLEAN]
  BY HandleIs, Zenon
<1>2. CASE ShutdownCall(a, c)
  <2>1. /\ w.con = "up" /\ w.handle /\ w.call[c] = "idle" /\ Set(a, Called(w, c))
        /\ UNCHANGED <<role, daemon, dir, budget>>
    BY <1>2, Zenon DEF ShutdownCall, Called
  <2>2. Fine(role, w, Called(w, c))
    BY <1>1, <2>1, CalledFine, Zenon
  <2> QED
    BY <1>1, <2>1, <2>2, FineKeeps, Zenon
<1>3. CASE ShutdownTakes(a, c)
  <2>1. /\ w.call[c] = "lock" /\ w.lock = "free" /\ UNCHANGED <<role, daemon, dir, budget>>
        /\ Set(a, IF w.slot THEN Taken(w, c) ELSE Answered(w, c, "ok"))
    BY <1>3, Zenon DEF ShutdownTakes, Taken, Answered
  <2>2. CASE w.slot
    <3>1. Fine(role, w, Taken(w, c))
      BY <1>1, <2>1, <2>2, TakenFine, Zenon
    <3> QED
      BY <1>1, <2>1, <2>2, <3>1, FineKeeps, Zenon
  <2>3. CASE ~w.slot
    <3>1. Fine(role, w, Answered(w, c, "ok"))
      BY <1>1, <2>1, <2>3, EmptyFine, Zenon
    <3> QED
      BY <1>1, <2>1, <2>3, <3>1, FineKeeps, Zenon
  <2> QED
    BY <2>2, <2>3
<1>4. CASE ShutdownDrained(a, c)
  <2>1. w.call[c] = "drain" /\ Drained(a, Closed(w, c), Broken(w, c))
    BY <1>4 DEF ShutdownDrained, Closed, Broken
  <2> DEFINE v == Closed(w, c)
             f == Broken(w, c)
  <2>2. Moves(w, v, c, "ok") /\ v.slot = w.slot /\ v.lock = "free" /\ v.node = "closed"
    BY <1>1, ClosedIs, Zenon
  <2>3. Moves(w, f, c, "err") /\ f.slot = w.slot /\ f.lock = "free" /\ f.node = "failed" /\ f.did = w.did
    BY <1>1, BrokenIs, Zenon
  <2> HIDE DEF v, f
  <2>4. Fine(role, w, v)
    BY <1>1, <2>1, <2>2, DrainFine, Zenon
  <2>5. Fine(role, w, f)
    BY <1>1, <2>1, <2>3, DrainFine, Zenon
  <2> QED
    BY <2>1, <2>4, <2>5, DrainedKeeps, Zenon DEF v, f
<1>5. CASE ShutdownCancelled(a, c)
  <2>1. /\ w.call[c] \in {"lock", "drain"} /\ Spend /\ UNCHANGED <<role, daemon, dir>>
        /\ Set(a, IF w.call[c] = "lock" THEN Answered(w, c, "cancelled") ELSE Abandoned(w, c))
    BY <1>5, Zenon DEF ShutdownCancelled, Answered, Abandoned
  <2>2. budget' \in ScenarioType
    BY <1>1, <2>1, SpendIs, Zenon
  <2>3. CASE w.call[c] = "lock"
    <3>1. Fine(role, w, Answered(w, c, "cancelled"))
      BY <1>1, <2>3, DroppedCallFine, Zenon
    <3> QED
      BY <1>1, <2>1, <2>2, <2>3, <3>1, FineKeeps, Zenon
  <2>4. CASE w.call[c] = "drain"
    <3> DEFINE v == Abandoned(w, c)
    <3>1. Moves(w, v, c, "cancelled") /\ v.slot = w.slot /\ v.lock = "free" /\ v.node = "dropped" /\ v.did = w.did
      BY <1>1, AbandonedIs, Zenon
    <3>2. Set(a, v)
      BY <2>1, <2>4, Zenon
    <3> HIDE DEF v
    <3>3. Fine(role, w, v)
      BY <1>1, <2>4, <3>1, DrainFine, Zenon
    <3> QED
      BY <1>1, <2>1, <2>2, <3>2, <3>3, FineKeeps, Zenon
  <2> QED
    BY <2>1, <2>3, <2>4, Zenon
<1> QED
  BY <1>2, <1>3, <1>4, <1>5, Zenon

\* The updates of a handle that is let go, of its drop, and of an endpoint the relay forgets.
Bombs == {"armed", "fired", "silent"}
Nodes == {"none", "bound", "stores", "open", "draining", "closed", "failed", "dropped", "expired"}
LetGone(w) == [w EXCEPT !.handle = FALSE]
DroppedBy(w, b, n) == [w EXCEPT !.bomb = b, !.node = n, !.slot = FALSE]

(* What LetGone changes.                                                   *)
LEMMA LetGoneIs ==
  ASSUME NEW w \in Handle
  PROVE  /\ LetGone(w) \in Handle /\ ~LetGone(w).handle
         /\ LetGone(w).con = w.con /\ LetGone(w).rb = w.rb /\ LetGone(w).node = w.node
         /\ LetGone(w).reaper = w.reaper /\ LetGone(w).slot = w.slot /\ LetGone(w).lock = w.lock
         /\ LetGone(w).rot = w.rot /\ LetGone(w).did = w.did /\ LetGone(w).bomb = w.bomb
         /\ LetGone(w).call = w.call
<1>1. LetGone(w) \in Handle
  BY Zenon DEF Handle, LetGone
<1> QED
  BY <1>1 DEF Handle, LetGone

(* What Drop for Workspace changes.                                        *)
LEMMA DroppedByIs ==
  ASSUME NEW w \in Handle, NEW b \in Bombs, NEW n \in Nodes
  PROVE  LET v == DroppedBy(w, b, n) IN
         /\ v \in Handle /\ v.bomb = b /\ v.node = n /\ ~v.slot
         /\ v.con = w.con /\ v.rb = w.rb /\ v.reaper = w.reaper /\ v.lock = w.lock
         /\ v.rot = w.rot /\ v.did = w.did /\ v.handle = w.handle /\ v.call = w.call
<1> DEFINE p == [w EXCEPT !.node = n]
           q == [p EXCEPT !.bomb = b]
<1>0. DroppedBy(w, b, n) = [q EXCEPT !.slot = FALSE]
  BY Zenon DEF DroppedBy, Handle
<1>1. p \in Handle
  BY DEF Handle, Nodes
<1> HIDE DEF p
<1>2. q \in Handle
  BY <1>1 DEF Handle, Bombs
<1> HIDE DEF q
<1>3. [q EXCEPT !.slot = FALSE] \in Handle
  BY <1>2, Zenon DEF Handle
<1>4. DroppedBy(w, b, n) \in Handle
  BY <1>0, <1>3, Zenon
<1> QED
  BY <1>4 DEF Handle, DroppedBy

(* The handle goes: first the application's, then the last one.            *)
LEMMA DropsKeep ==
  ASSUME Inv, NEW a \in Attempts, LetGo(a) \/ DropWorkspace(a)
  PROVE  Inv'
<1> DEFINE w == ws[a]
<1>1. /\ w \in Handle /\ Local(role, w) /\ budget \in ScenarioType /\ LifeOf(w) /\ NodeOf(w)
      /\ dir \in [docId : BOOLEAN, files : BOOLEAN]
  BY HandleIs, Zenon DEF Local
<1>2. CASE LetGo(a)
  <2> DEFINE v == LetGone(w)
  <2>1. /\ w.con = "up" /\ w.handle /\ Set(a, v) /\ UNCHANGED <<role, daemon, dir, budget>>
        /\ \A c \in Callers : Returned(w, c)
    BY <1>2 DEF LetGo, LetGone
  <2>2. /\ v \in Handle /\ ~v.handle /\ v.con = w.con /\ v.rb = w.rb /\ v.node = w.node
        /\ v.reaper = w.reaper /\ v.slot = w.slot /\ v.lock = w.lock
        /\ v.rot = w.rot /\ v.did = w.did /\ v.bomb = w.bomb /\ v.call = w.call
    BY <1>1, LetGoneIs, Zenon
  <2> HIDE DEF v
  <2>3. w.bomb = "armed"
    BY <1>1, <2>1, Zenon DEF LifeOf
  <2>4. \A c \in Callers : Returned(v, c)
    BY <2>1, <2>2, Zenon DEF Returned
  <2>5. LifeOf(v)
    <3>1. /\ v.con = "up" /\ v.bomb = "armed" /\ v.call = w.call /\ v.lock = w.lock
          /\ v.node = w.node /\ v.slot = w.slot /\ v.rot = w.rot /\ v.did = w.did
      BY <2>1, <2>2, <2>3, Zenon
    <3>2. /\ v.slot => \A c \in Callers : v.call[c] \in {"idle", "lock", "cancelled"}
          /\ \A c \in Callers : v.call[c] = "drain" => v.lock = c /\ v.node = "draining"
          /\ v.rot = "snapshot" => v.lock = "rotation"
      BY ONLY <1>1, <3>1, Zenon DEF LifeOf
    <3>3. ~v.slot => v.node = "closed" \/ \E c \in Callers : v.call[c] \in {"drain", "err", "cancelled"}
      BY ONLY <1>1, <2>1, <2>3, <3>1, Zenon DEF LifeOf
    <3>4. /\ \A c \in Callers : v.call[c] = "ok" =>
               v.node = "closed" \/ \E d \in Callers : v.call[d] \in {"err", "cancelled"}
          /\ v.did => ~v.slot /\ v.node = "closed"
      BY ONLY <1>1, <3>1, Zenon DEF LifeOf
    <3>5. v.con # "idle" /\ v.bomb # "silent"
      BY ONLY <3>1
    <3> QED
      BY ONLY <2>4, <3>1, <3>2, <3>3, <3>4, <3>5, Zenon DEF LifeOf
  <2>6. Fine(role, w, v)
    BY <1>1, <2>1, <2>2, <2>5, LifeFine DEF HoldsStores
  <2> QED
    BY <1>1, <2>1, <2>6, FineKeeps, Zenon
<1>3. CASE DropWorkspace(a)
  <2> DEFINE b == IF w.did THEN "silent" ELSE "fired"
             n == IF w.slot THEN "dropped" ELSE w.node
             v == DroppedBy(w, b, n)
  <2>1. /\ w.con = "up" /\ ~w.handle /\ w.rot \in {"off", "over"}
        /\ Set(a, v) /\ UNCHANGED <<role, daemon, dir, budget>>
    BY <1>3, Zenon DEF DropWorkspace, DroppedBy
  <2>2. /\ b \in Bombs /\ b # "armed" /\ (b = "silent" => w.did)
        /\ n \in Nodes /\ IF w.slot THEN n = "dropped" ELSE n = w.node
    BY <1>1 DEF Handle, Bombs, Nodes
  <2> HIDE DEF b, n
  <2>3. /\ v \in Handle /\ v.bomb = b /\ v.node = n /\ ~v.slot
        /\ v.con = w.con /\ v.rb = w.rb /\ v.reaper = w.reaper /\ v.lock = w.lock
        /\ v.rot = w.rot /\ v.did = w.did /\ v.handle = w.handle /\ v.call = w.call
    <3>1. b \in Bombs /\ n \in Nodes
      BY <2>2
    <3> QED
      BY <1>1, <3>1, DroppedByIs, ZenonT(40)
  <2> HIDE DEF v
  <2>4. \A c \in Callers : Returned(v, c) /\ v.call[c] # "drain"
    BY <1>1, <2>1, <2>3, Zenon DEF LifeOf, Returned
  <2>5. w.slot => ~w.did /\ \A c \in Callers : w.call[c] # "ok"
    BY <1>1, Zenon DEF LifeOf
  <2>6. \A c \in Callers : v.call[c] = "ok" =>
          v.node = "closed" \/ \E d \in Callers : v.call[d] \in {"err", "cancelled"}
    BY <1>1, <2>2, <2>3, <2>5, Zenon DEF LifeOf
  <2>7. LifeOf(v)
    BY <1>1, <2>1, <2>2, <2>3, <2>4, <2>5, <2>6, Zenon DEF LifeOf
  <2>8. HoldsStores(v) => HoldsStores(w)
    BY <2>2, <2>3, Zenon DEF HoldsStores
  <2>9. Fine(role, w, v)
    BY <1>1, <2>1, <2>3, <2>7, <2>8, LifeFine, Zenon
  <2> QED
    BY <1>1, <2>1, <2>9, FineKeeps, Zenon
<1> QED
  BY <1>2, <1>3

(* A session at the relay goes stale.                                      *)
LEMMA ExpiredIs ==
  ASSUME NEW w \in Handle
  PROVE  LET v == Dropped(w, "expired") IN
         /\ v \in Handle /\ SameLife(w, v) /\ v.con = w.con /\ v.node = "expired" /\ v.rb = w.rb
         /\ v.listener = w.listener /\ v.reaper = w.reaper /\ v.excused = w.excused
<1>1. Dropped(w, "expired") \in Handle
  BY DEF Dropped, Handle
<1> QED
  BY <1>1 DEF Dropped, Handle, SameLife

(* The relay forgets an endpoint nobody closed.                            *)
LEMMA RelayExpiresKeeps ==
  ASSUME Inv, NEW a \in Attempts, RelayExpires(a)
  PROVE  Inv'
<1> DEFINE w == ws[a]
           v == Dropped(w, "expired")
<1>1. /\ w \in Handle /\ Local(role, w) /\ budget \in ScenarioType
      /\ LifeOf(w) /\ NodeOf(w) /\ ListenerOf(w) /\ RoleOf(role, w)
      /\ dir \in [docId : BOOLEAN, files : BOOLEAN]
  BY HandleIs DEF Local
<1>2. w.node \in {"failed", "dropped"} /\ Set(a, v) /\ UNCHANGED <<role, daemon, dir, budget>>
  BY DEF RelayExpires, Dropped
<1>3. /\ v \in Handle /\ v.node = "expired" /\ SameLife(w, v) /\ v.con = w.con /\ v.rb = w.rb
      /\ v.listener = w.listener /\ v.excused = w.excused /\ v.reaper = w.reaper
  BY <1>1, ExpiredIs, Zenon
<1> HIDE DEF v
<1>4. /\ w.con \notin {"idle", "subscribe", "ticket", "bind", "stores", "relay", "drain"}
      /\ w.con \notin Opened /\ ~w.slot
      /\ w.con \in {"leave", "forget", "close"} => ~w.rb.node
  BY <1>1, <1>2, Zenon DEF NodeOf
<1>5. ~HoldsStores(v)
  BY <1>3 DEF HoldsStores
<1>6. NodeOf(v)
  BY <1>1, <1>3, <1>4, <1>5, Zenon DEF NodeOf, SameLife
<1>7. ListenerOf(v) /\ RoleOf(role, v)
  BY <1>1, <1>3, Zenon DEF ListenerOf, RoleOf
<1>8. \A c \in Callers : w.call[c] # "drain"
  BY <1>1, <1>2, Zenon DEF LifeOf
<1>9. ~w.did /\ w.node # "closed"
  BY <1>1, <1>2, Zenon DEF LifeOf
<1>10. v.slot = w.slot /\ v.lock = w.lock /\ v.rot = w.rot /\ v.handle = w.handle
       /\ v.did = w.did /\ v.bomb = w.bomb /\ v.call = w.call /\ v.con = w.con /\ v.con # "idle"
  BY <1>3, <1>4, Zenon DEF SameLife
<1>11. \A c \in Callers : Returned(w, c) => Returned(v, c)
  BY <1>10 DEF Returned
<1>12. LifeOf(v)
  BY <1>1, <1>4, <1>8, <1>9, <1>10, <1>11, Zenon DEF LifeOf
<1>13. (Arms(role, w) => Arms(role, v)) /\ ~Established(role, v) /\ (Unowed(w) => Unowed(v))
  BY <1>3, <1>4, <1>10, Zenon DEF Arms, Established, Opened, Unowed
<1>14. Fine(role, w, v)
  BY <1>3, <1>5, <1>6, <1>7, <1>12, <1>13, Zenon DEF Fine, Local
<1> QED
  BY <1>1, <1>2, <1>14, FineKeeps, Zenon

(* A handle nobody has begun on.                                           *)
LEMMA FreshIs ==
  /\ Fresh \in Handle /\ Fresh.con = "idle" /\ Fresh.rb = NoGuard /\ Fresh.node = "none"
  /\ Fresh.listener = "none" /\ ~Fresh.reaper /\ ~Fresh.excused /\ ~Fresh.slot
  /\ Fresh.lock = "free" /\ Fresh.rot = "off" /\ ~Fresh.handle /\ ~Fresh.did
  /\ Fresh.bomb = "armed" /\ Fresh.call = [c \in Callers |-> "idle"]
<1>1. Fresh \in Handle
  BY DEF Fresh, Handle, Con, NoGuard, Guard
<1> QED
  BY <1>1, Zenon DEF Fresh

(* It satisfies what is asked of a handle, whatever its role, and is owed nothing. *)
LEMMA FreshFine ==
  ASSUME NEW r
  PROVE  /\ Local(r, Fresh) /\ ~HoldsStores(Fresh) /\ ~Arms(r, Fresh) /\ ~Established(r, Fresh)
         /\ ~Unowed(Fresh)
<1>1. ~Fresh.rb.listener /\ ~Fresh.rb.leave /\ ~Fresh.rb.forget /\ ~Fresh.rb.node
  BY FreshIs DEF NoGuard
<1>2. NodeOf(Fresh) /\ ListenerOf(Fresh) /\ RoleOf(r, Fresh)
  BY <1>1, FreshIs, Zenon DEF NodeOf, ListenerOf, RoleOf, Opened, HoldsStores
<1>3. \A c \in Callers : Fresh.call[c] = "idle"
  BY FreshIs
<1>4. LifeOf(Fresh)
  BY <1>3, FreshIs, Zenon DEF LifeOf, Returned
<1> QED
  BY <1>1, <1>2, <1>4, FreshIs, Zenon DEF Local, HoldsStores, Arms, Established, Unowed

\* A constructor's first step.
Begun(w, s, g) == [w EXCEPT !.con = s, !.gate = g]

(* What it changes.                                                        *)
LEMMA BegunFreshIs ==
  ASSUME NEW w \in Handle, NEW s \in Con, NEW g \in {w.gate, "initializing"}
  PROVE  LET v == Begun(w, s, g) IN
         /\ v \in Handle /\ SameLife(w, v) /\ v.con = s /\ v.node = w.node /\ v.rb = w.rb
         /\ v.listener = w.listener /\ v.reaper = w.reaper /\ v.excused = w.excused
<1>1. Begun(w, s, g) \in Handle
  BY Zenon DEF Begun, Handle
<1> QED
  BY <1>1 DEF Begun, Handle, SameLife

(* A constructor begins, or its policy turns the directory down.           *)
LEMMA BeginsKeep ==
  ASSUME Inv, NEW a \in Attempts, BeginHost(a) \/ BeginJoin(a)
  PROVE  Inv'
<1>1. /\ ws[a] \in Handle /\ Local(role, ws[a]) /\ budget \in ScenarioType
      /\ dir \in [docId : BOOLEAN, files : BOOLEAN] /\ role \in {"host", "joiner"}
  BY HandleIs
<1>2. ws[a].con = "idle" /\ UNCHANGED <<role, daemon, dir, budget>>
  BY Zenon DEF BeginHost, BeginJoin, Begins
<1>3. ws[a] = Fresh
  BY <1>1, <1>2, Zenon DEF Local, LifeOf
<1>4. /\ Goto(Fresh, "failed") = Begun(Fresh, "failed", Fresh.gate)
      /\ Goto(Fresh, "subscribe") = Begun(Fresh, "subscribe", Fresh.gate)
  BY FreshIs, Zenon DEF Goto, Begun, Handle
<1>5. ASSUME NEW s, NEW g, Set(a, Begun(Fresh, s, g)), g \in {Fresh.gate, "initializing"},
             s = "failed" \/ (s = "bind" /\ role = "host") \/ (s = "subscribe" /\ role = "joiner")
      PROVE  Inv'
  <2> DEFINE v == Begun(Fresh, s, g)
  <2>1. s \in Con /\ Fresh \in Handle
    BY <1>5, FreshIs, Zenon DEF Con, Building, Steps
  <2>2. /\ v \in Handle /\ SameLife(Fresh, v) /\ v.con = s /\ v.node = Fresh.node /\ v.rb = Fresh.rb
        /\ v.listener = Fresh.listener /\ v.reaper = Fresh.reaper /\ v.excused = Fresh.excused
    BY <1>5, <2>1, BegunFreshIs, Zenon
  <2> HIDE DEF v
  <2>3. ~v.rb.listener /\ ~v.rb.leave /\ ~v.rb.forget /\ ~v.rb.node
    BY <2>2, FreshIs DEF NoGuard
  <2>4. v.node = "none" /\ v.listener = "none" /\ ~v.reaper /\ ~v.excused /\ ~v.slot
    BY <2>2, FreshIs, Zenon DEF SameLife
  <2>5. NodeOf(v) /\ ListenerOf(v) /\ RoleOf(role, v)
    BY <1>5, <2>2, <2>3, <2>4, Zenon DEF NodeOf, ListenerOf, RoleOf, Opened, HoldsStores
  <2>6. Local(role, v)
    BY <1>5, <2>2, <2>5, FreshIs, FreshFine, BuildKeeps, Zenon
  <2>7. ~HoldsStores(v) /\ ~Established(role, v)
    BY <1>5, <2>2, <2>4, Zenon DEF HoldsStores, Established
  <2>8. Fine(role, ws[a], v)
    BY <1>3, <2>2, <2>6, <2>7, FreshFine, Zenon DEF Fine
  <2> QED
    BY <1>1, <1>2, <1>5, <2>8, FineKeeps, Zenon DEF v
<1>6. CASE BeginHost(a)
  <2>1. role = "host" /\ \E policy \in Policies :
          Set(a, IF Refused(policy) THEN Goto(Fresh, "failed") ELSE Begun(Fresh, "bind", "initializing"))
    BY <1>6, Zenon DEF BeginHost, Begins, Begun
  <2>2. Set(a, Begun(Fresh, "failed", Fresh.gate)) \/ Set(a, Begun(Fresh, "bind", "initializing"))
    <3>1. PICK policy \in Policies : Set(a, IF Refused(policy) THEN Goto(Fresh, "failed") ELSE Begun(Fresh, "bind", "initializing"))
      BY <2>1
    <3>2. CASE Refused(policy)
      BY <1>4, <3>1, <3>2, Zenon
    <3>3. CASE ~Refused(policy)
      BY <1>4, <3>1, <3>3, Zenon
    <3> QED
      BY <3>2, <3>3, Zenon
  <2>3. CASE Set(a, Begun(Fresh, "failed", Fresh.gate))
    BY <1>5, <2>3, Zenon
  <2>4. CASE Set(a, Begun(Fresh, "bind", "initializing"))
    BY <1>5, <2>1, <2>4, Zenon
  <2> QED
    BY <2>2, <2>3, <2>4, Zenon
<1>7. CASE BeginJoin(a)
  <2>1. role = "joiner" /\ \E policy \in Policies :
          Set(a, IF Refused(policy) THEN Goto(Fresh, "failed") ELSE Goto(Fresh, "subscribe"))
    BY <1>7 DEF BeginJoin, Begins
  <2>2. Set(a, Begun(Fresh, "failed", Fresh.gate)) \/ Set(a, Begun(Fresh, "subscribe", Fresh.gate))
    <3>1. PICK policy \in Policies : Set(a, IF Refused(policy) THEN Goto(Fresh, "failed") ELSE Goto(Fresh, "subscribe"))
      BY <2>1
    <3>2. CASE Refused(policy)
      BY <1>4, <3>1, <3>2, Zenon
    <3>3. CASE ~Refused(policy)
      BY <1>4, <3>1, <3>3, Zenon
    <3> QED
      BY <3>2, <3>3, Zenon
  <2>3. CASE Set(a, Begun(Fresh, "failed", Fresh.gate))
    BY <1>5, <2>3
  <2>4. CASE Set(a, Begun(Fresh, "subscribe", Fresh.gate))
    BY <1>5, <2>1, <2>4, Zenon
  <2> QED
    BY <2>2, <2>3, <2>4, Zenon
<1> QED
  BY <1>6, <1>7

(* Somebody else leaves the session.                                       *)
LEMMA SessionLeftKeeps ==
  ASSUME Inv, SessionLeft
  PROVE  Inv'
<1>1. Typed /\ Locals /\ Exclusive /\ Late
  BY DEF Inv
<1>2. /\ daemon' = [[daemon EXCEPT !.session = Nobody, !.listed = Nobody] EXCEPT !.left = TRUE]
      /\ UNCHANGED <<role, ws, dir>> /\ Spend
  BY DEF SessionLeft, Deleted
<1>3. budget' \in ScenarioType
  BY <1>1, <1>2, SpendIs DEF Typed
<1>4. Nobody \in Owners /\ Nobody \notin Attempts
  BY AttemptIs DEF Owners
<1>5. daemon'.session = Nobody /\ daemon'.listed = Nobody /\ daemon'.left = TRUE
      /\ daemon' \in DaemonRec /\ daemon'.late = daemon.late
  BY <1>1, <1>2, <1>4, Zenon DEF Typed, DaemonRec
<1>6. Typed'
  BY <1>1, <1>2, <1>3, <1>5, Zenon DEF Typed
<1>7. Locals' /\ Exclusive'
  BY <1>1, <1>2, Zenon DEF Locals, Exclusive
<1>8. Armed' /\ Listing'
  BY <1>4, <1>5, Zenon DEF Armed, Listing
<1>9. Member'
  BY <1>5 DEF Member
<1>10. Late'
  BY <1>1, <1>2, <1>5, Zenon DEF Late
<1> QED
  BY <1>6, <1>7, <1>8, <1>9, <1>10, Zenon DEF Inv
-----------------------------------------------------------------------------
(* The theorems                                                            *)

(* Nobody has begun: the invariant holds at first.                         *)
LEMMA InitInv ==
  ASSUME Init PROVE Inv
<1>1. /\ role \in {"host", "joiner"} /\ ws = [a \in Attempts |-> Fresh] /\ budget \in Scenarios
  BY DEF Init
<1>2. PICK known \in BOOLEAN :
        LET owner == IF known THEN Earlier ELSE Nobody IN
        /\ daemon = [session |-> IF role = "joiner" THEN Earlier ELSE owner,
                     listed |-> owner, left |-> FALSE, late |-> {}, crossed |-> {}]
        /\ dir = [docId |-> known, files |-> known]
  BY Zenon DEF Init
<1>3. \A a \in Attempts : ws[a] = Fresh
  BY <1>1, Zenon
<1>4. /\ daemon \in DaemonRec
      /\ daemon.session \in {Earlier, Nobody} /\ daemon.listed \in {Earlier, Nobody}
      /\ role = "joiner" => daemon.session = Earlier
      /\ daemon.late = {}
  BY <1>2, AttemptIs DEF DaemonRec
<1>5. dir \in [docId : BOOLEAN, files : BOOLEAN]
  BY <1>2, Zenon
<1>6. ws \in [Attempts -> Handle] /\ budget \in ScenarioType
  BY <1>1, FreshIs, WorkspaceAssumption, Zenon
<1>7. Typed
  BY <1>1, <1>4, <1>5, <1>6, Zenon DEF Typed
<1>8. Locals /\ Exclusive
  BY <1>3, FreshFine, Zenon DEF Locals, Exclusive
<1>9. Armed
  BY <1>4, AttemptIs, Zenon DEF Armed
<1>10. Member
  BY <1>4, AttemptIs, Zenon DEF Member
<1>11. Listing /\ Late
  BY <1>3, <1>4, FreshFine, Zenon DEF Listing, Late
<1> QED
  BY <1>7, <1>8, <1>9, <1>10, <1>11, Zenon DEF Inv

(* A step that changes nothing keeps it.                                   *)
LEMMA StutterKeeps ==
  ASSUME Inv, UNCHANGED vars PROVE Inv'
BY DEF Inv, vars, Typed, Locals, Exclusive, Armed, Member, Listing, Late

(* Every step of a constructor keeps it.                                   *)
LEMMA ConstructKeeps ==
  ASSUME Inv, NEW a \in Attempts, Construct(a)
  PROVE  Inv'
<1>1. CASE Subscribe(a) \/ Bind(a) \/ OpenDoc(a) \/ Scan(a) \/ ImportDoc(a) \/ InitialSync(a) \/ BulkExport(a)
  BY <1>1, MovesKeep, Zenon
<1>2. CASE OpenStores(a) \/ AwaitRelay(a)
  BY <1>2, OpenStoresKeeps, AwaitRelayKeeps, Zenon
<1>3. CASE RegisterHost(a) \/ RegisterAttachment(a) \/ ConnectUpgrade(a)
  BY <1>3, RegisterHostKeeps, RegisterAttachmentKeeps, ConnectUpgradeKeeps, Zenon
<1>4. CASE SpawnListener(a) \/ AwaitReplay(a) \/ Publish(a) \/ Announce(a)
  BY <1>4, LaterMovesKeep
<1>5. CASE UndoLeave(a) \/ UndoForget(a) \/ UndoNode(a) \/ UndoDrained(a)
  BY <1>5, UndoLeaveKeeps, UndoForgetKeeps, UndoNodeKeeps, DrainsKeep, Zenon
<1> QED
  BY <1>1, <1>2, <1>3, <1>4, <1>5, Zenon DEF Construct

(* Every step of a task keeps it.                                          *)
LEMMA TaskKeeps ==
  ASSUME Inv, NEW a \in Attempts, TaskStep(a)
  PROVE  Inv'
<1>1. CASE Construct(a)
  BY <1>1, ConstructKeeps, Zenon
<1>2. CASE Reaper(a) \/ ListenerStep(a) \/ HookReturns(a)
  BY <1>2, DrainsKeep, ListenersKeep, HooksKeep, Zenon
<1>3. CASE DocTaskStops(a) \/ Rotate(a) \/ DropWorkspace(a)
  BY <1>3, DocTaskStopsKeeps, RotateKeeps, DropsKeep, Zenon
<1>4. CASE \E c \in Callers : ShutdownTakes(a, c) \/ ShutdownDrained(a, c)
  BY <1>4, ShutdownsKeep
<1> QED
  BY <1>1, <1>2, <1>3, <1>4, Zenon DEF TaskStep

(* The invariant is inductive.                                             *)
LEMMA InvHolds == Spec => []Inv
<1>1. Init => Inv
  BY InitInv
<1>2. Inv /\ [Next]_vars => Inv'
  <2> SUFFICES ASSUME Inv, [Next]_vars PROVE Inv'
    OBVIOUS
  <2>1. CASE UNCHANGED vars
    BY <2>1, StutterKeeps
  <2>2. CASE SessionLeft \/ \E q \in daemon.late : LateRequest(q)
    BY <2>2, SessionLeftKeeps, LateRequestKeeps, Zenon
  <2>3. ASSUME NEW a \in Attempts, TaskStep(a) PROVE Inv'
    BY <2>3, TaskKeeps, Zenon
  <2>4. ASSUME NEW a \in Attempts, BeginHost(a) \/ BeginJoin(a) \/ TakeTicket(a) \/ Cancel(a) \/ RelayExpires(a)
        PROVE  Inv'
    BY <2>4, BeginsKeep, MovesKeep, CancelKeeps, RelayExpiresKeeps, Zenon
  <2>5. ASSUME NEW a \in Attempts,
               ListenerTrouble(a) \/ Connect(a) \/ Run(a) \/ RotationSignal(a) \/ LetGo(a)
        PROVE  Inv'
    BY <2>5, ListenersKeep, HooksKeep, RunsKeep, DropsKeep, Zenon
  <2>6. ASSUME NEW a \in Attempts, NEW c \in Callers, ShutdownCall(a, c) \/ ShutdownCancelled(a, c)
        PROVE  Inv'
    BY <2>6, ShutdownsKeep
  <2> QED
    BY <2>1, <2>2, <2>3, <2>4, <2>5, <2>6, Zenon DEF Next
<1> QED
  BY <1>1, <1>2, PTL DEF Spec

(* Whatever step of a constructor fails, is refused or loses its answer,   *)
(* and whoever else runs on the directory: an attempt that returned an     *)
(* error has closed its stores and undone what it made in the daemon, and  *)
(* one that failed or was dropped has no listener running                  *)
(* (WorkspaceRollback and its Drop, workspace.rs).                         *)
THEOREM AttemptsUndone == Spec => []AttemptsAreUndone
<1>1. ASSUME Inv PROVE AttemptsAreUndone
  <2>1. TypeOK
    <3>1. /\ role \in {"host", "joiner"} /\ daemon \in DaemonRec
          /\ dir \in [docId : BOOLEAN, files : BOOLEAN] /\ budget \in ScenarioType
          /\ \A a \in Attempts : ws[a] \in Handle
      BY <1>1, Zenon DEF Inv, Typed
    <3> QED
      BY <3>1, Zenon DEF TypeOK, Handle, Con, Guard, DaemonRec
  <2> SUFFICES ASSUME NEW a \in Attempts
               PROVE  /\ ws[a].con = "failed" =>
                            /\ ~HoldsStores(ws[a])
                            /\ ~ws[a].excused => a \notin {daemon.session, daemon.listed}
                      /\ ws[a].con \in {"failed", "cancelled"} => ws[a].listener # "live"
    BY <2>1, Zenon DEF AttemptsAreUndone, FailureUndone, NoStrayListener
  <2>2. NodeOf(ws[a]) /\ ListenerOf(ws[a]) /\ (a \in {daemon.session, daemon.listed} => Arms(role, ws[a]))
    BY <1>1, Zenon DEF Inv, Locals, Local, Armed
  <2>3. ws[a].con = "failed" => ~HoldsStores(ws[a])
    BY <2>2 DEF NodeOf
  <2>4. ws[a].con = "failed" /\ ~ws[a].excused => ~Arms(role, ws[a])
    BY Zenon DEF Arms, Steps
  <2>5. ws[a].con \in {"failed", "cancelled"} => ws[a].listener # "live"
    BY <2>2, Zenon DEF ListenerOf, Steps
  <2> QED
    BY <2>2, <2>3, <2>4, <2>5, Zenon
<1> QED
  BY <1>1, InvHolds, PTL

(* The clean-up of one attempt does not reach another's session: a joiner  *)
(* remains a member, and a host that is up keeps its session and its       *)
(* attachment, until somebody else leaves or a request that its sender no  *)
(* longer waits for is carried out late (join_with and host_with_inner,    *)
(* workspace.rs).                                                          *)
THEOREM SessionsKept == Spec => []SessionsAreKept
<1>1. ASSUME Inv PROVE SessionsAreKept
  BY <1>1, Zenon DEF Inv, Member, Listing, Established, SessionsAreKept, JoinerKeepsMembership, UpIsListed
<1> QED
  BY <1>1, InvHolds, PTL

(* However many callers shut a workspace down, and whichever of them fail  *)
(* or give up: Ok means the endpoint is closed unless a call failed or was *)
(* dropped, and a handle that goes silently had closed it (shutdown and    *)
(* Drop for Workspace, workspace.rs).                                      *)
THEOREM ShutdownHonest == Spec => []ShutdownIsHonest
<1>1. ASSUME Inv PROVE ShutdownIsHonest
  <2>1. \A a \in Attempts : LifeOf(ws[a])
    BY <1>1, Zenon DEF Inv, Locals, Local
  <2>2. ShutdownMeansClosed
    BY <2>1, Zenon DEF LifeOf, ShutdownMeansClosed
  <2>3. SilentDropIsClean
    BY <2>1 DEF LifeOf, SilentDropIsClean
  <2> QED
    BY <2>2, <2>3, Zenon DEF ShutdownIsHonest
<1> QED
  BY <1>1, InvHolds, PTL
=============================================================================
