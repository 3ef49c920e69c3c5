----------------------------- MODULE Workspace -----------------------------
(***************************************************************************)
(* The life of a workspace handle (artel-fs/src/workspace.rs and node.rs): *)
(* the constructors `host_with` and `join_with`, the rollback guard that   *)
(* undoes a failed one, the future that is dropped half way, and then      *)
(* `run`, the rotation task, concurrent calls of `shutdown` and the final  *)
(* Drop.  MaxAttempts handles are built one after another on one state     *)
(* directory, through one daemon, for one session; an attempt may begin as *)
(* soon as the constructor before it has returned, so the clean-up of one  *)
(* overlaps the bring-up of the next.                                      *)
(*                                                                         *)
(*   ws[a].con      where the constructor of attempt a stands              *)
(*   ws[a].rb       its WorkspaceRollback guard: what it would undo        *)
(*   ws[a].node     the iroh node: bound, stores opened, open, draining    *)
(*                  (router shutdown), closed, or failed / dropped: the    *)
(*                  endpoint went without Endpoint::close and the relay    *)
(*                  holds its session until it expires                     *)
(*   ws[a].gate     the ProjectionState of the PeerMap                     *)
(*   ws[a].hooks    connections waiting in a PeerFilter hook               *)
(*   ws[a].excused  history: a request of a was lost                       *)
(*   daemon         who made the session, whose workspace is listed, and   *)
(*                  the requests on their way that nobody waits for;       *)
(*                  history: the attempts whose session one of them met    *)
(*                                                                         *)
(* A request to the daemon is answered, refused without effect, or lost:   *)
(* the connection fails before the reply.  One that was lost, or whose     *)
(* future was dropped, stays in the writer's queue or on the socket: the   *)
(* daemon carries it out at any later time or never.  The namespace files  *)
(* and what the rotation task does with them are in Rotation, the listener *)
(* loop in CapFeed, the files in FileSync.                                 *)
(***************************************************************************)
EXTENDS Naturals, FiniteSets

CONSTANTS
    MaxAttempts,  \* handles built on the state directory
    Callers,      \* tasks that may call shutdown on a handle
    Scenarios     \* the bounds of one behaviour:
                  \*   attempts  handles that are built, up to MaxAttempts
                  \*   callers   the tasks that call shutdown
                  \*   faults    refused and lost requests, timeouts, gaps,
                  \*             dropped futures, failing steps
                  \*   conns     peer connections that reach a hook
                  \*   signals   rotation signals

ScenarioType ==
    [attempts : 1..MaxAttempts, callers : SUBSET Callers,
     faults : Nat, conns : Nat, signals : Nat]

ASSUME WorkspaceAssumption ==
    /\ MaxAttempts \in Nat \ {0}
    /\ IsFiniteSet(Callers) /\ "free" \notin Callers /\ "rotation" \notin Callers
    /\ Scenarios \subseteq ScenarioType

VARIABLES role, ws, daemon, dir, budget

vars == <<role, ws, daemon, dir, budget>>

Attempts == 1..MaxAttempts
Nobody == 0
Earlier == MaxAttempts + 1   \* a handle that was gone before this began
Owners == 0..Earlier

Steps == {"subscribe", "ticket", "bind", "stores", "relay", "open", "register",
          "attach", "scan", "upgrade", "listen", "replay", "publish",
          "import", "sync", "export", "announce"}
Undoing == {"leave", "forget", "close", "drain"}
Attached == {"scan", "upgrade", "listen", "replay", "publish", "up"}   \* a host's
Building == Steps \cup Undoing

\* A request to the daemon and the constructor it is from.
Requests == [op : {"host", "list", "leave", "forget"}, by : Attempts]

\* WorkspaceNode: the docs and blobs stores are locked files, and a router
\* in shutdown still owns them.
HoldsStores(w) == w.node \in {"stores", "open", "draining"}

\* The home relay knows the endpoint id until the endpoint is closed, or
\* until a session nobody closed goes stale.
OnRelay(w) == w.node \in {"bound", "stores", "open", "draining", "failed", "dropped"}

NoGuard == [listener |-> FALSE, leave |-> FALSE, forget |-> FALSE, node |-> FALSE]

Fresh == [con |-> "idle", rb |-> NoGuard, node |-> "none", gate |-> "none",
          listener |-> "none", hooks |-> 0, reaper |-> FALSE, excused |-> FALSE,
          slot |-> FALSE, lock |-> "free", token |-> FALSE, docToken |-> FALSE,
          docTasks |-> 0, oldTasks |-> 0, rot |-> "off", handle |-> FALSE,
          did |-> FALSE, bomb |-> "armed",
          call |-> [c \in Callers |-> "idle"]]

\* Every constructor, node, listener, lock and call is in one of its states,
\* and no count of hooks or tasks falls below zero.
TypeOK ==
    /\ role \in {"host", "joiner"}
    /\ \A a \in Attempts :
         LET w == ws[a] IN
         /\ w.con \in {"idle", "up", "failed", "cancelled"} \cup Building
         /\ w.rb \in [listener : BOOLEAN, leave : BOOLEAN, forget : BOOLEAN, node : BOOLEAN]
         /\ w.node \in {"none", "bound", "stores", "open", "draining", "closed",
                        "failed", "dropped", "expired"}
         /\ w.gate \in {"none", "initializing", "replaying", "ready", "closed"}
         /\ w.listener \in {"none", "live", "aborting", "over"}
         /\ w.hooks \in Nat
         /\ w.lock \in {"free", "rotation"} \cup Callers
         /\ w.rot \in {"off", "idle", "wait", "lock", "snapshot", "import", "respawn", "over"}
         /\ w.docTasks \in 0..1 /\ w.oldTasks \in Nat
         /\ w.bomb \in {"armed", "fired", "silent"}
         /\ w.call \in [Callers -> {"idle", "lock", "drain", "ok", "err", "cancelled"}]
    /\ daemon \in [session : Owners, listed : Owners, left : BOOLEAN,
                   late : SUBSET Requests, crossed : SUBSET Attempts]
    /\ dir \in [docId : BOOLEAN, files : BOOLEAN]
    /\ budget \in ScenarioType

\* A fresh directory, or one a handle was built on before; a joiner's
\* caller is already a member of the session.
Init ==
    /\ role \in {"host", "joiner"}
    /\ ws = [a \in Attempts |-> Fresh]
    /\ \E known \in BOOLEAN :
         LET owner == IF known THEN Earlier ELSE Nobody IN
         /\ daemon = [session |-> IF role = "joiner" THEN Earlier ELSE owner,
                      listed |-> owner, left |-> FALSE, late |-> {}, crossed |-> {}]
         /\ dir = [docId |-> known, files |-> known]
    /\ budget \in Scenarios

-----------------------------------------------------------------------------
Set(a, w) == ws' = [ws EXCEPT ![a] = w]

Spend == budget.faults > 0 /\ budget' = [budget EXCEPT !.faults = @ - 1]

\* The peer map closes: every waiting hook and the listener's own wait see it.
CloseGate(w) == [w EXCEPT !.gate = IF @ = "none" THEN @ ELSE "closed"]

AbortListener(w) == [w EXCEPT !.listener = IF @ = "live" THEN "aborting" ELSE @]

\* The inner constructor returned Err: rollback() starts by aborting the
\* listener the guard knows of.
Fail(w) == IF w.rb.listener THEN [AbortListener(w) EXCEPT !.con = "leave"]
           ELSE [w EXCEPT !.con = "leave"]

Goto(w, step) == [w EXCEPT !.con = step]

\* A local step that either succeeds with w or fails and starts the rollback.
LocalStep(a, w, failed) ==
    /\ UNCHANGED <<role, daemon>>
    /\ \/ Set(a, w) /\ UNCHANGED budget
       \/ Set(a, failed) /\ Spend

-----------------------------------------------------------------------------
\* enforce_attach_policy: RequireEmpty turns down a directory with files,
\* InitFromExisting is for hosts.
Policies == {"RequireEmpty", "AllowExisting", "InitFromExisting"}

Refused(policy) ==
    \/ policy = "RequireEmpty" /\ dir.files
    \/ policy = "InitFromExisting" /\ role = "joiner"

Begins(a, w) ==
    /\ ws[a].con = "idle" /\ a <= budget.attempts
    /\ \A b \in Attempts : b < a => ws[b].con \in {"up", "failed", "cancelled"}
    /\ \E policy \in Policies :
         Set(a, IF Refused(policy) THEN Goto(Fresh, "failed") ELSE w)
    /\ UNCHANGED <<role, daemon, dir, budget>>

\* host_with up to the rollback guard: a refusal leaves nothing behind.
BeginHost(a) ==
    /\ role = "host"
    /\ Begins(a, [Fresh EXCEPT !.con = "bind", !.gate = "initializing"])

\* join_with up to the rollback guard.
BeginJoin(a) ==
    /\ role = "joiner"
    /\ Begins(a, Goto(Fresh, "subscribe"))

\* join_with_inner: Subscribe { since: None }, then take_events.
Subscribe(a) ==
    /\ ws[a].con = "subscribe"
    /\ UNCHANGED dir
    /\ LocalStep(a, IF daemon.session = Nobody THEN Fail(ws[a]) ELSE Goto(ws[a], "ticket"),
                 Fail(ws[a]))

\* wait_for_ticket: the envelope arrives, or the stream ends, or the
\* configured deadline passes; without a deadline it waits for ever.
TakeTicket(a) ==
    /\ ws[a].con = "ticket"
    /\ UNCHANGED dir
    /\ LocalStep(a, [ws[a] EXCEPT !.con = "bind", !.gate = "initializing"], Fail(ws[a]))

\* WorkspaceNode::spawn binds the endpoint under the persisted key.
Bind(a) ==
    /\ ws[a].con = "bind"
    /\ UNCHANGED dir
    /\ LocalStep(a, [ws[a] EXCEPT !.con = "stores", !.node = "bound"], Fail(ws[a]))

\* It then opens the blob and docs stores, imports the author and starts
\* the router.  An error drops the endpoint without closing it: the guard
\* holds no node yet.
OpenStores(a) ==
    /\ ws[a].con = "stores"
    /\ LET failed == Fail([ws[a] EXCEPT !.node = "dropped"])
           taken == \E b \in Attempts \ {a} : HoldsStores(ws[b])
       IN \/ taken /\ Set(a, failed) /\ UNCHANGED budget
          \/ ~taken /\ Set(a, [ws[a] EXCEPT !.con = "relay", !.node = "stores"])
             /\ UNCHANGED budget
          \/ ~taken /\ Set(a, failed) /\ Spend
    /\ UNCHANGED <<role, daemon, dir>>

\* await_relay_ready: the relay turns down a second session of one endpoint
\* id, and the wait ends with RelayUnreachable.
AwaitRelay(a) ==
    /\ ws[a].con = "relay"
    /\ LET failed == Fail([ws[a] EXCEPT !.node = "dropped"])
           rival == \E b \in Attempts \ {a} : OnRelay(ws[b])
       IN \/ rival /\ Set(a, failed) /\ UNCHANGED budget
          \/ ~rival /\ Set(a, failed) /\ Spend
          \/ ~rival /\ UNCHANGED budget
             /\ Set(a, [ws[a] EXCEPT !.con = IF role = "host" THEN "open" ELSE "listen",
                                     !.node = "open", !.rb.node = TRUE])
    /\ UNCHANGED <<role, daemon, dir>>

\* A session of an endpoint nobody closed goes stale at the relay.
RelayExpires(a) ==
    /\ ws[a].node \in {"failed", "dropped"}
    /\ Set(a, [ws[a] EXCEPT !.node = "expired"])
    /\ UNCHANGED <<role, daemon, dir, budget>>

\* open_or_create_doc, the rotated-revoke mark, start_sync.  The doc-id
\* file stays whatever happens afterwards.
OpenDoc(a) ==
    /\ ws[a].con = "open"
    /\ LocalStep(a, Goto(ws[a], "register"), Fail(ws[a]))
    /\ dir' \in {dir, [dir EXCEPT !.docId = TRUE]}
    /\ ws'[a].con = "register" => dir'.docId

-----------------------------------------------------------------------------
\* HostSession { session: Some(id) } makes the session or resumes it.
Hosted(a) == [daemon EXCEPT !.session = IF @ = Nobody THEN a ELSE @]

\* The daemon keeps one workspace attachment of a session.
Listed(a) == [daemon EXCEPT !.listed = IF daemon.session = Nobody THEN @ ELSE a]

\* LeaveSession of the host deletes the session with its attachment.
Deleted == [daemon EXCEPT !.session = Nobody, !.listed = Nobody]

\* What carrying out a request does.
Carried(op, a) ==
    CASE op = "host" -> Hosted(a)
      [] op = "list" -> Listed(a)
      [] op = "leave" -> Deleted
      [] op = "forget" -> [daemon EXCEPT !.listed = Nobody]

\* Client::request as a constructor sees it: answered, refused with nothing
\* done, or lost: nobody knows what comes of it, so no clean-up is armed for it.
Request(a, op, answered, refused) ==
    /\ \/ Set(a, answered) /\ daemon' = Carried(op, a) /\ UNCHANGED budget
       \/ Set(a, refused) /\ UNCHANGED daemon /\ Spend
       \/ /\ Set(a, [refused EXCEPT !.excused = TRUE]) /\ Spend
          /\ daemon' = [daemon EXCEPT !.late = @ \cup {[op |-> op, by |-> a]}]
    /\ UNCHANGED role

\* The attempts that have attached when an attachment or a leave comes late.
Crossed(r) == {a \in Attempts : r.op \in {"list", "leave"} /\ ws[a].con \in Attached}

\* The daemon comes to a request whose sender is no longer waiting.
LateRequest(r) ==
    /\ r \in daemon.late
    /\ daemon' = [Carried(r.op, r.by) EXCEPT !.late = @ \ {r}, !.crossed = @ \cup Crossed(r)]
    /\ UNCHANGED <<role, ws, dir, budget>>

\* Mutant: the LeaveSession clean-up is armed only once the attachment is in.
RegisterHostUnarmed(a) ==
    /\ ws[a].con = "register"
    /\ Request(a, "host", Goto(ws[a], "attach"), Fail(ws[a]))
    /\ UNCHANGED dir

\* register_host, then rb.leave_on_rollback = Some(session_id).
RegisterHost(a) ==
    /\ ws[a].con = "register"
    /\ Request(a, "host", [ws[a] EXCEPT !.con = "attach", !.rb.leave = TRUE], Fail(ws[a]))
    /\ UNCHANGED dir

\* register_workspace_attachment: SessionVanished when the session is gone.
\* A joiner arms ForgetAttachment; a host's LeaveSession takes the
\* attachment with the session.
RegisterAttachment(a) ==
    /\ ws[a].con = "attach"
    /\ IF daemon.session = Nobody
       THEN Set(a, Fail(ws[a])) /\ UNCHANGED <<role, daemon, budget>>
       ELSE Request(a, "list",
                    IF role = "host" THEN Goto(ws[a], "scan")
                    ELSE [ws[a] EXCEPT !.con = "sync", !.rb.forget = TRUE],
                    Fail(ws[a]))
    /\ UNCHANGED dir

\* reconcile_doc_against_disk for a returning host, then
\* scan_and_publish_existing and the two tickets of doc.share.
Scan(a) ==
    /\ ws[a].con = "scan"
    /\ LocalStep(a, Goto(ws[a], "upgrade"), Fail(ws[a]))
    /\ UNCHANGED dir

\* A second connection re-hosts the session to become a member of it; the
\* request makes the session anew when it has gone meanwhile.
ConnectUpgrade(a) ==
    /\ ws[a].con = "upgrade"
    /\ Request(a, "host", Goto(ws[a], "listen"), Fail(ws[a]))
    /\ UNCHANGED dir

\* spawn_cap_listener_from_socket subscribes on a connection of its own and
\* starts the listener ...
SpawnListener(a) ==
    /\ ws[a].con = "listen"
    /\ LocalStep(a, IF daemon.session = Nobody THEN Fail(ws[a])
                    ELSE [ws[a] EXCEPT !.con = "replay", !.listener = "live"],
                 Fail(ws[a]))
    /\ UNCHANGED dir

\* ... and returns once the initial replay is applied; the handle aborts
\* the task when the wait ends with a closed projection.
AwaitReplay(a) ==
    /\ ws[a].con = "replay"
    /\ \/ /\ ws[a].gate = "ready"
          /\ Set(a, [ws[a] EXCEPT !.con = IF role = "host" THEN "publish" ELSE "import",
                                  !.rb.listener = TRUE])
       \/ /\ ws[a].gate = "closed"
          /\ Set(a, Fail(AbortListener(ws[a])))
    /\ UNCHANGED <<role, daemon, dir, budget>>

\* docs.import_and_subscribe of the ticket's namespace.
ImportDoc(a) ==
    /\ ws[a].con = "import"
    /\ LocalStep(a, Goto(ws[a], "attach"), Fail(ws[a]))
    /\ UNCHANGED dir

\* wait_for_initial_sync, 30 seconds at most.
InitialSync(a) ==
    /\ ws[a].con = "sync"
    /\ LocalStep(a, Goto(ws[a], "export"), Fail(ws[a]))
    /\ UNCHANGED dir

\* bulk_export leaves the host's files on disk, also when it fails half way.
BulkExport(a) ==
    /\ ws[a].con = "export"
    /\ LocalStep(a, Goto(ws[a], "announce"), Fail(ws[a]))
    /\ dir' = [dir EXCEPT !.files = TRUE]

\* disarm(): the handle owns the node now and no clean-up fires.
Up(w) == [w EXCEPT !.con = "up", !.rb = NoGuard, !.slot = TRUE, !.handle = TRUE]

\* publish_ticket is the host's last fallible step.
Publish(a) ==
    /\ ws[a].con = "publish"
    /\ LocalStep(a, IF daemon.session = Nobody THEN Fail(ws[a]) ELSE Up(ws[a]), Fail(ws[a]))
    /\ UNCHANGED dir

\* The joiner announces its endpoint id; a failure is logged only.
Announce(a) ==
    /\ ws[a].con = "announce"
    /\ Set(a, Up(ws[a]))
    /\ UNCHANGED <<role, daemon, dir, budget>>

-----------------------------------------------------------------------------
\* rollback(): LeaveSession if armed ...
UndoLeave(a) ==
    /\ ws[a].con = "leave"
    /\ LET next == Goto(ws[a], "forget") IN
       IF ws[a].rb.leave
       THEN Request(a, "leave", next, [next EXCEPT !.excused = TRUE])
       ELSE Set(a, next) /\ UNCHANGED <<role, daemon, budget>>
    /\ UNCHANGED dir

\* ... then ForgetAttachment if armed ...
UndoForget(a) ==
    /\ ws[a].con = "forget"
    /\ LET next == Goto(ws[a], "close") IN
       IF ws[a].rb.forget
       THEN Request(a, "forget", next, [next EXCEPT !.excused = TRUE])
       ELSE Set(a, next) /\ UNCHANGED <<role, daemon, budget>>
    /\ UNCHANGED dir

\* Mutant: the router is drained with the projection left as it was.
NodeShutdownGateOpen(w) == [w EXCEPT !.node = "draining", !.slot = FALSE]

\* WorkspaceNode::shutdown closes the projection, then drains the router.
NodeShutdown(w) == [CloseGate(w) EXCEPT !.node = "draining", !.slot = FALSE]

\* ... and the node, if the guard holds one.
UndoNode(a) ==
    /\ ws[a].con = "close"
    /\ Set(a, IF ws[a].rb.node THEN Goto(NodeShutdown(ws[a]), "drain")
              ELSE Goto(ws[a], "failed"))
    /\ UNCHANGED <<role, daemon, dir, budget>>

\* Router::shutdown returns when no hook is waiting, and may report that
\* the endpoint did not close.
Drained(a, closed, failed) ==
    /\ ws[a].hooks = 0
    /\ \/ Set(a, closed) /\ UNCHANGED budget
       \/ Set(a, failed) /\ Spend
    /\ UNCHANGED <<role, daemon, dir>>

UndoDrained(a) ==
    /\ ws[a].con = "drain"
    /\ Drained(a, [ws[a] EXCEPT !.con = "failed", !.node = "closed"],
                  [ws[a] EXCEPT !.con = "failed", !.node = "failed"])

\* What a constructor has handed to its client's writer and waits for: dropping
\* the future forgets the reply, not the request.
InFlight(a) ==
    {r \in Requests :
       /\ r.by = a
       /\ \/ r.op = "host" /\ ws[a].con \in {"register", "upgrade"}
          \/ r.op = "list" /\ ws[a].con = "attach"
          \/ r.op = "leave" /\ ws[a].con = "leave" /\ ws[a].rb.leave
          \/ r.op = "forget" /\ ws[a].con = "forget" /\ ws[a].rb.forget}

\* Drop for WorkspaceRollback: abort the listener, close the projection,
\* and drain the node in a task of its own.  A node still inside spawn, or
\* already moved into the rollback's own drain, is dropped as it is.
DropGuard(w) ==
    LET v == IF w.rb.listener \/ w.con = "replay" THEN AbortListener(w) ELSE w IN
    IF w.rb.node /\ w.con # "drain"
    THEN [NodeShutdown(v) EXCEPT !.reaper = TRUE]
    ELSE [v EXCEPT !.node = IF @ \in {"bound", "stores", "draining"} THEN "dropped" ELSE @]

\* The caller drops the constructor's future at an await.
Cancel(a) ==
    /\ ws[a].con \in Building
    /\ Spend
    /\ Set(a, [DropGuard(ws[a]) EXCEPT !.con = "cancelled", !.rb = NoGuard])
    /\ daemon' = [daemon EXCEPT !.late = @ \cup InFlight(a)]
    /\ UNCHANGED <<role, dir>>

\* Mutant: the task also sends the LeaveSession the dropped guard held.
ReaperLeaves(a) ==
    /\ ws[a].reaper /\ ws[a].hooks = 0
    /\ \/ Set(a, [ws[a] EXCEPT !.node = "closed"]) /\ UNCHANGED daemon
       \/ ws[a].node = "closed"
          /\ Set(a, [ws[a] EXCEPT !.reaper = FALSE])
          /\ daemon' = IF role = "host" THEN Deleted ELSE daemon
    /\ UNCHANGED <<role, dir, budget>>

\* The task Drop spawned finishes the router.
Reaper(a) ==
    /\ ws[a].reaper
    /\ Drained(a, [ws[a] EXCEPT !.reaper = FALSE, !.node = "closed"],
                  [ws[a] EXCEPT !.reaper = FALSE, !.node = "failed"])

Construct(a) ==
    \/ Subscribe(a) \/ Bind(a) \/ OpenStores(a) \/ AwaitRelay(a) \/ OpenDoc(a)
    \/ RegisterHost(a) \/ RegisterAttachment(a) \/ Scan(a) \/ ConnectUpgrade(a)
    \/ SpawnListener(a) \/ AwaitReplay(a) \/ ImportDoc(a) \/ InitialSync(a)
    \/ BulkExport(a) \/ Publish(a) \/ Announce(a)
    \/ UndoLeave(a) \/ UndoForget(a) \/ UndoNode(a) \/ UndoDrained(a)

-----------------------------------------------------------------------------
\* The cap listener: the ordered ReplayComplete marker opens the projection,
\* a gap or an EOF takes it back, and a listener that gives up its
\* reconnects, is cancelled by the token or aborted closes it for good.
ListenerStep(a) ==
    /\ \/ /\ ws[a].listener = "live" /\ ws[a].gate \in {"initializing", "replaying"}
          /\ Set(a, [ws[a] EXCEPT !.gate = "ready"])
       \/ /\ ws[a].listener = "aborting" \/ (ws[a].listener = "live" /\ ws[a].token)
          /\ Set(a, [CloseGate(ws[a]) EXCEPT !.listener = "over"])
    /\ UNCHANGED <<role, daemon, dir, budget>>

ListenerTrouble(a) ==
    /\ ws[a].listener = "live"
    /\ \/ ws[a].gate = "ready" /\ Set(a, [ws[a] EXCEPT !.gate = "replaying"])
       \/ Set(a, [CloseGate(ws[a]) EXCEPT !.listener = "over"])
    /\ Spend
    /\ UNCHANGED <<role, daemon, dir>>

\* PeerFilter: a connection parks in its hook until the projection is ready
\* (and is judged) or closed (and is turned away).
Connect(a) ==
    /\ ws[a].node \in {"stores", "open"} /\ budget.conns > 0
    /\ Set(a, [ws[a] EXCEPT !.hooks = @ + 1])
    /\ budget' = [budget EXCEPT !.conns = @ - 1]
    /\ UNCHANGED <<role, daemon, dir>>

HookReturns(a) ==
    /\ ws[a].hooks > 0
    /\ ws[a].gate \in {"ready", "closed"} \/ ws[a].node \in {"dropped", "expired"}
    /\ Set(a, [ws[a] EXCEPT !.hooks = @ - 1])
    /\ UNCHANGED <<role, daemon, dir, budget>>

\* Another handle leaves the session, or its host closes it.
SessionLeft ==
    /\ daemon.session # Nobody
    /\ Spend
    /\ daemon' = [Deleted EXCEPT !.left = TRUE]
    /\ UNCHANGED <<role, ws, dir>>

-----------------------------------------------------------------------------
\* spawn_doc_tasks: the watcher and the applier take the doc token of the
\* moment.
SpawnDocTasks(w) == [w EXCEPT !.docTasks = 1]

\* run(): the rotation task once, then the doc tasks.
Run(a) ==
    /\ ws[a].con = "up" /\ ws[a].handle /\ ws[a].rot = "off"
    /\ Set(a, [SpawnDocTasks(ws[a]) EXCEPT !.rot = "idle"])
    /\ UNCHANGED <<role, daemon, dir, budget>>

DocTaskStops(a) ==
    /\ \/ ws[a].docTasks = 1 /\ ws[a].docToken /\ Set(a, [ws[a] EXCEPT !.docTasks = 0])
       \/ ws[a].oldTasks > 0 /\ Set(a, [ws[a] EXCEPT !.oldTasks = @ - 1])
    /\ UNCHANGED <<role, daemon, dir, budget>>

\* The rotation task receives a signal.  A host looks up the peer map under
\* the node lock and waits for the projection; a survivor imports directly.
RotationSignal(a) ==
    /\ ws[a].rot = "idle" /\ budget.signals > 0
    /\ ws[a].lock = "free"
    /\ Set(a, [ws[a] EXCEPT !.rot = CASE role = "joiner" -> "import"
                                      [] ws[a].slot -> "wait"
                                      [] OTHER -> "idle"])
    /\ budget' = [budget EXCEPT !.signals = @ - 1]
    /\ UNCHANGED <<role, daemon, dir>>

\* wait_for_projection: ready, or false once the token or the projection
\* says that the workspace is going.
Projected(w) == w.gate = "ready"
GivenUp(w) == w.token \/ w.gate = "closed"

RotationWaits(a) ==
    /\ ws[a].rot = "wait"
    /\ \/ Projected(ws[a]) /\ Set(a, [ws[a] EXCEPT !.rot = "lock"])
       \/ GivenUp(ws[a]) /\ Set(a, [ws[a] EXCEPT !.rot = "idle"])
    /\ UNCHANGED <<role, daemon, dir, budget>>

\* rotate_namespace holds the node lock; an empty slot ends the rotation.
RotationLocks(a) ==
    /\ ws[a].rot = "lock" /\ ws[a].lock = "free"
    /\ Set(a, IF ws[a].slot THEN [ws[a] EXCEPT !.rot = "snapshot", !.lock = "rotation"]
              ELSE [ws[a] EXCEPT !.rot = "idle"])
    /\ UNCHANGED <<role, daemon, dir, budget>>

\* collect_rotation_survivors waits for the projection with the lock held.
RotationSnapshot(a) ==
    /\ ws[a].rot = "snapshot"
    /\ \/ Projected(ws[a]) /\ Set(a, [ws[a] EXCEPT !.rot = "import", !.lock = "free"])
       \/ GivenUp(ws[a]) /\ Set(a, [ws[a] EXCEPT !.rot = "idle", !.lock = "free"])
    /\ UNCHANGED <<role, daemon, dir, budget>>

\* reimport_namespace: the old doc token is cancelled and a new child of the
\* shutdown token installed; it is born cancelled after a shutdown.
RotationImports(a) ==
    /\ ws[a].rot = "import" /\ ws[a].lock = "free"
    /\ Set(a, IF ws[a].slot
              THEN [ws[a] EXCEPT !.rot = "respawn", !.docToken = ws[a].token,
                                 !.docTasks = 0, !.oldTasks = @ + ws[a].docTasks]
              ELSE [ws[a] EXCEPT !.rot = "idle"])
    /\ UNCHANGED <<role, daemon, dir, budget>>

RotationRespawns(a) ==
    /\ ws[a].rot = "respawn"
    /\ Set(a, [SpawnDocTasks(ws[a]) EXCEPT !.rot = "idle"])
    /\ UNCHANGED <<role, daemon, dir, budget>>

RotationStops(a) ==
    /\ ws[a].rot = "idle" /\ ws[a].token
    /\ Set(a, [ws[a] EXCEPT !.rot = "over"])
    /\ UNCHANGED <<role, daemon, dir, budget>>

Rotate(a) ==
    \/ RotationWaits(a) \/ RotationLocks(a) \/ RotationSnapshot(a)
    \/ RotationImports(a) \/ RotationRespawns(a) \/ RotationStops(a)

-----------------------------------------------------------------------------
\* shutdown() cancels the token, and with it every child, before it asks
\* for the lock.
ShutdownCall(a, c) ==
    /\ c \in budget.callers
    /\ ws[a].con = "up" /\ ws[a].handle /\ ws[a].call[c] = "idle"
    /\ Set(a, [ws[a] EXCEPT !.token = TRUE, !.docToken = TRUE, !.call[c] = "lock"])
    /\ UNCHANGED <<role, daemon, dir, budget>>

\* Mutant: the lock is let go before the node is drained.
ShutdownTakesUnlocked(a, c) ==
    /\ ws[a].call[c] = "lock" /\ ws[a].lock = "free"
    /\ Set(a, IF ws[a].slot
              THEN [NodeShutdown(ws[a]) EXCEPT !.call[c] = "drain"]
              ELSE [ws[a] EXCEPT !.call[c] = "ok"])
    /\ UNCHANGED <<role, daemon, dir, budget>>

\* An empty slot is Ok at once; the caller that takes the node keeps the
\* lock until the router is down.
ShutdownTakes(a, c) ==
    /\ ws[a].call[c] = "lock" /\ ws[a].lock = "free"
    /\ Set(a, IF ws[a].slot
              THEN [NodeShutdown(ws[a]) EXCEPT !.call[c] = "drain", !.lock = c]
              ELSE [ws[a] EXCEPT !.call[c] = "ok"])
    /\ UNCHANGED <<role, daemon, dir, budget>>

\* did_shutdown is set only once the router closed cleanly.
ShutdownDrained(a, c) ==
    /\ ws[a].call[c] = "drain"
    /\ LET back == [ws[a] EXCEPT !.lock = "free"] IN
       Drained(a, [back EXCEPT !.call[c] = "ok", !.node = "closed", !.did = TRUE],
                  [back EXCEPT !.call[c] = "err", !.node = "failed"])

\* The caller drops the future of its shutdown call, and with it the node.
ShutdownCancelled(a, c) ==
    /\ ws[a].call[c] \in {"lock", "drain"}
    /\ Spend
    /\ Set(a, IF ws[a].call[c] = "lock" THEN [ws[a] EXCEPT !.call[c] = "cancelled"]
              ELSE [ws[a] EXCEPT !.call[c] = "cancelled", !.lock = "free", !.node = "dropped"])
    /\ UNCHANGED <<role, daemon, dir>>

Returned(w, c) == w.call[c] \in {"idle", "ok", "err", "cancelled"}

\* The application lets go of its handle.
LetGo(a) ==
    /\ ws[a].con = "up" /\ ws[a].handle
    /\ \A c \in Callers : Returned(ws[a], c)
    /\ Set(a, [ws[a] EXCEPT !.handle = FALSE])
    /\ UNCHANGED <<role, daemon, dir, budget>>

\* Drop for Workspace runs when the rotation, watcher and applier tasks no
\* longer hold the handle either.
DropWorkspace(a) ==
    /\ ws[a].con = "up" /\ ~ws[a].handle /\ ws[a].bomb = "armed"
    /\ ws[a].rot \in {"off", "over"} /\ ws[a].docTasks + ws[a].oldTasks = 0
    /\ Set(a, [ws[a] EXCEPT !.bomb = IF ws[a].did THEN "silent" ELSE "fired",
                            !.node = IF ws[a].slot THEN "dropped" ELSE @,
                            !.slot = FALSE])
    /\ UNCHANGED <<role, daemon, dir, budget>>

TaskStep(a) ==
    \/ Construct(a) \/ Reaper(a) \/ ListenerStep(a) \/ HookReturns(a)
    \/ DocTaskStops(a) \/ Rotate(a) \/ DropWorkspace(a)
    \/ \E c \in Callers : ShutdownTakes(a, c) \/ ShutdownDrained(a, c)

Next ==
    \/ SessionLeft
    \/ \E r \in daemon.late : LateRequest(r)
    \/ \E a \in Attempts :
         \/ TaskStep(a)
         \/ BeginHost(a) \/ BeginJoin(a) \/ TakeTicket(a) \/ Cancel(a) \/ RelayExpires(a)
         \/ ListenerTrouble(a) \/ Connect(a) \/ Run(a) \/ RotationSignal(a) \/ LetGo(a)
         \/ \E c \in Callers : ShutdownCall(a, c) \/ ShutdownCancelled(a, c)

Spec == Init /\ [][Next]_vars

\* The runtime polls every task that can run.  Every behaviour has finitely
\* many steps besides stuttering (each uses up a step of a task or of the
\* budget), so one condition for all tasks asks as much as one for each.
\* Nothing makes the caller begin, run, shut down or let go; a ticket need
\* not come, nor a late request be carried out.
Fairness == WF_vars(\E a \in Attempts : TaskStep(a))

FairSpec == Spec /\ Fairness

-----------------------------------------------------------------------------
(***************************************************************************)
(* Properties                                                              *)
(***************************************************************************)

\* A constructor that returned an error left nothing of its own behind:
\* whatever step failed, its node no longer holds the stores, its workspace
\* is not listed, and a session it made is gone.  The exception are
\* requests whose outcome it could not know (WorkspaceRollback,
\* workspace.rs:3230).
FailureUndone ==
    \A a \in Attempts :
        ws[a].con = "failed" =>
            /\ ~HoldsStores(ws[a])
            /\ ~ws[a].excused => a \notin {daemon.session, daemon.listed}

\* A constructor that failed or was dropped half way keeps no task: its
\* listener is stopped or stopping, so nothing feeds a projection nobody
\* owns (Drop for WorkspaceRollback, workspace.rs:3310).
NoStrayListener ==
    \A a \in Attempts :
        ws[a].con \in {"failed", "cancelled"} => ws[a].listener # "live"

\* A joiner's bring-up, however it ends, does not take its caller out of
\* the session: only somebody else's leave ends it (join_with,
\* workspace.rs:1338).
JoinerKeepsMembership ==
    role = "joiner" /\ ~daemon.left => daemon.session # Nobody

\* A host's workspace that is up stays listed, whatever is left of an
\* earlier attempt on the same directory: the tasks a dropped constructor
\* leaves never reach the session its successor runs (host_with_inner,
\* workspace.rs:1069).  Only a request that it had sent before it was
\* dropped or disconnected does, when the daemon carries it out after the
\* successor has attached.
UpIsListed ==
    \A a \in Attempts :
        role = "host" /\ ws[a].con = "up" /\ ws[a].slot /\ ~daemon.left /\ a \notin daemon.crossed =>
            daemon.session # Nobody /\ daemon.listed = a

\* When any shutdown call returns Ok the endpoint is closed, also for a
\* caller that found the node taken, unless the call that took the node
\* failed or was dropped (shutdown, workspace.rs:2555).
ShutdownMeansClosed ==
    \A a \in Attempts, c \in Callers :
        ws[a].call[c] = "ok" =>
            \/ ws[a].node = "closed"
            \/ \E d \in Callers : ws[a].call[d] \in {"err", "cancelled"}

\* A handle dropped without a word had closed its endpoint: the relay holds
\* no session of it (Drop for Workspace, workspace.rs:2835).
SilentDropIsClean ==
    \A a \in Attempts : ws[a].bomb = "silent" => ws[a].node = "closed"

InCall(w) == w.con \in Undoing \/ \E c \in Callers : ~Returned(w, c)

\* Every shutdown call and every rollback returns: no hook, rotation or
\* listener waiting for a replay can hold the router or the node lock
\* for ever (WorkspaceNode::shutdown, wait_for_projection).
CallsReturn ==
    \A a \in Attempts :
        InCall(ws[a]) ~> ~InCall(ws[a])

\* After shutdown was called every task of the workspace ends, the ones a
\* rotation respawns at that very moment included (reimport_namespace,
\* spawn_doc_tasks).
TasksEnd ==
    \A a \in Attempts :
        ws[a].token ~> /\ ws[a].rot \in {"off", "over"}
                       /\ ws[a].docTasks + ws[a].oldTasks = 0
                       /\ ws[a].listener = "over"

(* A constructor that failed has undone what it made in the daemon and     *)
(* closed its stores, and one that failed or was dropped has no listener   *)
(* running.                                                                *)
AttemptsAreUndone ==
    /\ TypeOK
    /\ FailureUndone
    /\ NoStrayListener

(* The clean-up of one constructor does not reach further: a joiner stays  *)
(* a member of its session, and a workspace that is up keeps its session   *)
(* and attachment whatever an earlier attempt on the directory still       *)
(* undoes, unless a request it sent and did not wait for comes late.       *)
SessionsAreKept ==
    /\ JoinerKeepsMembership
    /\ UpIsListed

(* Ok from shutdown and silence from Drop mean that the endpoint was       *)
(* closed, with two callers, failures and dropped futures.                 *)
ShutdownIsHonest ==
    /\ ShutdownMeansClosed
    /\ SilentDropIsClean

(* shutdown, rotation, the constructor and the connection hooks do not     *)
(* wait on each other for ever, and after a shutdown the tasks end.        *)
NobodyWaitsForEver ==
    /\ CallsReturn
    /\ TasksEnd
=============================================================================
