# artel: TLA+ models and proofs

Specifications of the parts of artel whose correctness depends on the order of
steps, from the host's log file to the life of a workspace handle. TLC checks them
on small instances; TLAPS proves most of the safety properties for every instance.

    tlc -workers 2 -config HostLog.cfg MCHostLog     # one run
    tlapm HostLogProofs.tla                          # the proofs

`PROJECT.json` lists the components, the runs with their properties, the mutants,
the source lines every definition stands for, and the hazards.

## 1. The system

artel is a substrate for peer-to-peer collaboration. A **daemon** per user keeps
**sessions**; programs talk to it over a local socket (**IPC**) through
`artel-client`; daemons talk to each other over iroh gossip and direct QUIC
streams. `artel-fs` builds a shared **workspace** (a synchronised directory over
iroh-docs) on top of a session.

One daemon is the **host** of a session and its only sequencer. A joiner's daemon
has a **mirror** (`SessionKind::Remote`) that gossip fills. Membership is by
signed tickets that the host's ledger must list; write access is by capability
messages in the host's log.

| part | module | state | what makes it hard |
|---|---|---|---|
| host session log (`session.rs`, `store/fs.rs`) | `HostLog` over `DurableLog` | log and head in memory; framed log file; `meta.json` | two files per append, crash or I/O error between them, torn frames |
| session lifecycle (`session.rs`, `store/fs.rs`) | `HostSession` | members, ticket ledger, capabilities, epoch; their files; the epoch floor | steps after the unlock, handles that outlive a leave, two-file updates, ids used again |
| session files and attachments (`store/fs.rs`, `store/memory.rs`) | `FsStore` over `SessionStore` | every file of a session directory, attachments, tmp files | each call is several writes; deletes that stop half way; attachment calls across lives |
| capability feed (`session.rs`, `server.rs`, `client.rs`, `workspace.rs`, `peer_map.rs`) | `CapFeed` | broadcast ring, socket, client queue, listener watermark, `PeerMap` and its gate | bounded buffers, lag, gaps, disconnects, replays, tasks spawned mid-replay |
| namespace rotation (`workspace.rs`) | `Rotation` | four files, the document store, the ticket cells; every peer's live document | five steps that can each fail or be cut by a crash; batched commits; peers that restart |
| joiner mirror (`session.rs`, `gossip_bridge.rs`) | `Mirror` | mirror log and epoch, in memory and on disk; live watermark; apply tasks | lost, repeated, reordered frames over several incarnations of one id |
| remote join, leave and send (`session.rs`, `gossip_bridge.rs`, `server.rs`) | `RemoteSession` | sessions map, pending claims, subscription slots, forwarders, pending sends | concurrent requests keyed by the session id alone; timeouts and one retry |
| ticket and signal delivery (`session.rs`, `server.rs`, `upgrade_protocol.rs`) | `TicketDelivery` | envelope, delivery tasks and lanes, connections, receivers' tickets | an older envelope arriving last, handlers that outlive their sender, bounded accepts |
| file sync (`watcher.rs`, `applier.rs`, `echo_guard.rs`, `progress.rs`, `workspace.rs`) | `FileSync` | disk, document, echo guard and its timers, the tasks | echoes, debounce, tombstones, constructor passes, edits at any moment |
| workspace lifecycle (`workspace.rs`, `node.rs`, `peer_filter.rs`) | `Workspace` | constructor and its rollback guard, node, listener, node lock, shutdown callers | failure or drop at any await; a lock held across a wait; two shutdowns |
| IPC (`server.rs`, `client.rs`) | `Ipc` | calls and pending table, writer and reader, memberships, forwarders, drain | cancelled calls, full queues on both sides, stalled and dead clients |
| daemon process (`main.rs`, `pidfile.rs`, `spawn.rs`, `key.rs`, `peer_addr_cache.rs`) | `Daemon` | PID file and lock by inode, socket, key file, address cache, callers | two starters, a starter and a stopper, kills, power loss, recycled PIDs |

Parts without a protocol of their own (signatures and codecs, document keys, the
keystore) are listed in `PROJECT.json` with the reason they are left out.

**How the parts meet.** `Registry::send` appends to the host log, then its event
enters the capability feed, then gossip carries the message to mirrors. The
capability messages in the log drive both the daemon's write check and, through
the feed, the workspace's `PeerMap`; a revoke there starts a rotation, whose ticket
travels by ticket delivery. The host epoch of the lifecycle, kept by the session
files, fences the `SessionClosed` that mirrors obey. Remote joins and leaves decide
which mirror a forwarder feeds. A workspace's constructor uses the IPC connection
to create session and attachment, and its node, listener and document tasks are
those of the feed, the rotation and the file sync.

**What correctness means here**

1. A message the host acknowledged is in its log at one seq for ever.
2. After a restart the host's session is what it was: members, tickets,
   capabilities, epoch, attachments.
3. A ticket that was handed out admits until it is revoked or its session is
   closed, and never after.
4. Nothing enters the log that its author was not entitled to at that seq.
5. The workspace's view of the capabilities is complete before it is acted on,
   and catches up after every loss.
6. A revoked peer gets no key of the namespace it was rotated out of; everyone
   else ends up on the new one.
7. A mirror keeps what it showed, in order and once, lives as long as the
   incarnation it was joined to, and is the one its forwarder feeds.
8. A send is broadcast once and sequenced once for each delivery of that frame; a
   definite answer about one that was delivered once is true.
9. Every member is sent the newest workspace ticket, and an older one does not
   replace it.
10. At rest the files and the document agree unless a change was dropped, and a
    tombstone spares the newer version it can see.
11. Whatever is begun is undone, answered or ended: constructors, requests,
    shutdowns, tasks; and one daemon owns a directory.

## 2. Modules

A critical section of a mutex is one action, with its outcome as a parameter where
it can end in several ways (done, failed, failed with the write in place, died
inside). What an operation does after it unlocked or awaited is another action.
Formats, signatures and wording are abstracted away: a message in a model is one
that verifies, a file name a member of a small set. Where a behaviour draws on
several bounds at once, a **scenario** (a record chosen in `Init`) gives the bounds
of that behaviour, so that one run covers several mixes of faults without their
product.

**HostLog.** The log file is `frames` (what a reader recovers), `torn` (a partial
frame follows them) and `behind` (frames written after the partial one, where the
reader has lost the boundaries). `SendOk` and `SendErr` are a send whose append
returned; `IoFaults` says where an append may fail while the daemon lives on.
`Crash` stops before, inside or after any write of an append. `Load` is
`read_log` with its truncation and `load_one` with `head = max(meta.head, tail)`.
`damaged` records that a failed append left bytes in the file; the code has no
such flag. **DurableLog** is the abstract log: acknowledged messages stay, at
increasing seqs, and refused ones never appear.

**HostSession.** `sess["map"]` is the session in the registry's map; in scenarios
with `stale`, `sess["orphan"]` is one that an operation still holds after the map
dropped it, while the store it writes to goes by id. `partial` lets a delete stop
half way and `late` lets a write report an error after it landed. `disk` and
`floor` are the directory and the epoch-floor sidecar. `mixed` records whose entries
the log file holds: of the running session only, or also what a refused append, a
half-done delete or an orphan left there ("file"), which a reload then takes into
memory ("memory"). The actions are `host` in
its create and resume form, `issue_ticket`, `revoke_ticket`, `ensure_member`, the
auto-grant that follows it outside the lock, `send` by a member and by the host,
`remove_member`, `leave` in its two halves, and `load`.

**FsStore.** Every call of the `SessionStore` trait as the sequence of its file
writes (`op.steps`), each atomic, with an error before or after any of them and a
crash between any two. `files` and `tmps` are the attachments; `reg` and `list` are
calls that hold no lock or the lock of an earlier life. The registry changes `mem`
when the call returns. **SessionStore** is the same trait as `MemoryStore` has it:
a record, its attachments, and a floor that outlives both. The values that its calls
take are its callers' own, so an argument is read off the state after the call.

**CapFeed.** `log` and `unsent` are the session and the events that sends have
not emitted yet; `sub` is the daemon's subscription with its ring buffer; `wire`,
`queue` and `gap` are the socket, the client queue and the pending gap count;
`lst`, `attempt`, `last` are the listener; `gate`, `caps`, `revoked` the
`PeerMap`; `tasks` and `given` the key deliveries. There is one action per task
iteration: `Forward`, `ReadFrame`, `FlushGap`, `Drain`, and `DeliverKey`.
`overtaken` records that an event was emitted out of the order of seqs, or again
after a replay that had it.

**Rotation.** `h` is the host workspace's memory with the program counter of its
rotation task, `disk` the four files, `store` how many minted namespaces the
document store has surely committed, `keys` who was given which write key, `env`
and `mirror` the workspace-ticket envelope at the host and at each peer, `peer`
and `inbox` the peers. `SendCapability`, `Hear`, the deliveries, the six steps of
the rotation task, `Attach` and `Consume` are the code's tasks; `Crash`,
`CrashInRotate`, `Restart` and `SelfHeal` the host's restarts.

**Mirror.** `net` holds every frame the host ever published; any of them may
arrive at any time, any number of times or never, which stands for loss,
duplication, reordering and replay at once. `mir` is the session in the joiner's
map, `fwd` its forwarder with the live watermark, `tasks` the spawned applies,
`closers` the teardowns between their store delete and their map removal. An append,
an epoch write or a delete may fail with its work half done (`faults`): `disk.torn`
says that part of a frame is in the file, `mir.halved` that a failed delete took a
file from under the mirror. The host is reduced to what it publishes.

**RemoteSession.** A connection's task handles one request after another; a step is
what it does between two awaits or under one lock. `sessions`, `dir`, `pending` and
`slot` hold whatever was last put there under the session id, while `mirrors` and
`fwds` keep the objects apart. `claim_remote_mirror` with its three looks at the
map, `RemoteJoinGuard`, `SessionSlots` with its generations, rollback, leave, the
host's close, and `SendRequest` with ack, timeout, re-subscribe and retry. The host
takes a frame as often as it is delivered, since nothing there looks at request ids;
`host.repeated` has the requests it took more than once.

**TicketDelivery.** `arcs` are the host's Session objects, of which `current` is in
the map; `spawns` and `tasks` the deliveries before and after their spawn; `conns`
the receiver's handlers, which go on when the sender gave up. `mirror` is each
peer's stored ticket, `emitted` the signals its daemon passed on.

**FileSync.** One node. `disk`, `doc` and `blobs` are the files, the replica (an
entry per path and author) and the blob store; `flight` what peers wrote and the
replica has not; `guard` and `timers` the echo guard; `boot` the constructor passes;
`w` and `a` the watcher and applier tasks, with `rx` and `live` before them. A
tombstone goes through mark, fingerprint, comparison and unlink in steps of their own
(`Handle`, `Snapshot`, `Compare`, `Unlink`), with a user who may write between any
two; on macOS one unlink can raise several events (`UnlinkNoticed`).
`adrift` records a path for which the code is known to have dropped a change
(section 5).

**Workspace.** `ws[a]` is the a-th handle built on one directory: where its
constructor stands, what its rollback guard would undo, node, gate, hooks,
listener, tasks, node lock, shutdown callers and the drop bomb. `daemon` is what
the daemon holds for them. A request to the daemon is answered, refused, carried out
with its reply lost, or still queued when its sender gives up (`daemon.late`), and then
carried out at any later time or never. `daemon.crossed` are the attempts that had
attached when such a request came.

**Ipc.** `call` and `cl` are the client's futures, pending table, writer, reader and
queues; `up` and `down` the socket; `srv` the connection task with its memberships
and `ForwarderSet`; `fwd` the forwarders; `run` the daemon's drain.

**Daemon.** Files are inodes, since an unlinked file lives on with whoever has it
open and flock belongs to the inode. `proc` are processes by PID, one system call a
step; `client` callers of `connect_or_spawn`, `stop` the CLI's stop command.

The **...Proofs** modules and **FsStoreWrites** hold the proofs, the **MC** modules
the instances for TLC.

## 3. Runs

Each module has one run. Deadlock is not checked: every model has bounds, and the
system may rest when nobody calls it. Several properties are conjunctions of named
formulas, each with its own comment in the module; the type invariant is a conjunct
of one of them.

**HostLog** (97 thousand states). Four sends, every I/O error, two crashes.
`CrashSafety`: until a failed append leaves bytes behind, acknowledged messages are
durable, no seq is used twice, a restart rebuilds memory, a refused send never
appears. `AckedSeqsDistinct` holds with all faults. `ImplementsDurableLog`: every
step that leaves no damage is a step or a stutter of the abstract log. Four calls
allow for a failure, a crash inside a later append, and acknowledged sends around
both.

**HostSession** (614 thousand). One remote peer, up to three tickets, up to four log
entries, two epochs, one crash, in nine scenarios: a crash only; late errors, with two
tickets and a crash or with a longer log; stale handles, with a crash or a longer log;
partial deletes, with two tickets or a longer log; all three over the ledger alone, with
two tickets and a crash, and late errors and stale handles with three tickets.
`LedgerIsExact` is the issued-only ledger: revocation holds in all scenarios, handed-out tickets stay where no stale handle or partial
delete is at work, and a closed incarnation's tickets are dead where no stale handle
is. `EveryEntryAuthorized` replays the log below each entry, in the file and in memory:
the file until a fault has mixed something into it, memory until a reload has taken
such a file. `EpochAboveEveryClose`
is the host's half of the close fence (not after a partial delete; and a resume that
outlives two leaves can leave an epoch in `meta.json` that was closed already, which
a reload then takes).
`ReloadRebuildsMemory` is store before memory for all the state together. What the
exceptions stand for is in section 5.

**FsStore** (751 thousand). One id with two lives, one message and one attachment in
each, a ledger written twice, one error or crash at any write. `StoreLeadsMemory`:
the floor is above every epoch used, memory is what a load would return, and after
an error never ahead of the files. `AttachmentsAreOwned`: the cascade of a delete,
no tmp file without a writer after a start, complete files in a listing.
`ImplementsSessionStore`: each write of a file is a step or a stutter of the trait's
in-memory meaning, except after a half-done delete, across lives, or with an
unreadable ledger.

**CapFeed** (748 thousand). Every buffer has room for one element, so each lag, full
queue and gap happens within three messages; two sends may be between their append
and their event; two reconnect attempts, one disconnect. `ListenerIsComplete`,
`KeysFollowTheLog` and, under fairness, `EventuallyCaughtUp`, all until an event is
overtaken.

**Rotation** (428 thousand). Two peers with ReadWrite, one host crash, one peer
restart, and either two further capability messages or one with two failures of any
steps. `NamespaceIsSafe`: the minted epoch outranks what survivors hold, and a peer
rotated out holds no key. `ReplayDoesNotRotate`: a restart's replay does not mint
again for a revoke that was dealt with. Liveness: `SurvivorsFollowTheHost`,
`RevokedPeersAreCutOff`. Two messages are a revoke and one that interferes with it
(another revoke, a demotion or a new grant).

**Mirror** (2.5 million). Two incarnations of the host's session with two messages
each, three epochs, two joins, two apply tasks at a time, a log file of two frames,
one crash, one write or delete that fails half done. `MirrorIsKept`: a mirror filled
since its join is sorted without duplicates, and a restart gives back its epoch and its
messages, unless a partial frame hides them or a failed delete took a file.
`ClosesAreOfItsIncarnation` (a late close never takes a
mirror whose incarnation is still open), `LastCloseIsAccepted` (the watermark is never
ahead of the host).

**RemoteSession** (476 thousand). Two connections, three requests between them, one
close by the host, one crash, three appends. `ForwardersAreRight`, `RequestsReturn`, and
`SendsAreExact`: a request is in the host's log once unless its frame was delivered
again, a success or a failure agrees with the log for good, and so does a rejection of
what was delivered once. Three requests are two racing joins and a send, or a join, a
leave and a join; three appends are one frame delivered again and another beside it.

**TicketDelivery** (548 thousand). One peer, two publishes, two deliveries of two
attempts, one accept slot, one close, re-host or restart. `NothingIsForgotten`,
`NoStaleTicket`, `DeliveriesEnd`.

**FileSync** (2.9 million). One path, an empty and three other contents of which two
have one length (what a peer writes and what the user writes), a Linux host and a macOS
joiner, each plain, read-only, excluded or capped; one user edit, two peer edits, one
restart and one trouble (error or demotion). The plain host has either the second peer
edit or the trouble, and the capped nodes have one peer edit; the tasks are the same
code in both roles, and the plain joiner has all of it. `RestAgrees`: when all tasks
rest, file and latest entry agree, unless a change was dropped for one of the reasons
its comment lists. `LocalFilesAreSpared`: a tombstone does not unlink what was written
before its last look, unless the fingerprint cannot tell the two apart, and a path that
is not mirrored is not touched. `ApplierSettles`:
no mark and no tracker outlives its apply.

**Workspace** (274 thousand). Two attempts with two faults and a parked connection;
a hand-over with one fault; one handle with two shutdown callers, a rotation signal,
a parked connection and a fault. `AttemptsAreUndone`, `SessionsAreKept`,
`ShutdownIsHonest` and, under fairness, `NobodyWaitsForEver`.

**Ipc** (138 thousand). Every queue holds one element; five scripts of up to four
calls, up to two in flight, one message of others and one or two troubles
(cancelled calls, stalls, deaths, closes from elsewhere, shutdown).
`ConnectionIsConsistent`; under fairness `RequestsReturn` (unless the application
has stalled), `TeardownCompletes`, `ClosureIsSeen`.

**Daemon** (619 thousand). Three PIDs; two callers and one trouble, or two troubles
over three starts, or two troubles with two peers for one cache entry; private,
shared and missing directories. `OwnerServes`, `RestartKeepsState`, and under
fairness `CallsReturn`.

### Fairness

Weak fairness of the steps of tasks that are ready to run, which the tokio runtime
gives every task, and of processes, which the operating system gives. `CapFeed` and
`Rotation`: emit, forward, read, drain, listen, deliver, rotate, consume, and that a
host workspace that died is started again. `RemoteSession`: the request tasks, whose
timeouts fire. `TicketDelivery`: attempts and their timeouts. `Ipc` and `Workspace`:
that some task that can take a step does, which is enough as every behaviour has
finitely many steps of the environment. `Daemon`: processes, callers, the stop
command. A reconnect attempt may fail, but only `MaxAttempts` times in a row as in
the code, after which the listener closes the gate. Nothing is assumed of sends,
requests, disconnects, crashes, failures, or of gossip. The other modules are safety
specifications without fairness.

### Mutants

Every property has a mutant: a definition changed as a plausible mistake in the code
would change it (`Mutant:` comments in the modules), under which TLC finds the
property violated.

## 4. Proofs

TLC shows a property for the small sets and bounds of a run, the theorems for every
value of the constants: any number of peers, requests, incarnations, crashes and
faults. Each proof module extends the module it is about. All of them are built the
same way. An inductive invariant says what the properties leave out; one lemma per
action (or per kind of action) shows that a step keeps it; `InvHolds` combines them,
and the theorems are its consequences. Every invariant was checked by TLC on the
instance of the run before it was proved. The constants are constrained by the
`ASSUME` of each module only, which says that bounds are natural numbers, that sets of
actors are finite, and that markers differ from values (in `FsStore`: `Nothing` and
`Corrupt` are not records or numbers; in `Workspace`: no caller is called "free" or
"rotation"; in `Mirror`: there is a first incarnation).

**HostLogProofs** (any calls, faults, crashes).

* `TypeCorrect`. The one step that is not bookkeeping is `Load`, whose head is the
  maximum over the recovered frames; that it exists takes an induction over the
  natural numbers, stated for a set (`SetInduction`).
* `AckedSeqsAreDistinct`, with all faults. The property does not say that the next
  seq is new; the strengthening `HeadsCoverAcked` does: `meta.json`'s head, and
  memory's while the daemon is up, is at least every acknowledged seq. It holds
  although frames can be lost behind torn bytes, because `append` raises the file's
  head before the reply and `load_one` never starts below it.
* `CrashSafe`, from `~damaged => Dense`: frame i carries seq i, memory is the file,
  every frame was acknowledged or in flight at a crash.
* `RefinesDurableLog`, the refinement: from the same invariant every step is a
  commit, a refusal or nothing in `DurableLog`, a crash inside an append included,
  which commits a message nobody was told of.

**HostSessionProofs** (any peers, tickets, epochs, crashes, all scenarios).

* `LedgerExact`. Needed besides the property: no ticket is listed by two sessions,
  what memory has as revoked the file does not have as active (`Revocations`), and
  where a session is not there, no ticket must stay listed (`StayListed`).
* `EpochFence`, from `Fenced`: the epochs of memory and of `meta.json` are below the
  floor and above the closes. An earlier form of the property claimed this also for a
  reload after an operation had outlived two leaves. It held within the bounds of the
  run and failed in the proof; the property now says where it holds.

The proofs follow the ledger, the epoch and the directory and leave members and log
open (`IsSession`, `IsDir`).

**FsStoreWrites, FsStoreProofs** (any lives, messages, ledgers, attachments, faults).
`FsStoreWrites` has the invariant, what one file write does, and the store calls;
`FsStoreProofs` has the other actions and the theorems. `Stage` goes through every call write by write and names the session that
a restart would load at that point, exactly as long as no write has failed, and as a
lower bound from then on.

* `StoreLeads`: floors, memory and files, from `Stage` and `Floors`.
* `AttachmentsOwned`, from `Registering` (a registration past its check has the lock of
  the present life, until one has crossed into a later one) and `Owned`.
* `RefinesSessionStore`: `FsLogStore` implements `MemoryStore`. The record of
  `SessionStore` is what `load_one` would return, and during a delete what it would
  have returned before. `Creates` and `Amends` list the writes by their place in a
  call, and each `Shows...` lemma is one call of the trait. The refinement needs
  `Ahead` beside the invariant: what a refused host leaves behind is an empty session,
  and a ledger on disk is at most one write ahead of memory, so that the retry of a
  failed write never takes a ticket back.

**MirrorProofs** (any messages, incarnations, epochs, joins, crashes).

* `MirrorKept`: `Vec::insert` at the partition point keeps a sorted log sorted, and
  `BelongTogether` ties watermark, mirror and directory, through every failure of a
  write and every order of appends. It says nothing of messages while the file has a
  partial frame, and nothing at all once a failed delete has taken a file.
* `LastCloseAccepted`, from `BehindHost`: no ticket, beacon, close, mirror or
  directory is ahead of the host's epoch.
* `ClosesRightIncarnation`, an action property, from `ClosesEnd`: a close at or above
  the epoch a ticket, a mirror or a directory has is of an incarnation that has ended.

**RemoteSessionProofs** (any connections, requests, closes, crashes).

* `ForwardersRight`: a request's number names the slot it reserves, the forwarder it
  spawns and the frame it broadcasts. `Known` reads what a request has done off its
  place, `Spawned` and `Feeding` say which forwarder feeds what until then.
* `SendsExact`: every frame and every answer leads back to the one broadcast of its
  request (`Broadcasts`, `Answers`); a second entry, or one after a rejection, can only
  come from a second delivery of it, which `repeated` then has.

**TicketDeliveryProofs** (any peers, publishes, deliveries, limits, resets).

* `NothingForgotten`: an envelope number belongs to one session object, so only a
  membership that is gone supersedes a delivery of the current envelope (`Numbered`).
* `StaleTicketsLose`, an action property, from `LaneIsNewest`: while a delivery holds
  its lane, nothing newer is under way to its peer or has arrived.

**WorkspaceProofs** (any attempts, callers, connections, faults). `Local` says for one
handle how node, listener, guard, lock and calls go with the place of its constructor;
each of the thirty-odd actions keeps it. What handles have to do with each other is in
`Exclusive` (one attempt has the stores), `Armed` (who is in the daemon's books has a
clean-up armed or is excused), `Member`, `Listing` and `Late` (a queued request is of
an attempt that no clean-up is owed for, and one its role can make). Whoever speaks to
the daemon about the session has the stores, so `Exclusive` keeps the clean-up tasks
away from a successor's session; only a queued request gets there, and `crossed` has
the successor then.

* `AttemptsUndone`, `SessionsKept`, `ShutdownHonest`.

**Only model-checked.** All liveness (`EventuallyCaughtUp`, `SurvivorsFollowTheHost`,
`RevokedPeersAreCutOff`, `CallsReturn`, `RequestsReturn` twice, `TeardownCompletes`,
`ClosureIsSeen`, `DeliveriesEnd`, `NobodyWaitsForEver`): fairness and ENABLED are
outside the prover. `EveryEntryAuthorized` and `ReloadRebuildsMemory` of `HostSession`:
they compare a fold over the log with the capabilities kept step by step, which is an
induction over data. The safety properties of `CapFeed`, `Rotation`, `FileSync`, `Ipc`
and `Daemon`, for which no inductive invariant has been worked out.

## 5. Divergences seen without a run of their own

Found while modelling. The models have the behaviour, and the properties are stated
so that they hold beside it; the flag or condition that excepts it is named.
Paths are below `src/crates/`; `session.rs`, `server.rs`, `gossip_bridge.rs`, `pidfile.rs` and
`store/` are artel-daemon's, `workspace.rs`, `peer_map.rs`, `echo_guard.rs` and
`applier.rs` artel-fs's, `client.rs` artel-client's.

**Host log** (`damaged`)

* A write fails with part of a frame in the file and the daemon goes on. The next
  append lands behind the partial frame (`store/fs.rs:1071` does not cut it back) and
  is acknowledged; `read_log` cannot find it after a restart, although an append
  "Must be durable" (`store/mod.rs:54`).
* A frame is in the file and its fsync or the `meta.json` rewrite fails: the send is
  refused and the next one writes a second frame at the same seq.

**Session lifecycle** (the scenario flags)

* A revoke that lands between a peer's admission and its auto-grant
  (`session.rs:2252`) is undone by the auto-grant, and the peer writes above the
  revoke; `session.rs:5681` expects a revoke "fully before bob's send (send rejected)"
  or after it. No property excludes this: the auto-grant is a grant of the host in the
  log like any other, so the peer is authorized again.
* An operation that holds a session the map has dropped appends to the log file of the
  session re-created under the same id (`session.rs:2597`), with entries that the new
  log does not authorize (`mixed`).
* A revoke whose append reports an error stays in the file (`store/fs.rs:1071`). Memory
  goes on without it and admits the peer's next write, which after a reload stands in
  the log above the revoke (`mixed`).
* What a half-done delete left of a log is adopted by the next session of the id, whose
  entries the old ones then precede (`mixed`).
* An operation that holds a session the map has dropped rewrites the ticket file of
  the session re-created under the same id, and can revive a closed incarnation's
  ticket or drop one that was handed out.
* `remove_dir_all` stops half way: a refused leave has taken part of the files with
  it, and without `meta.json` a later resume raises the epoch and not the floor.
* A ledger or epoch write that failed after the rename is in the file and not in
  memory.

**Session files** (`broken`, `crossed`, `shaky`)

* What a half-done delete left of a log is adopted by the next session of the id;
  `store/fs.rs:175` argues that ids are never used for a different session.
* A `RegisterAttachment` that waited through a delete and a re-creation writes into
  the new life.
* A failed create may leave a session that the next start loads, and an envelope
  sidecar that is too large makes `load_all` skip the whole session.

**Capability feed** (`overtaken`)

* Two sends emit their events in the opposite order (`session.rs:2760`); a
  re-subscribe from the highest seq seen skips the lower one for good, where
  `workspace.rs:5058` has "Recovery is gap-free".
* A subscriber whose replay already has two unsent messages gets the live event of
  the first again after the second: a grant is re-applied over its revoke until the
  second event arrives, and for good if that one is lost to lag.
* `PeerMap` has no floor for the host: a revoke aimed at the host lowers it there
  and not in the daemon (`peer_map.rs:175`).

**Rotation** (`Abandoned`, `missed`, `Settled`)

* `rotate_namespace` writes `current-namespace` durably, the document store commits
  the minted namespace up to 500 ms later. After a crash in between
  `open_or_create_doc` (`workspace.rs:4195`) creates and persists a new genesis, and
  with it another session id, where `workspace.rs:1906` has "genesis/doc-id
  untouched, so SessionId is stable".
* A Read member that was online across a rotation and is promoted later gets the
  new key and goes on writing to the old namespace until it attaches again;
  `workspace.rs:2298` says that peers promoted after the rotation land on the new one.
* A joiner writes its `namespace-epoch` file for a returning survivor and starts at
  epoch 0 after a restart all the same (`workspace.rs:1615`).
* A host that dies while it distributes leaves ReadWrite peers that never announced
  themselves behind until the next rotation or attach.

**Mirror** (`loaded`, `torn`, `halved`)

* An append that fails with part of a frame in the file hides the frames that are
  appended behind it from a reload, as on the host (`store/fs.rs:1071`).
* A leave or a close whose `remove_dir_all` fails half way has taken files from under a
  mirror that stays in the map: a restart drops it or brings it back without its log
  (`store/fs.rs:340`).
* A reloaded mirror has its log in arrival order, while the duplicate check relies
  on the order of seqs (`session.rs:529`, `session.rs:3573`).
* A mirror that missed the close of its incarnation takes messages of the next
  one into the same log, and a join with a new ticket changes nothing in it.
* A mirror's subscribers see messages in arrival order, so a re-subscribe from the
  highest seq can skip a lower one.

**Remote join and send** (`taken`, `repeated`)

* The host does not look at the request id of a `SendRequest`
  (`gossip_bridge.rs:1387`): a frame that gossip delivers twice is appended twice, and
  one that was rejected is appended if its sender has become a member when the frame
  comes again.
* The fast path of `join` (`session.rs:1370`) adopts a mirror whose claim is still
  in flight without waiting for its outcome, which `session.rs:739` rules out.
* A rollback or a leave removes the map entry by id and can take the mirror of a
  later request, so that a forwarder feeds one that is not in the map
  (`session.rs:1931`); a guard's finish removes a newer claim's pending entry; a
  slow loser's `store.create` resets `meta.json`; a leave's delete can fall between
  another join's create and insert.
* A forwarder that ended by itself leaves its slot live.

**Ticket delivery**

* The currency check reads the Session object the task captured, so the tasks of a
  closed session go on, and a handler whose sender gave up applies after a newer one.
* A host restart forgets the deliveries under way until the next publish.

**File sync** (`adrift`)

* The mark of a peer's deletion is dropped when the peer re-creates the path; the
  removal event of the earlier unlink, when it fires after that, is published as a
  local delete (`echo_guard.rs:148`), where `echo_guard.rs:40` has "an echo no matter
  how late it fires".
* The applier lays down an entry that is not the latest across authors.
* The catch-up takes a file of the entry's length for the entry, where
  `applier.rs:248` has "no plausible same-length-different-content case to miss".
* A tombstone unlinks what the user wrote between its last look and the unlink, where
  `applier.rs:458` says that the second look "removes the gap entirely"; also a rewrite
  of one length in one inode and one second, and what was written between the mark and
  the first fingerprint.
* A `remove_file` that fails is ignored by `apply_tombstone` (`applier.rs:476`) and by
  the bulk export (`workspace.rs:3776`): the file stays, and `PeerDeleted` is emitted.
* A local edit is swallowed in the pending window, clobbered between the mark and the
  rename, or missed between scan and watch.
* A returning host's reconcile publishes tombstones for what it finds missing, is
  not gated on ReadOnly, and can bring back what peers deleted meanwhile.
* `Doc::del` goes by prefix, so deleting `a` also deletes entries below the key.

**Workspace** (`excused`, `daemon.left`, `daemon.crossed`)

* A request whose sender gave up stays in the client's queue (`client.rs:280`) and can
  be carried out later. The rollback's own requests follow it on the same connection.
  Nothing orders it against a next attempt over another `Client`: a late leave takes the
  session that attempt runs, a late registration replaces its attachment.
* The tasks that `run` spawns hold the workspace alive, so its Drop and with it the
  bomb of `workspace.rs:655` never comes once `run` was called without `shutdown`.
* A returning host's failed bring-up leaves the session it had resumed, and a second
  joiner's failed attach forgets the earlier attachment.
* A cancelled constructor, or a reply that is lost before the guard is armed, leaves
  a session or an attachment in the daemon; a node that fails after its bind is
  dropped without a close.
* After a shutdown that failed or was cancelled, later callers get Ok.
* `collect_rotation_survivors` waits for the projection under the node lock
  (`workspace.rs:1751`), against `workspace.rs:2406`. Shutdown closes the projection
  first, so nobody waits for ever.
* A failed joiner's export leaves files, so that a retry with `RequireEmpty` is
  refused.

**IPC** (`late`, `stalled`)

* The biased select in `request` can report `ConnectionClosed` for a call whose
  response was delivered, against the comment at `client.rs:293`.
* A re-subscribe has two forwarders running until the first is aborted.
* A Subscribe between a leave's `SessionClosed` and its map removal is answered Ok and
  gets no terminal event. Memberships of a connection outlive a re-host by another.

**Daemon** (`orphaned`, `swept`, `unsynced`)

* A contender that opened the PID file before the owner unlinked it locks an orphaned
  inode, and a third process locks a new one: two daemons own the directory
  (`pidfile.rs:25`: "exactly one contender wins").
* The listener's Drop can unlink the socket a successor bound between check and
  unlink.
* A recycled PID in a leftover file blocks a start (`pidfile.rs:16`: "a crashed
  daemon can never wedge" the slot), and so does the lock probe of `artel stop`.
* A cold start with a missing state directory fails at the PID file.
* A key is used before its directory entry is durable; the address snapshot drops
  cached peers that were not contacted.

## 6. Not modelled, and why

Within the modelled parts: the messages' content; the entries that a rotation
carries into the new namespace; members and head of a mirror; the host's inside in
`Mirror` and `RemoteSession`; expiry of tickets, which is a refusal before any state
is read; clock skew, symbolic links and directories in `FileSync`; several sessions
of one daemon, whose state is disjoint but for the sessions map; topic derivation
and the paging of a replay request in the gossip bridge; the pure checks of the docs
gate.

Whole parts: signatures and codecs (a model's message is one that verifies), document
keys and session ids (pure functions on strings), the keystore (a key file written
like the daemon's), relay and discovery configuration (external).

## 7. Plan

Proofs, in this order:

1. `Daemon`: `OwnerServes`; the strengthening has to say which inode a process has
   locked, and that the PID file it unlinks is its own.
2. `Rotation`: `NamespaceIsSafe` and `ReplayDoesNotRotate`.
3. `Ipc`: `OwnResponse` and `PendingIsLive`.
4. `CapFeed`: `ReadyIsComplete` and `KeysFollowTheLog`.

Models: a session as its members see it (a single sequence of messages, of which
every mirror holds a part), which `HostSession` and `Mirror` together should
implement; two nodes of `FileSync` around one document.
