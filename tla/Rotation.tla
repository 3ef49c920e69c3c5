------------------------------ MODULE Rotation ------------------------------
(***************************************************************************)
(* Evicting a peer from a workspace (artel-fs, workspace.rs).  A Revoke in *)
(* the host's session log makes the host's capability listener queue a     *)
(* HostEvict for the rotation task, which mints a new document namespace,  *)
(* records it on disk, swaps the host onto it and delivers the new write   *)
(* ticket to the surviving ReadWrite peers.  The revoked peer keeps the    *)
(* keys it was given but is given no key of the new namespace.             *)
(*                                                                         *)
(* A namespace is a number; `keys` is who holds the write key of which.    *)
(* The host's disk is the doc-id, current-namespace, namespace-epoch and   *)
(* rotated-revoke-seq files and the document store, whose commits are      *)
(* batched: a crash loses those minted since the last commit.              *)
(* The listener reads the log in order here; what the event feed can lose  *)
(* or repeat on the way is the subject of CapFeed.                         *)
(***************************************************************************)
EXTENDS Integers, Sequences, FiniteSets, SequencesExt

CONSTANTS Peers,        \* the joiners
          Past,         \* the session log when the behaviour starts
          Scenarios,    \* what bounds a behaviour, see below
          MaxLog, MaxCrashes, MaxFaults, MaxAttaches

(* The capability messages the host may send, the length the log may reach and
   the number of steps that may fail. *)
Scenario == [sends : SUBSET [kind : {"grant", "demote", "revoke"}, peer : Peers],
             log : 0 .. MaxLog, faults : 0 .. MaxFaults]

ASSUME RotationAssumption ==
  /\ Past \in Seq([kind : {"grant", "announce"}, peer : Peers])
  /\ Scenarios \subseteq Scenario
  /\ {MaxLog, MaxCrashes, MaxFaults, MaxAttaches} \subseteq Nat

VARIABLES log,       \* the session log: capability messages and node-id announcements
          up,        \* the host's workspace process runs
          h,         \* its memory
          disk,      \* its state directory
          minted,    \* the number of namespaces created so far
          store,     \* namespaces 1 .. store are committed for certain
          tasks,     \* deliveries the listener has spawned
          keys,      \* pairs <<peer, namespace>>: write keys handed out
          env,       \* the namespace of the daemon's workspace.ticket envelope
          mirror,    \* the envelope each peer's daemon holds
          peer,      \* each peer's workspace: live namespace and epoch
          inbox,     \* rotation tickets delivered to it and not yet consumed
          missed,    \* peers that a delivery or an announcement has failed
          budget,    \* crashes, faults and attaches so far
          scenario

dyn == <<log, up, h, disk, minted, store, tasks, keys, env, mirror, peer,
         inbox, missed, budget>>
vars == <<dyn, scenario>>
hostVars == <<up, h, disk, minted, store>>
peerVars == <<mirror, peer, inbox>>

Genesis == 1
NoFile == 0
CapOf == [grant |-> "rw", demote |-> "read", revoke |-> "revoked"]

(* The document the host opens: current-namespace if recorded, else doc-id. *)
Current(d) == IF d.cur = NoFile THEN d.genesis ELSE d.cur

(* open_or_create_doc found the recorded namespace missing and created a new
   genesis: the directory now hosts another session. *)
Abandoned == disk.genesis # Genesis

(* The host's memory when its workspace opens document ns with the given epoch
   and rotated-revoke mark, and the listener replays the log from the start. *)
Opened(ns, epoch, rot, n) ==
  [seen |-> 0, snap |-> n, caps |-> [p \in Peers |-> "read"], queue |-> << >>,
   pc |-> "idle", evict |-> 0, out |-> [ns |-> ns, epoch |-> epoch], todo |-> {},
   to |-> "none", doc |-> ns, epoch |-> epoch, rot |-> rot,
   cell |-> [ns |-> ns, epoch |-> epoch], alarm |-> FALSE]

(* The capability the messages of l leave p with; a member joins with Read. *)
CapAfter(l, p) ==
  LET mine == {i \in DOMAIN l : l[i].peer = p /\ l[i].kind # "announce"}
  IN IF mine = {} THEN "read" ELSE CapOf[l[CHOOSE i \in mine : \A j \in mine : j <= i].kind]

(* The peers of Past have joined, have followed it and hold the genesis key if
   it leaves them ReadWrite. *)
Init ==
  /\ log = Past
  /\ up = TRUE
  /\ h = [Opened(Genesis, 0, 0, Len(Past)) EXCEPT
            !.seen = Len(Past), !.caps = [p \in Peers |-> CapAfter(Past, p)]]
  /\ disk = [genesis |-> Genesis, cur |-> NoFile, epoch |-> 0, rot |-> 0]
  /\ minted = 1 /\ store = 1 /\ tasks = {}
  /\ keys = {p \in Peers : CapAfter(Past, p) = "rw"} \X {Genesis}
  /\ env = Genesis
  /\ mirror = [p \in Peers |-> Genesis]
  /\ peer = [p \in Peers |-> [ns |-> Genesis, epoch |-> 0]]
  /\ inbox = [p \in Peers |-> {}]
  /\ missed = {}
  /\ budget = [crashes |-> 0, faults |-> 0, attaches |-> 0]
  /\ scenario \in Scenarios

(* An operation that may fail takes an outcome; failing spends a fault. *)
Outcome(ok) ==
  IF ok THEN UNCHANGED budget
  ELSE /\ budget.faults < scenario.faults
       /\ budget' = [budget EXCEPT !.faults = @ + 1]

---------------------------------------------------------------------------
(* The session log, as the daemon's registry admits messages to it. *)

SendCapability(e) ==
  /\ Len(log) < scenario.log
  /\ log' = Append(log, e)
  /\ UNCHANGED <<hostVars, tasks, keys, env, peerVars, missed, budget>>

---------------------------------------------------------------------------
(* The capability listener. *)

(* ProjectionState::Ready: the replay up to the subscription's snapshot is in. *)
Ready == h.seen >= h.snap
HasRw(p) == h.caps[p] = "rw"

\* Mutant: an announcement brings the secret and no rotation ticket.
SpawnedSecretOnly(e, caps) ==
  IF e.kind \in {"grant", "announce"} /\ caps[e.peer] = "rw"
  THEN {[peer |-> e.peer, ns |-> h.cell.ns, epoch |-> h.cell.epoch,
         rotate |-> FALSE, cleared |-> FALSE]}
  ELSE {}
(* What the listener spawns for a message: the grant's task hands over the
   namespace secret, the announcement's task the write ticket as well. *)
Spawned(e, caps) ==
  IF e.kind \in {"grant", "announce"} /\ caps[e.peer] = "rw"
  THEN {[peer |-> e.peer, ns |-> h.cell.ns, epoch |-> h.cell.epoch,
         rotate |-> e.kind = "announce", cleared |-> FALSE]}
  ELSE {}
Hear ==
  /\ up /\ h.seen < Len(log)
  /\ LET n == h.seen + 1
         e == log[n]
         caps == IF e.kind = "announce" THEN h.caps
                 ELSE [h.caps EXCEPT ![e.peer] = CapOf[e.kind]]
     IN /\ h' = [h EXCEPT !.seen = n, !.caps = caps,
                          !.queue = IF e.kind = "revoke" THEN Append(@, n) ELSE @]
        /\ tasks' = tasks \cup Spawned(e, caps)
  /\ UNCHANGED <<log, up, disk, minted, store, keys, env, peerVars, missed, budget>>

(* A spawned delivery waits for the projection and checks the capability; from
   then on it is a request to the daemon, which outlives the workspace. *)
ClearTask(t) ==
  /\ up /\ Ready /\ ~t.cleared
  /\ tasks' = (tasks \ {t}) \cup (IF HasRw(t.peer) THEN {[t EXCEPT !.cleared = TRUE]} ELSE {})
  /\ UNCHANGED <<log, hostVars, keys, env, peerVars, missed, budget>>

(* What reaches the peer: a key, and with a rotation ticket a signal for its
   rotation task. *)
Handed(p, ns, epoch, rotate, ok) ==
  /\ keys' = IF ok THEN keys \cup {<<p, ns>>} ELSE keys
  /\ inbox' = IF ok /\ rotate THEN [inbox EXCEPT ![p] = @ \cup {[ns |-> ns, epoch |-> epoch]}]
              ELSE inbox
  /\ missed' = IF ok \/ ~rotate THEN missed ELSE missed \cup {p}
  /\ Outcome(ok)

DeliverTask(t, ok) ==
  /\ t.cleared
  /\ tasks' = tasks \ {t}
  /\ Handed(t.peer, t.ns, t.epoch, t.rotate, ok)
  /\ UNCHANGED <<log, hostVars, env, mirror, peer>>

---------------------------------------------------------------------------
(* The rotation task: handle_host_evict, one action per await. *)

TakeEvict ==
  /\ up /\ h.pc = "idle" /\ h.queue # << >>
  /\ h' = [h EXCEPT !.queue = Tail(@), !.evict = Head(h.queue),
                    !.pc = IF Head(h.queue) <= h.rot THEN "idle" ELSE "rotate"]
  /\ UNCHANGED <<log, up, disk, minted, store, tasks, keys, env, peerVars, missed, budget>>

(* The epoch of the minted namespace. *)
NextEpoch(prev) == prev + 1

(* rotate_namespace up to the files, then the two marks of handle_host_evict. *)
RotateOk(persisted) ==
  LET out == [ns |-> minted + 1, epoch |-> NextEpoch(h.epoch)]
  IN /\ up /\ h.pc = "rotate" /\ Ready
     /\ minted' = minted + 1
     /\ h' = [h EXCEPT !.pc = "reimport", !.out = out, !.epoch = out.epoch, !.rot = h.evict]
     /\ disk' = [disk EXCEPT !.cur = out.ns, !.epoch = out.epoch,
                             !.rot = IF persisted THEN h.evict ELSE @]
     /\ Outcome(persisted)
     /\ UNCHANGED <<log, up, store, tasks, keys, env, peerVars, missed>>

\* Mutant: the mark advances although the rotation failed.
RotateErrMarks(named) ==
  /\ up /\ h.pc = "rotate" /\ Ready
  /\ minted' = minted + 1
  /\ h' = [h EXCEPT !.pc = "idle", !.alarm = TRUE, !.rot = h.evict]
  /\ disk' = [disk EXCEPT !.cur = IF named THEN minted + 1 ELSE @, !.rot = h.evict]
  /\ Outcome(FALSE)
  /\ UNCHANGED <<log, up, store, tasks, keys, env, peerVars, missed>>
(* It fails before the first file is written, or between the two; the error is
   surfaced and the revoke waits for a restart. *)
RotateErr(named) ==
  /\ up /\ h.pc = "rotate" /\ Ready
  /\ minted' = minted + 1
  /\ h' = [h EXCEPT !.pc = "idle", !.alarm = TRUE]
  /\ disk' = [disk EXCEPT !.cur = IF named THEN minted + 1 ELSE @]
  /\ Outcome(FALSE)
  /\ UNCHANGED <<log, up, store, tasks, keys, env, peerVars, missed>>
(* reimport_namespace on the host; a failure before the swap or in the catch-up
   scan after it is only surfaced. *)
ReimportHost(ok, swapped) ==
  /\ up /\ h.pc = "reimport" /\ (ok => swapped)
  /\ h' = [h EXCEPT !.pc = "refresh", !.alarm = @ \/ ~ok,
                    !.doc = IF swapped THEN h.out.ns ELSE @]
  /\ Outcome(ok)
  /\ UNCHANGED <<log, up, disk, minted, store, tasks, keys, env, peerVars, missed>>

(* refresh_distribution_state: the cells, then the envelope.  A failed
   remove_member returns before both. *)
Refresh(cells, envelope) ==
  /\ up /\ h.pc = "refresh" /\ Ready /\ (envelope => cells)
  /\ h' = [h EXCEPT !.pc = "survivors", !.alarm = @ \/ ~envelope,
                    !.cell = IF cells THEN h.out ELSE @]
  /\ env' = IF envelope THEN h.out.ns ELSE env
  /\ Outcome(envelope)
  /\ UNCHANGED <<log, up, disk, minted, store, tasks, keys, peerVars, missed>>

(* The loop over the survivors is over when none is left. *)
Looping(todo) == IF todo = {} THEN "idle" ELSE "distribute"

Survivors ==
  /\ up /\ h.pc = "survivors" /\ Ready
  /\ LET rw == {p \in Peers : HasRw(p)}
     IN h' = [h EXCEPT !.pc = Looping(rw), !.todo = rw]
  /\ UNCHANGED <<log, up, disk, minted, store, tasks, keys, env, peerVars, missed, budget>>

CheckSurvivor(p) ==
  /\ up /\ h.pc = "distribute" /\ p \in h.todo /\ Ready
  /\ h' = [h EXCEPT !.todo = @ \ {p}, !.to = IF HasRw(p) THEN p ELSE "none",
                    !.pc = IF HasRw(p) THEN "send" ELSE Looping(h.todo \ {p})]
  /\ UNCHANGED <<log, up, disk, minted, store, tasks, keys, env, peerVars, missed, budget>>

SendSurvivor(ok) ==
  /\ up /\ h.pc = "send"
  /\ h' = [h EXCEPT !.pc = Looping(h.todo), !.to = "none"]
  /\ Handed(h.to, h.out.ns, h.out.epoch, TRUE, ok)
  /\ UNCHANGED <<log, up, disk, minted, store, tasks, env, mirror, peer>>

---------------------------------------------------------------------------
(* The host's workspace stops and starts. *)

(* The process dies.  The document store has committed a prefix of what was
   minted; requests the daemon already has are still carried out. *)
Stop(d) ==
  /\ up
  /\ budget.crashes < MaxCrashes
  /\ budget' = [budget EXCEPT !.crashes = @ + 1]
  /\ up' = FALSE
  /\ h' = Opened(Genesis, 0, 0, 0)
  /\ disk' = d
  /\ store' \in store .. minted'
  /\ tasks' = {t \in tasks : t.cleared}
        \cup (IF h.pc = "send"
              THEN {[peer |-> h.to, ns |-> h.out.ns, epoch |-> h.out.epoch,
                     rotate |-> TRUE, cleared |-> TRUE]}
              ELSE {})
  /\ UNCHANGED <<log, keys, env, peerVars, missed>>

Crash == UNCHANGED minted /\ Stop(disk)

(* It dies inside rotate_namespace or before rotated-revoke-seq is written. *)
CrashInRotate(epochWritten) ==
  /\ h.pc = "rotate" /\ Ready
  /\ minted' = minted + 1
  /\ Stop([disk EXCEPT !.cur = minted + 1, !.epoch = IF epochWritten THEN NextEpoch(h.epoch) ELSE @])

\* Mutant: the mark is not read back.
RecoveredNoMark == Opened(Current(disk), disk.epoch, 0, Len(log))
\* Mutant: the listener starts at the head of the log instead of replaying it.
RecoveredAtHead ==
  [Opened(Current(disk), disk.epoch, disk.rot, Len(log)) EXCEPT
     !.seen = Len(log), !.caps = [p \in Peers |-> CapAfter(log, p)]]
(* What a returning host starts from: the epoch and the mark of its files, and
   a listener that subscribes with since: None. *)
Recovered == Opened(Current(disk), disk.epoch, disk.rot, Len(log))

(* open_or_create_doc on a document the store has; publish_ticket announces it. *)
Restart ==
  /\ ~up /\ ~Abandoned /\ Current(disk) <= store
  /\ up' = TRUE
  /\ h' = Recovered
  /\ env' = Current(disk)
  /\ store' = minted
  /\ UNCHANGED <<log, disk, minted, tasks, keys, peerVars, missed, budget>>

(* The recorded namespace is not in the store: create_and_persist makes a new
   genesis, removes the epoch and the mark, and leaves current-namespace. *)
SelfHeal ==
  /\ ~up /\ ~Abandoned /\ Current(disk) > store
  /\ minted' = minted + 1
  /\ disk' = [disk EXCEPT !.genesis = minted + 1, !.epoch = 0, !.rot = 0]
  /\ store' = minted'
  /\ UNCHANGED <<log, up, h, tasks, keys, env, peerVars, missed, budget>>

---------------------------------------------------------------------------
(* The peers. *)

(* A published envelope reaches the daemon of a member. *)
MirrorEnvelope(p) ==
  /\ mirror[p] # env /\ CapAfter(log, p) # "revoked"
  /\ mirror' = [mirror EXCEPT ![p] = env]
  /\ UNCHANGED <<log, hostVars, tasks, keys, env, peer, inbox, missed, budget>>

(* join_with: import the mirrored ticket at epoch 0 and announce the node id,
   which the registry logs if the peer may write.  The send may fail. *)
Attach(p, ok) ==
  /\ budget.attaches < MaxAttaches /\ Len(log) < scenario.log
  /\ CapAfter(log, p) # "revoked"
  /\ peer' = [peer EXCEPT ![p] = [ns |-> mirror[p], epoch |-> 0]]
  /\ inbox' = [inbox EXCEPT ![p] = {}]
  /\ LET announced == ok /\ CapAfter(log, p) = "rw"
     IN /\ log' = IF announced THEN Append(log, [kind |-> "announce", peer |-> p]) ELSE log
        /\ missed' = IF announced THEN missed \ {p} ELSE missed \cup {p}
  /\ budget' = [budget EXCEPT !.attaches = @ + 1, !.faults = IF ok THEN @ ELSE @ + 1]
  /\ budget'.faults <= scenario.faults
  /\ UNCHANGED <<hostVars, tasks, keys, env, mirror>>

(* The peer's rotation task drains its channel, keeps the signal of the highest
   epoch and reimports if it is newer. *)
Consume(p, f, ok) ==
  /\ f \in inbox[p] /\ \A g \in inbox[p] : g.epoch <= f.epoch
  /\ inbox' = [inbox EXCEPT ![p] = {}]
  /\ peer' = IF ok /\ f.epoch > peer[p].epoch THEN [peer EXCEPT ![p] = f] ELSE peer
  /\ missed' = IF ok \/ f.epoch <= peer[p].epoch THEN missed ELSE missed \cup {p}
  /\ Outcome(ok \/ f.epoch <= peer[p].epoch)
  /\ UNCHANGED <<log, hostVars, tasks, keys, env, mirror>>

---------------------------------------------------------------------------
RotationTask ==
  \/ TakeEvict \/ Survivors
  \/ \E p \in Peers : CheckSurvivor(p)
  \/ \E b \in BOOLEAN : RotateOk(b) \/ RotateErr(b) \/ SendSurvivor(b)
  \/ \E b, c \in BOOLEAN : ReimportHost(b, c) \/ Refresh(b, c)

Deliveries == \E t \in tasks : ClearTask(t) \/ \E b \in BOOLEAN : DeliverTask(t, b)
Consumes(p) == \E f \in inbox[p], b \in BOOLEAN : Consume(p, f, b)

Step ==
  \/ \E e \in scenario.sends : SendCapability(e)
  \/ Hear \/ Deliveries \/ RotationTask
  \/ Crash \/ \E b \in BOOLEAN : CrashInRotate(b)
  \/ Restart \/ SelfHeal
  \/ \E p \in Peers : MirrorEnvelope(p) \/ Consumes(p) \/ \E b \in BOOLEAN : Attach(p, b)

Next == Step /\ UNCHANGED scenario

(* Tokio polls every task that is ready; the workspace is started again. *)
Fairness ==
  /\ WF_dyn(Hear) /\ WF_dyn(Deliveries) /\ WF_dyn(RotationTask)
  /\ WF_dyn(Restart \/ SelfHeal)
  /\ \A p \in Peers : WF_dyn(Consumes(p))

Spec == Init /\ [][Next]_vars /\ Fairness

---------------------------------------------------------------------------
(* Memory, files and tickets name namespaces that were minted, and epochs no
   larger than the number of rotations. *)
TypeOK ==
  LET place == [ns : 1 .. minted, epoch : 0 .. minted]
  IN /\ \A i \in DOMAIN log : log[i] \in [kind : {"grant", "demote", "revoke", "announce"}, peer : Peers]
     /\ up \in BOOLEAN
     /\ h.seen \in 0 .. Len(log) /\ h.snap \in 0 .. Len(log)
     /\ \A n \in Range(h.queue) \cup {h.evict, h.rot, disk.rot} : n \in 0 .. Len(log)
     /\ h.caps \in [Peers -> {"rw", "read", "revoked"}]
     /\ h.pc \in {"idle", "rotate", "reimport", "refresh", "survivors", "distribute", "send"}
     /\ {h.out, h.cell, [ns |-> h.doc, epoch |-> h.epoch]} \subseteq place
     /\ disk.cur \in 0 .. minted /\ disk.genesis \in 1 .. minted /\ disk.epoch <= minted
     /\ store \in 1 .. minted /\ keys \subseteq Peers \X (1 .. minted)
     /\ peer \in [Peers -> place] /\ \A p \in Peers : inbox[p] \subseteq place

(* The write cut-off.  Once the host has recorded a revoke as rotated for and
   runs on the namespace its disk names, a peer that the log leaves revoked at
   or below that seq holds no key of it: not from the distribution, not from a
   grant's or an announcement's task that was already on its way, and not after
   a crash between any two of the files rotate_namespace writes. *)
RotatedPeersHoldNoKey ==
  up /\ h.doc = Current(disk) =>
    \A n \in 1 .. h.rot :
      /\ log[n].kind = "revoke"
      /\ \A i \in n + 1 .. Len(log) : ~(log[i].kind = "grant" /\ log[i].peer = log[n].peer)
      => <<log[n].peer, h.doc>> \notin keys

(* A rotation the host distributes is never taken for a stale one: every other
   ticket a survivor has taken or has waiting is of a lower epoch, although the
   host may have crashed between recording the namespace and its epoch. *)
RotationOutranksSurvivors ==
  up /\ h.pc \in {"reimport", "refresh", "survivors", "distribute", "send"} =>
    \A p \in Peers : \A f \in inbox[p] \cup {peer[p]} :
      f.ns # h.out.ns => f.epoch < h.out.epoch

(* The replay after a restart does not rotate again for a revoke that
   rotated-revoke-seq covers: a namespace is minted only for a later one. *)
ReplayDoesNotRotate ==
  [][up /\ minted' # minted => h.evict > disk.rot]_vars

(* Every revoke that stands is acted on, whatever crashes: in the end the
   peer has no key of the namespace the host runs on.  Otherwise the running
   host has surfaced an error, or its directory was abandoned. *)
RevokedPeersAreCutOff ==
  \A p \in Peers :
    <>[](\/ Abandoned
         \/ up /\ (h.alarm \/ CapAfter(log, p) # "revoked" \/ <<p, h.doc>> \notin keys))

(* The last the log says of p is an announcement, so p was ReadWrite then and is. *)
Settled(p) ==
  \E i \in DOMAIN log :
    /\ log[i] = [kind |-> "announce", peer |-> p]
    /\ \A j \in i + 1 .. Len(log) : log[j].peer # p

(* A ReadWrite peer that has announced itself ends up on the host's namespace,
   across rotations, restarts of either side and stale tickets delivered late,
   unless a delivery to it or its own reimport failed. *)
SurvivorsFollowTheHost ==
  \A p \in Peers :
    <>[](\/ Abandoned
         \/ up /\ (h.alarm \/ ~Settled(p) \/ p \in missed \/ peer[p].ns = h.doc))

(* Of the namespace a rotation mints: its epoch outranks every ticket a    *)
(* survivor may still hold or receive, and a peer it rotated out holds no  *)
(* key to it.                                                              *)
NamespaceIsSafe ==
  /\ TypeOK
  /\ RotationOutranksSurvivors
  /\ RotatedPeersHoldNoKey
=============================================================================
