------------------------------- MODULE CapFeed -------------------------------
(***************************************************************************)
(* How a workspace follows the session log it takes its authorizations     *)
(* from: Registry::send appends under the session lock and emits the event *)
(* after it; Registry::subscribe snapshots the log and opens a receiver on *)
(* the bounded broadcast channel; the daemon's subscription forwarder      *)
(* writes replay, ReplayComplete and live events to the connection; the    *)
(* client's reader puts them into a bounded queue; the cap-listener drains *)
(* the queue into the PeerMap and re-subscribes from its last-seen seq     *)
(* after an EOF or a Gap.  The listener of the host's workspace is the one *)
(* modelled: only its log has Capability messages.                         *)
(*                                                                         *)
(* A message is its seq; log[n] is its capability action.  Messages of     *)
(* other kinds pass through in the same way and change no projection.      *)
(***************************************************************************)
EXTENDS Naturals, Sequences, SequencesExt, FiniteSets

CONSTANTS Host, Peers,
          Actions,      \* the capability actions the host sends
          Senders,      \* sends that may be between their append and their event
          RingCap,      \* EVENT_CHANNEL_CAPACITY
          WireCap,      \* frames the connection buffers
          QueueCap,     \* EVENTS_QUEUE_CAPACITY
          MaxAttempts,  \* CAP_RECONNECT_MAX_ATTEMPTS
          MaxLog, MaxDrops                  \* bounds

Everyone == {Host} \cup Peers
Cap == {"Read", "ReadWrite"}
AllActions == [kind : {"grant"}, peer : Everyone, cap : Cap]
              \cup [kind : {"revoke"}, peer : Everyone, cap : {"Read"}]

ASSUME CapFeedAssumption ==
  /\ Host \notin Peers /\ Actions \subseteq AllActions
  /\ {Senders, RingCap, WireCap, QueueCap, MaxAttempts} \subseteq Nat \ {0}
  /\ MaxLog \in Nat /\ MaxDrops \in Nat

VARIABLES log, unsent,                  \* the session; events not yet emitted
          sub,                          \* the daemon's side of the subscription
          wire, queue, gap,             \* connection, client queue, `gaps`
          lst, attempt, last,           \* cap-listener; last_seq, 0 for None
          gate, caps, revoked,          \* PeerMap
          tasks, given,                 \* spawned key deliveries; keys delivered
          applied, snap,                \* seqs applied; log length at Subscribe
          overtaken,                    \* see Emit
          drops

daemonVars == <<log, unsent, sub>>
clientVars == <<wire, queue, gap>>
peerMap    == <<gate, caps, revoked>>
vars == <<daemonVars, clientVars, lst, attempt, last, peerMap, tasks, given,
          applied, snap, overtaken, drops>>

Msg(n) == [type |-> "msg", seq |-> n]
Done   == [type |-> "done", seq |-> 0]
Gap    == [type |-> "gap", seq |-> 0]

NoSub == [on |-> FALSE, replay |-> <<>>, replaying |-> FALSE, ring |-> <<>>,
          lagged |-> FALSE]
-----------------------------------------------------------------------------
(* The two projections of a capability action: the daemon's, in which the  *)
(* host keeps ReadWrite whatever is sent, and PeerMap::apply_capability.   *)
(* A peer absent from the caps map is "none" (and reads as the Read floor).*)

DaemonApply(c, a) ==
  IF a.peer = Host THEN c
  ELSE [c EXCEPT ![a.peer] = IF a.kind = "grant" THEN a.cap ELSE "none"]

RootCaps == [p \in Everyone |-> IF p = Host THEN "ReadWrite" ELSE "none"]

DaemonCaps(n) == FoldLeft(DaemonApply, RootCaps, SubSeq(log, 1, n))

ApplyCapability(a) ==
  /\ caps' = [caps EXCEPT ![a.peer] = IF a.kind = "grant" THEN a.cap ELSE "none"]
  /\ revoked' = IF a.kind = "grant" THEN revoked \ {a.peer}
                                    ELSE revoked \cup {a.peer}

HasRw(p) == caps[p] = "ReadWrite"
-----------------------------------------------------------------------------
Init ==
  /\ log = <<>> /\ unsent = {} /\ sub = NoSub
  /\ wire = <<>> /\ queue = <<>> /\ gap = FALSE
  /\ lst = "start" /\ attempt = 0 /\ last = 0
  /\ gate = "Initializing" /\ caps = RootCaps /\ revoked = {}
  /\ tasks = {} /\ given = {} /\ applied = {} /\ snap = 0 /\ drops = 0
  /\ overtaken = FALSE

\* Registry::send under the session lock.
Send(a) ==
  /\ Len(log) < MaxLog /\ Cardinality(unsent) < Senders
  /\ log' = Append(log, a)
  /\ unsent' = unsent \cup {Len(log) + 1}
  /\ UNCHANGED <<sub, clientVars, lst, attempt, last, peerMap, tasks, given,
                 applied, snap, overtaken, drops>>

\* events_tx.send after the lock is released.  The channel keeps the newest
\* RingCap events for a receiver; one that misses some reads Lagged next.
\* overtaken: the event comes after one of a higher seq, of another send that
\* was faster or of the receiver's replay.
Emit(n) ==
  /\ n \in unsent /\ unsent' = unsent \ {n}
  /\ sub' = IF ~sub.on THEN sub
            ELSE IF Len(sub.ring) < RingCap
            THEN [sub EXCEPT !.ring = Append(@, n)]
            ELSE [sub EXCEPT !.ring = Append(Tail(@), n), !.lagged = TRUE]
  /\ overtaken' = (overtaken \/ (sub.on /\ n < snap) \/ \E m \in unsent : m < n)
  /\ UNCHANGED <<log, clientVars, lst, attempt, last, peerMap, tasks, given,
                 applied, snap, drops>>

\* cap_resubscribe: a fresh connection, Subscribe { since: last_seq } and the
\* log's snapshot and receiver under one hold of the session lock.  The old
\* stream and what was queued on it are dropped.
Subscribe ==
  /\ lst \in {"start", "retry"} /\ lst' = "drain"
  /\ sub' = [NoSub EXCEPT !.on = TRUE, !.replaying = TRUE,
               !.replay = [i \in 1 .. Len(log) - last |-> last + i]]
  /\ wire' = <<>> /\ queue' = <<>> /\ gap' = FALSE
  /\ snap' = Len(log)
  /\ UNCHANGED <<log, unsent, attempt, last, peerMap, tasks, given, applied,
                 overtaken, drops>>

\* A failed reconnect backs off; the attempt after the last gives up and ends
\* the task, whose CloseProjectionOnDrop closes the gate.
ReconnectFails ==
  /\ lst = "retry"
  /\ IF attempt + 1 < MaxAttempts
     THEN attempt' = attempt + 1 /\ UNCHANGED <<lst, gate>>
     ELSE lst' = "stopped" /\ gate' = "Closed" /\ UNCHANGED attempt
  /\ UNCHANGED <<daemonVars, clientVars, last, caps, revoked, tasks, given,
                 applied, snap, overtaken, drops>>
-----------------------------------------------------------------------------
\* spawn_subscription_forwarder: replay, ReplayComplete, then live events, a
\* Gap in the place of the ones the channel has dropped.
Forward ==
  /\ sub.on /\ Len(wire) < WireCap
  /\ \/ /\ sub.replaying /\ sub.replay # <<>>
        /\ wire' = Append(wire, Msg(Head(sub.replay)))
        /\ sub' = [sub EXCEPT !.replay = Tail(@)]
     \/ /\ sub.replaying /\ sub.replay = <<>>
        /\ wire' = Append(wire, Done)
        /\ sub' = [sub EXCEPT !.replaying = FALSE]
     \/ /\ ~sub.replaying /\ sub.lagged
        /\ wire' = Append(wire, Gap)
        /\ sub' = [sub EXCEPT !.lagged = FALSE]
     \/ /\ ~sub.replaying /\ ~sub.lagged /\ sub.ring # <<>>
        /\ wire' = Append(wire, Msg(Head(sub.ring)))
        /\ sub' = [sub EXCEPT !.ring = Tail(@)]
  /\ UNCHANGED <<log, unsent, queue, gap, lst, attempt, last, peerMap, tasks,
                 given, applied, snap, overtaken, drops>>

\* Mutant: a full queue drops the event and nothing else.
ReadFrameDrops ==
  /\ wire # <<>> /\ wire' = Tail(wire)
  /\ queue' = IF Len(queue) < QueueCap THEN Append(queue, Head(wire)) ELSE queue
  /\ UNCHANGED <<daemonVars, gap, lst, attempt, last, peerMap, tasks, given,
                 applied, snap, overtaken, drops>>

\* spawn_reader, a frame: dropped while the session's gap is pending; a full
\* queue turns it into a pending gap.
ReadFrame ==
  /\ wire # <<>> /\ wire' = Tail(wire)
  /\ gap' = (gap \/ Len(queue) = QueueCap)
  /\ queue' = IF gap' THEN queue ELSE Append(queue, Head(wire))
  /\ UNCHANGED <<daemonVars, lst, attempt, last, peerMap, tasks, given,
                 applied, snap, overtaken, drops>>

\* Mutant: a pending gap is never delivered.
FlushGapNever == FALSE /\ UNCHANGED vars

\* spawn_reader, a pending gap once the queue has room.
FlushGap ==
  /\ gap /\ Len(queue) < QueueCap
  /\ queue' = Append(queue, Gap) /\ gap' = FALSE
  /\ UNCHANGED <<daemonVars, wire, lst, attempt, last, peerMap, tasks, given,
                 applied, snap, overtaken, drops>>
-----------------------------------------------------------------------------

BeginReplay == gate' = IF gate = "Ready" THEN "Replaying" ELSE gate

\* handle_cap_event: a Capability message.  A ReadWrite grant also spawns the
\* delivery of the namespace key.
DrainMessage(n) ==
  /\ ApplyCapability(log[n])
  /\ last' = IF n > last THEN n ELSE last
  /\ applied' = applied \cup {n}
  /\ tasks' = IF log[n].kind = "grant" /\ log[n].cap = "ReadWrite"
              THEN tasks \cup {log[n].peer} ELSE tasks
  /\ UNCHANGED <<lst, attempt, gate>>

\* complete_cap_replay: on the first replay the revoked peers are taken out of
\* the membership first, and a failure there closes the gate for good.
DrainDone ==
  /\ \/ gate' = IF gate \in {"Initializing", "Replaying"} THEN "Ready" ELSE gate
     \/ gate = "Initializing" /\ revoked # {} /\ gate' = "Closed"
  /\ UNCHANGED <<last, applied, tasks, caps, revoked, lst, attempt>>

DrainGap ==
  /\ BeginReplay /\ lst' = "retry" /\ attempt' = 0
  /\ UNCHANGED <<last, applied, tasks, caps, revoked>>

Drain ==
  /\ lst = "drain" /\ queue # <<>> /\ queue' = Tail(queue)
  /\ CASE Head(queue).type = "msg"  -> DrainMessage(Head(queue).seq)
       [] Head(queue).type = "done" -> DrainDone
       [] Head(queue).type = "gap"  -> DrainGap
  /\ UNCHANGED <<daemonVars, wire, gap, given, snap, overtaken, drops>>

\* The connection goes away, with the daemon's process (whose unsent events
\* are lost with it) or alone.  The listener reads EOF behind the queue.
Disconnect ==
  /\ sub.on /\ drops < MaxDrops /\ drops' = drops + 1
  /\ sub' = NoSub /\ wire' = <<>> /\ gap' = FALSE
  /\ unsent' \in {unsent, {}}
  /\ UNCHANGED <<log, queue, lst, attempt, last, peerMap, tasks, given,
                 applied, snap, overtaken>>

DrainEof ==
  /\ lst = "drain" /\ queue = <<>> /\ wire = <<>> /\ ~sub.on /\ ~gap
  /\ BeginReplay /\ lst' = "retry" /\ attempt' = 0
  /\ UNCHANGED <<daemonVars, clientVars, last, caps, revoked, tasks, given,
                 applied, snap, overtaken, drops>>

\* Workspace::shutdown.
Cancel ==
  /\ lst \notin {"start", "stopped"} /\ lst' = "stopped" /\ gate' = "Closed"
  /\ UNCHANGED <<daemonVars, clientVars, attempt, last, caps, revoked, tasks,
                 given, applied, snap, overtaken, drops>>

\* Mutant: the delivery does not wait for the complete projection.
WaitReadyNot == TRUE

\* peer_map.wait_ready(), true.
WaitReady == gate = "Ready"

\* The spawned delivery: wait_ready, then has_rw once more.
DeliverKey(p) ==
  /\ p \in tasks /\ tasks' = tasks \ {p}
  /\ \/ WaitReady /\ HasRw(p) /\ given' = given \cup {p}
     \/ WaitReady /\ ~HasRw(p) /\ UNCHANGED given
     \/ gate = "Closed" /\ UNCHANGED given
  /\ UNCHANGED <<daemonVars, clientVars, lst, attempt, last, peerMap, applied,
                 snap, overtaken, drops>>

Next ==
  \/ \E a \in Actions : Send(a)
  \/ \E n \in unsent : Emit(n)
  \/ Subscribe \/ ReconnectFails
  \/ Forward \/ ReadFrame \/ FlushGap
  \/ Drain \/ DrainEof
  \/ \E p \in tasks : DeliverKey(p)
  \/ Disconnect \/ Cancel

\* The tasks of the daemon, the client and the listener run as long as they
\* can; nothing forces a send, a disconnect, a failure or a shutdown.
Fairness ==
  /\ WF_vars(\E n \in unsent : Emit(n)) /\ WF_vars(Subscribe)
  /\ WF_vars(Forward) /\ WF_vars(ReadFrame) /\ WF_vars(FlushGap)
  /\ WF_vars(Drain) /\ WF_vars(DrainEof)

Spec == Init /\ [][Next]_vars /\ Fairness
-----------------------------------------------------------------------------
Frames == [type : {"msg", "done", "gap"}, seq : 0 .. MaxLog]

(* The subscription, the buffers within their capacities, the listener and *)
(* the PeerMap have their types.                                           *)
TypeOK ==
  /\ log \in Seq(Actions) /\ unsent \subseteq 1 .. Len(log)
  /\ sub \in [on : BOOLEAN, replay : Seq(1 .. MaxLog), replaying : BOOLEAN,
              ring : Seq(1 .. MaxLog), lagged : BOOLEAN]
  /\ Len(sub.ring) <= RingCap
  /\ wire \in Seq(Frames) /\ Len(wire) <= WireCap
  /\ queue \in Seq(Frames) /\ Len(queue) <= QueueCap
  /\ gap \in BOOLEAN /\ lst \in {"start", "drain", "retry", "stopped"}
  /\ attempt \in 0 .. MaxAttempts - 1 /\ last \in 0 .. Len(log)
  /\ gate \in {"Initializing", "Replaying", "Ready", "Closed"}
  /\ caps \in [Everyone -> Cap \cup {"none"}] /\ revoked \subseteq Everyone
  /\ tasks \subseteq Everyone /\ given \subseteq Everyone
  /\ applied \subseteq 1 .. Len(log) /\ snap \in 0 .. Len(log)
  /\ drops \in 0 .. MaxDrops /\ overtaken \in BOOLEAN

InTransit(n) ==
  \/ n \in unsent
  \/ \E s \in {sub.replay, sub.ring} : \E i \in 1 .. Len(s) : s[i] = n
  \/ \E s \in {wire, queue} : \E i \in 1 .. Len(s) : s[i] = Msg(n)

LossAnnounced ==
  \/ sub.lagged \/ gap \/ ~sub.on
  \/ \E s \in {wire, queue} : \E i \in 1 .. Len(s) : s[i] = Gap

(* "Recovery is gap-free for the log-borne events": a logged message the   *)
(* listener has not applied is still on its way, or the loss is announced  *)
(* (a pending Gap or EOF) and the re-subscribe will ask for it.  This and  *)
(* the properties below hold as long as no event is overtaken: send emits  *)
(* outside the session lock, and the listener keeps one watermark.         *)
NothingLostSilently ==
  lst # "stopped" /\ ~overtaken =>
    \A n \in 1 .. Len(log) \ applied :
      InTransit(n) \/ (LossAnnounced /\ last < n) \/ (lst = "retry" /\ last < n)

(* The gate opens on a complete projection only: when it is Ready, every   *)
(* message logged before the subscription that opened it was applied,      *)
(* whatever was dropped on the way.                                        *)
ReadyIsComplete == gate = "Ready" /\ ~overtaken => 1 .. snap \subseteq applied

(* The PeerMap is the daemon's projection of the log up to the last seq    *)
(* seen: gaps, duplicates and re-subscribes never reorder what it applies. *)
PeerMapFollowsTheLog ==
  LET c == DaemonCaps(last) IN
  ~overtaken =>
    \A p \in Everyone : /\ HasRw(p) <=> c[p] = "ReadWrite"
                        /\ p \in revoked => c[p] = "none"

(* A namespace key leaves only for a peer that holds ReadWrite by the      *)
(* complete log the gate was opened on: replaying an old grant of a peer   *)
(* that a later entry revokes delivers nothing.                            *)
KeysFollowTheLog ==
  [][~overtaken => \A p \in given' \ given :
       /\ last >= snap
       /\ DaemonCaps(last)[p] = "ReadWrite"]_vars

(* However often the stream lags or drops, the projection catches up with  *)
(* the whole log and the gate is open, unless the listener has given up or *)
(* was shut down.                                                          *)
EventuallyCaughtUp ==
  <>[](\/ gate = "Closed" \/ overtaken
       \/ gate = "Ready" /\ applied = 1 .. Len(log))

(* The capability listener's picture of the log: what it has not applied   *)
(* is on its way or known to be lost, an open gate means the replay was    *)
(* applied in full, and PeerMap is the projection of the log up to the     *)
(* listener's watermark.                                                   *)
ListenerIsComplete ==
  /\ TypeOK
  /\ NothingLostSilently
  /\ ReadyIsComplete
  /\ PeerMapFollowsTheLog
=============================================================================
