------------------------------- MODULE Mirror -------------------------------
(***************************************************************************)
(* A joiner daemon's mirror of one remote session, over several            *)
(* incarnations of the host's session under one id.                        *)
(*                                                                         *)
(* The host's frames travel by gossip, which loses, repeats and reorders   *)
(* them: net is the set of frames ever published, and a subscribed mirror  *)
(* may receive any of them at any time, any number of times, or never.  A  *)
(* replay publishes frames of the log again and so adds nothing to net.    *)
(*                                                                         *)
(* The forwarder task handles one frame after another.  A message frame is *)
(* handed to a spawned task, and those run in any order; the other frames  *)
(* are handled in place.  A frame dropped for want of budget or seen to be *)
(* a duplicate before its task is spawned is a stuttering step.            *)
(*                                                                         *)
(* Joins of one id do not overlap here, and a join that finds a mirror in  *)
(* the map changes nothing but its member list.                            *)
(***************************************************************************)
EXTENDS Naturals, Sequences, FiniteSets, SequencesExt

CONSTANTS Budget,       \* apply tasks that fit MIRROR_APPLY_BUDGET_BYTES
          MaxSeq, MaxInc, MaxEpoch, MaxJoins, MaxCrashes, MaxFaults,   \* bounds
          MaxEvents,    \* bound on joins, crashes and faults together
          MaxFrames     \* bound on the log file's length

ASSUME MirrorAssumption ==
  /\ {Budget, MaxSeq, MaxInc, MaxEpoch, MaxJoins, MaxCrashes, MaxFaults,
      MaxEvents, MaxFrames} \subseteq Nat
  /\ MaxInc > 0

VARIABLES host,     \* the host's session: incarnation, epoch, open, log length
          net,      \* frames published on the topic
          tickets,  \* join tickets handed out: incarnation and epoch
          up,
          mir,      \* the Session in the joiner's map
          fwd,      \* its forwarder: running, the live epoch watermark
          tasks,    \* spawned apply tasks, each with the mirror it was spawned for
          closers,  \* teardowns between the store delete and the map removal
          disk,     \* the mirror's directory: log file, meta.json with its epoch
          joins, crashes,
          faults    \* store calls that failed and left something done

vars == <<host, net, tickets, up, mir, fwd, tasks, closers, disk, joins,
          crashes, faults>>
hostVars == <<host, net, tickets>>
bounds   == <<joins, crashes, faults>>

Message == [inc : 1 .. MaxInc, seq : 1 .. MaxSeq]
Ticket  == [inc : 1 .. MaxInc, epoch : 0 .. MaxEpoch]
Posts   == [type : {"msg"}, body : Message]
           \cup [type : {"close", "beacon"}, body : 0 .. MaxEpoch]

\* state: "none", "joining" until join_session has returned, "live".
\* inc, in memory and on disk, is the incarnation the ticket was minted for; the
\* code does not store it.  loaded: the mirror was read from disk.  halved: a
\* delete of its directory failed after it had removed something.
NoMirror == [state |-> "none", log |-> <<>>, epoch |-> 0, inc |-> 1,
             loaded |-> FALSE, halved |-> FALSE]

\* dir: the directory; there: meta.json in it, which a load needs; frames: what
\* a load reads of the log file; torn: the file ends, or did before the last
\* appends, with part of a frame.
NoDir    == [dir |-> FALSE, there |-> FALSE, frames |-> <<>>, torn |-> FALSE,
             epoch |-> 0, inc |-> 1]
Silent   == [on |-> FALSE, epoch |-> 0]

Init ==
  /\ host = [inc |-> 1, epoch |-> 0, open |-> TRUE, len |-> 0]
  /\ net = {} /\ tickets = {[inc |-> 1, epoch |-> 0]}
  /\ up = TRUE /\ mir = NoMirror /\ fwd = Silent /\ tasks = {} /\ closers = {}
  /\ disk = NoDir /\ joins = 0 /\ crashes = 0 /\ faults = 0
-----------------------------------------------------------------------------
(* The host, as far as the mirror can tell; HostSession has its inside.    *)

Publish(type, body) == net' = net \cup {[type |-> type, body |-> body]}
JoinerIdle == UNCHANGED <<up, mir, fwd, tasks, closers, disk, bounds>>

HostSend ==
  /\ host.open /\ host.len < MaxSeq
  /\ host' = [host EXCEPT !.len = @ + 1]
  /\ Publish("msg", [inc |-> host.inc, seq |-> host.len + 1])
  /\ UNCHANGED tickets /\ JoinerIdle

\* host(Some(id)) on a session the daemon has: the epoch is bumped, a ticket
\* minted at it, and a beacon published
HostResume ==
  /\ host.open /\ host.epoch < MaxEpoch
  /\ host' = [host EXCEPT !.epoch = @ + 1]
  /\ tickets' = tickets \cup {[inc |-> host.inc, epoch |-> host.epoch + 1]}
  /\ Publish("beacon", host.epoch + 1) /\ JoinerIdle

HostLeave ==
  /\ host.open
  /\ host' = [host EXCEPT !.open = FALSE]
  /\ Publish("close", host.epoch) /\ UNCHANGED tickets /\ JoinerIdle

\* Mutant: a re-created session starts at epoch 0.
FloorLost(epoch) == 0

\* The floor the last incarnation left: create and bump_host_epoch raise it to
\* one above the epoch they persist
EpochFloor(epoch) == epoch + 1

\* host(Some(id)) on an id the daemon no longer has: a fresh log at the floor.
\* The create path publishes no beacon.
HostCreate ==
  /\ ~host.open /\ host.inc < MaxInc /\ EpochFloor(host.epoch) <= MaxEpoch
  /\ host' = [inc |-> host.inc + 1, epoch |-> EpochFloor(host.epoch),
              open |-> TRUE, len |-> 0]
  /\ tickets' = tickets \cup {[inc |-> host.inc + 1, epoch |-> EpochFloor(host.epoch)]}
  /\ UNCHANGED net /\ JoinerIdle
-----------------------------------------------------------------------------
(* Joining                                                                 *)

MoreEvents == joins + crashes + faults < MaxEvents

\* A step of the running daemon, in which a store call may fail half done.
Working(fault) ==
  /\ up /\ UNCHANGED <<hostVars, up, crashes>>
  /\ fault => faults < MaxFaults /\ MoreEvents
  /\ faults' = IF fault THEN faults + 1 ELSE faults

Idle == Working(FALSE)

\* claim_remote_mirror: store.create, which keeps a log file it finds, then the
\* map entry.  The bridge subscription is still to come.
Claim(t) ==
  /\ Idle /\ mir.state = "none" /\ joins < MaxJoins /\ MoreEvents
  /\ joins' = joins + 1
  /\ disk' = [disk EXCEPT !.dir = TRUE, !.there = TRUE, !.epoch = t.epoch, !.inc = t.inc]
  /\ mir' = [NoMirror EXCEPT !.state = "joining", !.epoch = t.epoch, !.inc = t.inc]
  /\ UNCHANGED <<fwd, tasks, closers>>

\* The Joiner role subscribe_inner's forwarder runs with
Subscribed(s) == [on |-> TRUE, epoch |-> s.epoch]

JoinOk ==
  /\ Idle /\ mir.state = "joining"
  /\ mir' = [mir EXCEPT !.state = "live"]
  /\ fwd' = Subscribed(mir)
  /\ UNCHANGED <<tasks, closers, disk, joins>>

\* What a remove_dir_all that fails may leave
Remnant(meta, log) ==
  [disk EXCEPT !.there  = @ /\ meta,
               !.epoch  = IF meta THEN @ ELSE 0,
               !.inc    = IF meta THEN @ ELSE 1,
               !.frames = IF log THEN @ ELSE <<>>,
               !.torn   = @ /\ log]

Remnants == {Remnant(meta, log) : meta, log \in BOOLEAN}

\* No gossip neighbor within JOIN_READY_TIMEOUT: rollback_remote_mirror, which
\* only logs a delete that fails
JoinFails ==
  /\ mir.state = "joining"
  /\ mir' = NoMirror /\ disk' \in {NoDir} \cup Remnants
  /\ Working(disk' # NoDir)
  /\ UNCHANGED <<fwd, tasks, closers, joins>>

\* The mirror of a restarted daemon is silent until a send to it finds no topic:
\* dispatch_send then re-subscribes it
Resubscribe ==
  /\ Idle /\ mir.state = "live" /\ ~fwd.on
  /\ fwd' = Subscribed(mir)
  /\ UNCHANGED <<mir, tasks, closers, disk, joins>>
-----------------------------------------------------------------------------
(* Messages                                                                *)

\* The forwarder is awaiting the next frame
Listening == fwd.on /\ "close" \notin closers

\* mirror_on_message: spawn an apply task if the byte budget has room
Receive(m) ==
  /\ Idle /\ Listening /\ [type |-> "msg", body |-> m] \in net
  /\ Cardinality(tasks) < Budget
  /\ tasks' = tasks \cup {[msg |-> m, of |-> joins]}
  /\ UNCHANGED <<mir, fwd, closers, disk, joins>>

\* A result partition_point may give for "seq < s": the entry before it
\* satisfies this and the one behind it does not.  In a sorted log there is one;
\* a log read back in arrival order may have several.
Crossing(l, s, pos) ==
  /\ pos > 0 => l[pos].seq < s
  /\ pos < Len(l) => l[pos + 1].seq >= s

IsDuplicate(l, s, pos) == pos < Len(l) /\ l[pos + 1].seq = s

\* Mutant: appended as it arrives, as it is on disk.
InsertedAtEnd(l, pos, m) == Append(l, m)

Inserted(l, pos, m) == InsertAt(l, pos + 1, m)

\* append_log creates the file if need be, but not the directory
HasRoom == disk.dir /\ Len(disk.frames) < MaxFrames

WithFrame(m) == [disk EXCEPT !.frames = Append(@, m)]

\* A frame behind torn bytes is lost to the reader, which has lost the frame
\* boundaries, unless it happens to find them again
Appended(m) == IF disk.torn THEN {disk, WithFrame(m)} ELSE {WithFrame(m)}

\* What an append that fails or is cut short leaves: nothing, part of the
\* frame, or the frame
CutShort(m) ==
  {disk} \cup (IF HasRoom THEN {[disk EXCEPT !.torn = TRUE]} \cup Appended(m) ELSE {})

\* A task that still belongs to the mirror in the map
Ours(t) == mir.state # "none" /\ t.of = joins

ApplyOk(t, pos) ==
  /\ Idle /\ t \in tasks /\ Ours(t) /\ HasRoom /\ disk.there
  /\ Crossing(mir.log, t.msg.seq, pos) /\ ~IsDuplicate(mir.log, t.msg.seq, pos)
  /\ disk' \in Appended(t.msg)
  /\ mir' = [mir EXCEPT !.log = Inserted(@, pos, t.msg)]
  /\ tasks' = tasks \ {t}
  /\ UNCHANGED <<fwd, closers, joins>>

ApplyDuplicate(t, pos) ==
  /\ Idle /\ t \in tasks /\ Ours(t)
  /\ Crossing(mir.log, t.msg.seq, pos) /\ IsDuplicate(mir.log, t.msg.seq, pos)
  /\ tasks' = tasks \ {t}
  /\ UNCHANGED <<mir, fwd, closers, disk, joins>>

\* store.append fails, because the directory or meta.json is gone or by an I/O
\* error: the message is dropped
ApplyErr(t) ==
  /\ t \in tasks /\ Ours(t)
  /\ disk' \in CutShort(t.msg)
  /\ Working(disk.there /\ disk' # disk)
  /\ tasks' = tasks \ {t}
  /\ UNCHANGED <<mir, fwd, closers, joins>>

\* A task that outlived its mirror inserts into a log nobody reads, while the
\* store appends, or fails to, to the directory the session id names by now
ApplyStale(t) ==
  /\ t \in tasks /\ ~Ours(t)
  /\ disk' \in CutShort(t.msg)
  /\ Working(disk'.torn # disk.torn)
  /\ tasks' = tasks \ {t}
  /\ UNCHANGED <<mir, fwd, closers, joins>>
-----------------------------------------------------------------------------
(* Epochs and closing                                                      *)

\* advance_host_epoch_watermark: bump_host_epoch, then memory
Advanced(e) ==
  /\ mir' = [mir EXCEPT !.epoch = e]
  /\ disk' = IF disk.there THEN [disk EXCEPT !.epoch = e] ELSE disk

HearBeacon(e) ==
  /\ Idle /\ Listening /\ [type |-> "beacon", body |-> e] \in net
  /\ e > fwd.epoch
  /\ IF mir.state # "none" /\ e > mir.epoch THEN Advanced(e) ELSE UNCHANGED <<mir, disk>>
  /\ fwd' = [fwd EXCEPT !.epoch = e]
  /\ UNCHANGED <<tasks, closers, joins>>

\* The bump fails with meta.json already renamed into place: neither watermark
\* moves, and the beacon may be heard again
HearBeaconErr(e) ==
  /\ Working(TRUE) /\ Listening /\ [type |-> "beacon", body |-> e] \in net
  /\ mir.state # "none" /\ e > fwd.epoch /\ e > mir.epoch
  /\ disk.there /\ disk' = [disk EXCEPT !.epoch = e]
  /\ UNCHANGED <<mir, fwd, tasks, closers, joins>>

\* Mutant: every signed close is taken.
CloseAnyEpoch(e) == TRUE

\* The host_epoch check of the SessionClosed arm
CloseAccepted(e) == e >= fwd.epoch

\* store.delete under the session's lock: on an error the teardown ends there,
\* and mirror and forwarder stay
Deletes(c) ==
  \/ Idle /\ disk' = NoDir /\ closers' = closers \cup {c} /\ UNCHANGED mir
  \/ /\ Working(TRUE) /\ disk' \in Remnants /\ UNCHANGED closers
     /\ mir' = [mir EXCEPT !.halved = @ \/ disk' # disk]

\* host_closed_session up to the unlock: look the mirror up, delete its directory
HearClose(e) ==
  /\ Listening /\ [type |-> "close", body |-> e] \in net
  /\ CloseAccepted(e) /\ mir.state # "none"
  /\ Deletes("close")
  /\ UNCHANGED <<fwd, tasks, joins>>

\* leave of the local joiner up to the unlock
Leave ==
  /\ mir.state = "live" /\ "leave" \notin closers
  /\ Deletes("leave")
  /\ UNCHANGED <<fwd, tasks, joins>>

\* sessions.remove(id) and forget_session(id), which takes whatever the id names
\* by now and aborts the forwarder, with a close it may be in the middle of
Finish(c) ==
  /\ Idle /\ c \in closers
  /\ mir' = NoMirror /\ fwd' = Silent
  /\ closers' = closers \ {c, "close"}
  /\ UNCHANGED <<tasks, disk, joins>>
-----------------------------------------------------------------------------
\* A crash, between two steps or inside an append, a delete or an epoch bump
Crash ==
  /\ up /\ crashes < MaxCrashes /\ MoreEvents
  /\ crashes' = crashes + 1 /\ up' = FALSE
  /\ mir' = NoMirror /\ fwd' = Silent /\ tasks' = {} /\ closers' = {}
  /\ \/ UNCHANGED disk
     \/ \E t \in tasks : disk' \in CutShort(t.msg)
     \/ mir.state # "none" /\ disk' \in Remnants
     \/ disk.there /\ Listening /\ \E e \in fwd.epoch + 1 .. MaxEpoch :
          /\ [type |-> "beacon", body |-> e] \in net
          /\ disk' = [disk EXCEPT !.epoch = e]
  /\ UNCHANGED <<hostVars, joins, faults>>

\* Registry::load: the frames in the order of the file, which read_log cuts back
\* to the last good one
Restart ==
  /\ ~up /\ up' = TRUE
  /\ mir' = IF disk.there
            THEN [state |-> "live", log |-> disk.frames, epoch |-> disk.epoch,
                  inc |-> disk.inc, loaded |-> TRUE, halved |-> FALSE]
            ELSE NoMirror
  /\ disk' = [disk EXCEPT !.torn = @ /\ ~disk.there]
  /\ UNCHANGED <<hostVars, fwd, tasks, closers, bounds>>

Next ==
  \/ HostSend \/ HostResume \/ HostLeave \/ HostCreate
  \/ \E t \in tickets : Claim(t)
  \/ JoinOk \/ Resubscribe \/ JoinFails
  \/ \E m \in Message : Receive(m)
  \/ \E t \in tasks : \/ \E pos \in 0 .. Len(mir.log) :
                            ApplyOk(t, pos) \/ ApplyDuplicate(t, pos)
                      \/ ApplyErr(t) \/ ApplyStale(t)
  \/ \E e \in 0 .. MaxEpoch : HearBeacon(e) \/ HearBeaconErr(e) \/ HearClose(e)
  \/ Leave \/ \E c \in closers : Finish(c)
  \/ Crash \/ Restart

Spec == Init /\ [][Next]_vars
-----------------------------------------------------------------------------
\* The mirror, its forwarder, its tasks and its directory have their types.
TypeOK ==
  /\ host \in [inc : 1 .. MaxInc, epoch : 0 .. MaxEpoch, open : BOOLEAN,
               len : 0 .. MaxSeq]
  /\ net \subseteq Posts /\ tickets \subseteq Ticket /\ up \in BOOLEAN
  /\ mir \in [state : {"none", "joining", "live"}, log : Seq(Message),
              epoch : 0 .. MaxEpoch, inc : 1 .. MaxInc, loaded : BOOLEAN,
              halved : BOOLEAN]
  /\ fwd \in [on : BOOLEAN, epoch : 0 .. MaxEpoch]
  /\ tasks \subseteq [msg : Message, of : 1 .. MaxJoins]
  /\ closers \subseteq {"close", "leave"}
  /\ disk \in [dir : BOOLEAN, there : BOOLEAN, frames : Seq(Message),
               torn : BOOLEAN, epoch : 0 .. MaxEpoch, inc : 1 .. MaxInc]
  /\ joins \in 0 .. MaxJoins /\ crashes \in 0 .. MaxCrashes
  /\ faults \in 0 .. MaxFaults

\* apply_inbound_mirror_message: whatever order the apply tasks take the lock in,
\* and however often a message was delivered, a mirror filled since it was joined
\* has each seq once and in order.
JoinedMirrorIsSorted ==
  mir.state # "none" /\ ~mir.loaded =>
    \A i, j \in DOMAIN mir.log : i < j => mir.log[i].seq < mir.log[j].seq

\* Store before memory, in append and in advance_host_epoch_watermark: unless the
\* mirror is being torn down, or a teardown removed part of its directory and then
\* failed, a restart brings it back with a watermark no lower than the live one, so
\* that a close refused before the restart is refused after it, and with every
\* message it holds, unless a failed append has left part of a frame in the file.
RestartKeepsTheMirror ==
  mir.state # "none" /\ closers = {} /\ ~mir.halved =>
    /\ disk.there
    /\ mir.epoch <= disk.epoch /\ (fwd.on => fwd.epoch <= disk.epoch)
    /\ ~disk.torn => Range(mir.log) \subseteq Range(disk.frames)

\* The incarnation i of the host's session has been closed.
Ended(i) == i < host.inc \/ (i = host.inc /\ ~host.open)

\* The SessionClosed arm and the epoch rules behind it: a close, however late or
\* repeated, tears down a mirror only if the incarnation it was joined to has ended.
ClosesAreOfItsIncarnation ==
  [][closers' \ closers = {"close"} => Ended(mir.inc)]_vars

\* The other half: no watermark is ahead of the host, so the close of the
\* incarnation that is open, or was the last, is never refused as a stale one.
LastCloseIsAccepted ==
  Listening => CloseAccepted(host.epoch)

(* A mirror keeps what apply_inbound_mirror_message showed to its          *)
(* subscribers: once, in the order of seqs, and in the file, together with *)
(* the epoch that its live watermark has reached.                          *)
MirrorIsKept ==
  /\ TypeOK
  /\ JoinedMirrorIsSorted
  /\ RestartKeepsTheMirror
=============================================================================
