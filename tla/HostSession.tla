----------------------------- MODULE HostSession -----------------------------
(***************************************************************************)
(* One hosted (Local) session of a daemon's Registry, over the life of its *)
(* id: host (create and resume), the issued-ticket ledger, admission by    *)
(* JoinAnnouncement and its auto-grant, capability messages and member     *)
(* writes, eviction, the host's leave, crash and reload.                   *)
(*                                                                         *)
(* A critical section of the per-session Mutex is one step; what an        *)
(* operation does after releasing the lock is a later step of its own.     *)
(* Operations look the session's Arc up in the map and lock it afterwards, *)
(* so one that is slow may lock a session the map no longer holds, while   *)
(* the store it then writes to is addressed by session id: such operations *)
(* act on the handle "orphan".                                            *)
(*                                                                         *)
(* A scenario says what may go wrong in a behaviour, and bounds it.        *)
(*                                                                         *)
(* A claim that is expired or not signed by this host is refused before    *)
(* any state is read, which is a stuttering step here.  A ticket is its    *)
(* id; used_by is advisory and only its ledger rewrite is kept.  Appends   *)
(* fail cleanly here: what a half-done append leaves is HostLog's subject. *)
(***************************************************************************)
EXTENDS Naturals, Sequences, FiniteSets, TLC

CONSTANTS Host,          \* the hosting daemon's peer id
          Peers,         \* remote peers
          Tickets,       \* ticket ids, each minted at most once
          TicketCap,     \* the tier each ticket grants
          CapActions,    \* the capability actions the host sends
          Scenarios,     \* see below
          MaxLog, MaxEpoch, MaxCrashes      \* bounds

Cap == {"Read", "ReadWrite"}

\* stale: an operation may outlive the leave it raced; partial: remove_dir_all
\* may stop half way; late: a write may be in place and yet be reported failed.
\* drawn, log and crashes bound its tickets, messages and crashes.
Scenario == [stale : BOOLEAN, partial : BOOLEAN, late : BOOLEAN,
             drawn : SUBSET Tickets, log : 0 .. MaxLog,
             crashes : 0 .. MaxCrashes]

ASSUME HostSessionAssumption ==
  /\ Host \notin Peers
  /\ TicketCap \in [Tickets -> Cap]
  /\ CapActions \subseteq [kind : {"grant", "revoke"},
                           peer : {Host} \cup Peers, cap : Cap]
  /\ Scenarios \subseteq Scenario
  /\ MaxLog \in Nat /\ MaxEpoch \in Nat /\ MaxCrashes \in Nat

VARIABLES sess,       \* handle -> in-memory Session
          disk,       \* the session's directory
          floor,      \* its epoch-floor sidecar, which a delete leaves
          up,
          grants,     \* admissions whose auto-grant is still to be sent
          leaving,    \* a host leave between its delete and the map removal
          minted,     \* ticket ids drawn so far (they are random, never reused)
          handed,     \* tickets returned to a caller
          dead,       \* of those, the ones of an incarnation that was closed
          revoked,    \* tickets whose revocation was acknowledged
          closed,     \* epochs SessionClosed was signed at
          mixed,      \* whose entries the log file holds (see Mixed)
          crashes,
          scenario

vars == <<sess, disk, floor, up, grants, leaving, minted, handed, dead,
          revoked, closed, mixed, crashes, scenario>>

Everyone == {Host} \cup Peers
AllHandles == {"map", "orphan"}
Handles  == IF scenario.stale THEN AllHandles ELSE {"map"}

Entry == [seq : 1 .. MaxLog, kind : {"write", "grant", "revoke"},
          author : Everyone, peer : Everyone, cap : Cap]
Ledger == [Tickets -> {"absent", "Active", "Revoked"}]
NoTickets == [t \in Tickets |-> "absent"]

Session == [live : BOOLEAN, members : SUBSET Everyone, tickets : Ledger,
            caps : [Everyone -> Cap], log : Seq(Entry), head : 0 .. MaxLog,
            epoch : 0 .. MaxEpoch]

RootCaps == [p \in Everyone |-> IF p = Host THEN "ReadWrite" ELSE "Read"]

NoSession == [live |-> FALSE, members |-> {}, tickets |-> NoTickets,
              caps |-> RootCaps, log |-> <<>>, head |-> 0, epoch |-> 0]

NoDir == [dir |-> FALSE, meta |-> FALSE, members |-> {}, head |-> 0,
          epoch |-> 0, tickets |-> NoTickets, log |-> <<>>]

\* Mutant: a bump does not raise the floor.
LargerKeeps(a, b) == a

Larger(a, b) == IF a >= b THEN a ELSE b

TailSeq(l) == IF l = <<>> THEN 0
              ELSE LET seqs == {l[i].seq : i \in 1 .. Len(l)}
                   IN  CHOOSE n \in seqs : \A m \in seqs : m <= n
-----------------------------------------------------------------------------
(* Capabilities: apply_capability_to and project_caps.  A peer absent from *)
(* the code's map holds Read.                                              *)

ApplyCapability(caps, m) ==
  IF m.author # Host \/ m.peer = Host \/ m.kind = "write" THEN caps
  ELSE [caps EXCEPT ![m.peer] = IF m.kind = "grant" THEN m.cap ELSE "Read"]

\* A stable sort by seq, then the fold: after[n] is the map after the first n entries.
ProjectCaps(log) ==
  LET s == SortSeq(log, LAMBDA a, b : a.seq < b.seq)
      after[n \in 0 .. Len(s)] ==
        IF n = 0 THEN RootCaps ELSE ApplyCapability(after[n - 1], s[n])
  IN after[Len(s)]

\* Mutant: membership is enough to write.
CanWriteMember(s, p) == TRUE

CanWrite(s, p) == s.caps[p] = "ReadWrite"
-----------------------------------------------------------------------------
Init ==
  /\ sess = [h \in AllHandles |-> NoSession]
  /\ disk = NoDir /\ floor = 0 /\ up = TRUE
  /\ grants = {} /\ leaving = FALSE
  /\ minted = {} /\ handed = {} /\ dead = {} /\ revoked = {} /\ closed = {}
  /\ mixed = "no" /\ crashes = 0 /\ scenario \in Scenarios

(* How the writes of an operation end: "ok"; "late", the last file is in   *)
(* place but its directory fsync failed, so the caller gets an error and   *)
(* memory is left alone; "crash", the daemon dies with the files written.  *)
(* A write that fails earlier changes nothing and is no step, except where *)
(* an operation has written another file before ("err").                   *)
Outcomes == {"ok", "late", "err", "crash"}

\* Memory after an operation on h that would make it s and the in-flight
\* grants g.
Return(o, h, s, g) ==
  /\ up
  /\ (o = "late") => scenario.late
  /\ (o = "crash") => crashes < scenario.crashes
  /\ up' = (o # "crash")
  /\ crashes' = IF o = "crash" THEN crashes + 1 ELSE crashes
  /\ sess' = CASE o = "ok"             -> [sess EXCEPT ![h] = s]
               [] o \in {"late", "err"} -> sess
               [] o = "crash"          -> [x \in AllHandles |-> NoSession]
  /\ grants' = CASE o = "ok" -> g [] o \in {"late", "err"} -> grants
                 [] o = "crash" -> {}

Told(o, set, t) == IF o = "ok" THEN set \cup {t} ELSE set

Mint(t) == t \in scenario.drawn \ minted /\ minted' = minted \cup {t}

StillLeaving == leaving' = (leaving /\ up')

\* host(), create arm: floor read, mint, store.create (floor, log file, meta,
\* ledger) and map insert under one hold of the map lock.  store.create adopts
\* a log file it finds.
FreshDir(t) == [dir |-> TRUE, meta |-> TRUE, members |-> {Host}, head |-> 0,
                epoch |-> floor, log |-> disk.log,
                tickets |-> [NoTickets EXCEPT ![t] = "Active"]]

HostCreate(t, o) ==
  /\ ~sess["map"].live /\ Mint(t) /\ floor <= MaxEpoch
  /\ IF o = "err"
     THEN \/ disk' = [disk EXCEPT !.dir = TRUE] /\ floor' \in {floor, floor + 1}
          \/ /\ disk' = [FreshDir(t) EXCEPT !.tickets = disk.tickets]
             /\ floor' = floor + 1
     ELSE disk' = FreshDir(t) /\ floor' = floor + 1
  /\ Return(o, "map", [NoSession EXCEPT !.live = TRUE, !.members = {Host},
                         !.epoch = floor, !.tickets = FreshDir(t).tickets],
            grants)
  /\ handed' = Told(o, handed, t)
  /\ StillLeaving /\ UNCHANGED <<dead, revoked, closed>>

\* host(), resume arm: put_tickets, then bump_host_epoch (floor, then meta; a
\* no-op when meta.json is gone), then memory.
HostResume(h, t, o) ==
  /\ sess[h].live /\ Mint(t) /\ disk.dir /\ sess[h].epoch < MaxEpoch
  /\ LET ledger == [sess[h].tickets EXCEPT ![t] = "Active"]
         e      == sess[h].epoch + 1
         raised == IF disk.meta THEN Larger(floor, e + 1) ELSE floor
     IN /\ IF o = "err"
           THEN /\ disk.meta /\ disk' = [disk EXCEPT !.tickets = ledger]
                /\ floor' \in {floor, raised}
           ELSE /\ disk' = [disk EXCEPT !.tickets = ledger,
                                        !.epoch = IF disk.meta THEN e ELSE @]
                /\ floor' = raised
        /\ Return(o, h, [sess[h] EXCEPT !.tickets = ledger, !.epoch = e], grants)
  /\ handed' = Told(o, handed, t)
  /\ StillLeaving /\ UNCHANGED <<dead, revoked, closed>>

\* Mutant: memory changes, the ledger file is not rewritten.
WriteLedgerMemoryOnly(h, ledger, o) ==
  /\ o # "err" /\ sess[h].live /\ disk.dir /\ UNCHANGED disk
  /\ Return(o, h, [sess[h] EXCEPT !.tickets = ledger], grants)

\* put_tickets, then memory: NotFound without a directory.
WriteLedger(h, ledger, o) ==
  /\ o # "err" /\ sess[h].live /\ disk.dir
  /\ disk' = [disk EXCEPT !.tickets = ledger]
  /\ Return(o, h, [sess[h] EXCEPT !.tickets = ledger], grants)

IssueTicket(h, t, o) ==
  /\ Mint(t)
  /\ WriteLedger(h, [sess[h].tickets EXCEPT ![t] = "Active"], o)
  /\ handed' = Told(o, handed, t)
  /\ StillLeaving /\ UNCHANGED <<floor, dead, revoked, closed>>

RevokeTicket(h, t, o) ==
  /\ sess[h].tickets[t] # "absent"
  /\ IF sess[h].tickets[t] = "Revoked"
     THEN o = "ok" /\ up /\ UNCHANGED <<sess, disk, up, grants, crashes>>
     ELSE WriteLedger(h, [sess[h].tickets EXCEPT ![t] = "Revoked"], o)
  /\ revoked' = Told(o, revoked, t)
  /\ StillLeaving /\ UNCHANGED <<floor, minted, handed, dead, closed>>
-----------------------------------------------------------------------------
TicketAdmissible(s, t) == s.tickets[t] = "Active"

SameTickets == UNCHANGED <<floor, minted, handed, dead, revoked, closed>>

\* ensure_member for a peer not yet a member, up to the lock's release: the
\* ledger gate, add_member, memory, then the used_by rewrite of the ledger,
\* whose failure is only logged.  Bound: of the grants that wait for one peer
\* and tier, one is kept.
EnsureMember(h, p, t, o) ==
  /\ o # "err" /\ sess[h].live /\ t \in handed
  /\ TicketAdmissible(sess[h], t)
  /\ p \notin sess[h].members
  /\ disk.meta
  /\ \E ledger \in {disk.tickets, sess[h].tickets} :
       disk' = [disk EXCEPT !.members = @ \cup {p}, !.tickets = ledger]
  /\ Return(o, h, [sess[h] EXCEPT !.members = @ \cup {p}],
            grants \cup {[peer |-> p, cap |-> TicketCap[t]]})
  /\ StillLeaving /\ SameTickets

\* Registry::send, Local arm: membership, capability, store.append, then head,
\* log and caps, under one lock hold.  The append needs the directory for the
\* frame and meta.json for the head; "err" is the frame without the head.
Send(h, m, o, g) ==
  LET s == sess[h]
      entry == m @@ [seq |-> s.head + 1]
      frame == [disk EXCEPT !.log = Append(@, entry)]
  IN /\ s.live /\ disk.dir
     /\ m.author \in s.members /\ CanWrite(s, m.author)
     /\ s.head < scenario.log /\ Len(disk.log) < scenario.log
     /\ IF o = "err"
        THEN (disk.meta => scenario.late) /\ disk' = frame
        ELSE /\ disk.meta
             /\ disk' = [frame EXCEPT !.head = Larger(@, entry.seq)]
     /\ Return(o, h, [s EXCEPT !.head = @ + 1, !.log = Append(@, entry),
                               !.caps = ApplyCapability(@, entry)], g)
     /\ StillLeaving /\ SameTickets

MemberWrite(h, p, o) ==
  Send(h, [kind |-> "write", author |-> p, peer |-> p, cap |-> "Read"], o, grants)

HostCapability(h, a, o) ==
  Send(h, a @@ [author |-> Host], o, grants)

\* auto_grant_on_join: ensure_member's tail calls send, which looks the
\* session up again.  A failure is only logged.
AutoGrant(h, g, o) ==
  \/ Send(h, [kind |-> "grant", author |-> Host, peer |-> g.peer, cap |-> g.cap],
          o, grants \ {g})
  \/ /\ o = "err" /\ up /\ grants' = grants \ {g}
     /\ UNCHANGED <<sess, disk, up, leaving, crashes>> /\ SameTickets

\* remove_member (the host evicting a peer), and leave by a member that is
\* not the host: the session goes on.
RemoveMember(h, p, o) ==
  /\ o # "err" /\ sess[h].live /\ p \in sess[h].members \ {Host}
  /\ disk.meta
  /\ disk' = [disk EXCEPT !.members = @ \ {p}]
  /\ Return(o, h, [sess[h] EXCEPT !.members = @ \ {p}], grants)
  /\ StillLeaving /\ SameTickets
-----------------------------------------------------------------------------
\* What remove_dir_all can leave when it stops half way.
Remnants == {[disk EXCEPT !.meta = m,
                          !.members = IF m THEN @ ELSE {},
                          !.head    = IF m THEN @ ELSE 0,
                          !.epoch   = IF m THEN @ ELSE 0,
                          !.log     = IF l THEN @ ELSE <<>>,
                          !.tickets = IF t THEN @ ELSE NoTickets] :
               m, l, t \in BOOLEAN}

\* leave by the host, under the lock: delete the directory, then drop the
\* host from members.
LeaveHost(o) ==
  /\ o # "late" /\ sess["map"].live /\ Host \in sess["map"].members
  /\ \/ /\ o # "err"
        /\ disk' = NoDir /\ dead' = handed
     \/ /\ scenario.partial /\ o # "ok"
        /\ disk' \in Remnants /\ UNCHANGED dead
  /\ Return(o, "map", [sess["map"] EXCEPT !.members = @ \ {Host}], grants)
  /\ leaving' = (o = "ok")
  /\ closed' = IF o = "ok" THEN closed \cup {sess["map"].epoch} ELSE closed
  /\ UNCHANGED <<floor, minted, handed, revoked>>

\* leave by the host, after the lock: remove the map entry; SessionClosed is
\* then signed at the epoch read under the lock.  Bound: of the sessions that
\* slow operations may still hold, one is kept.
LeaveFinish ==
  /\ up /\ leaving /\ leaving' = FALSE
  /\ \E kept \in IF scenario.stale THEN {sess["map"], sess["orphan"]} ELSE {NoSession} :
       sess' = [sess EXCEPT !["map"] = NoSession, !["orphan"] = kept]
  /\ UNCHANGED <<disk, up, grants, crashes>> /\ SameTickets

Crash ==
  /\ Return("crash", "map", NoSession, {})
  /\ leaving' = FALSE
  /\ UNCHANGED disk /\ SameTickets

Loaded(caps, tickets, epoch) ==
  [live |-> TRUE, members |-> disk.members, tickets |-> tickets,
   caps |-> caps, log |-> disk.log,
   head |-> Larger(disk.head, TailSeq(disk.log)), epoch |-> epoch]

\* Mutant: capabilities are not replayed.
LoadOneNoCaps == Loaded(RootCaps, disk.tickets, disk.epoch)

\* load_all + from_record.  A directory without a readable meta.json is skipped.
LoadOne == Loaded(ProjectCaps(disk.log), disk.tickets, disk.epoch)

Load ==
  /\ ~up /\ up' = TRUE
  /\ sess' = [sess EXCEPT !["map"] = IF disk.meta THEN LoadOne ELSE NoSession]
  /\ UNCHANGED <<disk, grants, leaving, crashes>> /\ SameTickets

Step ==
  \/ \E o \in Outcomes :
       \/ \E t \in Tickets : HostCreate(t, o)
       \/ \E h \in Handles, t \in Tickets :
            \/ HostResume(h, t, o)
            \/ IssueTicket(h, t, o)
            \/ RevokeTicket(h, t, o)
            \/ \E p \in Peers : EnsureMember(h, p, t, o)
       \/ \E h \in Handles, p \in Peers :
            MemberWrite(h, p, o) \/ RemoveMember(h, p, o)
       \/ \E h \in Handles, a \in CapActions : HostCapability(h, a, o)
       \/ \E h \in Handles, g \in grants : AutoGrant(h, g, o)
       \/ LeaveHost(o)
  \/ LeaveFinish
  \/ Crash
  \/ Load

\* Ghost: "file" once the log file has been something else than what the map's
\* session appended (the frame of a refused append stayed, an operation that
\* outlived a leave wrote to it, a half-done delete took it or left it to the
\* next session of the id), "memory" once a reload took such a file; "no" again
\* when both logs are empty.  An append that a crash ends may be the orphan's
\* as long as there is one.
Mixed ==
  mixed' = CASE disk'.log = <<>> /\ sess'["map"].log = <<>> -> "no"
             [] mixed = "memory" \/ (~up /\ mixed = "file") -> "memory"
             [] up' /\ ~leaving' /\ disk'.log # sess'["map"].log -> "file"
             [] ~up' /\ sess["orphan"].live /\ disk'.log # disk.log -> "file"
             [] OTHER -> mixed

Next == Step /\ Mixed /\ UNCHANGED scenario

Spec == Init /\ [][Next]_vars
-----------------------------------------------------------------------------
Pending == [peer : Peers, cap : Cap]

(* Memory, files and ledgers have their types, and only tickets that were  *)
(* drawn are handed out.                                                   *)
TypeOK ==
  /\ sess \in [AllHandles -> Session]
  /\ disk \in [dir : BOOLEAN, meta : BOOLEAN, members : SUBSET Everyone,
               head : 0 .. MaxLog, epoch : 0 .. MaxEpoch, tickets : Ledger,
               log : Seq(Entry)]
  /\ floor \in 0 .. MaxEpoch + 1 /\ up \in BOOLEAN /\ leaving \in BOOLEAN
  /\ grants \subseteq Pending
  /\ minted \subseteq Tickets /\ handed \subseteq minted /\ dead \subseteq handed
  /\ revoked \subseteq Tickets /\ closed \subseteq 0 .. MaxEpoch
  /\ mixed \in {"no", "file", "memory"}
  /\ crashes \in 0 .. MaxCrashes /\ scenario \in Scenario

(* Store before memory: whatever the running daemon holds for the session, *)
(* a reload would rebuild (members, log, head, caps, incarnation epoch and *)
(* ledger); the ledger file may list a ticket more, of a resume that       *)
(* failed and never returned it.  Stated while nothing goes wrong but      *)
(* crashes; what memory and files hold has its type whatever goes wrong.   *)
ReloadRebuildsMemory ==
  LET s == sess["map"] IN
  /\ TypeOK
  /\ ~(scenario.stale \/ scenario.partial \/ scenario.late)
       /\ up /\ s.live /\ ~leaving =>
       /\ disk.meta
       /\ LoadOne = [s EXCEPT !.tickets = disk.tickets]
       /\ \A t \in Tickets :
            s.tickets[t] # disk.tickets[t] => s.tickets[t] = "absent"
                                              /\ t \notin handed

\* Every entry's author could write at its seq, by the replay of the entries
\* below it.
Authorized(log) ==
  \A i \in 1 .. Len(log) :
    ProjectCaps(SelectSeq(log, LAMBDA m : m.seq < log[i].seq))[log[i].author]
      = "ReadWrite"

(* Drop-before-append: every author in the log file could write, by the    *)
(* replay of what lies below, across reloads.  A file that refused appends,*)
(* half-done deletes or operations that outlived a leave left their marks  *)
(* in does not promise that any more; the running session does, until a    *)
(* reload has taken such a file: its own checks are not led astray.        *)
EveryEntryAuthorized ==
  /\ mixed = "no" => Authorized(disk.log)
  /\ mixed # "memory" => Authorized(sess["map"].log)

(* A revocation that was acknowledged holds: neither memory nor a reload   *)
(* ever has the ticket Active again, whatever fails or restarts later.     *)
AckedRevocationHolds ==
  \A t \in revoked : /\ sess["map"].tickets[t] # "Active"
                     /\ disk.tickets[t] # "Active"

(* A ticket returned to a caller, whose session was not closed, is in the  *)
(* ledger and on disk: no other operation's rewrite drops it, also when    *)
(* writes are reported failed that are in place.  A half-done delete or an *)
(* operation that outlives a leave can drop it.                            *)
HandedTicketsStayIssued ==
  ~scenario.stale /\ ~scenario.partial =>
  \A t \in handed \ dead :
    /\ disk.tickets[t] # "absent"
    /\ sess["map"].live => sess["map"].tickets[t] # "absent"

(* A session id that is closed and hosted again does not admit bearers of  *)
(* the tickets the closed incarnation handed out, half-done deletes and    *)
(* late errors included; an operation that outlives the leave can revive   *)
(* one.                                                                    *)
ClosedIncarnationsTicketsAreDead ==
  ~scenario.stale => \A t \in dead : leaving \/ ~TicketAdmissible(sess["map"], t)

(* The fence for replayed SessionClosed frames: a hosted session's epoch   *)
(* is above every epoch a close was ever signed at, and the floor above it,*)
(* so a later re-host of the id will be above it as well.  Not after a     *)
(* half-done delete: without meta.json a resume does not raise the floor.  *)
(* And a resume that outlives two leaves writes the epoch after the one it *)
(* knew to meta.json, which a reload then takes although it was closed.    *)
EpochAboveEveryClose ==
  ~scenario.partial /\ sess["map"].live /\ ~leaving =>
    /\ sess["map"].epoch < floor
    /\ ~scenario.stale \/ crashes = 0 => \A e \in closed : e < sess["map"].epoch

(* The ticket ledger that admission consults, in memory and in             *)
(* tickets.json: an acknowledged revoke_ticket holds for good, a ticket    *)
(* that was handed out stays listed until it is revoked or its session     *)
(* closed, and a closed incarnation's tickets admit nobody to the next.    *)
LedgerIsExact ==
  /\ AckedRevocationHolds
  /\ HandedTicketsStayIssued
  /\ ClosedIncarnationsTicketsAreDead
=============================================================================
