------------------------------ MODULE FileSync ------------------------------
(***************************************************************************)
(* One workspace node of artel-fs: the files under its root, the replica   *)
(* of the shared document, and the two tasks that keep them alike.  The    *)
(* watcher publishes what the user does to a file (watcher.rs); the        *)
(* applier lays down what peers publish (applier.rs).  The echo guard      *)
(* (echo_guard.rs) tells the watcher which changes are the applier's own.  *)
(* Before the tasks run, a returning host reconciles and scans its tree    *)
(* and a joiner bulk-exports the document (workspace.rs).                  *)
(*                                                                         *)
(* A file is its content; a content has a length, and Absent is no file.   *)
(* The document (iroh-docs, external) keeps one entry per path and author; *)
(* the latest is the one with the highest timestamp, and a tombstone has   *)
(* content Absent.  All peers together are one author.  Peers stamp their  *)
(* entries when they write them, and they arrive later and may skip        *)
(* superseded ones.  Timestamps come from one clock: skew is left out.     *)
(* An awaited call of the two tasks is a step, and so is each system call  *)
(* on the way to an unlink: the user is another process.  A mutex-protected*)
(* update of the guard is one step.  Symbolic links and directories are    *)
(* left out but for the rescan that a new directory's event causes.        *)
(***************************************************************************)
EXTENDS Integers, Sequences, FiniteSetsExt

CONSTANTS Paths, Contents, Absent, Unset,
          InitialFiles, \* what a path may hold before the first start
          UserFiles,    \* what the user writes
          PeerFiles,    \* what peers publish, Absent for a tombstone
          Length,       \* the length of each content; 0 is an empty file
          Hardcoded,    \* paths under a hardcoded-skip name
          Configs       \* the nodes: role, os, rules, default, exclude, max_file_size,
                        \* and max, the bounds: user edits, peer edits, and I/O
                        \* errors and demotions together; a node restarts once

ASSUME FileSyncAssumption ==
  /\ Absent \notin Contents /\ Unset \notin Contents \cup {Absent}
  /\ InitialFiles \cup PeerFiles \subseteq Contents \cup {Absent}
  /\ UserFiles \subseteq Contents
  /\ Length \in [Contents -> Nat]
  /\ \A c \in PeerFiles \ {Absent} : Length[c] > 0
  /\ Hardcoded \subseteq Paths
  /\ \A n \in Configs :
       /\ n.role \in {"host", "joiner"} /\ n.os \in {"linux", "macos"}
       /\ n.rules \in Seq([glob : SUBSET Paths, mode : {"ReadWrite", "ReadOnly"}])
       /\ n.default \in {"ReadWrite", "ReadOnly"}
       /\ n.exclude \subseteq Paths /\ n.cap \in Nat
       /\ n.max \in [edits : Nat, peer : Nat, trouble : Nat]

VARIABLES config,    \* which node this is
          disk,      \* the files under the root
          doc,       \* the replica: an entry for each path and author
          blobs,     \* contents whose blob is complete in the local store
          flight,    \* peer entries that have not reached the replica
          wanted,    \* contents the document engine is downloading
          guard,     \* the echo guard: pending, last_published, peer_deleted
          timers,    \* release_after timers running for each path
          boot,      \* the constructor: its pass, and the paths it has left
          rx,        \* debounced local changes waiting for the watcher
          w,         \* the watcher task
          live,      \* document events waiting for the applier
          a,         \* the applier task
          trackers,  \* for each hash, the paths its progress tracker narrates
          said,      \* the last transfer event sent about each path
          halted,    \* write_halted: this node was demoted
          newer,     \* paths the user wrote after a tombstone took their identity
          adrift,    \* paths for which a change is known to have been dropped
          budget     \* edits, peer edits and troubles so far

vars == <<config, disk, doc, blobs, flight, wanted, guard, timers, boot, rx, w,
          live, a, trackers, said, halted, newer, adrift, budget>>

Authors == {"me", "peer"}
Files == Contents \cup {Absent}

NoEntry == [ts |-> 0, c |-> Absent]

(* single_latest_per_key (external). *)
Latest(d, p) == IF d[p]["me"].ts >= d[p]["peer"].ts THEN d[p]["me"] ELSE d[p]["peer"]
LatestEntry(p) == [path |-> p, c |-> Latest(doc, p).c]
Known(d) == {p \in Paths : Latest(d, p).ts > 0}

FreshGuard == [pending |-> {}, last |-> [p \in Paths |-> Unset], gone |-> {}]
WatcherOff == [pc |-> "off", path |-> Unset, hash |-> Unset, todo |-> {}]
ApplierOff == [pc |-> "off", mode |-> "none", todo |-> {}, hash |-> Unset,
               pend |-> FALSE, entry |-> Unset, before |-> Unset, moved |-> FALSE]

Init ==
  /\ config \in Configs
  /\ disk \in [Paths -> InitialFiles]
  /\ doc = [p \in Paths |-> [x \in Authors |-> NoEntry]]
  /\ blobs = {} /\ flight = {} /\ wanted = {}
  /\ guard = FreshGuard /\ timers = [p \in Paths |-> 0]
  /\ boot = [pass |-> "off", todo |-> {}, returning |-> FALSE]
  /\ rx = <<>> /\ w = WatcherOff /\ live = <<>> /\ a = ApplierOff
  /\ trackers = [h \in Contents |-> {}]
  /\ said = [p \in Paths |-> "none"]
  /\ halted = FALSE /\ newer = {}
  /\ adrift = {p \in Paths : disk[p] # Absent}
  /\ budget = [edits |-> 0, peer |-> 0, trouble |-> 0]

-----------------------------------------------------------------------------
(* Filters and rules. *)

Cap == config.cap

Size(c) == IF c = Absent THEN 0 ELSE Length[c]

(* CompiledPathRules::mode_for: the first rule whose glob matches decides. *)
ModeFor(p) ==
  LET hits == {i \in DOMAIN config.rules : p \in config.rules[i].glob}
  IN  IF hits = {} THEN config.default
      ELSE config.rules[CHOOSE i \in hits : \A j \in hits : i <= j].mode

(* The path-shape layers of WorkspaceFilter::check. *)
Excluded(p) == p \in Hardcoded \cup config.exclude

(* WorkspaceFilter::check: its size layer stats the local file. *)
Include(p) == ~Excluded(p) /\ Size(disk[p]) <= Cap

ReadOnly(p) == ModeFor(p) = "ReadOnly"

-----------------------------------------------------------------------------
(* What several actions share. *)

(* A change of a file becomes known only while the watch is attached. *)
Unwatched == w.pc = "off"

(* notify's debouncer (external): one more change of p's last kind adds nothing. *)
Noticed(kind, p) ==
  LET mine == {i \in DOMAIN rx : rx[i].path = p}
      lastKind == IF mine = {} THEN "none"
                  ELSE rx[CHOOSE i \in mine : \A j \in mine : j <= i].kind
  IN  IF Unwatched \/ lastKind = kind THEN rx
      ELSE Append(rx, [kind |-> kind, path |-> p])

(* An unlink is seen as a Remove on Linux and as a Modify, or a pair of them,
   on macOS. *)
UnlinkNoticed(p) ==
  IF config.os = "linux" THEN rx' = Noticed("removed", p)
  ELSE LET pair == Append(Noticed("modified", p), [kind |-> "modified", path |-> p])
       IN  rx' \in {Noticed("modified", p)} \cup IF Unwatched THEN {} ELSE {pair}

(* Length and presence of a file, as fingerprint reads them. *)
Fingerprint(c) == IF c = Absent THEN -1 ELSE Size(c)

(* The applier is about to unlink p for a tombstone. *)
Removing(p) == a.pc \in {"tomb", "doomed", "unlink"} /\ a.entry.path = p

(* The clock: later than every entry of the path there is. *)
Now(p) ==
  1 + Max({doc[p][x].ts : x \in Authors} \cup {f.ts : f \in {g \in flight : g.path = p}})

(* Doc::import_file, set_hash and del (external): an entry of our own. *)
Authored(p, c) ==
  /\ doc' = [doc EXCEPT ![p]["me"] = [ts |-> Now(p), c |-> c]]
  /\ blobs' = IF c = Absent THEN blobs ELSE blobs \cup {c}

(* Bookkeeping: p is adrift when the step dropped a change, until file,
   document and the guard's hash agree on it again. *)
Settle(p, dropped) ==
  adrift' = IF disk'[p] = Latest(doc', p).c /\ guard'.last[p] \in {Unset, disk'[p]}
            THEN adrift \ {p}
            ELSE IF dropped THEN adrift \cup {p} ELSE adrift

Trouble == /\ budget.trouble < config.max.trouble
           /\ budget' = [budget EXCEPT !.trouble = @ + 1]

-----------------------------------------------------------------------------
(* The user, the peers and the document engine. *)

UserWrite(p, c) ==
  /\ budget.edits < config.max.edits /\ c # disk[p]
  /\ budget' = [budget EXCEPT !.edits = @ + 1]
  /\ disk' = [disk EXCEPT ![p] = c]
  \* With inotify, a file in a new directory may be seen only through that.
  /\ \E kind \in {"modified"} \cup
                 IF disk[p] = Absent /\ config.os = "linux" THEN {"dir"} ELSE {} :
       rx' = Noticed(kind, p)
  \* The inode or the second of the file may be new, or the same as before.
  /\ a' \in {a} \cup IF Removing(p) /\ a.pc = "doomed" THEN {[a EXCEPT !.moved = TRUE]} ELSE {}
  /\ LET seen == a.pc = "doomed" /\ (a'.moved \/ Fingerprint(c) # a.before)
     IN  newer' = IF p \in guard.gone /\ (Removing(p) => seen) THEN newer \cup {p}
                  ELSE newer \ {p}
  /\ UNCHANGED <<config, doc, blobs, flight, wanted, guard, timers, boot, w,
                 live, trackers, said, halted>>
  /\ Settle(p, Unwatched)

UserDelete(p) ==
  /\ budget.edits < config.max.edits /\ disk[p] # Absent
  /\ budget' = [budget EXCEPT !.edits = @ + 1]
  /\ disk' = [disk EXCEPT ![p] = Absent]
  /\ UnlinkNoticed(p)
  /\ UNCHANGED <<config, doc, blobs, flight, wanted, guard, timers, boot, w,
                 live, a, trackers, said, halted, newer>>
  /\ Settle(p, Unwatched)

(* Another node publishes; its entries supersede each other on the way. *)
PeerWrite(p, c) ==
  /\ budget.peer < config.max.peer
  /\ budget' = [budget EXCEPT !.peer = @ + 1]
  /\ flight' = flight \cup {[path |-> p, ts |-> Now(p), c |-> c]}
  /\ UNCHANGED <<config, disk, doc, blobs, wanted, guard, timers, boot, rx, w, live,
                 a, trackers, said, halted, newer, adrift>>

(* The document engine inserts a peer's entry and starts its download. *)
Deliver(e) ==
  /\ e \in flight
  /\ doc' = [doc EXCEPT ![e.path]["peer"] = [ts |-> e.ts, c |-> e.c]]
  /\ flight' = {f \in flight : f.path # e.path \/ f.ts > e.ts}
  /\ wanted' = IF e.c \in blobs \cup {Absent} THEN wanted ELSE wanted \cup {e.c}
  /\ live' = IF a.pc = "off" THEN live
             ELSE Append(live, [kind |-> "insert", entry |-> [path |-> e.path, c |-> e.c]])
  /\ UNCHANGED <<config, disk, blobs, guard, timers, boot, rx, w, a, trackers,
                 said, halted, newer, adrift, budget>>

Download(h) ==
  /\ h \in wanted
  /\ wanted' = wanted \ {h}
  /\ blobs' = blobs \cup {h}
  /\ live' = IF a.pc = "off" THEN live ELSE Append(live, [kind |-> "ready", hash |-> h])
  /\ UNCHANGED <<config, disk, doc, flight, guard, timers, boot, rx, w, a,
                 trackers, said, halted, newer, adrift, budget>>

(* The capability loop halts writes (modelled in CapFeed). *)
Demote ==
  /\ ~halted /\ boot.pass = "run" /\ config.role = "joiner" /\ Trouble
  /\ halted' = TRUE
  /\ UNCHANGED <<config, disk, doc, blobs, flight, wanted, guard, timers, boot,
                 rx, w, live, a, trackers, said, newer, adrift>>

(* The timer that release_after spawned fires. *)
Release(p) ==
  /\ timers[p] > 0
  /\ timers' = [timers EXCEPT ![p] = @ - 1]
  /\ guard' = [guard EXCEPT !.pending = @ \ {p}]
  /\ UNCHANGED <<config, disk, doc, blobs, flight, wanted, boot, rx, w, live, a,
                 trackers, said, halted, newer, adrift, budget>>

(* The process ends wherever it is; files, replica and blobs survive. *)
Stop ==
  /\ boot.pass # "off" /\ ~boot.returning
  /\ guard' = FreshGuard /\ timers' = [p \in Paths |-> 0]
  /\ boot' = [pass |-> "off", todo |-> {}, returning |-> TRUE]
  /\ rx' = <<>> /\ w' = WatcherOff /\ live' = <<>> /\ a' = ApplierOff
  /\ trackers' = [h \in Contents |-> {}]
  /\ said' = [p \in Paths |-> "none"]
  /\ halted' = FALSE /\ newer' = {}
  /\ adrift' = adrift \cup {p \in Paths : disk[p] # Latest(doc, p).c}
  /\ UNCHANGED <<config, disk, doc, blobs, flight, wanted, budget>>

-----------------------------------------------------------------------------
(* The constructors, host_with and join_with. *)

(* enforce_attach_policy. *)
AttachAllowed(policy) ==
  /\ ~(policy = "InitFromExisting" /\ config.role = "joiner")
  /\ policy = "RequireEmpty" => \A p \in Paths \ Hardcoded : disk[p] = Absent

KnownEntries == {LatestEntry(p) : p \in Known(doc)}

Walked == {[path |-> p] : p \in {q \in Paths : disk[q] # Absent}}

(* A returning host reconciles before it scans; a joiner exports in bulk. *)
Start ==
  /\ boot.pass = "off"
  /\ \E policy \in {"RequireEmpty", "AllowExisting", "InitFromExisting"} :
       AttachAllowed(policy)
  /\ boot' = CASE config.role = "joiner" ->
                    [boot EXCEPT !.pass = "bulk", !.todo = KnownEntries]
               [] config.role = "host" /\ boot.returning ->
                    [boot EXCEPT !.pass = "reconcile", !.todo = KnownEntries]
               [] OTHER -> [boot EXCEPT !.pass = "scan", !.todo = Walked]
  /\ UNCHANGED <<config, disk, doc, blobs, flight, wanted, guard, timers, rx, w,
                 live, a, trackers, said, halted, newer, adrift, budget>>

BootNext ==
  /\ boot.pass \in {"reconcile", "scan", "bulk"} /\ boot.todo = {}
  /\ boot' = IF boot.pass = "reconcile"
             THEN [boot EXCEPT !.pass = "scan", !.todo = Walked]
             ELSE [boot EXCEPT !.pass = "run"]
  /\ UNCHANGED <<config, disk, doc, blobs, flight, wanted, guard, timers, rx, w,
                 live, a, trackers, said, halted, newer, adrift, budget>>

BootItem(pass, e) ==
  /\ boot.pass = pass /\ e \in boot.todo
  /\ boot' = [boot EXCEPT !.todo = @ \ {e}]
  /\ UNCHANGED <<config, flight, wanted, rx, w, live, a, trackers, halted>>

(* reconcile_doc_against_disk: an entry with no file becomes a tombstone. *)
Reconcile(e) ==
  /\ BootItem("reconcile", e)
  /\ IF e.c # Absent /\ Include(e.path) /\ disk[e.path] = Absent
     THEN \/ /\ Authored(e.path, Absent) /\ UNCHANGED budget
          \/ /\ Trouble /\ UNCHANGED <<doc, blobs>>
     ELSE UNCHANGED <<doc, blobs, budget>>
  /\ UNCHANGED <<disk, guard, timers, said, newer>>
  /\ Settle(e.path, budget' # budget)

(* EchoGuard::record_local_publish. *)
RecordLocalPublish(p, h) == guard' = [guard EXCEPT !.gone = @ \ {p}, !.last[p] = h]

(* publish_file_streaming's outcome for the file as it is now. *)
PublishOutcome(p) ==
  CASE disk[p] = Absent       -> "NotFound"
    [] Size(disk[p]) = 0      -> "SkippedEmpty"
    [] Size(disk[p]) > Cap    -> "SkippedTooLarge"
    [] OTHER                  -> "Published"

(* scan_and_publish_existing. *)
Scan(e) ==
  LET p == e.path IN
  /\ BootItem("scan", e)
  /\ IF Include(p) /\ ~ReadOnly(p) /\ PublishOutcome(p) = "Published"
     THEN \/ /\ Authored(p, disk[p]) /\ RecordLocalPublish(p, disk[p])
             /\ newer' = newer \ {p}
             /\ UNCHANGED budget
          \/ /\ Trouble /\ UNCHANGED <<doc, blobs, guard, newer>>
     ELSE UNCHANGED <<doc, blobs, guard, newer, budget>>
  /\ UNCHANGED <<disk, timers, said>>
  /\ Settle(p, budget' # budget)

\* Mutant: a failed rename leaves its mark.
UnmarkNothing(g, p) == g

(* EchoGuard::mark_remote_write, unmark_remote_write and mark_remote_delete. *)
MarkRemoteWrite(g, p, h) ==
  [pending |-> g.pending \cup {p}, last |-> [g.last EXCEPT ![p] = h], gone |-> g.gone \ {p}]
UnmarkRemoteWrite(g, p) ==
  [g EXCEPT !.pending = @ \ {p}, !.last[p] = Unset]
MarkRemoteDelete(g, p) ==
  [g EXCEPT !.last[p] = Unset, !.gone = @ \cup {p}]

(* RemoteDeleteMark: the deletion is news, or repeats one already applied. *)
Fresh(p) == p \notin guard.gone

(* What the gates of handle_entry and bulk_export let through. *)
Accepted(e) == Include(e.path) /\ Size(e.c) <= Cap /\ ~ReadOnly(e.path)

(* bulk_export: what the joiner's file becomes, and the guard with it.  No
   task watches yet. *)
Bulk(e) ==
  LET p == e.path IN
  /\ BootItem("bulk", e)
  /\ UNCHANGED <<doc, blobs, newer>>
  /\ \/ /\ ~Accepted(e) \/ (e.c # Absent /\ e.c \notin blobs)
        /\ UNCHANGED <<disk, guard, timers, said, budget>>
     \/ /\ Accepted(e) /\ e.c = Absent
        /\ guard' = MarkRemoteDelete(guard, p)
        /\ \/ disk' = [disk EXCEPT ![p] = Absent] /\ UNCHANGED budget
           \/ disk[p] # Absent /\ Trouble /\ UNCHANGED disk   \* remove_file failed
        /\ said' = [said EXCEPT ![p] = "over"]
        /\ UNCHANGED timers
     \/ /\ Accepted(e) /\ e.c \in blobs
        /\ \/ /\ guard' = MarkRemoteWrite(guard, p, e.c)
              /\ disk' = [disk EXCEPT ![p] = e.c]
              /\ timers' = [timers EXCEPT ![p] = @ + 1]
              /\ said' = [said EXCEPT ![p] = "over"]
              /\ UNCHANGED budget
           \/ /\ Trouble /\ UNCHANGED <<disk, timers, said>>
              /\ guard' \in {guard, UnmarkRemoteWrite(guard, p)}
  /\ Settle(p, budget' # budget \/ disk' # disk)

-----------------------------------------------------------------------------
(* The watcher task. *)

WatcherStep == UNCHANGED <<config, disk, flight, wanted, timers, boot, live, a, trackers,
                           said, halted>>

(* watcher::run attaches the watch. *)
Attach ==
  /\ boot.pass = "run" /\ w.pc = "off"
  /\ w' = [WatcherOff EXCEPT !.pc = "idle"]
  /\ WatcherStep /\ UNCHANGED <<doc, blobs, guard, rx, newer, adrift, budget>>

(* The call in progress is over. *)
Rest(t) == [t EXCEPT !.pc = "idle", !.path = Unset, !.hash = Unset]

(* on_modified up to the echo check: the gates, then the hash of the file. *)
OnModified(p, t) ==
  \/ /\ halted \/ ~Include(p) \/ ReadOnly(p)
     /\ w' = Rest(t) /\ Settle(p, halted) /\ UNCHANGED budget
  \/ /\ ~halted /\ Include(p) /\ ~ReadOnly(p)
     /\ w' = IF disk[p] = Absent THEN [t EXCEPT !.pc = "removed", !.path = p]
             ELSE [t EXCEPT !.pc = "hashed", !.path = p, !.hash = disk[p]]
     /\ UNCHANGED <<adrift, budget>>
  \/ /\ ~halted /\ Include(p) /\ ~ReadOnly(p) /\ disk[p] # Absent
     /\ Trouble /\ w' = Rest(t) /\ Settle(p, TRUE)

(* watcher::run takes a change off its channel; a directory's event makes it
   walk the files (rescan_dir) before it takes the next. *)
Recv ==
  /\ w.pc = "idle" /\ w.todo = {} /\ rx # <<>>
  /\ WatcherStep /\ UNCHANGED <<doc, blobs, guard, newer>>
  /\ rx' = Tail(rx)
  /\ LET ev == Head(rx) IN
     \/ /\ ev.kind = "modified" /\ OnModified(ev.path, w)
     \/ /\ ev.kind = "removed"
        /\ w' = [w EXCEPT !.pc = "removed", !.path = ev.path] /\ UNCHANGED <<adrift, budget>>
     \/ /\ ev.kind = "dir"
        /\ w' = [w EXCEPT !.todo = {p \in Paths : disk[p] # Absent}]
        /\ UNCHANGED <<adrift, budget>>

Rescan(p) ==
  /\ w.pc = "idle" /\ p \in w.todo
  /\ WatcherStep /\ UNCHANGED <<doc, blobs, guard, rx, newer>>
  /\ OnModified(p, [w EXCEPT !.todo = @ \ {p}])

(* EchoGuard::should_skip_local. *)
ShouldSkipLocal(p, h) == p \in guard.pending \/ guard.last[p] = h

SkipCheck ==
  /\ w.pc = "hashed"
  /\ WatcherStep /\ UNCHANGED <<doc, blobs, guard, rx, newer, budget>>
  /\ LET skip == ShouldSkipLocal(w.path, w.hash) IN
     /\ w' = IF skip THEN Rest(w) ELSE [w EXCEPT !.pc = "import"]
     /\ Settle(w.path, skip /\ guard.last[w.path] # w.hash)

(* publish_file_streaming, then the match on its outcome in on_modified. *)
Import ==
  LET p == w.path IN
  /\ w.pc = "import"
  /\ WatcherStep /\ UNCHANGED <<guard, rx, newer>>
  /\ CASE PublishOutcome(p) = "NotFound" ->
            /\ w' = [w EXCEPT !.pc = "removed"]
            /\ UNCHANGED <<doc, blobs, adrift, budget>>
       [] PublishOutcome(p) \in {"SkippedEmpty", "SkippedTooLarge"} ->
            /\ w' = Rest(w) /\ UNCHANGED <<doc, blobs, adrift, budget>>
       [] PublishOutcome(p) = "Published" ->
            \/ /\ Authored(p, disk[p])
               /\ w' = [w EXCEPT !.pc = "record", !.hash = disk[p]]
               /\ Settle(p, FALSE) /\ UNCHANGED budget
            \/ /\ Trouble /\ w' = Rest(w) /\ UNCHANGED <<doc, blobs>>
               /\ Settle(p, TRUE)

Record ==
  /\ w.pc = "record"
  /\ RecordLocalPublish(w.path, w.hash)
  /\ newer' = newer \ {w.path}
  /\ w' = Rest(w)
  /\ WatcherStep /\ UNCHANGED <<doc, blobs, rx, budget>>
  /\ Settle(w.path, Latest(doc, w.path).c # w.hash)

(* EchoGuard::should_skip_removal and forget. *)
ShouldSkipRemoval(p) == p \in guard.gone
Forget(g, p) == [g EXCEPT !.last[p] = Unset]

(* on_removed up to the tombstone. *)
OnRemoved ==
  LET p == w.path IN
  /\ w.pc = "removed"
  /\ WatcherStep /\ UNCHANGED <<doc, blobs, rx, newer, budget>>
  /\ \/ /\ ShouldSkipRemoval(p)
        /\ w' = Rest(w) /\ UNCHANGED guard /\ Settle(p, TRUE)
     \/ /\ ~ShouldSkipRemoval(p)
        /\ guard' = Forget(guard, p)
        /\ LET stopped == halted \/ ~Include(p) \/ ReadOnly(p) IN
           /\ w' = IF stopped THEN Rest(w) ELSE [w EXCEPT !.pc = "delete"]
           /\ Settle(p, stopped)

Delete ==
  LET p == w.path IN
  /\ w.pc = "delete"
  /\ WatcherStep /\ UNCHANGED <<guard, rx, newer>>
  /\ w' = Rest(w)
  /\ \/ /\ Authored(p, Absent) /\ UNCHANGED budget
     \/ /\ Trouble /\ UNCHANGED <<doc, blobs>>
  /\ Settle(p, TRUE)

-----------------------------------------------------------------------------
(* The download trackers (progress.rs). *)

(* TransferTrackers::supersede: keep is Unset where the code passes None. *)
Supersede(t, p, keep) == [h \in Contents |-> IF h = keep THEN t[h] ELSE t[h] \ {p}]

(* TransferTrackers::track.  full: the trackers of other files have reached
   MAX_CONCURRENT_TRACKERS, and a hash without one gets none. *)
Track(t, p, h, full) ==
  LET s == Supersede(t, p, h)
  IN  IF full /\ s[h] = {} THEN s ELSE [s EXCEPT ![h] = @ \cup {p}]

(* TransferTrackers::finish. *)
Finish(t, h) == IF h = Unset THEN t ELSE [t EXCEPT ![h] = {}]

-----------------------------------------------------------------------------
(* The applier task. *)

ApplierStep == UNCHANGED <<config, doc, blobs, flight, wanted, boot, w, halted>>

\* Mutant: no catch-up over what was synced before the subscription.
SubscribeOnly ==
  /\ boot.pass = "run" /\ a.pc = "off"
  /\ a' = [ApplierOff EXCEPT !.pc = "idle"]
  /\ ApplierStep
  /\ UNCHANGED <<disk, guard, timers, rx, live, trackers, said, newer, adrift, budget>>

(* applier::run subscribes, then catch_up walks the latest entries. *)
Subscribe ==
  /\ boot.pass = "run" /\ a.pc = "off"
  /\ a' = [ApplierOff EXCEPT !.pc = "batch", !.mode = "catchup", !.todo = KnownEntries]
  /\ ApplierStep
  /\ UNCHANGED <<disk, guard, timers, rx, live, trackers, said, newer, adrift, budget>>

(* run takes a live event; handle_content_ready looks for the hash's entries. *)
Event ==
  /\ a.pc = "idle" /\ live # <<>>
  /\ live' = Tail(live)
  /\ LET ev == Head(live)
         everywhere == {[path |-> p, c |-> doc[p][x].c] : p \in Paths, x \in Authors}
     IN  a' = IF ev.kind = "insert"
              THEN [a EXCEPT !.pc = "batch", !.mode = "insert", !.todo = {ev.entry}]
              ELSE [a EXCEPT !.pc = "batch", !.mode = "ready", !.hash = ev.hash,
                             !.todo = IF trackers[ev.hash] = {}
                                      THEN {e \in everywhere : e.c = ev.hash}
                                      ELSE {[path |-> p] : p \in trackers[ev.hash]}]
  /\ ApplierStep
  /\ UNCHANGED <<disk, guard, timers, rx, trackers, said, newer, adrift, budget>>

(* disk_matches compares lengths only. *)
DiskMatches(e) ==
  IF e.c = Absent THEN disk[e.path] = Absent
  ELSE disk[e.path] # Absent /\ Size(disk[e.path]) = Size(e.c)

(* A tracked path is looked up again; any other entry is the one found. *)
Resolve(x) == IF "c" \in DOMAIN x THEN x ELSE LatestEntry(x.path)
PassedOver(e) == CASE a.mode = "catchup" -> DiskMatches(e)
                   [] a.mode = "ready"   -> e.c # a.hash
                   [] OTHER              -> FALSE

(* handle_entry up to its first await that matters: the gates, the tombstone's
   mark, or the blob's status.  Catch-up that takes the length of another file for
   the entry's drops the entry. *)
Handle(x) ==
  LET e == Resolve(x)
      p == e.path
      rest == [a EXCEPT !.todo = @ \ {x}]
  IN
  /\ a.pc = "batch" /\ x \in a.todo
  /\ ApplierStep /\ UNCHANGED <<disk, timers, rx, live, budget>>
  /\ \/ /\ PassedOver(e)
        /\ a' = rest /\ UNCHANGED <<guard, trackers, said, newer>>
        /\ Settle(p, a.mode = "catchup" /\ disk[p] # e.c)
     \/ /\ ~PassedOver(e) /\ ~Accepted(e)
        /\ a' = rest /\ trackers' = Supersede(trackers, p, Unset)
        /\ UNCHANGED <<guard, said, newer, adrift>>
     \/ /\ ~PassedOver(e) /\ Accepted(e) /\ e.c = Absent
        /\ trackers' = Supersede(trackers, p, Unset)
        /\ guard' = MarkRemoteDelete(guard, p)
        /\ a' = IF Fresh(p) THEN [rest EXCEPT !.pc = "tomb", !.entry = e]
                ELSE rest
        /\ newer' = IF Fresh(p) THEN newer \ {p} ELSE newer
        /\ Settle(p, ~Fresh(p)) /\ UNCHANGED said
     \/ /\ ~PassedOver(e) /\ Accepted(e) /\ e.c # Absent /\ e.c \notin blobs
        /\ \E full \in BOOLEAN : trackers' = Track(trackers, p, e.c, full)
        /\ said' = [said EXCEPT ![p] = "open"]
        /\ a' = [rest EXCEPT !.pend = TRUE]
        /\ UNCHANGED <<guard, newer, adrift>>
     \/ /\ ~PassedOver(e) /\ Accepted(e) /\ e.c \in blobs
        /\ a' = [rest EXCEPT !.pc = "export", !.entry = e]
        /\ UNCHANGED <<guard, trackers, said, newer, adrift>>

Batch == [a EXCEPT !.pc = "batch", !.entry = Unset, !.before = Unset, !.moved = FALSE]

(* apply_entry_streaming has exported to its temp file and marks the guard. *)
Mark ==
  LET p == a.entry.path IN
  /\ a.pc = "export"
  /\ ApplierStep /\ UNCHANGED <<disk, timers, rx, live, said>>
  /\ \/ /\ guard' = MarkRemoteWrite(guard, p, a.entry.c)
        /\ a' = [a EXCEPT !.pc = "marked"]
        /\ newer' = newer \ {p}
        /\ UNCHANGED <<trackers, adrift, budget>>
     \/ /\ Trouble /\ a' = Batch
        /\ trackers' = Supersede(trackers, p, Unset)
        /\ UNCHANGED <<guard, newer>> /\ Settle(p, TRUE)

(* The rename, with release_after and supersede; or the mark unwound. *)
Rename ==
  LET p == a.entry.path IN
  /\ a.pc = "marked"
  /\ ApplierStep /\ UNCHANGED <<live, said, newer>>
  /\ \/ /\ disk' = [disk EXCEPT ![p] = a.entry.c]
        /\ rx' = Noticed("modified", p)
        /\ timers' = [timers EXCEPT ![p] = @ + 1]
        /\ trackers' = Supersede(trackers, p, a.entry.c)
        /\ a' = [a EXCEPT !.pc = "finish"]
        /\ UNCHANGED <<guard, budget>>
     \/ /\ Trouble /\ a' = Batch
        /\ guard' = UnmarkRemoteWrite(guard, p)
        /\ trackers' = Supersede(trackers, p, Unset)
        /\ UNCHANGED <<disk, rx, timers>>
  /\ Settle(p, TRUE)

(* finish waits for the tracker's death; then PeerWrote. *)
Applied ==
  /\ a.pc = "finish"
  /\ trackers' = Finish(trackers, a.entry.c)
  /\ said' = [said EXCEPT ![a.entry.path] = "over"]
  /\ a' = Batch
  /\ ApplierStep
  /\ UNCHANGED <<disk, guard, timers, rx, live, newer, adrift, budget>>

(* apply_tombstone takes the identity of what it may remove. *)
Snapshot ==
  /\ a.pc = "tomb"
  /\ a' = [a EXCEPT !.pc = "doomed", !.before = Fingerprint(disk[a.entry.path])]
  /\ ApplierStep
  /\ UNCHANGED <<disk, guard, timers, rx, live, trackers, said, newer, adrift, budget>>

\* Mutant: the unlink does not look at the file again.
UnracedUnseen == TRUE

(* remove_if_unraced looks again: presence, length, inode and second are the same. *)
Unraced == ~a.moved /\ Fingerprint(disk[a.entry.path]) = a.before

Compare ==
  /\ a.pc = "doomed"
  /\ a' = IF Unraced THEN [a EXCEPT !.pc = "unlink", !.before = Unset, !.moved = FALSE] ELSE Batch
  /\ ApplierStep
  /\ UNCHANGED <<disk, guard, timers, rx, live, trackers, said, newer, adrift, budget>>

(* The unlink, whose error nobody looks at; then PeerDeleted. *)
Unlink ==
  LET p == a.entry.path IN
  /\ a.pc = "unlink"
  /\ ApplierStep /\ UNCHANGED <<guard, timers, live, trackers, newer>>
  /\ a' = Batch
  /\ said' = [said EXCEPT ![p] = "over"]
  /\ \/ /\ disk' = [disk EXCEPT ![p] = Absent] /\ UNCHANGED budget
        /\ IF disk[p] = Absent THEN UNCHANGED rx ELSE UnlinkNoticed(p)
     \/ /\ disk[p] # Absent /\ Trouble /\ UNCHANGED <<disk, rx>>
  /\ Settle(p, disk[p] # Absent)

(* The event is done with; handle_content_ready reaps its hash's tracker. *)
EndBatch ==
  /\ a.pc = "batch" /\ a.todo = {}
  /\ trackers' = IF a.pend THEN trackers ELSE Finish(trackers, a.hash)
  /\ a' = [ApplierOff EXCEPT !.pc = "idle"]
  /\ ApplierStep
  /\ UNCHANGED <<disk, guard, timers, rx, live, said, newer, adrift, budget>>

-----------------------------------------------------------------------------
Environment ==
  \/ \E p \in Paths : UserDelete(p) \/ Release(p)
  \/ \E p \in Paths, c \in UserFiles : UserWrite(p, c)
  \/ \E p \in Paths, c \in PeerFiles : PeerWrite(p, c)
  \/ \E e \in flight : Deliver(e)
  \/ \E h \in wanted : Download(h)
  \/ Demote \/ Stop

Constructor ==
  \/ Start \/ BootNext
  \/ \E e \in boot.todo : Reconcile(e) \/ Scan(e) \/ Bulk(e)

Watcher ==
  \/ Attach \/ Recv \/ SkipCheck \/ Import \/ Record \/ OnRemoved \/ Delete
  \/ \E p \in w.todo : Rescan(p)

Applier ==
  \/ Subscribe \/ Event \/ Mark \/ Rename \/ Applied \/ EndBatch
  \/ Snapshot \/ Compare \/ Unlink
  \/ \E x \in a.todo : Handle(x)

Next == Environment \/ Constructor \/ Watcher \/ Applier

Spec == Init /\ [][Next]_vars

-----------------------------------------------------------------------------
(* The types; a hash the guard remembers is the hash of a content. *)
TypeOK ==
  /\ disk \in [Paths -> Files]
  /\ doc \in [Paths -> [Authors -> [ts : Nat, c : Files]]]
  /\ blobs \subseteq Contents /\ wanted \subseteq Contents
  /\ flight \subseteq [path : Paths, ts : Nat, c : Files]
  /\ guard.pending \subseteq Paths /\ guard.gone \subseteq Paths
  /\ guard.last \in [Paths -> Contents \cup {Unset}]
  /\ boot.pass \in {"off", "reconcile", "scan", "bulk", "run"}
  /\ w.pc \in {"off", "idle", "hashed", "import", "record", "removed", "delete"}
  /\ a.pc \in {"off", "idle", "batch", "export", "marked", "finish", "tomb", "doomed", "unlink"}
  /\ trackers \in [Contents -> SUBSET Paths]
  /\ newer \subseteq guard.gone /\ adrift \subseteq Paths

Mirrored(p) == ~Excluded(p) /\ ~ReadOnly(p)

AtRest ==
  /\ boot.pass = "run" /\ w.pc = "idle" /\ w.todo = {} /\ rx = <<>>
  /\ a.pc = "idle" /\ live = <<>> /\ flight = {} /\ wanted = {}

(* When nothing is queued, in flight or being worked on, a mirrored file is what
   the document's latest entry says, whatever the order in which watcher,
   applier, constructor, user and peers took their steps, unless a change of
   it was dropped since the two last agreed: by an I/O error, a demotion, the
   pending window, no watch, catch-up that found a file of the entry's length, or
   a task that worked on a superseded state.
   An empty file and one over the size cap are not mirrored. *)
RestAgrees ==
  AtRest => \A p \in Paths \ adrift :
    \/ ~Mirrored(p) \/ Size(disk[p]) > Cap \/ Size(Latest(doc, p).c) > Cap
    \/ disk[p] # Absent /\ Size(disk[p]) = 0
    \/ disk[p] = Latest(doc, p).c

(* A peer's tombstone unlinks the file whose identity it took, and nothing the
   user wrote later, neither before remove_if_unraced looks again nor when the
   tombstone is delivered a second time.  What is written between that look and
   the unlink goes, and so does a rewrite it cannot tell from the file before: of
   one length, in one inode and one second (apply_tombstone, applier.rs:489). *)
TombstoneSparesNewer ==
  [][\A p \in Paths :
       a.pc = "unlink" /\ a'.pc = "batch" /\ disk'[p] # disk[p] => p \notin newer]_vars

(* A file the node excludes or holds read-only is changed by the user alone, and
   nothing about it is published, deletions included; but reconcile does not ask
   for the mode of the path. *)
UnmirroredUntouched ==
  [][\A p \in Paths : ~Mirrored(p) =>
       /\ disk'[p] # disk[p] => budget'.edits > budget.edits
       /\ doc'[p]["me"] # doc[p]["me"] => ReadOnly(p) /\ boot.pass = "reconcile"]_vars

(* A path the guard suppresses is about to be released: the applier is between
   mark and rename, or a release_after timer runs.  A path left pending would
   never be published again. *)
PendingIsReleased ==
  \A p \in guard.pending : timers[p] > 0 \/ (a.pc = "marked" /\ a.entry.path = p)

(* Nothing about a download can follow the PeerWrote or PeerDeleted that ends it:
   no tracker holds the path then. *)
NoTrailingProgress == \A h \in Contents : \A p \in trackers[h] : said[p] = "open"

(* What an apply leaves behind when it ends, however it ends: no pending   *)
(* mark that keeps the watcher from a path for good, and no tracker that   *)
(* reports progress after the download's end.                              *)
ApplierSettles ==
  /\ TypeOK
  /\ PendingIsReleased
  /\ NoTrailingProgress

(* What the applier and the constructor passes may never do to the user's  *)
(* files: unlink a version newer than the tombstone, or touch a path that  *)
(* is not mirrored.                                                        *)
LocalFilesAreSpared ==
  /\ TombstoneSparesNewer
  /\ UnmirroredUntouched
====
