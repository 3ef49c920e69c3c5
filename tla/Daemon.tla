------------------------------- MODULE Daemon -------------------------------
(***************************************************************************)
(* The daemon process and everything that decides whether one is running:  *)
(* the PID file with its lock, the IPC socket file, the persisted endpoint *)
(* key and peer-address cache, Daemon::start and Daemon::run, the client's *)
(* connect_or_spawn, and `artel stop`.                                     *)
(*                                                                         *)
(* A process is a PID.  A PID without a daemon may be recycled by the      *)
(* operating system for an unrelated process, a stranger.  Files are       *)
(* inodes: unlinking a path leaves the inode to whoever has it open, and   *)
(* the lock of the PID file belongs to the inode, as flock's does.  Every  *)
(* system call of the start and stop sequences is a step of its own, since *)
(* another process may run between any two of them.  A daemon's sessions   *)
(* and connections are the subject of other modules; here a daemon serves, *)
(* which is when it answers a client's Hello.                              *)
(*                                                                         *)
(* Faults: a process is killed at any step (the kernel frees its lock and  *)
(* its listening socket, both files stay), a start step fails, the machine *)
(* loses power (a rename whose directory was not synced is undone).        *)
(***************************************************************************)
EXTENDS Integers, FiniteSets

CONSTANTS
  Pids,         \* process ids
  Clients,      \* callers of connect_or_spawn, one call each
  Peers,        \* peers whose address the endpoint may learn
  Keys,         \* secret keys the random generator may draw
  Nobody,       \* no process, no key
  Dirs,         \* what the state directory may be: "private", "shared", "missing"
  MaxEntries,   \* peer_addr_cache.rs MAX_ENTRIES
  Budgets       \* bounds: callers that call, peers met, processes started, and
                \* signals, crashes, failed steps, recycled PIDs, stop commands

ASSUME DaemonAssumption ==
  /\ Pids \subseteq Nat \ {0} /\ Nobody \notin Pids \cup Keys
  /\ Dirs \subseteq {"private", "shared", "missing"}
  /\ MaxEntries \in Nat \ {0}
  /\ Budgets \subseteq [callers : SUBSET Clients, launches : Nat, trouble : Nat,
                     peers : SUBSET Peers]

VARIABLES
  proc,    \* per PID: what the process is doing and what it holds
  file,    \* the PID file: linked inode (0: none), and per inode body and lock
  sock,    \* inode linked at the socket path, 0 when there is none
  key,     \* the key file, and whether its directory entry is durable
  cache,   \* peers in peer_addrs.postcard
  client,  \* per caller: where its connect_or_spawn is
  stop,    \* the `artel stop` command
  dir,     \* what the state directory is
  ghost    \* what has happened, for the properties

vars == <<proc, file, sock, key, cache, client, stop, dir, ghost>>

(* Holds the lock while `artel stop` probes it. *)
Cli == 0
Inodes == 1..(Cardinality(Pids) + 2)
Acquiring == {"open", "lock", "check", "write"}
Starting == {"stale", "bind", "key", "sync", "boot"}
Stopping == {"snap", "release", "unlock", "dropchk", "dropul"}
(* The PidFile guard exists. *)
Owning == Starting \cup {"serve"} \cup Stopping

Idle == [pc |-> "off", fd |-> 0, sock |-> 0, failed |-> FALSE,
         key |-> Nobody, made |-> FALSE, tracked |-> {}, known |-> {},
         kept |-> TRUE, saw |-> FALSE]

Init ==
  /\ proc = [p \in Pids |-> Idle]
  /\ file = [path |-> 0, body |-> [i \in Inodes |-> Nobody],
             lock |-> [i \in Inodes |-> Nobody]]
  /\ sock = 0
  /\ key = [held |-> Nobody, durable |-> FALSE]
  /\ cache = {}
  /\ stop = [pc |-> "idle", pid |-> Nobody, on |-> 0]
  /\ dir \in Dirs
  /\ \E b \in Budgets :
       /\ client = [c \in b.callers |-> [pc |-> "idle", to |-> Nobody]]
       /\ ghost = [peers |-> b.peers, trouble |-> b.trouble, launches |-> b.launches, quiet |-> TRUE,
                   used |-> {}, orphaned |-> FALSE, swept |-> FALSE, unsynced |-> FALSE]

Alive(p) == proc[p].pc # "off"
OpenBy(p, i) == proc[p].fd = i
InUse(i) == i = file.path \/ (\E p \in Pids : OpenBy(p, i)) \/ stop.on = i
FreshInode == CHOOSE i \in Inodes : ~InUse(i)
FreshSocket == CHOOSE i \in Inodes : i # sock /\ \A p \in Pids : proc[p].sock # i

(* The process whose listening socket is inode s, if any still listens. *)
Listeners(s) == {p \in Pids : s # 0 /\ proc[p].sock = s}

Trouble == ghost.trouble > 0
Troubled(g) == [g EXCEPT !.trouble = @ - 1, !.quiet = FALSE]

(***************************************************************************)
(* Process exit, by whatever route: descriptors close, so the lock and the *)
(* listening socket go; connections waiting for a Hello see EOF.           *)
(***************************************************************************)
Closed(f, p) ==
  LET i == proc[p].fd IN
    IF i = 0 THEN f
    ELSE [f EXCEPT !.lock[i] = IF @ = p THEN Nobody ELSE @,
                   !.body[i] = IF i # f.path /\ stop.on # i
                                  /\ \A q \in Pids \ {p} : ~OpenBy(q, i)
                               THEN Nobody ELSE @]
Hangup(p) ==
  client' = [c \in DOMAIN client |-> IF client[c].to = p /\ client[c].pc \in {"hello1", "hello2"}
                               THEN [pc |-> "failed", to |-> Nobody] ELSE client[c]]

Exit(p) ==
  /\ proc' = [proc EXCEPT ![p] = Idle]
  /\ file' = Closed(file, p)
  /\ Hangup(p)

Step(p, pc) == proc' = [proc EXCEPT ![p].pc = pc]

(***************************************************************************)
(* PidFile::acquire.  The file is opened without truncating it, locked,    *)
(* then read: a body naming another live process is honoured even though   *)
(* the lock was free.  Only then is it rewritten, in place.                *)
(***************************************************************************)
Named(p) == stop.pid = p \/ \E i \in Inodes : file.body[i] = p

(* The operating system may hand out any PID; those nobody has on record   *)
(* are alike, so the least of them stands for all.                         *)
Launch(p) ==
  /\ proc[p].pc = "off" /\ ghost.launches > 0
  /\ Named(p) \/ \A q \in Pids : q < p => Alive(q) \/ Named(q)

(* A service manager or a user starts the daemon. *)
Start(p) ==
  /\ Launch(p)
  /\ Step(p, "open")
  /\ ghost' = [ghost EXCEPT !.launches = @ - 1]
  /\ UNCHANGED <<file, sock, key, cache, client, stop, dir>>

Open(p) ==
  /\ proc[p].pc = "open"
  /\ \/ /\ dir = "missing"
        /\ Exit(p)
     \/ /\ dir # "missing"
        /\ LET i == IF file.path = 0 THEN FreshInode ELSE file.path IN
             /\ proc' = [proc EXCEPT ![p].pc = "lock", ![p].fd = i]
             /\ file' = [file EXCEPT !.path = i]
        /\ UNCHANGED client
  /\ UNCHANGED <<sock, key, cache, stop, dir, ghost>>

(* Mutant: ownership is the body alone, as in the check-then-write protocol. *)
LockNothing(p) ==
  /\ proc[p].pc = "lock"
  /\ Step(p, "check")
  /\ UNCHANGED <<file, sock, key, cache, client, stop, dir, ghost>>

TryLock(p) ==
  /\ proc[p].pc = "lock"
  /\ \/ /\ file.lock[proc[p].fd] = Nobody
        /\ file' = [file EXCEPT !.lock[proc[p].fd] = p]
        /\ Step(p, "check")
        /\ UNCHANGED client
     \/ /\ file.lock[proc[p].fd] # Nobody            \* AlreadyRunning
        /\ Exit(p)
  /\ UNCHANGED <<sock, key, cache, stop, dir, ghost>>

CheckOwner(p) ==
  /\ proc[p].pc = "check"
  /\ LET existing == file.body[proc[p].fd] IN
       \/ /\ existing \in Pids \ {p} /\ Alive(existing)
          /\ Exit(p)                                 \* AlreadyRunning
       \/ /\ existing \in Pids \ {p} => ~Alive(existing)
          /\ file' = [file EXCEPT !.body[proc[p].fd] = Nobody]     \* set_len(0)
          /\ Step(p, "write")
          /\ UNCHANGED client
  /\ UNCHANGED <<sock, key, cache, stop, dir, ghost>>

WritePid(p) ==
  /\ proc[p].pc = "write"
  /\ file' = [file EXCEPT !.body[proc[p].fd] = p]
  /\ Step(p, "stale")
  /\ UNCHANGED <<sock, key, cache, client, stop, dir, ghost>>

(***************************************************************************)
(* Daemon::start after the PID file: remove a leftover socket, bind, load  *)
(* or create the key, seed the address lookup from the cache, reach the    *)
(* relay, load the sessions.  An error drops what was built, the listener  *)
(* before the PID file.                                                    *)
(***************************************************************************)
Unwind(p) ==
  proc' = [proc EXCEPT ![p].failed = TRUE,
             ![p].pc = IF proc[p].sock = 0 THEN "release" ELSE "dropchk"]

RemoveStale(p) ==
  /\ proc[p].pc = "stale"
  /\ sock' = 0
  /\ Step(p, "bind")
  /\ UNCHANGED <<file, key, cache, client, stop, dir, ghost>>

(* A directory that is not the user's own and private is refused. *)
EnsureDir == dir = "private"

(* Listener::bind: a file at the path is AddrInUse. *)
Bind(p) ==
  /\ proc[p].pc = "bind"
  /\ IF EnsureDir /\ sock = 0
     THEN /\ sock' = FreshSocket
          /\ proc' = [proc EXCEPT ![p].sock = FreshSocket, ![p].pc = "key"]
     ELSE /\ Unwind(p)
          /\ UNCHANGED sock
  /\ UNCHANGED <<file, key, cache, client, stop, dir, ghost>>

(* load_or_create: an absent key is drawn, written to a synced temporary   *)
(* and renamed into place...                                               *)
LoadOrCreate(p) ==
  /\ proc[p].pc = "key"
  /\ \/ /\ key.held # Nobody
        /\ proc' = [proc EXCEPT ![p].pc = "boot", ![p].key = key.held]
        /\ UNCHANGED key
     \/ /\ key.held = Nobody
        /\ \E k \in Keys \ ghost.used :
             /\ key' = [held |-> k, durable |-> FALSE]
             /\ proc' = [proc EXCEPT ![p].pc = "sync", ![p].key = k, ![p].made = TRUE]
  /\ UNCHANGED <<file, sock, cache, client, stop, dir, ghost>>

(* Mutant: the parent directory is not synced. *)
SyncNothing(p) ==
  /\ proc[p].pc = "sync"
  /\ Step(p, "boot")
  /\ UNCHANGED <<file, sock, key, cache, client, stop, dir, ghost>>

(* ...and the directory synced before the key is used. *)
SyncKey(p) ==
  /\ proc[p].pc = "sync"
  /\ key' = [key EXCEPT !.durable = TRUE]
  /\ Step(p, "boot")
  /\ UNCHANGED <<file, sock, cache, client, stop, dir, ghost>>

(* resolve_iroh_runtime seeds the lookup with, and tracks, every address in *)
(* the cache.                                                              *)
Seeded == cache

(* The rest of start; from here on the key names this daemon to others. *)
Boot(p) ==
  /\ proc[p].pc = "boot"
  /\ proc' = [proc EXCEPT ![p].pc = "serve", ![p].tracked = Seeded]
  /\ ghost' = [ghost EXCEPT !.used = @ \cup {proc[p].key},
                 !.unsynced = @ \/ (~key.durable /\ ~proc[p].made)]
  /\ UNCHANGED <<file, sock, key, cache, client, stop, dir>>

(* A peer whose frames authenticate is tracked, and the endpoint holds its *)
(* current address.                                                        *)
Learn(p, q) ==
  /\ proc[p].pc = "serve" /\ q \notin proc[p].known
  /\ proc' = [proc EXCEPT ![p].tracked = @ \cup {q}, ![p].known = @ \cup {q}]
  /\ UNCHANGED <<file, sock, key, cache, client, stop, dir, ghost>>

(***************************************************************************)
(* Daemon::run after the shutdown signal: connections drain, the addresses *)
(* are saved while the endpoint still has them (the router closes next),   *)
(* the PID file is released, and on return the listener is dropped.        *)
(***************************************************************************)
(* install_signal_handlers runs last in start: until then SIGTERM kills. *)
Terminated(p) ==
  IF proc[p].pc \in {"serve"} \cup Stopping
  THEN /\ proc' = [proc EXCEPT ![p].pc = IF @ = "serve" THEN "snap" ELSE @]
       /\ UNCHANGED <<file, client>>
  ELSE Exit(p)

Terminate(p) ==
  /\ Trouble /\ Alive(p) /\ proc[p].pc # "stranger"
  /\ Terminated(p)
  /\ ghost' = Troubled(ghost)
  /\ UNCHANGED <<sock, key, cache, stop, dir>>

(* PeerAddrCache::save: entries share one second's timestamp, so which are *)
(* cut at the cap is not determined.                                       *)
Saved(entries) ==
  {e \in SUBSET entries :
     Cardinality(e) = IF Cardinality(entries) < MaxEntries THEN Cardinality(entries) ELSE MaxEntries}

(* snapshot_peer_addrs: a tracked peer the endpoint knows nothing of is    *)
(* skipped; a failed write leaves the previous file.                       *)
Snapshot(p) ==
  /\ proc[p].pc = "snap"
  /\ \/ /\ cache' \in Saved(proc[p].tracked \cap proc[p].known)
        /\ Step(p, "release")
        /\ UNCHANGED ghost
     \/ /\ Trouble
        /\ ghost' = Troubled(ghost)
        /\ proc' = [proc EXCEPT ![p].pc = "release", ![p].kept = FALSE]
        /\ UNCHANGED cache
  /\ UNCHANGED <<file, sock, key, client, stop, dir>>

(* do_release removes the file only if it names us.  It goes while the     *)
(* lock is still held: a process that opened it before is left with an     *)
(* inode no path leads to.                                                 *)
Release(p) ==
  /\ proc[p].pc = "release"
  /\ LET ours == file.path # 0 /\ file.body[file.path] = p IN
       /\ file' = IF ours THEN [file EXCEPT !.path = 0] ELSE file
       /\ ghost' = [ghost EXCEPT !.orphaned = @ \/ (ours /\ \E q \in Pids \ {p} : OpenBy(q, file.path))]
  /\ Step(p, "unlock")
  /\ UNCHANGED <<sock, key, cache, client, stop, dir>>

Unlock(p) ==
  /\ proc[p].pc = "unlock"
  /\ IF proc[p].failed THEN Exit(p)
     ELSE /\ file' = Closed(file, p)
          /\ proc' = [proc EXCEPT ![p].pc = "dropchk", ![p].fd = 0]
          /\ UNCHANGED client
  /\ UNCHANGED <<sock, key, cache, stop, dir, ghost>>

(* Drop for Listener: compare the identity of the file at the path, then   *)
(* unlink that path.                                                       *)
IsOurs(p) == sock = proc[p].sock

Dropped(p) ==
  IF proc[p].failed
  THEN /\ proc' = [proc EXCEPT ![p].pc = "release", ![p].sock = 0]
       /\ UNCHANGED <<file, client>>
  ELSE Exit(p)

DropCheck(p) ==
  /\ proc[p].pc = "dropchk"
  /\ IF IsOurs(p)
     THEN /\ proc' = [proc EXCEPT ![p].pc = "dropul", ![p].saw = sock = proc[p].sock]
          /\ UNCHANGED <<file, client>>
     ELSE Dropped(p)
  /\ UNCHANGED <<sock, key, cache, stop, dir, ghost>>

DropUnlink(p) ==
  /\ proc[p].pc = "dropul"
  /\ sock' = 0
  /\ ghost' = [ghost EXCEPT !.swept = @ \/ (proc[p].saw /\ sock # proc[p].sock)]
  /\ Dropped(p)
  /\ UNCHANGED <<key, cache, stop, dir>>

(***************************************************************************)
(* Faults.                                                                 *)
(***************************************************************************)
Crash(p) ==
  /\ Trouble /\ Alive(p) /\ proc[p].pc # "stranger"
  /\ Exit(p)
  /\ ghost' = Troubled(ghost)
  /\ UNCHANGED <<sock, key, cache, stop, dir>>

(* An I/O error or an unreachable relay during start. *)
Fail(p) ==
  /\ Trouble
  /\ \/ /\ proc[p].pc \in Acquiring
        /\ Exit(p)
     \/ /\ proc[p].pc \in Starting
        /\ Unwind(p)
        /\ UNCHANGED <<file, client>>
  /\ ghost' = Troubled(ghost)
  /\ UNCHANGED <<sock, key, cache, stop, dir>>

PowerLoss ==
  /\ Trouble
  /\ proc' = [p \in Pids |-> Idle]
  /\ file' = [file EXCEPT !.lock = [i \in Inodes |-> Nobody],
                          !.body = [i \in Inodes |-> IF i = file.path THEN @[i] ELSE Nobody]]
  /\ key' \in IF key.durable THEN {key} ELSE {key, [held |-> Nobody, durable |-> FALSE]}
  /\ client' = [c \in DOMAIN client |-> [pc |-> "failed", to |-> Nobody]]
  /\ stop' = [pc |-> "done", pid |-> Nobody, on |-> 0]
  /\ ghost' = Troubled(ghost)
  /\ UNCHANGED <<sock, cache, dir>>

(* A stranger matters only under a PID someone may look up. *)
Recycle(p) ==
  /\ Trouble /\ proc[p].pc = "off"
  /\ Named(p)
  /\ Step(p, "stranger")
  /\ ghost' = Troubled(ghost)
  /\ UNCHANGED <<file, sock, key, cache, client, stop, dir>>

StrangerExits(p) ==
  /\ proc[p].pc = "stranger"
  /\ Step(p, "off")
  /\ UNCHANGED <<file, sock, key, cache, client, stop, dir, ghost>>

(***************************************************************************)
(* spawn.rs connect_or_spawn: connect; when nobody listens, start a daemon *)
(* unless the PID file names a live process; wait for the socket; connect  *)
(* again.  A connect includes the Hello exchange, which a daemon that has  *)
(* bound its socket but is still starting leaves unanswered for a while.   *)
(***************************************************************************)
NamesLiveProcess ==
  /\ file.path # 0
  /\ file.body[file.path] # Nobody
  /\ Alive(file.body[file.path])

Move(c, pc) == client' = [client EXCEPT ![c].pc = pc]
Dial(c, pc) == \E p \in Listeners(sock) : client' = [client EXCEPT ![c] = [pc |-> pc, to |-> p]]

Connect(c) ==
  /\ client[c].pc = "idle"
  /\ IF Listeners(sock) # {} THEN Dial(c, "hello1") ELSE Move(c, "pid")
  /\ UNCHANGED <<proc, file, sock, key, cache, stop, dir, ghost>>

SpawnDetached(c) ==
  /\ client[c].pc = "pid"
  /\ \/ /\ NamesLiveProcess
        /\ Move(c, "wait")
        /\ UNCHANGED <<proc, ghost>>
     \/ /\ ~NamesLiveProcess
        /\ \/ \E p \in Pids :
                /\ Launch(p)
                /\ Step(p, "open")
                /\ Move(c, "wait")
                /\ ghost' = [ghost EXCEPT !.launches = @ - 1]
           \/ /\ Move(c, "failed")                   \* SpawnError::Launch
              /\ ghost' = [ghost EXCEPT !.quiet = FALSE]
              /\ UNCHANGED proc
  /\ UNCHANGED <<file, sock, key, cache, stop, dir>>

(* Mutant: the wait has no deadline. *)
WaitForever(c) ==
  /\ client[c].pc = "wait" /\ Listeners(sock) # {}
  /\ Move(c, "again")
  /\ UNCHANGED <<proc, file, sock, key, cache, stop, dir, ghost>>

WaitForSocket(c) ==
  /\ client[c].pc = "wait"
  /\ Move(c, IF Listeners(sock) # {} THEN "again" ELSE "timeout")
  /\ UNCHANGED <<proc, file, sock, key, cache, stop, dir, ghost>>

Reconnect(c) ==
  /\ client[c].pc = "again"
  /\ IF Listeners(sock) # {} THEN Dial(c, "hello2") ELSE Move(c, "failed")
  /\ UNCHANGED <<proc, file, sock, key, cache, stop, dir, ghost>>

Hello(c) ==
  /\ client[c].pc \in {"hello1", "hello2"}
  /\ proc[client[c].to].pc = "serve"
  /\ Move(c, "connected")
  /\ UNCHANGED <<proc, file, sock, key, cache, stop, dir, ghost>>

(***************************************************************************)
(* `artel stop`: read the PID, probe the lock by taking it, signal, wait   *)
(* for both files to go.                                                   *)
(***************************************************************************)
StopRead ==
  /\ stop.pc = "idle" /\ Trouble
  /\ ghost' = Troubled(ghost)
  /\ stop' = IF file.path = 0 \/ file.body[file.path] = Nobody
             THEN [stop EXCEPT !.pc = "done"]
             ELSE [stop EXCEPT !.pc = "probe", !.pid = file.body[file.path]]
  /\ UNCHANGED <<proc, file, sock, key, cache, client, dir>>

StopProbe ==
  /\ stop.pc = "probe"
  /\ \/ /\ file.path = 0
        /\ stop' = [stop EXCEPT !.pc = "done", !.pid = Nobody]
        /\ UNCHANGED file
     \/ /\ file.path # 0 /\ file.lock[file.path] = Nobody
        /\ file' = [file EXCEPT !.lock[file.path] = Cli]
        /\ stop' = [stop EXCEPT !.pc = "unprobe", !.on = file.path]
     \/ /\ file.path # 0 /\ file.lock[file.path] # Nobody
        /\ stop' = [stop EXCEPT !.pc = "kill"]
        /\ UNCHANGED file
  /\ UNCHANGED <<proc, sock, key, cache, client, dir, ghost>>

StopUnprobe ==
  /\ stop.pc = "unprobe"
  /\ file' = [file EXCEPT !.lock[stop.on] = Nobody,
                !.body[stop.on] = IF stop.on = file.path \/ \E p \in Pids : OpenBy(p, stop.on)
                                  THEN @ ELSE Nobody]
  /\ stop' = [pc |-> "done", pid |-> Nobody, on |-> 0]
  /\ UNCHANGED <<proc, sock, key, cache, client, dir, ghost>>

(* SIGTERM, or SIGKILL with --force. *)
StopSignal ==
  /\ stop.pc = "kill"
  /\ \/ /\ ~Alive(stop.pid)
        /\ stop' = [stop EXCEPT !.pc = "done", !.pid = Nobody]
        /\ UNCHANGED <<proc, file, client>>
     \/ /\ Alive(stop.pid)
        /\ stop' = [stop EXCEPT !.pc = "gone", !.pid = Nobody]
        /\ Terminated(stop.pid) \/ Exit(stop.pid)
  /\ UNCHANGED <<sock, key, cache, dir, ghost>>

(* The files are gone, or the deadline has passed. *)
StopWait ==
  /\ stop.pc = "gone"
  /\ stop' = [stop EXCEPT !.pc = "done"]
  /\ UNCHANGED <<proc, file, sock, key, cache, client, dir, ghost>>

(***************************************************************************)
(* Specification.  Every process, caller and command that can take a step  *)
(* eventually does; faults, signals and peers owe nothing.                 *)
(***************************************************************************)
DaemonStep(p) ==
  \/ Open(p) \/ TryLock(p) \/ CheckOwner(p) \/ WritePid(p)
  \/ RemoveStale(p) \/ Bind(p) \/ LoadOrCreate(p) \/ SyncKey(p) \/ Boot(p)
  \/ Snapshot(p) \/ Release(p) \/ Unlock(p)
  \/ DropCheck(p) \/ DropUnlink(p)

ClientStep(c) ==
  \/ Connect(c) \/ SpawnDetached(c) \/ WaitForSocket(c)
  \/ Reconnect(c) \/ Hello(c)

StopStep == StopProbe \/ StopUnprobe \/ StopSignal \/ StopWait

Next ==
  \/ \E p \in Pids :
       \/ DaemonStep(p) \/ Start(p) \/ Terminate(p) \/ Crash(p) \/ Fail(p)
       \/ Recycle(p) \/ StrangerExits(p)
       \/ \E q \in ghost.peers : Learn(p, q)
  \/ \E c \in DOMAIN client : ClientStep(c)
  \/ StopRead \/ StopStep \/ PowerLoss

Spec == Init /\ [][Next]_vars
Fairness ==
  /\ \A p \in Pids : WF_vars(DaemonStep(p))
  /\ \A c \in Clients : WF_vars(c \in DOMAIN client /\ ClientStep(c))
  /\ WF_vars(StopStep)
FairSpec == Spec /\ Fairness

(***************************************************************************)
(* Properties.                                                             *)
(***************************************************************************)

(* Processes are where main.rs and the stop path put them, an inode nobody *)
(* refers to has neither PID nor lock, and a client is bound to a daemon   *)
(* only once it has connected.                                             *)
TypeOK ==
  /\ \A p \in Pids :
       /\ proc[p].pc \in {"off", "stranger", "serve"} \cup Acquiring \cup Starting \cup Stopping
       /\ proc[p].fd \in Inodes \cup {0} /\ proc[p].sock \in Inodes \cup {0}
       /\ proc[p].key \in Keys \cup {Nobody}
       /\ proc[p].known \subseteq proc[p].tracked /\ proc[p].tracked \subseteq Peers
  /\ file.path \in Inodes \cup {0}
  /\ \A i \in Inodes : /\ file.body[i] \in Pids \cup {Nobody}
                       /\ file.lock[i] \in Pids \cup {Cli, Nobody}
                       /\ InUse(i) \/ (file.body[i] = Nobody /\ file.lock[i] = Nobody)
  /\ sock \in Inodes \cup {0} /\ key.held \in Keys \cup {Nobody}
  /\ cache \subseteq Peers /\ Cardinality(cache) <= MaxEntries
  /\ \A c \in DOMAIN client : client[c].to = Nobody \/ client[c].pc \notin {"idle", "pid", "wait"}

(* Those that hold the slot: from the PID written to the file unlinked. *)
Owners == {p \in Pids : proc[p].pc \in Owning \ {"unlock"} /\ proc[p].fd # 0}

(* pidfile.rs "exactly one contender wins": two daemons never own the      *)
(* state directory at once, through any interleaving of starts, crashes,   *)
(* recycled PIDs and stop probes, until a stopping daemon unlinks the PID  *)
(* file while a contender has it open.                                     *)
OneOwner == Cardinality(Owners) <= 1 \/ ghost.orphaned

(* Whoever looks for the owner finds it: the file at the PID path names    *)
(* the daemon that owns the slot for as long as it owns it, whatever       *)
(* losing contenders and probes do to the file meanwhile.                  *)
OwnerIsRecorded ==
  \A p \in Owners :
    \/ file.path = proc[p].fd /\ file.body[file.path] = p
    \/ ghost.orphaned

(* A daemon that serves can be reached: the socket path leads to it.  A    *)
(* predecessor dropping its listener after releasing the PID file spares   *)
(* the successor's socket, except when the swap falls between its identity *)
(* check and its unlink.                                                   *)
Reachable ==
  \A p \in Pids : proc[p].pc = "serve" => sock = proc[p].sock \/ ghost.swept \/ ghost.orphaned

(* A node keeps one identity: every daemon that has ever served did so     *)
(* under the same key, across crashes at any step and power loss, unless   *)
(* one took up a key whose creator died before syncing its directory.      *)
OneIdentity == Cardinality(ghost.used) <= 1 \/ ghost.unsynced \/ ghost.orphaned

(* A graceful stop keeps the addresses: once the PID file is being         *)
(* released the cache holds as many of the peers the endpoint knew as      *)
(* fit, unless the write failed.                                           *)
AddressesAreKept ==
  \A p \in Pids :
    (proc[p].pc = "release" /\ ~proc[p].failed /\ proc[p].kept /\ ~ghost.orphaned) =>
      /\ cache \subseteq proc[p].known
      /\ Cardinality(cache) = MaxEntries \/ cache = proc[p].known

(* spawn.rs "Both clients then connect to the survivor": on a private      *)
(* directory with no signal, crash, failed step or stop command, a call    *)
(* that ends has connected unless it timed out.                            *)
ColdStartConnects ==
  \A c \in DOMAIN client :
    client[c].pc = "failed" => ~ghost.quiet \/ dir # "private"

(* connect_or_spawn returns, whatever becomes of the daemons it talks to. *)
CallsReturn ==
  <>(\A c \in DOMAIN client : client[c].pc \in {"connected", "failed", "timeout"})

(* Of a state directory, however starts, stops and crashes overlap: one    *)
(* daemon owns it, the PID file names that daemon, its socket is the one   *)
(* at the path, and a cold start does not fail in a directory that was     *)
(* left in order.                                                          *)
OwnerServes ==
  /\ TypeOK
  /\ OneOwner
  /\ OwnerIsRecorded
  /\ Reachable
  /\ ColdStartConnects

(* What a daemon leaves to its successor: the identity key, and the        *)
(* addresses of the peers it had when it stopped.                          *)
RestartKeepsState ==
  /\ OneIdentity
  /\ AddressesAreKept
=============================================================================
