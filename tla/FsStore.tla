------------------------------- MODULE FsStore -------------------------------
(***************************************************************************)
(* FsLogStore under the host's registry, for one session id: every store   *)
(* call is a sequence of file writes, each atomic (a frame and its fsync,  *)
(* or tmp file, fsync, rename), with an I/O error before or after any of   *)
(* them, a crash between any two, and files that go one by one when a      *)
(* directory is removed.                                                   *)
(*                                                                         *)
(* The registry changes its memory when the call returns Ok.  Its session  *)
(* lock serialises the calls of one life of the session, all but the       *)
(* attachment calls, which may hold the lock of an earlier life, and the   *)
(* listing, which takes none.  A ledger, an envelope and a payload are     *)
(* numbers; a frame carries the life it was sent in.  Torn frames are the  *)
(* subject of HostLog.                                                     *)
(***************************************************************************)
EXTENDS Naturals, Sequences, FiniteSets

CONSTANTS Host, Peers, Kinds, Nothing, Corrupt,
          MaxLives, MaxSeq, MaxLedgers, MaxPuts, MaxFaults     \* bounds

\* One frame of the log, meta.json, and the session as load_one builds it
Frame  == [seq : Nat, life : Nat]
Meta   == [members : SUBSET Peers, epoch : Nat, head : Nat]
Record == [members : SUBSET Peers, epoch : Nat, head : Nat, log : Seq(Frame),
           tickets : Nat, envelope : Nat]

ASSUME FsStoreAssumption ==
  /\ Host \in Peers /\ Nothing \notin Meta \cup Record /\ Corrupt \notin Nat \cup {Nothing}
  /\ {MaxLives, MaxSeq, MaxLedgers, MaxPuts, MaxFaults} \subseteq Nat

VARIABLES disk,       \* the session's directory, and its floor beside it
          files, tmps,  \* the attachment files; kinds with an orphaned tmp file
          up, mem,    \* the daemon, and the session in its map
          op,         \* the store call under the session lock
          reg,        \* a RegisterAttachment on its way
          list,       \* a ListAttachments on its way
          life, puts, \* sessions created and attachments registered so far
          epochs,     \* every epoch meta.json has held
          faults, shaky,      \* errors so far; a write has failed
          broken,     \* a directory was left half-deleted, or is unreadable
          crossed     \* a registration used the lock of an earlier life

dirVars  == <<disk, files, tmps>>
pastVars == <<epochs, faults, shaky, broken, crossed>>
vars     == <<dirVars, up, mem, op, reg, list, life, puts, pastVars>>

NoFiles == [k \in Kinds |-> 0]
NoDir   == [dir |-> FALSE, meta |-> Nothing, log |-> <<>>, tickets |-> 0,
            envelope |-> 0, floor |-> 0]
Idle    == [name |-> "idle", steps |-> <<>>, after |-> Nothing, was |-> Nothing]
NoCall  == [pc |-> "none", kind |-> CHOOSE k \in Kinds : TRUE, val |-> 0, life |-> 0]
NoList  == [on |-> FALSE, todo |-> {}, out |-> {}]

Init ==
  /\ disk = NoDir /\ files = NoFiles /\ tmps = {} /\ up = TRUE /\ mem = Nothing
  /\ op = Idle /\ reg = NoCall /\ list = NoList /\ life = 0 /\ puts = 0
  /\ epochs = {} /\ faults = 0 /\ shaky = FALSE /\ broken = FALSE /\ crossed = FALSE
-----------------------------------------------------------------------------
(* Reading the directory                                                   *)

Larger(a, b) == IF a >= b THEN a ELSE b

LogTail(l) ==
  CHOOSE m \in {0} \cup {l[i].seq : i \in DOMAIN l} : \A i \in DOMAIN l : l[i].seq <= m

\* read_tickets: an absent ledger is the empty one, and so is one put in quarantine
Ledger(t) == IF t = Corrupt THEN 0 ELSE t

\* read_meta and read_workspace_ticket: what makes load_all skip a session
Skipped == disk.meta = Nothing \/ disk.envelope = Corrupt

\* load_one
Loaded ==
  IF Skipped THEN Nothing
  ELSE [members |-> disk.meta.members, epoch |-> disk.meta.epoch,
        head |-> Larger(disk.meta.head, LogTail(disk.log)), log |-> disk.log,
        tickets |-> Ledger(disk.tickets), envelope |-> disk.envelope]
-----------------------------------------------------------------------------
(* The file writes                                                         *)

Step(f, v) == [file |-> f, val |-> v]

\* ensure_dir
MadeDir(d) == [d EXCEPT !.dir = TRUE]

\* read_and_raise_epoch_floor
FloorRaised(d, n) == [d EXCEPT !.floor = Larger(@, n)]

\* The directory after one step of a call: ensure_dir, the floor, opening the log,
\* append_log, and the rewrites of meta.json, tickets.json, workspace-ticket.bin
Written(d, s) ==
  CASE s.file = "dir"      -> MadeDir(d)
    [] s.file = "floor"    -> FloorRaised(d, s.val)
    [] s.file = "meta"     -> [d EXCEPT !.meta = s.val]
    [] s.file = "tickets"  -> [d EXCEPT !.tickets = s.val]
    [] s.file = "envelope" -> [d EXCEPT !.envelope = s.val]
    [] s.file = "frame"    -> [d EXCEPT !.log = Append(@, s.val)]
    [] s.file = "head"     -> [d EXCEPT !.meta.head = Larger(@, s.val)]
    [] s.file = "epoch"    -> [d EXCEPT !.meta.epoch = s.val]
    [] s.file = "member"   -> [d EXCEPT !.meta.members = @ \cup {s.val}]
    [] s.file = "parted"   -> [d EXCEPT !.meta.members = @ \ {s.val}]

\* A rewrite of meta.json reads it first; the sidecars want the directory
CanWrite(s) ==
  /\ s.file \in {"head", "epoch", "member", "parted"} => disk.meta # Nothing
  /\ s.file \in {"tickets", "envelope", "frame"} => disk.dir

\* Mutant: meta.json before the floor.
CreateMetaFirst(r) ==
  <<Step("dir", 0), Step("meta", [members |-> r.members, epoch |-> r.epoch, head |-> 0]),
    Step("floor", r.epoch + 1), Step("tickets", r.tickets)>>

\* create: the log file is opened and kept as it is, no envelope is written
CreateSteps(r) ==
  <<Step("dir", 0), Step("floor", r.epoch + 1),
    Step("meta", [members |-> r.members, epoch |-> r.epoch, head |-> 0]),
    Step("tickets", r.tickets)>>

\* put_tickets and bump_host_epoch, which without a meta.json does nothing
ResumeSteps(t, n) ==
  IF disk.meta = Nothing
  THEN <<Step("tickets", t)>>
  ELSE <<Step("tickets", t), Step("floor", n + 1), Step("epoch", n)>>
-----------------------------------------------------------------------------
(* The registry's calls                                                    *)

\* The lock of the present life is free
Unlocked == op = Idle /\ ~(reg.pc \in {"checked", "written"} /\ reg.life = life)

Call(name, steps, after) ==
  /\ up /\ Unlocked
  /\ op' = [name |-> name, steps |-> steps, after |-> after,
            was |-> IF name = "delete" THEN <<Loaded, files>> ELSE Nothing]
  /\ UNCHANGED <<dirVars, up, mem, reg, list, puts, pastVars>>

\* Registry::host reads the floor before it mints the first ticket
FirstEpoch == disk.floor

\* Registry::host of a session the map does not hold
HostFresh ==
  /\ mem = Nothing /\ life < MaxLives /\ life' = life + 1
  /\ LET r == [members |-> {Host}, epoch |-> FirstEpoch, head |-> 0, log |-> <<>>,
               tickets |-> 1, envelope |-> 0]
     IN Call("create", CreateSteps(r), r)

Known == mem # Nothing /\ UNCHANGED life

\* Registry::host of one it holds: the ledger, then the epoch
HostResume ==
  /\ Known /\ mem.tickets < MaxLedgers
  /\ Call("resume", ResumeSteps(mem.tickets + 1, mem.epoch + 1),
          [mem EXCEPT !.tickets = @ + 1, !.epoch = @ + 1])

\* mint, revoke and used_by rewrite the whole ledger
PutTickets ==
  /\ Known /\ mem.tickets < MaxLedgers
  /\ Call("tickets", <<Step("tickets", mem.tickets + 1)>>, [mem EXCEPT !.tickets = @ + 1])

PutWorkspaceTicket ==
  /\ Known /\ mem.envelope < MaxPuts
  /\ Call("envelope", <<Step("envelope", mem.envelope + 1)>>,
          [mem EXCEPT !.envelope = @ + 1])

\* Registry::send
Send ==
  /\ Known /\ mem.head < MaxSeq /\ Len(disk.log) <= MaxSeq
  /\ LET f == [seq |-> mem.head + 1, life |-> life] IN
     Call("append", <<Step("frame", f), Step("head", f.seq)>>,
          [mem EXCEPT !.head = @ + 1, !.log = Append(@, f)])

AddMember(p) ==
  /\ Known /\ p \notin mem.members
  /\ Call("add", <<Step("member", p)>>, [mem EXCEPT !.members = @ \cup {p}])

RemoveMember(p) ==
  /\ Known /\ p \in mem.members \ {Host}
  /\ Call("remove", <<Step("parted", p)>>, [mem EXCEPT !.members = @ \ {p}])

\* The host leaves
Leave == Known /\ Call("delete", <<>>, Nothing)

\* One write of the call is made
Write ==
  /\ op.steps # <<>> /\ CanWrite(Head(op.steps))
  /\ disk' = Written(disk, Head(op.steps))
  /\ epochs' = IF disk'.meta = Nothing THEN epochs ELSE epochs \cup {disk'.meta.epoch}
  /\ op' = [op EXCEPT !.steps = Tail(@)]
  /\ UNCHANGED <<files, tmps, up, mem, reg, list, life, puts, faults, shaky, broken,
                 crossed>>

\* The call returns Ok and memory follows
Return ==
  /\ op # Idle /\ op.steps = <<>> /\ (op.name = "delete" => ~disk.dir)
  /\ mem' = op.after /\ op' = Idle
  /\ UNCHANGED <<dirVars, up, reg, list, life, puts, pastVars>>

\* A write fails, with nothing done or after its rename: the call returns the error and
\* memory stays.  A host that was refused is in no map.
Fail(done) ==
  /\ op.steps # <<>> /\ op' = Idle /\ shaky' = TRUE
  /\ IF CanWrite(Head(op.steps)) THEN faults < MaxFaults /\ faults' = faults + 1
     ELSE ~done /\ UNCHANGED faults
  /\ disk' = IF done THEN Written(disk, Head(op.steps)) ELSE disk
  /\ epochs' = IF disk'.meta = Nothing THEN epochs ELSE epochs \cup {disk'.meta.epoch}
  /\ UNCHANGED <<files, tmps, up, mem, reg, list, life, puts, broken, crossed>>

\* remove_dir_all takes the entries in any order
Unlink(f) ==
  /\ op.name = "delete" /\ disk.dir
  /\ \/ f = "meta" /\ disk.meta # Nothing /\ disk' = [disk EXCEPT !.meta = Nothing]
     \/ f = "log" /\ disk.log # <<>> /\ disk' = [disk EXCEPT !.log = <<>>]
     \/ f = "tickets" /\ disk.tickets # 0 /\ disk' = [disk EXCEPT !.tickets = 0]
     \/ f = "envelope" /\ disk.envelope # 0 /\ disk' = [disk EXCEPT !.envelope = 0]
  /\ UNCHANGED <<files, tmps>>

UnlinkAttachment(k) ==
  /\ op.name = "delete" /\ disk.dir /\ (files[k] # 0 \/ k \in tmps)
  /\ files' = [files EXCEPT ![k] = 0] /\ tmps' = tmps \ {k} /\ UNCHANGED disk

\* Mutant: the log stays behind.
RemoveAllButLog ==
  /\ op.name = "delete" /\ disk.dir /\ disk.meta = Nothing /\ files = NoFiles /\ tmps = {}
  /\ disk' = [NoDir EXCEPT !.floor = disk.floor, !.log = disk.log]
  /\ UNCHANGED <<files, tmps>>

\* Last the directory itself; the floor is in another
RemoveDir ==
  /\ op.name = "delete" /\ disk.dir /\ files = NoFiles /\ tmps = {}
  /\ [disk EXCEPT !.dir = FALSE, !.floor = 0] = [NoDir EXCEPT !.floor = 0]
  /\ disk' = [NoDir EXCEPT !.floor = disk.floor] /\ UNCHANGED <<files, tmps>>

DeleteStep ==
  /\ \/ \E f \in {"meta", "log", "tickets", "envelope"} : Unlink(f)
     \/ \E k \in Kinds : UnlinkAttachment(k)
     \/ RemoveDir
  /\ UNCHANGED <<up, mem, op, reg, list, life, puts, pastVars>>

\* What was there when the delete began is no longer all there
Begun == op.name = "delete" /\ op.was # <<Loaded, files>>

DeleteFails ==
  /\ op.name = "delete" /\ faults < MaxFaults /\ faults' = faults + 1
  /\ broken' = (broken \/ Begun) /\ op' = Idle
  /\ UNCHANGED <<dirVars, up, mem, reg, list, life, puts, epochs, shaky, crossed>>
-----------------------------------------------------------------------------
(* Attachments                                                             *)

\* register_attachment finds the session before it waits for its lock
Register(k) ==
  /\ up /\ mem # Nothing /\ reg.pc = "none" /\ puts < MaxPuts
  /\ puts' = puts + 1
  /\ reg' = [pc |-> "found", kind |-> k, val |-> puts + 1, life |-> life]
  /\ UNCHANGED <<dirVars, up, mem, op, list, life, pastVars>>

\* Mutant: the attachment's directory is made, whatever there is above it.
NoDirCheck == TRUE

DirCheck == disk.dir

\* put_attachment, with the lock of the session that was found
RegisterCheck ==
  /\ up /\ reg.pc = "found" /\ (reg.life = life => op = Idle)
  /\ reg' = IF DirCheck THEN [reg EXCEPT !.pc = "checked"] ELSE NoCall
  /\ crossed' = (crossed \/ (reg.life # life /\ disk.dir))
  /\ UNCHANGED <<dirVars, up, mem, op, list, life, puts, epochs, faults, shaky, broken>>

\* The payload goes to a file of another name
TmpFile == UNCHANGED files

\* The attachments' directory is made, and the one above it when it has gone
RegisterWrite ==
  /\ reg.pc = "checked" /\ reg' = [reg EXCEPT !.pc = "written"]
  /\ disk' = MadeDir(disk) /\ tmps' = tmps \cup {reg.kind} /\ TmpFile
  /\ UNCHANGED <<up, mem, op, list, life, puts, pastVars>>

RegisterRename ==
  /\ reg.pc = "written" /\ reg.kind \in tmps /\ reg' = NoCall
  /\ files' = [files EXCEPT ![reg.kind] = reg.val] /\ tmps' = tmps \ {reg.kind}
  /\ UNCHANGED <<disk, up, mem, op, list, life, puts, pastVars>>

\* write_attachment removes its own tmp file on an error
RegisterFails ==
  /\ reg.pc = "written"
  /\ IF reg.kind \in tmps THEN faults < MaxFaults /\ faults' = faults + 1
     ELSE UNCHANGED faults
  /\ reg' = NoCall /\ tmps' = tmps \ {reg.kind}
  /\ UNCHANGED <<disk, files, up, mem, op, list, life, puts, epochs, shaky, broken,
                 crossed>>

\* delete_attachment
Unregistered(k) == [files EXCEPT ![k] = 0]

\* forget_attachment, with the lock when there is a session
Forget(k) ==
  /\ up /\ files[k] # 0 /\ (mem # Nothing => Unlocked)
  /\ files' = Unregistered(k)
  /\ UNCHANGED <<disk, tmps, up, mem, op, reg, list, life, puts, pastVars>>

\* list_attachments: the directory is read, then each file that is still there
ListStart ==
  /\ up /\ ~list.on /\ list' = [on |-> TRUE, todo |-> {k \in Kinds : files[k] # 0}, out |-> {}]
  /\ UNCHANGED <<dirVars, up, mem, op, reg, life, puts, pastVars>>

ListRead(k) ==
  /\ k \in list.todo
  /\ list' = [list EXCEPT !.todo = @ \ {k},
                          !.out = IF files[k] = 0 THEN @ ELSE @ \cup {<<k, files[k]>>}]
  /\ UNCHANGED <<dirVars, up, mem, op, reg, life, puts, pastVars>>

ListEnd ==
  /\ list.on /\ list.todo = {} /\ list' = NoList
  /\ UNCHANGED <<dirVars, up, mem, op, reg, life, puts, pastVars>>
-----------------------------------------------------------------------------
(* Crash and restart                                                       *)

Crash ==
  /\ up /\ faults < MaxFaults /\ faults' = faults + 1
  /\ up' = FALSE /\ mem' = Nothing /\ op' = Idle /\ reg' = NoCall /\ list' = NoList
  /\ broken' = (broken \/ Begun)
  /\ UNCHANGED <<dirVars, life, puts, epochs, shaky, crossed>>

\* At-rest damage of the ledger
CorruptTickets ==
  /\ ~up /\ disk.tickets \notin {0, Corrupt} /\ disk' = [disk EXCEPT !.tickets = Corrupt]
  /\ UNCHANGED <<files, tmps, up, mem, op, reg, list, life, puts, pastVars>>

\* At-rest damage of the envelope: load_one refuses the whole session
CorruptEnvelope ==
  /\ ~up /\ disk.envelope \notin {0, Corrupt}
  /\ disk' = [disk EXCEPT !.envelope = Corrupt] /\ broken' = TRUE
  /\ UNCHANGED <<files, tmps, up, mem, op, reg, list, life, puts, epochs, faults, shaky,
                 crossed>>

\* sweep_tmp_files
Swept == tmps' = {}

\* FsLogStore::open, load_all and Registry::load: an unreadable ledger is renamed
Open ==
  /\ ~up /\ up' = TRUE /\ Swept /\ mem' = Loaded
  /\ disk' = IF Skipped THEN disk ELSE [disk EXCEPT !.tickets = Ledger(@)]
  /\ UNCHANGED <<files, op, reg, list, life, puts, pastVars>>
-----------------------------------------------------------------------------
Next ==
  \/ HostFresh \/ HostResume \/ PutTickets \/ PutWorkspaceTicket \/ Send \/ Leave
  \/ \E p \in Peers : AddMember(p) \/ RemoveMember(p)
  \/ Write \/ Return \/ \E done \in BOOLEAN : Fail(done)
  \/ DeleteStep \/ DeleteFails
  \/ RegisterCheck \/ RegisterWrite \/ RegisterRename \/ RegisterFails
  \/ \E k \in Kinds : Register(k) \/ Forget(k) \/ ListRead(k)
  \/ ListStart \/ ListEnd
  \/ Crash \/ CorruptTickets \/ CorruptEnvelope \/ Open

Spec == Init /\ [][Next]_vars
-----------------------------------------------------------------------------
\* Files and memory have their types; only a running daemon has a session, a call, a
\* registration or a listing.
TypeOK ==
  /\ disk.dir \in BOOLEAN /\ disk.floor \in Nat
  /\ disk.meta = Nothing \/ disk.meta \in Meta
  /\ {disk.tickets, disk.envelope} \subseteq Nat \cup {Corrupt}
  /\ disk.log \in Seq(Frame)
  /\ files \in [Kinds -> Nat] /\ tmps \subseteq Kinds
  /\ mem = Nothing \/ mem \in Record
  /\ ~up => mem = Nothing /\ op = Idle /\ reg = NoCall /\ list = NoList

\* SessionStore::epoch_floor: every epoch ever persisted for the id stays below the
\* floor, across deletes, errors and crashes, so that a new session of the id starts
\* above all of them, even of those it cannot read.
FloorAboveEpochs == \A e \in epochs : e < disk.floor

\* Store before memory: with no call in progress, a restart would load exactly what the
\* daemon has in memory, unless a write has reported an error.
MemoryIsOnDisk ==
  up /\ op = Idle /\ mem # Nothing /\ ~shaky /\ ~broken => mem = Loaded

\* Registry::host and the other rewrites leave memory alone on an error, so that the
\* disk is never behind it: no ledger, envelope, epoch or head that was acknowledged
\* falls back at a restart, whichever write failed.
DiskNotBehind ==
  up /\ op = Idle /\ mem # Nothing /\ ~broken =>
    /\ Loaded # Nothing
    /\ mem.tickets <= Loaded.tickets /\ mem.envelope <= Loaded.envelope
    /\ mem.epoch <= Loaded.epoch /\ mem.head <= Loaded.head

\* SessionStore::delete, "Cascade invariant": no attachment is left of a session that
\* is gone, with a registration racing the delete.  Excepted are a directory that a
\* delete left half-way or that could not be read, and a registration that waits on the lock of an earlier life.
CascadeHolds ==
  up /\ op = Idle /\ mem = Nothing /\ ~broken /\ ~crossed =>
    files = NoFiles /\ tmps = {}

\* write_attachment and sweep_tmp_files: once the store is open, the only tmp file is
\* that of a registration in progress.
NoOrphanTmp == up => tmps \subseteq IF reg.pc = "written" THEN {reg.kind} ELSE {}

\* list_attachments takes no lock and returns no torn payload: what it lists was
\* registered.
ListedWasRegistered == \A x \in list.out : x[2] \in 1 .. puts

\* What the directory holds, as the trait's reference implementation sees it.  A delete
\* takes effect when it returns.
Abs == INSTANCE SessionStore WITH
         rec   <- IF op.name = "delete" THEN op.was[1] ELSE Loaded,
         atts  <- IF op.name = "delete" THEN op.was[2] ELSE files,
         floor <- disk.floor

\* FsLogStore implements the trait's reference implementation, and a session that is
\* hosted again starts without anything of the one before it, with I/O errors and
\* crashes at every write, until a delete stops half-way, a registration crosses into a
\* later life or a sidecar rots on disk.
ImplementsSessionStore ==
  Abs!AbsInit /\ [][~(broken' \/ crossed' \/ disk'.tickets = Corrupt) =>
                     [Abs!AbsNext]_(Abs!absVars)]_vars

(* Store before memory, with an error or a crash at any write: the floor   *)
(* is above every epoch that was used, the files are what the registry     *)
(* holds in memory, and after an error never older than it.                *)
StoreLeadsMemory ==
  /\ TypeOK
  /\ FloorAboveEpochs
  /\ MemoryIsOnDisk
  /\ DiskNotBehind

(* The attachment files: none outlives its session, no tmp file outlives   *)
(* its writer, and list_attachments shows complete files only.             *)
AttachmentsAreOwned ==
  /\ CascadeHolds
  /\ NoOrphanTmp
  /\ ListedWasRegistered
=============================================================================
