---------------------------- MODULE FsStoreProofs ----------------------------
(***************************************************************************)
(* Proofs about FsStore, for any peers, attachment kinds and bounds: the   *)
(* files lead the registry's memory through every error and crash, no      *)
(* attachment outlives its session, and the store implements the reference *)
(* implementation of its trait.  The inductive invariant, and that a store *)
(* call keeps it write by write, are in FsStoreWrites; here the remaining  *)
(* actions keep it, and every write is a step of SessionStore.             *)
(***************************************************************************)
EXTENDS FsStoreWrites
-----------------------------------------------------------------------------
(* A delete, and its failure                                               *)

\* Entries of the directory go, and the directory only after all of them.
Shrunk ==
  /\ disk' \in Dir /\ disk'.floor = disk.floor
  /\ disk'.meta \in {disk.meta, Nothing} /\ disk'.envelope \in {disk.envelope, 0}
  /\ files' \in [Kinds -> Nat] /\ (\A k \in Kinds : files'[k] \in {files[k], 0})
  /\ tmps' \subseteq tmps
  /\ ~disk'.dir => /\ disk'.meta = Nothing /\ disk'.log = <<>> /\ disk'.tickets = 0
                   /\ disk'.envelope = 0 /\ files' = NoFiles /\ tmps' = {}

(* remove_dir_all, one entry at a time.                                    *)
LEMMA UnlinkIs ==
  ASSUME Typed, Nowhere,
         \/ \E f \in {"meta", "log", "tickets", "envelope"} : Unlink(f)
         \/ \E k \in Kinds : UnlinkAttachment(k)
         \/ RemoveDir
  PROVE  Shrunk /\ op.name = "delete"
<1>1. disk \in Dir /\ files \in [Kinds -> Nat] /\ tmps \subseteq Kinds
  BY DEF Typed
<1>2. <<>> \in Log
  BY TailOfEmpty
<1>3. ASSUME NEW f \in {"meta", "log", "tickets", "envelope"}, Unlink(f)
      PROVE  Shrunk /\ op.name = "delete"
  <2>1. op.name = "delete" /\ disk.dir /\ UNCHANGED <<files, tmps>>
    BY <1>3 DEF Unlink
  <2>2. \/ disk' = [disk EXCEPT !.meta = Nothing]
        \/ disk' = [disk EXCEPT !.log = <<>>]
        \/ disk' = [disk EXCEPT !.tickets = 0]
        \/ disk' = [disk EXCEPT !.envelope = 0]
    BY <1>3 DEF Unlink
  <2>3. /\ disk' \in Dir /\ disk'.floor = disk.floor /\ disk'.dir = disk.dir
        /\ disk'.meta \in {disk.meta, Nothing} /\ disk'.envelope \in {disk.envelope, 0}
    <3>1. CASE disk' = [disk EXCEPT !.meta = Nothing]
      BY <1>1, <3>1 DEF Dir
    <3>2. CASE disk' = [disk EXCEPT !.log = <<>>]
      <4>1. PICK l \in Log : disk' = [disk EXCEPT !.log = l]
        BY <1>2, <3>2, Zenon
      <4> QED
        BY <1>1, <4>1, Zenon DEF Dir
    <3>3. CASE disk' = [disk EXCEPT !.tickets = 0]
      BY <1>1, <3>3 DEF Dir
    <3>4. CASE disk' = [disk EXCEPT !.envelope = 0]
      BY <1>1, <3>4, Zenon DEF Dir
    <3> QED
      BY <2>2, <3>1, <3>2, <3>3, <3>4, Zenon
  <2> QED
    BY <1>1, <2>1, <2>3, Zenon DEF Shrunk
<1>4. ASSUME NEW k \in Kinds, UnlinkAttachment(k) PROVE Shrunk /\ op.name = "delete"
  <2>1. /\ op.name = "delete" /\ disk.dir /\ disk' = disk
        /\ files' = [files EXCEPT ![k] = 0] /\ tmps' = tmps \ {k}
    BY <1>4 DEF UnlinkAttachment
  <2>2. files' \in [Kinds -> Nat] /\ (\A j \in Kinds : files'[j] \in {files[j], 0})
    BY <1>1, <2>1
  <2> QED
    BY <1>1, <2>1, <2>2 DEF Shrunk
<1>5. ASSUME RemoveDir PROVE Shrunk /\ op.name = "delete"
  <2>1. /\ op.name = "delete" /\ files = NoFiles /\ tmps = {} /\ UNCHANGED <<files, tmps>>
        /\ disk' = [NoDir EXCEPT !.floor = disk.floor]
    BY <1>5 DEF RemoveDir
  <2>2. disk' = [dir |-> FALSE, meta |-> Nothing, log |-> <<>>, tickets |-> 0, envelope |-> 0,
                 floor |-> disk.floor]
    BY <2>1, Zenon DEF NoDir
  <2>3. /\ disk' \in Dir /\ disk'.floor = disk.floor /\ disk'.meta = Nothing /\ disk'.log = <<>>
        /\ disk'.tickets = 0 /\ disk'.envelope = 0
    BY <1>1, <1>2, <2>2, DirIs, Zenon DEF Dir
  <2> QED
    BY <1>1, <2>1, <2>3 DEF Shrunk
<1> QED
  BY <1>3, <1>4, <1>5

(* A step of a delete leaves nothing behind that it should not.            *)
LEMMA DeleteKeeps ==
  ASSUME Inv, DeleteStep PROVE Inv'
<1>1. /\ Typed /\ Stage /\ Floors /\ Bare /\ Nowhere /\ Registering /\ Owned
  BY DEF Inv
<1>2. UNCHANGED <<up, mem, op, reg, list, life, puts, epochs, faults, shaky, broken, crossed>>
  BY DEF DeleteStep, pastVars
<1>3. Shrunk /\ op.name = "delete"
  BY <1>1, UnlinkIs DEF DeleteStep
<1>4. Deleting /\ mem # Nothing /\ up /\ op # Idle
  BY <1>1, <1>3, BusyIs, CallNames, Zenon
<1>5. Stage'
  BY <1>2, <1>4 DEF Stage, Deleting, Kept
<1>6. Typed'
  BY <1>1, <1>2, <1>3, <1>4, Zenon DEF Typed, Calls, Shrunk
<1>7. Floors'
  BY <1>1, <1>2, <1>3, Zenon DEF Floors, Shrunk
<1>8. Bare'
  <2>1. 0 # Corrupt
    BY FsStoreAssumption
  <2> QED
    BY <1>1, <1>2, <1>3, <2>1, Zenon DEF Bare, Shrunk
<1>9. Nowhere'
  BY <1>3 DEF Nowhere, Shrunk
<1>10. Registering'
  BY <1>1, <1>2, <1>4 DEF Registering
<1>11. Owned'
  <2>1. \A k \in Kinds : files'[k] \in 0 .. puts
    <3>1. ASSUME NEW k \in Kinds PROVE files[k] \in 0 .. puts /\ files'[k] \in {files[k], 0}
      BY <1>1, <1>3, Zenon DEF Owned, Shrunk
    <3>2. puts \in Nat
      BY <1>1, Zenon DEF Typed
    <3>3. 0 \in 0 .. puts
      BY ONLY <3>2
    <3> QED
      BY <3>1, <3>3, Zenon
  <2> QED
    BY <1>1, <1>2, <1>3, <1>4, <2>1, Zenon DEF Owned, Shrunk
<1> QED
  BY <1>5, <1>6, <1>7, <1>8, <1>9, <1>10, <1>11, Zenon DEF Inv

(* A delete that has touched nothing has left the session readable.        *)
LEMMA NotBegun ==
  ASSUME Typed, Stage, ~Begun, op.name = "delete"
  PROVE  Holds(mem) /\ (~broken => disk.meta # Nothing)
<1>1. Deleting
  BY BusyIs
<1>2. op.was = <<Loaded, files>>
  BY DEF Begun
<1>3. op.was[1] = Loaded
  BY <1>2
<1>4. Kept(Loaded, mem)
  BY <1>1, <1>3 DEF Deleting
<1>5. Holds(mem)
  BY <1>4 DEF Kept, Holds, Covers
<1>6. ~broken => disk.meta # Nothing
  BY <1>5, Zenon DEF Holds, Covers, Loaded, Skipped
<1> QED
  BY <1>5, <1>6

(* A delete that fails leaves the session as it was, or broken.            *)
LEMMA DeleteFailsKeeps ==
  ASSUME Inv, DeleteFails PROVE Inv'
<1>1. /\ Typed /\ Stage /\ Floors /\ Bare /\ Nowhere /\ Registering /\ Owned
      /\ op.name = "delete" /\ op' = Idle /\ broken' = (broken \/ Begun)
  BY DEF Inv, DeleteFails
<1>2. UNCHANGED <<disk, files, tmps, up, mem, reg, list, life, puts, epochs, shaky, crossed>>
  BY DEF DeleteFails, dirVars
<1>3. mem # Nothing /\ up /\ op # Idle
  BY <1>1, BusyIs, CallNames
<1>4. ~broken' => ~broken /\ ~Begun
  BY <1>1, Zenon
<1>5. broken' \in BOOLEAN
  BY <1>1, Zenon
<1>6. ~broken' => Holds(mem) /\ disk.meta # Nothing
  BY <1>1, <1>4, NotBegun
<1>7. Loaded' = Loaded
  BY <1>2, Zenon DEF Loaded, Skipped
<1>8. Stage'
  <2>1. Holds(mem)'
    BY <1>2, <1>4, <1>6, <1>7, Zenon DEF Holds, Covers
  <2> QED
    BY <1>1, <1>2, <1>3, <2>1, Zenon DEF Stage
<1>9. Typed'
  BY <1>1, <1>2, <1>3, <1>5, Zenon DEF Typed, Calls
<1>10. Floors' /\ Nowhere'
  BY <1>1, <1>2, Zenon DEF Floors, Nowhere
<1>11. Bare'
  BY <1>1, <1>2, <1>4, <1>6, Zenon DEF Bare
<1>12. Registering'
  <2>1. ~(~crossed /\ reg.pc \in {"checked", "written"})
    BY <1>1, <1>3 DEF Registering
  <2> QED
    BY <1>1, <1>2, <1>3, <2>1, CallNames, Zenon DEF Registering
<1>13. Owned'
  BY <1>1, <1>2, <1>3, <1>4, <1>6, Zenon DEF Owned
<1> QED
  BY <1>8, <1>9, <1>10, <1>11, <1>12, <1>13, Zenon DEF Inv

(* NoCall, NoList and the first directory have their types.                *)
LEMMA NothingIs ==
  /\ NoCall.pc = "none" /\ NoList.out = {} /\ NoList.on = FALSE /\ NoList.todo = {}
  /\ NoCall \in [pc : {"none", "found", "checked", "written"}, kind : {NoCall.kind}, val : Nat,
                 life : Nat]
  /\ NoList \in [on : BOOLEAN, todo : SUBSET Kinds, out : SUBSET (Kinds \X Nat)]
BY Zenon DEF NoCall, NoList

(* A crash at any point.                                                   *)
LEMMA CrashKeeps ==
  ASSUME Inv, Crash PROVE Inv'
<1>1. /\ Typed /\ Stage /\ Floors /\ Bare /\ Nowhere /\ Registering /\ Owned
      /\ up' = FALSE /\ mem' = Nothing /\ op' = Idle /\ reg' = NoCall /\ list' = NoList
      /\ broken' = (broken \/ Begun)
  BY DEF Inv, Crash
<1>2. UNCHANGED <<disk, files, tmps, life, puts, epochs, shaky, crossed>>
  BY DEF Crash, dirVars
<1>3. ~broken' => ~broken /\ ~Begun
  BY <1>1, Zenon
<1>4. broken' \in BOOLEAN
  BY <1>1, Zenon
<1>5. ~broken' /\ op.name = "delete" => disk.meta # Nothing
  BY <1>1, <1>3, NotBegun, Zenon
<1>6. Stage'
  BY <1>1 DEF Stage
<1>7. Typed'
  BY <1>1, <1>2, <1>4, NothingIs, Zenon DEF Typed, Calls
<1>8. Floors'
  BY <1>1, <1>2, Zenon DEF Floors
<1>9. Nowhere'
  BY <1>1, <1>2 DEF Nowhere
<1>10. Bare'
  BY <1>1, <1>2, <1>3, <1>5, Zenon DEF Bare
<1>11. Registering'
  BY <1>1, NothingIs, CallNames, Zenon DEF Registering
<1>12. Owned'
  BY <1>1, <1>2, <1>3, <1>5, NothingIs, Zenon DEF Owned
<1> QED
  BY <1>6, <1>7, <1>8, <1>9, <1>10, <1>11, <1>12, Zenon DEF Inv
-----------------------------------------------------------------------------
(* Attachments                                                             *)

(* What neither the call nor the directory sees.                           *)
LEMMA AsideKeeps ==
  ASSUME Typed, Stage, Floors, Bare, UNCHANGED <<disk, up, mem, op, life, epochs, shaky, broken>>
  PROVE  Stage' /\ Floors' /\ Bare'
<1>1. Loaded' = Loaded
  BY Zenon DEF Loaded, Skipped
<1>2. Stage'
  BY <1>1, StageSame
<1> QED
  BY <1>2 DEF Floors, Bare

(* register_attachment finds the session.                                  *)
LEMMA RegisterKeeps ==
  ASSUME Inv, NEW k \in Kinds, Register(k) PROVE Inv'
<1>1. /\ Typed /\ Stage /\ Floors /\ Bare /\ Nowhere /\ Registering /\ Owned
      /\ up /\ mem # Nothing /\ reg.pc = "none" /\ puts' = puts + 1
      /\ reg' = [pc |-> "found", kind |-> k, val |-> puts + 1, life |-> life]
  BY DEF Inv, Register
<1>2. UNCHANGED <<disk, files, tmps, up, mem, op, list, life, epochs, faults, shaky, broken, crossed>>
  BY DEF Register, dirVars, pastVars
<1>3. /\ reg'.pc = "found" /\ reg'.kind = k /\ reg'.val = puts + 1 /\ reg'.life = life
      /\ puts \in Nat /\ puts + 1 \in Nat /\ life \in Nat /\ op.name # "create"
  BY <1>1, BusyIs DEF Typed
<1>4. Stage' /\ Floors' /\ Bare' /\ Nowhere'
  BY <1>1, <1>2, AsideKeeps, Zenon DEF Nowhere
<1>5. Typed'
  BY <1>1, <1>2, <1>3, Zenon DEF Typed, Calls
<1>6. Registering'
  BY <1>1, <1>2, <1>3 DEF Registering
<1>7. Owned'
  <2>1. 0 .. puts \subseteq 0 .. puts + 1 /\ 1 .. puts \subseteq 1 .. puts + 1
    BY <1>3
  <2>2. /\ \A j \in Kinds : files[j] \in 0 .. puts + 1
        /\ \A x \in list.out : x[2] \in 1 .. puts + 1
    BY <1>1, <2>1, Zenon DEF Owned
  <2> QED
    BY <1>1, <1>2, <1>3, <2>2, Zenon DEF Owned
<1> QED
  BY <1>4, <1>5, <1>6, <1>7, Zenon DEF Inv

(* put_attachment, under the lock of the session that was found.           *)
LEMMA CheckKeeps ==
  ASSUME Inv, RegisterCheck PROVE Inv'
<1>1. /\ Typed /\ Stage /\ Floors /\ Bare /\ Nowhere /\ Registering /\ Owned
      /\ up /\ reg.pc = "found" /\ (reg.life = life => op = Idle)
      /\ reg' = (IF disk.dir THEN [reg EXCEPT !.pc = "checked"] ELSE NoCall)
      /\ crossed' = (crossed \/ (reg.life # life /\ disk.dir))
  BY DEF Inv, RegisterCheck, DirCheck
<1>2. UNCHANGED <<disk, files, tmps, up, mem, op, list, life, puts, epochs, faults, shaky, broken>>
  BY DEF RegisterCheck, dirVars
<1>3. crossed' \in BOOLEAN /\ (~crossed' => ~crossed /\ (disk.dir => reg.life = life))
  BY <1>1, Zenon
<1>4. \/ /\ disk.dir /\ reg' = [reg EXCEPT !.pc = "checked"] /\ reg'.pc = "checked"
         /\ reg'.kind = reg.kind /\ reg'.val = reg.val /\ reg'.life = reg.life
      \/ reg' = NoCall /\ reg'.pc = "none"
  BY <1>1, NothingIs DEF Typed, Calls
<1>5. Stage' /\ Floors' /\ Bare' /\ Nowhere'
  BY <1>1, <1>2, AsideKeeps, Zenon DEF Nowhere
<1>6. Typed'
  <2>1. reg' \in Calls'
    BY <1>1, <1>4, NothingIs, Zenon DEF Typed, Calls
  <2> QED
    BY <1>1, <1>2, <1>3, <2>1, Zenon DEF Typed
<1>7. Registering'
  <2>1. CASE reg' = NoCall /\ reg'.pc = "none"
    BY <2>1 DEF Registering
  <2>2. CASE /\ disk.dir /\ reg'.pc = "checked"
             /\ reg'.kind = reg.kind /\ reg'.val = reg.val /\ reg'.life = reg.life
    <3>1. ~crossed' => reg.life = life /\ op = Idle /\ mem # Nothing
      BY <1>1, <1>3, <2>2, Zenon DEF Registering
    <3> QED
      BY <1>1, <1>2, <2>2, <3>1, Zenon DEF Registering
  <2> QED
    BY <1>4, <2>1, <2>2, Zenon
<1>8. Owned'
  BY <1>1, <1>2, <1>3, <1>4, Zenon DEF Owned
<1> QED
  BY <1>5, <1>6, <1>7, <1>8, Zenon DEF Inv

(* The payload goes to a tmp file, in a directory that is made if need be. *)
LEMMA TmpKeeps ==
  ASSUME Inv, RegisterWrite PROVE Inv'
<1>1. /\ Typed /\ Stage /\ Floors /\ Bare /\ Nowhere /\ Registering /\ Owned
      /\ reg.pc = "checked" /\ reg' = [reg EXCEPT !.pc = "written"]
      /\ disk' = [disk EXCEPT !.dir = TRUE] /\ tmps' = tmps \cup {reg.kind}
  BY DEF Inv, RegisterWrite, MadeDir
<1>2. UNCHANGED <<files, up, mem, op, list, life, puts, epochs, faults, shaky, broken, crossed>>
  BY DEF RegisterWrite, TmpFile, pastVars
<1>3. /\ reg'.pc = "written" /\ reg'.kind = reg.kind /\ reg'.val = reg.val /\ reg'.life = reg.life
      /\ reg.kind \in Kinds /\ reg' \in Calls'
  BY <1>1 DEF Typed, Calls, Registering
<1>4. /\ disk' \in Dir /\ disk'.dir /\ disk'.meta = disk.meta /\ disk'.log = disk.log
      /\ disk'.tickets = disk.tickets /\ disk'.envelope = disk.envelope /\ disk'.floor = disk.floor
  BY <1>1, Zenon DEF Typed, Dir
<1>5. Loaded' = Loaded
  BY <1>4, Zenon DEF Loaded, Skipped
<1>6. Stage'
  BY <1>1, <1>2, <1>4, <1>5, StageSame, Zenon
<1>7. Floors' /\ Bare' /\ Nowhere'
  BY <1>1, <1>2, <1>4, Zenon DEF Floors, Bare, Nowhere
<1>8. up
  BY <1>1, NothingIs DEF Typed
<1>9. Typed'
  BY <1>1, <1>2, <1>3, <1>4, <1>8, Zenon DEF Typed
<1>10. Registering'
  BY <1>1, <1>2, <1>3, Zenon DEF Registering
<1>11. Owned'
  BY <1>1, <1>2, <1>3, <1>4, <1>8, Zenon DEF Owned
<1> QED
  BY <1>6, <1>7, <1>9, <1>10, <1>11, Zenon DEF Inv

(* The tmp file gets its name: the session it belongs to is in memory and  *)
(* on disk.                                                                *)
LEMMA RenameKeeps ==
  ASSUME Inv, RegisterRename PROVE Inv'
<1>1. /\ Typed /\ Stage /\ Floors /\ Bare /\ Nowhere /\ Registering /\ Owned
      /\ reg.pc = "written" /\ reg.kind \in tmps /\ reg' = NoCall
      /\ files' = [files EXCEPT ![reg.kind] = reg.val] /\ tmps' = tmps \ {reg.kind}
  BY DEF Inv, RegisterRename
<1>2. UNCHANGED <<disk, up, mem, op, list, life, puts, epochs, faults, shaky, broken, crossed>>
  BY DEF RegisterRename, pastVars
<1>3. up /\ reg.kind \in Kinds /\ reg.val \in 1 .. puts /\ puts \in Nat /\ disk.dir
  BY <1>1, NothingIs DEF Typed, Registering, Nowhere
<1>4. ~crossed => op = Idle /\ mem # Nothing
  BY <1>1 DEF Registering
<1>5. ~crossed /\ ~broken => disk.meta # Nothing
  <2> SUFFICES ASSUME ~crossed, ~broken PROVE disk.meta # Nothing
    OBVIOUS
  <2>1. Holds(mem)
    BY <1>1, <1>3, <1>4, BusyIs, CallNames, Zenon DEF Stage, Deleting
  <2> QED
    BY <2>1, Zenon DEF Holds, Covers, Loaded, Skipped
<1>6. files' \in [Kinds -> Nat] /\ \A k \in Kinds : files'[k] \in 0 .. puts
  <2>1. files \in [Kinds -> Nat] /\ \A k \in Kinds : files[k] \in 0 .. puts
    BY <1>1 DEF Typed, Owned
  <2>2. \A k \in Kinds : files'[k] = IF k = reg.kind THEN reg.val ELSE files[k]
    BY <1>1, <2>1
  <2>3. reg.val \in Nat /\ reg.val \in 0 .. puts
    BY <1>3
  <2> QED
    BY <1>1, <2>1, <2>2, <2>3, Zenon
<1>7. Stage' /\ Floors' /\ Bare'
  BY <1>1, <1>2, AsideKeeps, Zenon
<1>8. Nowhere'
  BY <1>2, <1>3, Zenon DEF Nowhere
<1>9. Typed'
  BY <1>1, <1>2, <1>3, <1>6, NothingIs, Zenon DEF Typed, Calls
<1>10. Registering'
  BY <1>1, NothingIs, Zenon DEF Registering
<1>11. Owned'
  BY <1>1, <1>2, <1>3, <1>4, <1>5, <1>6, NothingIs, Zenon DEF Owned
<1> QED
  BY <1>7, <1>8, <1>9, <1>10, <1>11, Zenon DEF Inv

(* write_attachment removes its tmp file when it fails.                    *)
LEMMA RegisterFailsKeeps ==
  ASSUME Inv, RegisterFails PROVE Inv'
<1>1. /\ Typed /\ Stage /\ Floors /\ Bare /\ Nowhere /\ Registering /\ Owned
      /\ reg.pc = "written" /\ reg' = NoCall /\ tmps' = tmps \ {reg.kind}
  BY DEF Inv, RegisterFails
<1>2. UNCHANGED <<disk, files, up, mem, op, list, life, puts, epochs, shaky, broken, crossed>>
  BY DEF RegisterFails
<1>3. up
  BY <1>1, NothingIs DEF Typed
<1>4. Stage' /\ Floors' /\ Bare'
  BY <1>1, <1>2, AsideKeeps, Zenon
<1>5. Nowhere'
  BY <1>1, <1>2, Zenon DEF Nowhere
<1>6. Typed'
  BY <1>1, <1>2, <1>3, NothingIs, Zenon DEF Typed, Calls
<1>7. Registering'
  BY <1>1, NothingIs, Zenon DEF Registering
<1>8. Owned'
  BY <1>1, <1>2, <1>3, NothingIs, Zenon DEF Owned
<1> QED
  BY <1>4, <1>5, <1>6, <1>7, <1>8 DEF Inv

(* forget_attachment.                                                      *)
LEMMA ForgetKeeps ==
  ASSUME Inv, NEW k \in Kinds, Forget(k) PROVE Inv'
<1>1. /\ Typed /\ Stage /\ Floors /\ Bare /\ Nowhere /\ Registering /\ Owned
      /\ files[k] # 0 /\ files' = [files EXCEPT ![k] = 0]
  BY DEF Inv, Forget, Unregistered
<1>2. UNCHANGED <<disk, tmps, up, mem, op, reg, list, life, puts, epochs, faults, shaky, broken, crossed>>
  BY DEF Forget, pastVars
<1>3. files # NoFiles
  BY <1>1 DEF NoFiles
<1>4. files' \in [Kinds -> Nat] /\ \A j \in Kinds : files'[j] \in 0 .. puts
  <2>1. files \in [Kinds -> Nat] /\ puts \in Nat /\ \A j \in Kinds : files[j] \in 0 .. puts
    BY <1>1, Zenon DEF Typed, Owned
  <2>2. \A j \in Kinds : files'[j] = IF j = k THEN 0 ELSE files[j]
    BY <1>1, <2>1, Zenon
  <2> QED
    BY <1>1, <2>1, <2>2
<1>5. Stage' /\ Floors' /\ Bare'
  BY <1>1, <1>2, AsideKeeps, Zenon
<1>6. Nowhere'
  BY <1>1, <1>2, <1>3, Zenon DEF Nowhere
<1>7. Typed'
  BY <1>1, <1>2, <1>4, Zenon DEF Typed, Calls
<1>8. Registering'
  BY <1>1, <1>2, Zenon DEF Registering
<1>9. Owned'
  BY <1>1, <1>2, <1>3, <1>4, Zenon DEF Owned
<1> QED
  BY <1>5, <1>6, <1>7, <1>8, <1>9, Zenon DEF Inv

(* list_attachments lists files that are there when it reads them.         *)
LEMMA ListKeeps ==
  ASSUME Inv, ListStart \/ ListEnd \/ \E k \in Kinds : ListRead(k) PROVE Inv'
<1>1. /\ Typed /\ Stage /\ Floors /\ Bare /\ Nowhere /\ Registering /\ Owned
  BY DEF Inv
<1>2. UNCHANGED <<disk, files, tmps, up, mem, op, reg, life, puts, epochs, faults, shaky, broken, crossed>>
  BY Zenon DEF ListStart, ListEnd, ListRead, dirVars, pastVars
<1>3. /\ list' \in [on : BOOLEAN, todo : SUBSET Kinds, out : SUBSET (Kinds \X Nat)]
      /\ \A x \in list'.out : x[2] \in 1 .. puts
      /\ ~up => list' = NoList
  <2>0. /\ list \in [on : BOOLEAN, todo : SUBSET Kinds, out : SUBSET (Kinds \X Nat)]
        /\ \A x \in list.out : x[2] \in 1 .. puts
        /\ puts \in Nat /\ \A k \in Kinds : files[k] \in 0 .. puts
    BY <1>1, Zenon DEF Typed, Owned
  <2>1. CASE ListStart
    BY <2>1 DEF ListStart
  <2>2. CASE ListEnd
    BY <2>2, NothingIs, Zenon DEF ListEnd
  <2>3. ASSUME NEW k \in Kinds, ListRead(k)
        PROVE  /\ list' \in [on : BOOLEAN, todo : SUBSET Kinds, out : SUBSET (Kinds \X Nat)]
               /\ \A x \in list'.out : x[2] \in 1 .. puts
               /\ up
    <3> DEFINE o == IF files[k] = 0 THEN list.out ELSE list.out \cup {<<k, files[k]>>}
    <3>1. list' = [list EXCEPT !.todo = list.todo \ {k}, !.out = o] /\ k \in list.todo
      BY <2>3, Zenon DEF ListRead
    <3>2. o \in SUBSET (Kinds \X Nat) /\ \A x \in o : x[2] \in 1 .. puts
      BY <2>0
    <3> HIDE DEF o
    <3>3. list' \in [on : BOOLEAN, todo : SUBSET Kinds, out : SUBSET (Kinds \X Nat)] /\ list'.out = o
      BY <2>0, <3>1, <3>2, Zenon
    <3>4. up
      BY <1>1, <3>1, NothingIs, Zenon DEF Typed
    <3> QED
      BY <3>2, <3>3, <3>4, Zenon
  <2> QED
    BY <2>1, <2>2, <2>3, Zenon
<1>4. Stage' /\ Floors' /\ Bare' /\ Nowhere'
  BY <1>1, <1>2, AsideKeeps, Zenon DEF Nowhere
<1>5. Typed'
  BY <1>1, <1>2, <1>3, Zenon DEF Typed, Calls
<1>6. Registering' /\ Owned'
  BY <1>1, <1>2, <1>3, Zenon DEF Registering, Owned
<1> QED
  BY <1>4, <1>5, <1>6, Zenon DEF Inv
-----------------------------------------------------------------------------
(* Damage at rest, and the restart                                         *)

(* A sidecar that rots belongs to a session that is there.                 *)
LEMMA CorruptKeeps ==
  ASSUME Inv, CorruptTickets \/ CorruptEnvelope PROVE Inv'
<1>1. /\ Typed /\ Stage /\ Floors /\ Bare /\ Nowhere /\ Registering /\ Owned /\ ~up
  BY DEF Inv, CorruptTickets, CorruptEnvelope
<1>2. UNCHANGED <<files, tmps, up, mem, op, reg, list, life, puts, epochs, faults, shaky, crossed>>
  BY DEF CorruptTickets, CorruptEnvelope, pastVars
<1>3. \/ /\ disk.tickets # 0 /\ disk' = [disk EXCEPT !.tickets = Corrupt] /\ broken' = broken
      \/ /\ disk.envelope # 0 /\ disk' = [disk EXCEPT !.envelope = Corrupt] /\ broken' = TRUE
  BY DEF CorruptTickets, CorruptEnvelope, pastVars
<1>4. disk \in Dir /\ op = Idle /\ op.name = "idle"
  BY <1>1, CallNames DEF Typed
<1>5. /\ disk' \in Dir /\ disk'.dir = disk.dir /\ disk'.meta = disk.meta /\ disk'.log = disk.log
      /\ disk'.floor = disk.floor
      /\ \/ disk.tickets # 0 /\ disk'.envelope = disk.envelope /\ broken' = broken
         \/ disk.envelope # 0 /\ broken'
  BY <1>3, <1>4, Zenon DEF Dir
<1>6. Stage'
  BY <1>1, <1>2, <1>4, Zenon DEF Stage
<1>7. Typed'
  <2>1. broken' \in BOOLEAN
    BY <1>1, <1>3, Zenon DEF Typed
  <2> QED
    BY <1>1, <1>2, <1>5, <2>1, Zenon DEF Typed, Calls
<1>8. Floors' /\ Registering'
  BY <1>1, <1>2, <1>5, Zenon DEF Floors, Registering
<1>9. Nowhere'
  BY <1>1, <1>2, <1>5, Zenon DEF Nowhere
<1>10. Bare'
  BY <1>1, <1>2, <1>4, <1>5 DEF Bare
<1>11. Owned'
  BY <1>1, <1>2, <1>5 DEF Owned
<1> QED
  BY <1>6, <1>7, <1>8, <1>9, <1>10, <1>11, Zenon DEF Inv

(* A restart loads what is on disk, and the same again the next time.      *)
LEMMA OpenKeeps ==
  ASSUME Inv, Open PROVE Inv'
<1>1. /\ Typed /\ Stage /\ Floors /\ Bare /\ Nowhere /\ Registering /\ Owned
      /\ ~up /\ up' = TRUE /\ tmps' = {} /\ mem' = Loaded
      /\ disk' = IF Skipped THEN disk ELSE [disk EXCEPT !.tickets = Ledger(disk.tickets)]
  BY DEF Inv, Open, Swept
<1>2. UNCHANGED <<files, op, reg, list, life, puts, epochs, faults, shaky, broken, crossed>>
  BY DEF Open, pastVars
<1>3. /\ disk \in Dir /\ op = Idle /\ op.name = "idle" /\ reg.pc = "none"
      /\ Ledger(disk.tickets) \in Nat /\ 0 # Corrupt
      /\ Loaded \in Record \cup {Nothing}
  BY <1>1, DirIs, LoadedIs, ImageIs, CallNames, NothingIs, FsStoreAssumption DEF Typed
<1>4. /\ disk' \in Dir /\ disk'.dir = disk.dir /\ disk'.meta = disk.meta /\ disk'.log = disk.log
      /\ disk'.envelope = disk.envelope /\ disk'.floor = disk.floor
      /\ Skipped => disk' = disk
      /\ ~Skipped => disk'.tickets = Ledger(disk.tickets)
  <2>1. CASE Skipped
    BY <1>1, <1>3, <2>1
  <2>2. CASE ~Skipped
    <3>1. PICK n \in Nat : n = Ledger(disk.tickets) /\ disk' = [disk EXCEPT !.tickets = n]
      BY <1>1, <1>3, <2>2
    <3> QED
      BY <1>3, <2>2, <3>1 DEF Dir
  <2> QED
    BY <2>1, <2>2
<1>5. Loaded' = Loaded
  <2>1. Ledger(Ledger(disk.tickets)) = Ledger(disk.tickets)
    BY <1>3 DEF Ledger
  <2> QED
    BY <1>4, <2>1, Zenon DEF Loaded, Skipped
<1>6. Loaded = Nothing /\ ~broken => disk.meta = Nothing
  BY <1>1, <1>3, LoadedIs, ImageIs, Zenon DEF Bare, Readable
<1>7. Stage'
  <2>1. mem' = Nothing => Blank'
    BY <1>1, <1>2, <1>4, <1>6, Zenon DEF Blank
  <2>2. mem' # Nothing => Holds(mem)'
    <3> SUFFICES ASSUME mem' # Nothing PROVE Holds(mem)'
      OBVIOUS
    <3>1. Loaded \in Record /\ mem' = Loaded /\ Loaded' = Loaded
      BY <1>1, <1>3, <1>5, Zenon
    <3>2. /\ Loaded.tickets \in Nat /\ Loaded.envelope \in Nat /\ Loaded.epoch \in Nat
          /\ Loaded.head \in Nat /\ Loaded # Nothing
      BY <3>1, RecordIs
    <3> QED
      BY <3>1, <3>2 DEF Holds, Covers
  <2> QED
    BY <1>2, <1>3, <2>1, <2>2, Zenon DEF Stage
<1>8. Typed'
  BY <1>1, <1>2, <1>3, <1>4, Zenon DEF Typed, Calls
<1>9. Floors' /\ Registering'
  BY <1>1, <1>2, <1>3, <1>4, Zenon DEF Floors, Registering
<1>10. disk.meta = Nothing => disk' = disk
  BY <1>4 DEF Skipped
<1>11. Bare'
  BY <1>1, <1>2, <1>3, <1>4, <1>10, Zenon DEF Bare
<1>12. Nowhere'
  BY <1>1, <1>2, <1>4, <1>10, Zenon DEF Nowhere
<1>13. Owned'
  BY <1>1, <1>2, <1>3, <1>4, <1>6, Zenon DEF Owned
<1> QED
  BY <1>7, <1>8, <1>9, <1>11, <1>12, <1>13, Zenon DEF Inv
-----------------------------------------------------------------------------
(* The invariant                                                           *)

(* The store begins empty.                                                 *)
LEMMA InitInv == Init => Inv
<1> SUFFICES ASSUME Init PROVE Inv
  OBVIOUS
<1>1. /\ disk = NoDir /\ files = NoFiles /\ tmps = {} /\ up = TRUE /\ mem = Nothing
      /\ op = Idle /\ reg = NoCall /\ list = NoList /\ life = 0 /\ puts = 0
      /\ epochs = {} /\ shaky = FALSE /\ broken = FALSE /\ crossed = FALSE
  BY DEF Init
<1>2. /\ disk.dir = FALSE /\ disk.meta = Nothing /\ disk.log = <<>> /\ disk.tickets = 0
      /\ disk.envelope = 0 /\ disk.floor = 0 /\ disk \in Dir
  BY <1>1, TailOfEmpty DEF NoDir, Dir
<1>3. files \in [Kinds -> Nat] /\ \A k \in Kinds : files[k] = 0
  BY <1>1 DEF NoFiles
<1>4. Typed
  BY <1>1, <1>2, <1>3, NothingIs, Zenon DEF Typed, Calls
<1>5. Stage
  BY <1>1, <1>2, Zenon DEF Stage, Blank
<1>6. Floors /\ Nowhere
  BY <1>1, <1>2, Zenon DEF Floors, Nowhere
<1>7. Bare
  <2>1. 0 # Corrupt
    BY FsStoreAssumption
  <2> QED
    BY <1>2, <2>1, Zenon DEF Bare
<1>8. Registering
  BY <1>1, NothingIs, CallNames, Zenon DEF Registering
<1>9. Owned
  BY <1>1, <1>3, NothingIs DEF Owned
<1> QED
  BY <1>4, <1>5, <1>6, <1>7, <1>8, <1>9, Zenon DEF Inv

(* The invariant holds throughout.                                         *)
LEMMA InvHolds == Spec => []Inv
<1>1. Inv /\ [Next]_vars => Inv'
  <2> SUFFICES ASSUME Inv, [Next]_vars PROVE Inv'
    OBVIOUS
  <2>0. Typed /\ Stage /\ Floors /\ Bare /\ Nowhere /\ Registering /\ Owned
    BY DEF Inv
  <2>1. CASE HostFresh
    BY <2>0, <2>1, FreshBegins, BeganKeeps, Zenon
  <2>2. CASE HostResume
    BY <2>0, <2>2, ResumeBegins, BeganKeeps, Zenon
  <2>3. CASE PutTickets \/ PutWorkspaceTicket \/ \E p \in Peers : AddMember(p) \/ RemoveMember(p)
    BY <2>0, <2>3, RewritesBegin, BeganKeeps, Zenon
  <2>4. CASE Send
    BY <2>0, <2>4, SendBegins, BeganKeeps, Zenon
  <2>5. CASE Leave
    BY <2>0, <2>5, LeaveBegins, BeganKeeps, Zenon
  <2>6. CASE Write
    BY <2>6, WriteStep, RewroteKeeps, Zenon
  <2>7. CASE \E done \in BOOLEAN : Fail(done)
    BY <2>7, FailStep, RewroteKeeps, Zenon
  <2>8. CASE Return
    BY <2>8, ReturnKeeps
  <2>9. CASE DeleteStep
    BY <2>9, DeleteKeeps, Zenon
  <2>10. CASE DeleteFails
    BY <2>10, DeleteFailsKeeps
  <2>11. CASE RegisterCheck
    BY <2>11, CheckKeeps
  <2>12. CASE RegisterWrite
    BY <2>12, TmpKeeps
  <2>13. CASE RegisterRename
    BY <2>13, RenameKeeps
  <2>14. CASE RegisterFails
    BY <2>14, RegisterFailsKeeps
  <2>15. CASE \E k \in Kinds : Register(k)
    BY <2>15, RegisterKeeps
  <2>16. CASE \E k \in Kinds : Forget(k)
    BY <2>16, ForgetKeeps
  <2>17. CASE ListStart \/ ListEnd \/ \E k \in Kinds : ListRead(k)
    BY <2>17, ListKeeps, Zenon
  <2>18. CASE Crash
    BY <2>18, CrashKeeps
  <2>19. CASE CorruptTickets \/ CorruptEnvelope
    BY <2>19, CorruptKeeps, Zenon
  <2>20. CASE Open
    BY <2>20, OpenKeeps
  <2>21. CASE UNCHANGED vars
    <3>1. UNCHANGED <<disk, files, tmps, up, mem, op, reg, list, life, puts, epochs, faults, shaky,
                      broken, crossed>>
      BY <2>21 DEF vars, dirVars, pastVars
    <3>2. Stage' /\ Floors' /\ Bare'
      BY <2>0, <3>1, AsideKeeps
    <3> QED
      BY <2>0, <3>1, <3>2, Zenon DEF Inv, Typed, Calls, Nowhere, Registering, Owned
  <2> QED
    BY <2>1, <2>2, <2>3, <2>4, <2>5, <2>6, <2>7, <2>8, <2>9, <2>10, <2>11, <2>12, <2>13, <2>14,
       <2>15, <2>16, <2>17, <2>18, <2>19, <2>20, <2>21 DEF Next
<1> QED
  BY <1>1, InitInv, PTL DEF Spec
-----------------------------------------------------------------------------
(* Store before memory, and the attachments                                *)

(* Store before memory, for any number of lives, writes, errors and        *)
(* crashes: the floor is above every epoch that meta.json has held; with   *)
(* no call in progress a restart loads what the registry has in memory,    *)
(* and after an error never less.                                          *)
THEOREM StoreLeads == Spec => []StoreLeadsMemory
<1>1. Inv => StoreLeadsMemory
  <2> SUFFICES ASSUME Inv PROVE StoreLeadsMemory
    OBVIOUS
  <2>1. Typed /\ Stage /\ Floors
    BY DEF Inv
  <2>2. TypeOK
    BY <2>1, DirIs, Zenon DEF TypeOK, Typed
  <2>3. FloorAboveEpochs
    BY <2>1, Zenon DEF FloorAboveEpochs, Floors
  <2>4. up /\ op = Idle /\ mem # Nothing => Holds(mem)
    BY <2>1, BusyIs, CallNames, Zenon DEF Stage, Deleting
  <2>5. MemoryIsOnDisk /\ DiskNotBehind
    BY <2>4, Zenon DEF MemoryIsOnDisk, DiskNotBehind, Holds, Covers
  <2> QED
    BY <2>2, <2>3, <2>5 DEF StoreLeadsMemory
<1> QED
  BY <1>1, InvHolds, PTL

(* The cascade of SessionStore::delete and the tmp files: no attachment    *)
(* outlives its session, no tmp file its writer, and list_attachments      *)
(* lists what was registered, for any kinds and numbers of attachments.    *)
THEOREM AttachmentsOwned == Spec => []AttachmentsAreOwned
<1>1. Inv => AttachmentsAreOwned
  <2> SUFFICES ASSUME Inv PROVE AttachmentsAreOwned
    OBVIOUS
  <2>1. Registering /\ Owned
    BY DEF Inv
  <2>2. CascadeHolds
    BY <2>1 DEF CascadeHolds, Registering, Owned
  <2>3. NoOrphanTmp /\ ListedWasRegistered
    BY <2>1 DEF NoOrphanTmp, ListedWasRegistered, Owned
  <2> QED
    BY <2>2, <2>3 DEF AttachmentsAreOwned
<1> QED
  BY <1>1, InvHolds, PTL
-----------------------------------------------------------------------------
(* The trait's reference implementation                                    *)

\* The session and the attachments that SessionStore sees
Rec  == IF op.name = "delete" THEN op.was[1] ELSE Loaded
Atts == IF op.name = "delete" THEN op.was[2] ELSE files

Refined == [Abs!AbsNext]_(Abs!absVars)

(* Nothing the trait shows has changed.                                    *)
LEMMA ShowsNothing ==
  ASSUME Rec' = Rec, Atts' = Atts, disk'.floor = disk.floor PROVE Refined
BY Zenon DEF Refined, Rec, Atts, Abs!absVars

(* The floor is raised.                                                    *)
LEMMA ShowsFloor ==
  ASSUME Rec' = Rec, Atts' = Atts, disk.floor \in Nat, disk'.floor \in Nat,
         disk'.floor >= disk.floor
  PROVE  Refined
<1>1. Abs!RaiseFloor(disk'.floor)
  BY DEF Abs!RaiseFloor, Abs!Raised, Rec, Atts
<1> QED
  BY <1>1, Zenon DEF Refined, Abs!AbsNext

(* A session is created.                                                   *)
LEMMA ShowsCreate ==
  ASSUME NEW e \in Nat, NEW t, Rec' = Fresh(e, t), Rec' # Nothing, Atts' = NoFiles,
         disk.floor \in Nat, disk'.floor = disk.floor, e < disk.floor
  PROVE  Refined
<1>1. Rec'.epoch = e /\ Rec'.tickets = t
  BY DEF Fresh
<1>2. Abs!Create(e, t)
  BY DEF Abs!Create, Abs!Raised, Abs!Fresh, Abs!NoAttachments, Fresh, NoFiles, Rec, Atts
<1>3. Abs!Create(Rec'.epoch, Rec'.tickets)
  BY <1>1, <1>2
<1> QED
  BY <1>3, Zenon DEF Refined, Abs!AbsNext, Rec

(* The epoch is raised.                                                    *)
LEMMA ShowsEpoch ==
  ASSUME Rec # Nothing, Rec' # Nothing, Rec' = [Rec EXCEPT !.epoch = Rec'.epoch],
         Rec'.epoch \in Nat, disk.floor \in Nat, disk'.floor = disk.floor,
         Rec'.epoch < disk.floor, Atts' = Atts
  PROVE  Refined
<1>1. Abs!BumpHostEpoch(Rec'.epoch)
  BY DEF Abs!BumpHostEpoch, Abs!Raised, Rec, Atts
<1> QED
  BY <1>1 DEF Refined, Abs!AbsNext, Rec

(* The ledger grows.                                                       *)
LEMMA ShowsTickets ==
  ASSUME Rec # Nothing, Rec' # Nothing, Rec' = [Rec EXCEPT !.tickets = Rec'.tickets],
         Rec'.tickets >= Rec.tickets, disk'.floor = disk.floor, Atts' = Atts
  PROVE  Refined
<1>1. Abs!PutTickets(Rec'.tickets)
  BY DEF Abs!PutTickets, Rec, Atts
<1> QED
  BY <1>1 DEF Refined, Abs!AbsNext, Rec

(* The workspace ticket is replaced.                                       *)
LEMMA ShowsEnvelope ==
  ASSUME Rec # Nothing, Rec' # Nothing, Rec' = [Rec EXCEPT !.envelope = Rec'.envelope],
         disk'.floor = disk.floor, Atts' = Atts
  PROVE  Refined
<1>1. Abs!PutWorkspaceTicket(Rec'.envelope)
  BY Zenon DEF Abs!PutWorkspaceTicket, Rec, Atts
<1> QED
  BY <1>1 DEF Refined, Abs!AbsNext, Rec

(* A frame is appended.                                                    *)
LEMMA ShowsFrame ==
  ASSUME Rec # Nothing, Rec' # Nothing, NEW f, Rec'.log # <<>>, Rec'.log[Len(Rec'.log)] = f,
         Rec' = [Rec EXCEPT !.log = Append(Rec.log, f),
                            !.head = IF f.seq > Rec.head THEN f.seq ELSE Rec.head],
         disk'.floor = disk.floor, Atts' = Atts
  PROVE  Refined
<1>1. Abs!AppendFrame(f)
  BY DEF Abs!AppendFrame, Rec, Atts
<1>2. Rec'.log # <<>> /\ Abs!AppendFrame(Rec'.log[Len(Rec'.log)])
  BY <1>1
<1> QED
  BY <1>2 DEF Refined, Abs!AbsNext, Rec

(* A member joins or leaves.                                               *)
LEMMA ShowsMembers ==
  ASSUME Rec # Nothing, Rec' # Nothing, NEW p \in Peers,
         \/ Rec' = [Rec EXCEPT !.members = Rec.members \cup {p}]
         \/ Rec' = [Rec EXCEPT !.members = Rec.members \ {p}],
         disk'.floor = disk.floor, Atts' = Atts
  PROVE  Refined
<1>1. Abs!AddMember(p) \/ Abs!RemoveMember(p)
  BY Zenon DEF Abs!AddMember, Abs!RemoveMember, Rec, Atts
<1> QED
  BY <1>1 DEF Refined, Abs!AbsNext, Rec

(* The session is deleted.                                                 *)
LEMMA ShowsDelete ==
  ASSUME Rec' = Nothing, Atts' = NoFiles, disk'.floor = disk.floor PROVE Refined
<1>1. Abs!Delete
  BY DEF Abs!Delete, Abs!NoAttachments, NoFiles, Rec, Atts
<1> QED
  BY <1>1, Zenon DEF Refined, Abs!AbsNext

(* An attachment is registered.                                            *)
LEMMA ShowsPut ==
  ASSUME Rec # Nothing, Rec' = Rec, NEW k \in Kinds, Atts' = [Atts EXCEPT ![k] = Atts'[k]],
         disk'.floor = disk.floor
  PROVE  Refined
<1>1. Abs!PutAttachment(k, Atts'[k])
  BY DEF Abs!PutAttachment, Rec, Atts
<1> QED
  BY <1>1, Zenon DEF Refined, Abs!AbsNext, Atts

(* An attachment is forgotten.                                             *)
LEMMA ShowsForget ==
  ASSUME Rec' = Rec, NEW k \in Kinds, Atts' = [Atts EXCEPT ![k] = 0], disk'.floor = disk.floor
  PROVE  Refined
<1>1. Abs!DeleteAttachment(k)
  BY DEF Abs!DeleteAttachment, Rec, Atts
<1> QED
  BY <1>1, Zenon DEF Refined, Abs!AbsNext
-----------------------------------------------------------------------------
(* Which write a call makes                                                *)

\* A write of create, and one on a session in memory, with what its place in the call
\* says of the files
Creates(e) ==
  \/ disk' = Written(disk, Step("dir", 0)) \/ disk' = Written(disk, Step("floor", e + 1))
  \/ disk' = Written(disk, FirstMeta(e)) /\ e < disk.floor
  \/ disk' = Written(disk, Step("tickets", 1)) /\ Loaded # Nothing

Amends ==
  /\ Covers(mem)
  /\ \/ disk' = Written(disk, Step("tickets", mem.tickets + 1))
     \/ disk' = Written(disk, Step("floor", mem.epoch + 1 + 1))
     \/ disk' = Written(disk, Step("epoch", mem.epoch + 1)) /\ mem.epoch + 1 < disk.floor
     \/ disk' = Written(disk, Step("envelope", mem.envelope + 1))
     \/ \E p \in Peers : \/ disk' = Written(disk, Step("member", p))
                         \/ disk' = Written(disk, Step("parted", p))
     \/ disk' = Written(disk, Step("frame", NextFrame))
     \/ disk' = Written(disk, Step("head", mem.head + 1)) /\ mem.head + 1 <= Loaded.head

(* The writes of create.                                                   *)
LEMMA CreateWrites ==
  ASSUME ~broken, NEW e \in Nat, Creating(e), op.steps # <<>>,
         CanWrite(Head(op.steps)), disk' = Written(disk, Head(op.steps))
  PROVE  Creates(e)
<1> DEFINE D == Step("dir", 0)
           F == Step("floor", e + 1)
           M == FirstMeta(e)
           T == Step("tickets", 1)
<1> HIDE DEF D, F, M, T
<1>0. Head(<<D, F, M, T>>) = D /\ Head(<<F, M, T>>) = F /\ Head(<<M, T>>) = M /\ Head(<<T>>) = T
  OBVIOUS
<1>1. ASSUME NEW s, NEW a, Doing("create", s, Fresh(e, 1)), Head(s) = a
      PROVE  disk' = Written(disk, a)
  BY <1>1, DoingIs, Zenon
<1>2. CASE Doing("create", <<D, F, M, T>>, Fresh(e, 1))
  BY <1>0, <1>1, <1>2, Zenon DEF Creates, D
<1>3. CASE Doing("create", <<F, M, T>>, Fresh(e, 1))
  BY <1>0, <1>1, <1>3, Zenon DEF Creates, F
<1>4. CASE Doing("create", <<M, T>>, Fresh(e, 1)) /\ e < disk.floor
  BY <1>0, <1>1, <1>4, Zenon DEF Creates, M
<1>5. CASE Doing("create", <<T>>, Fresh(e, 1)) /\ Holds(Fresh(e, 0))
  BY <1>0, <1>1, <1>5, Zenon DEF Creates, T, Holds, Covers
<1>6. CASE Doing("create", <<>>, Fresh(e, 1))
  BY <1>6, DoingIs, Zenon
<1> QED
  BY <1>2, <1>3, <1>4, <1>5, <1>6, Zenon DEF Creating, D, F, M, T

(* The writes of the other calls.                                          *)
LEMMA AmendWrites ==
  ASSUME Typed, Stage, ~broken, mem # Nothing, op.steps # <<>>,
         CanWrite(Head(op.steps)), disk' = Written(disk, Head(op.steps))
  PROVE  Amends
<1>0. Covers(mem) /\ (Resuming \/ Rewrites \/ Appending) /\ mem \in Record /\ life \in Nat
  <2>1. op # Idle /\ op.name # "delete"
    BY BusyIs
  <2> QED
    BY <2>1, BusyIs, CallNames, StageCovers, Zenon DEF Typed
<1>1. ASSUME NEW n, NEW s, NEW r, NEW a, Doing(n, s, r), Head(s) = a
      PROVE  disk' = Written(disk, a)
  BY <1>1, DoingIs, Zenon
<1>2. CASE Resuming
  <2> DEFINE n == mem.epoch + 1
             t == Step("tickets", mem.tickets + 1)
             F == Step("floor", n + 1)
             E == Step("epoch", n)
  <2> HIDE DEF t, F, E
  <2>0. Head(<<t, F, E>>) = t /\ Head(<<F, E>>) = F /\ Head(<<E>>) = E
    OBVIOUS
  <2>1. CASE Doing("resume", <<t, F, E>>, Resumed)
    BY <1>0, <1>1, <2>0, <2>1, Zenon DEF Amends, t
  <2>2. CASE Doing("resume", <<F, E>>, Resumed)
    BY <1>0, <1>1, <2>0, <2>2, Zenon DEF Amends, F
  <2>3. CASE Doing("resume", <<E>>, Resumed) /\ n < disk.floor
    BY <1>0, <1>1, <2>0, <2>3, Zenon DEF Amends, E
  <2>4. CASE Doing("resume", <<>>, Resumed)
    BY <2>4, DoingIs, Zenon
  <2> QED
    BY <1>2, <2>1, <2>2, <2>3, <2>4, Zenon DEF Resuming, t, F, E
<1>3. CASE Rewrites
  <2>1. ASSUME NEW n, NEW s, NEW r, Rewriting(n, s, r) PROVE disk' = Written(disk, s)
    <3>1. ~Doing(n, <<>>, r)
      BY DoingIs, Zenon
    <3>2. Head(<<s>>) = s
      OBVIOUS
    <3> QED
      BY <1>1, <2>1, <3>1, <3>2, Zenon DEF Rewriting
  <2> QED
    BY <1>0, <1>3, <2>1, Zenon DEF Rewrites, Amends
<1>4. CASE Appending
  <2> DEFINE f == Step("frame", NextFrame)
             h == Step("head", mem.head + 1)
  <2> HIDE DEF f, h
  <2>0. Head(<<f, h>>) = f /\ Head(<<h>>) = h
    OBVIOUS
  <2>1. CASE Doing("append", <<f, h>>, Sent)
    BY <1>0, <1>1, <2>0, <2>1, Zenon DEF Amends, f
  <2>2. CASE Doing("append", <<h>>, Sent) /\ Holds(Sent)
    <3>1. mem.head + 1 <= Loaded.head
      BY <1>0, <2>2, SentIs, Zenon DEF Holds, Covers
    <3> QED
      BY <1>0, <1>1, <2>0, <2>2, <3>1, Zenon DEF Amends, h
  <2>3. CASE Doing("append", <<>>, Sent)
    BY <2>3, DoingIs, Zenon
  <2> QED
    BY <1>4, <2>1, <2>2, <2>3, Zenon DEF Appending, f, h
<1> QED
  BY <1>0, <1>2, <1>3, <1>4, Zenon
-----------------------------------------------------------------------------
(* How far the files may be ahead of memory                                *)

\* A host that was refused leaves at most its own ledger beside meta.json, and a ledger
\* on disk is at most one write ahead of the one in memory: so that a retry never takes
\* a ticket back.
Ahead ==
  ~broken /\ up =>
    IF mem = Nothing THEN disk.log = <<>> /\ disk.envelope = 0 /\ disk.tickets \in {0, 1}
    ELSE disk.tickets \in Nat /\ disk.tickets <= mem.tickets + 1

(* A write that leaves the ledger alone leaves it where it was.            *)
LEMMA AheadSame ==
  ASSUME Ahead, UNCHANGED <<up, mem>>, ~broken' => ~broken, disk'.tickets = disk.tickets,
         mem = Nothing => disk'.log = disk.log /\ disk'.envelope = disk.envelope
  PROVE  Ahead'
BY DEF Ahead

(* One write of create.                                                    *)
LEMMA CreateAhead ==
  ASSUME Typed, Ahead, ~broken, up, mem = Nothing, NEW e \in Nat, Creates(e),
         UNCHANGED <<up, mem, broken>>
  PROVE  Ahead'
<1>0. disk \in Dir /\ e + 1 \in Nat /\ 1 \in Nat /\ 0 \in Nat
  BY DEF Typed
<1>1. CASE disk' = Written(disk, Step("dir", 0)) \/ disk' = Written(disk, Step("floor", e + 1))
  BY <1>0, <1>1, WriteOutside, AheadSame, Zenon
<1>2. CASE disk' = Written(disk, FirstMeta(e))
  BY <1>0, <1>2, WriteFirst, AheadSame, Zenon
<1>3. CASE disk' = Written(disk, Step("tickets", 1))
  <2>1. disk'.log = disk.log /\ disk'.tickets = 1 /\ disk'.envelope = disk.envelope
    BY <1>0, <1>3, WriteTickets
  <2> QED
    BY <2>1, Zenon DEF Ahead
<1> QED
  BY <1>1, <1>2, <1>3, Zenon DEF Creates

(* One write on a session in memory.                                       *)
LEMMA AmendAhead ==
  ASSUME Typed, Ahead, ~broken, up, mem # Nothing, Amends, UNCHANGED <<up, mem, broken>>
  PROVE  Ahead'
<1>0. /\ disk \in Dir /\ mem \in Record /\ life \in Nat
      /\ mem.tickets + 1 \in Nat /\ mem.epoch + 1 \in Nat /\ mem.epoch + 1 + 1 \in Nat
      /\ mem.envelope + 1 \in Nat /\ mem.head + 1 \in Nat /\ NextFrame \in Frame
  <2>1. disk \in Dir /\ mem \in Record /\ life \in Nat
    BY Zenon DEF Typed
  <2>2. /\ mem.tickets \in Nat /\ mem.epoch \in Nat /\ mem.envelope \in Nat /\ mem.head \in Nat
    BY <2>1, RecordIs, Zenon
  <2>3. NextFrame \in Frame
    BY <2>1, SentIs, Zenon
  <2>4. \A n \in Nat : n + 1 \in Nat
    OBVIOUS
  <2> QED
    BY <2>1, <2>2, <2>3, <2>4, Zenon
<1>1. Readable(disk) /\ disk.meta # Nothing
  BY <1>0, LoadedIs, ImageIs, Zenon DEF Amends, Covers, Readable
<1>2. CASE disk' = Written(disk, Step("tickets", mem.tickets + 1))
  <2> DEFINE n == mem.tickets + 1
  <2>1. n \in Nat /\ disk' = Written(disk, Step("tickets", n)) /\ disk \in Dir
    BY <1>0, <1>2, Zenon
  <2> HIDE DEF n
  <2>2. disk'.tickets = n
    BY <2>1, WriteTickets
  <2> QED
    BY <2>1, <2>2, RecordIs, SMTT(40) DEF Ahead, n
<1>3. CASE disk' = Written(disk, Step("floor", mem.epoch + 1 + 1))
  BY <1>0, <1>3, WriteOutside, AheadSame, Zenon
<1>4. CASE disk' = Written(disk, Step("envelope", mem.envelope + 1))
  BY <1>0, <1>4, WriteEnvelope, AheadSame, Zenon
<1>5. CASE disk' = Written(disk, Step("frame", NextFrame))
  BY <1>0, <1>5, WriteFrame, AheadSame, Zenon
<1>6. ASSUME NEW f, NEW v, disk' = Written(disk, Step(f, v)),
             \/ f \in {"member", "parted"} /\ v \in Peers
             \/ f \in {"epoch", "head"} /\ v \in Nat
      PROVE  Ahead'
  <2>1. disk'.tickets = disk.tickets
    BY <1>0, <1>1, <1>6, WriteMeta, Zenon
  <2> QED
    BY <2>1, AheadSame
<1>7. CASE \/ disk' = Written(disk, Step("epoch", mem.epoch + 1))
           \/ disk' = Written(disk, Step("head", mem.head + 1))
  BY <1>0, <1>6, <1>7, Zenon
<1>8. CASE \E p \in Peers : \/ disk' = Written(disk, Step("member", p))
                            \/ disk' = Written(disk, Step("parted", p))
  BY <1>6, <1>8, Zenon
<1> QED
  BY <1>2, <1>3, <1>4, <1>5, <1>7, <1>8, Zenon DEF Amends

(* Every step keeps it.                                                    *)
LEMMA AheadKept ==
  ASSUME Inv, Inv', Ahead, [Next]_vars PROVE Ahead'
<1>0. Typed /\ Stage /\ Bare /\ Nowhere /\ Typed'
  BY DEF Inv
<1>1. ASSUME op.steps # <<>>, CanWrite(Head(op.steps)), disk' = Written(disk, Head(op.steps)),
             UNCHANGED <<up, mem, broken>>
      PROVE  Ahead'
  <2> SUFFICES ASSUME ~broken PROVE Ahead'
    BY <1>1, Zenon DEF Ahead
  <2>1. up /\ op # Idle
    BY <1>0, <1>1, BusyIs, Zenon
  <2>2. CASE mem = Nothing
    <3>1. PICK e \in Nat : Creating(e)
      BY <1>0, <2>1, <2>2, BusyIs, Zenon
    <3>2. Creates(e)
      BY <1>1, <3>1, CreateWrites, Zenon
    <3> QED
      BY <1>0, <1>1, <2>1, <2>2, <3>2, CreateAhead, Zenon
  <2>3. CASE mem # Nothing
    <3>1. Amends
      BY <1>0, <1>1, <2>3, AmendWrites, Zenon
    <3> QED
      BY <1>0, <1>1, <2>1, <2>3, <3>1, AmendAhead, Zenon
  <2> QED
    BY <2>2, <2>3, Zenon
<1>2. CASE Write
  BY <1>1, <1>2, Zenon DEF Write
<1>3. CASE \E done \in BOOLEAN : Fail(done)
  <2>1. PICK done \in BOOLEAN : Fail(done)
    BY <1>3
  <2>2. /\ op.steps # <<>> /\ UNCHANGED <<up, mem, broken>>
        /\ \/ CanWrite(Head(op.steps)) /\ disk' = Written(disk, Head(op.steps))
           \/ disk' = disk
    BY <2>1, Zenon DEF Fail
  <2> QED
    BY <1>1, <2>2, AheadSame, Zenon
<1>4. CASE Return
  <2>1. /\ op # Idle /\ op.steps = <<>> /\ (op.name = "delete" => ~disk.dir) /\ mem' = op.after
        /\ UNCHANGED <<disk, up, broken>>
    BY <1>4, Zenon DEF Return, dirVars, pastVars
  <2> SUFFICES ASSUME ~broken PROVE Ahead'
    BY <2>1, Zenon DEF Ahead
  <2>2. CASE op.name = "delete"
    <3>1. mem' = Nothing
      BY <1>0, <2>1, <2>2, BusyIs, CallNames, Zenon
    <3> QED
      BY <1>0, <2>1, <2>2, <3>1, Zenon DEF Ahead, Nowhere
  <2>3. CASE mem = Nothing
    <3>1. PICK e \in Nat : Creating(e)
      BY <1>0, <2>1, <2>3, BusyIs, Zenon
    <3>2. op.after = Fresh(e, 1)
      BY <3>1, DoingIs, Zenon DEF Creating
    <3>3. mem' # Nothing /\ mem'.tickets = 1
      BY <2>1, <3>2, FreshIs, RecordIs
    <3>4. disk.tickets \in {0, 1}
      BY <1>0, <2>1, <2>3, BusyIs, Zenon DEF Ahead
    <3> QED
      BY <2>1, <3>3, <3>4 DEF Ahead
  <2>4. CASE mem # Nothing /\ op.name # "delete"
    <3>1. /\ mem \in Record /\ mem.tickets \in Nat
          /\ Resuming \/ Rewrites \/ Appending
      BY <1>0, <2>1, <2>4, BusyIs, CallNames, RecordIs, Zenon DEF Typed
    <3>2. ASSUME NEW n, NEW s, NEW r, Doing(n, s, r) PROVE op.after = r
      BY <3>2, DoingIs, Zenon
    <3>3. \/ op.after \in {Resumed, Reissued, Enveloped, Sent}
          \/ \E p \in Peers : op.after \in {Joined(p), Parted(p)}
      BY <3>1, <3>2, Zenon DEF Resuming, Rewrites, Rewriting, Appending
    <3>4. op.after \in Record /\ op.after.tickets \in {mem.tickets, mem.tickets + 1}
      BY <1>0, <3>1, <3>3, ResumedIs, ReissuedIs, EnvelopedIs, SentIs, JoinedIs, PartedIs, Zenon DEF Typed
    <3>5. mem' # Nothing /\ mem'.tickets \in {mem.tickets, mem.tickets + 1}
      BY <2>1, <3>4, RecordIs, Zenon
    <3>6. up /\ disk.tickets \in Nat /\ disk.tickets <= mem.tickets + 1
      BY <1>0, <2>1, <2>4, BusyIs, Zenon DEF Ahead
    <3>7. CASE mem'.tickets = mem.tickets + 1
      BY <2>1, <3>1, <3>5, <3>6, <3>7 DEF Ahead
    <3>8. CASE mem'.tickets = mem.tickets
      BY <2>1, <3>5, <3>6, <3>8, Zenon DEF Ahead
    <3> QED
      BY <3>5, <3>7, <3>8, Zenon
  <2> QED
    BY <2>2, <2>3, <2>4, Zenon
<1>5. CASE DeleteStep
  <2>1. UNCHANGED <<up, mem, broken>> /\ op.name = "delete"
    BY <1>0, <1>5, UnlinkIs, Zenon DEF DeleteStep, pastVars
  <2>2. mem # Nothing /\ mem \in Record /\ mem.tickets \in Nat
    BY <1>0, <2>1, BusyIs, RecordIs, Zenon DEF Typed
  <2>3. disk'.tickets \in {disk.tickets, 0}
    BY <1>0, <1>5, Zenon DEF DeleteStep, Unlink, UnlinkAttachment, RemoveDir, NoDir, Typed, Dir
  <2> QED
    BY <2>1, <2>2, <2>3 DEF Ahead
<1>6. CASE Open
  <2>1. mem' = Loaded /\ UNCHANGED broken /\ disk' = IF Skipped THEN disk ELSE [disk EXCEPT !.tickets = Ledger(@)]
    BY <1>6 DEF Open, pastVars
  <2> SUFFICES ASSUME ~broken PROVE Ahead'
    BY <2>1 DEF Ahead
  <2>2. disk \in Dir /\ Loaded = Image(disk) /\ (Skipped <=> ~Readable(disk)) /\ op.name # "delete"
    BY <1>0, <1>6, LoadedIs, CallNames, Zenon DEF Typed, Open
  <2>3. CASE Skipped
    <3>1. mem' = Nothing /\ disk' = disk
      BY <2>1, <2>3, Zenon DEF Loaded
    <3>2. disk.log = <<>> /\ disk.tickets = 0 /\ disk.envelope = 0
      BY <1>0, <2>2, <2>3, Zenon DEF Skipped, Bare
    <3> QED
      BY <3>1, <3>2, Zenon DEF Ahead
  <2>4. CASE ~Skipped
    <3>1. disk'.tickets = Ledger(disk.tickets) /\ Ledger(disk.tickets) \in Nat
      BY <2>1, <2>2, <2>4, DirIs, Zenon DEF Dir
    <3>2. mem' # Nothing /\ mem'.tickets = Ledger(disk.tickets)
      BY <2>1, <2>2, <2>4, ImageIs, Zenon
    <3> QED
      BY <3>1, <3>2 DEF Ahead
  <2> QED
    BY <2>3, <2>4, Zenon
<1>7. CASE Crash \/ CorruptTickets \/ CorruptEnvelope
  <2>1. ~up'
    BY <1>7 DEF Crash, CorruptTickets, CorruptEnvelope
  <2> QED
    BY <2>1, Zenon DEF Ahead
<1>8. CASE RegisterWrite
  <2>1. UNCHANGED <<up, mem, broken>> /\ disk' = [disk EXCEPT !.dir = TRUE]
    BY <1>8 DEF RegisterWrite, MadeDir, pastVars
  <2>2. disk'.log = disk.log /\ disk'.tickets = disk.tickets /\ disk'.envelope = disk.envelope
    BY <1>0, <2>1, Zenon DEF Typed, Dir
  <2> QED
    BY <2>1, <2>2, AheadSame, Zenon
<1>9. ASSUME UNCHANGED <<disk, up, mem>>, ~broken' => ~broken PROVE Ahead'
  BY <1>9, AheadSame, Zenon
<1>10. CASE HostFresh \/ HostResume \/ PutTickets \/ PutWorkspaceTicket \/ Send \/ Leave
            \/ \E p \in Peers : AddMember(p) \/ RemoveMember(p)
  <2>1. UNCHANGED <<disk, up, mem, broken>>
    BY <1>10, Zenon DEF HostFresh, HostResume, PutTickets, PutWorkspaceTicket, Send, Leave, AddMember,
                 RemoveMember, Call, dirVars, pastVars
  <2> QED
    BY <1>9, <2>1, Zenon
<1>11. CASE DeleteFails
  <2>1. UNCHANGED <<disk, up, mem>> /\ (~broken' => ~broken)
    BY <1>11, Zenon DEF DeleteFails, dirVars
  <2> QED
    BY <1>9, <2>1, Zenon
<1>12. CASE \/ RegisterCheck \/ RegisterRename \/ RegisterFails \/ ListStart \/ ListEnd
            \/ \E k \in Kinds : Register(k) \/ Forget(k) \/ ListRead(k)
            \/ UNCHANGED vars
  <2>1. UNCHANGED <<disk, up, mem, broken>>
    BY <1>12, Zenon DEF RegisterCheck, RegisterRename, RegisterFails, ListStart, ListEnd, Register,
                 Forget, ListRead, dirVars, pastVars, vars
  <2> QED
    BY <1>9, <2>1
<1> QED
  BY <1>2, <1>3, <1>4, <1>5, <1>6, <1>7, <1>8, <1>10, <1>11, <1>12, Zenon DEF Next

(* And it holds throughout.                                                *)
LEMMA AheadHolds == Spec => []Ahead
<1>1. Init => Ahead
  BY DEF Init, Ahead, NoDir
<1>2. Inv /\ Inv' /\ Ahead /\ [Next]_vars => Ahead'
  BY AheadKept
<1> QED
  BY <1>1, <1>2, InvHolds, PTL DEF Spec
-----------------------------------------------------------------------------
(* Each write is a call of the trait, or shows nothing                     *)

(* A session with one field replaced.                                      *)
LEMMA FieldsOf ==
  ASSUME NEW a \in Record, NEW b \in Record
  PROVE  /\ /\ a.members = b.members /\ a.head = b.head /\ a.log = b.log
            /\ a.tickets = b.tickets /\ a.envelope = b.envelope
            => b = [a EXCEPT !.epoch = b.epoch]
         /\ /\ a.members = b.members /\ a.head = b.head /\ a.log = b.log
            /\ a.epoch = b.epoch /\ a.envelope = b.envelope
            => b = [a EXCEPT !.tickets = b.tickets]
         /\ /\ a.members = b.members /\ a.head = b.head /\ a.log = b.log
            /\ a.epoch = b.epoch /\ a.tickets = b.tickets
            => b = [a EXCEPT !.envelope = b.envelope]
         /\ /\ a.epoch = b.epoch /\ a.head = b.head /\ a.log = b.log
            /\ a.tickets = b.tickets /\ a.envelope = b.envelope
            => b = [a EXCEPT !.members = b.members]
         /\ /\ a.members = b.members /\ a.epoch = b.epoch
            /\ a.tickets = b.tickets /\ a.envelope = b.envelope
            => b = [a EXCEPT !.log = b.log, !.head = b.head]
<1>1. /\ a = Session(a.members, a.epoch, a.head, a.log, a.tickets, a.envelope)
      /\ b = Session(b.members, b.epoch, b.head, b.log, b.tickets, b.envelope)
  BY RecordIs, Zenon
<1> QED
  BY <1>1, Zenon DEF Session

(* What a write on a readable directory shows.                             *)
LEMMA WriteShown ==
  ASSUME disk \in Dir, disk' \in Dir, op.name # "delete", op'.name # "delete", files' = files
  PROVE  /\ Rec = Image(disk) /\ Rec' = Image(disk') /\ Atts = files /\ Atts' = files
         /\ Readable(disk) => Rec \in Record /\ Rec # Nothing
         /\ Readable(disk') => Rec' \in Record /\ Rec' # Nothing
         /\ disk.floor \in Nat /\ disk'.floor \in Nat
<1>1. Rec = Loaded /\ Rec' = Loaded' /\ Atts = files /\ Atts' = files
  BY Zenon DEF Rec, Atts
<1>2. disk.floor \in Nat /\ disk'.floor \in Nat
  BY DirIs, Zenon
<1>3. Loaded = Image(disk) /\ Loaded' = Image(disk')
  BY LoadedIs, LoadedNext, Zenon
<1>4. /\ Readable(disk) => Image(disk) \in Record /\ Image(disk) # Nothing
      /\ Readable(disk') => Image(disk') \in Record /\ Image(disk') # Nothing
  BY ImageIs, Zenon
<1> QED
  BY <1>1, <1>2, <1>3, <1>4, Zenon

(* The writes of create.                                                   *)
LEMMA CreateRefines ==
  ASSUME Inv, Ahead, ~broken, ~crossed, up, mem = Nothing, NEW e \in Nat, Creates(e),
         op.name # "delete", op'.name # "delete", files' = files
  PROVE  Refined
<1>0. /\ disk \in Dir /\ e + 1 \in Nat /\ files = NoFiles /\ disk.envelope = 0 /\ disk.log = <<>>
      /\ disk.tickets \in {0, 1} /\ Atts = files
  BY DEF Inv, Typed, Owned, Ahead, Atts
<1>1. CASE disk' = Written(disk, Step("dir", 0)) \/ disk' = Written(disk, Step("floor", e + 1))
  <2>1. disk' \in Dir /\ Image(disk') = Image(disk) /\ disk'.floor >= disk.floor
    BY <1>0, <1>1, WriteOutside, Zenon
  <2>2. Rec' = Rec /\ Atts' = Atts /\ disk.floor \in Nat /\ disk'.floor \in Nat
    BY <1>0, <2>1, WriteShown, Zenon
  <2> QED
    BY <2>1, <2>2, ShowsFloor, Zenon
<1>2. CASE disk' = Written(disk, FirstMeta(e)) /\ e < disk.floor
  <2>1. /\ disk' \in Dir /\ disk'.log = <<>> /\ disk'.floor = disk.floor
        /\ disk'.tickets = disk.tickets /\ disk'.envelope = 0 /\ disk'.meta # Nothing
        /\ disk'.meta.epoch = e /\ disk'.meta.head = 0 /\ disk'.meta.members = {Host}
    <3>1. disk \in Dir /\ disk' = Written(disk, FirstMeta(e))
      BY <1>0, <1>2, Zenon
    <3>2. /\ disk' \in Dir /\ disk'.log = disk.log /\ disk'.floor = disk.floor
          /\ disk'.tickets = disk.tickets /\ disk'.envelope = disk.envelope /\ disk'.meta # Nothing
          /\ disk'.meta.epoch = e /\ disk'.meta.head = 0 /\ disk'.meta.members = {Host}
      BY <3>1, WriteFirst
    <3> QED
      BY <1>0, <3>2, Zenon
  <2>2. Readable(disk') /\ 0 # Corrupt
    BY <2>1, FsStoreAssumption DEF Readable
  <2>3. PICK t \in Nat : t = Ledger(disk'.tickets)
    BY <2>1, DirIs, Zenon
  <2>4. Image(disk') = Fresh(e, t)
    <3>1. Larger(0, 0) = 0 /\ LogTail(<<>>) = 0
      BY TailOfEmpty, Zenon DEF Larger
    <3> QED
      BY <2>1, <2>2, <2>3, <3>1, Zenon DEF Image, Session, Fresh
  <2>5. Rec' = Fresh(e, t) /\ Rec' # Nothing /\ Atts' = NoFiles /\ disk.floor \in Nat
    BY <1>0, <2>1, <2>2, <2>4, WriteShown, Zenon
  <2> QED
    BY <1>2, <2>1, <2>5, ShowsCreate, Zenon
<1>3. CASE disk' = Written(disk, Step("tickets", 1)) /\ Loaded # Nothing
  <2>1. Readable(disk)
    BY <1>0, <1>3, LoadedIs, ImageIs, Zenon
  <2>2. /\ disk' \in Dir /\ disk'.floor = disk.floor /\ Readable(disk')
        /\ Image(disk').members = Image(disk).members /\ Image(disk').epoch = Image(disk).epoch
        /\ Image(disk').head = Image(disk).head /\ Image(disk').log = Image(disk).log
        /\ Image(disk').tickets = 1 /\ Image(disk').envelope = Image(disk).envelope
    <3>1. disk \in Dir /\ disk' = Written(disk, Step("tickets", 1)) /\ 1 \in Nat
      BY <1>0, <1>3, Zenon
    <3> QED
      BY <2>1, <3>1, WriteTickets
  <2>3. /\ Rec = Image(disk) /\ Rec' = Image(disk') /\ Atts' = Atts
        /\ Rec \in Record /\ Rec # Nothing /\ Rec' \in Record /\ Rec' # Nothing
    BY <1>0, <2>1, <2>2, WriteShown, Zenon
  <2>4. Rec' = [Rec EXCEPT !.tickets = Rec'.tickets]
    BY <2>2, <2>3, FieldsOf, Zenon
  <2>5. Rec.tickets \in {0, 1} /\ Rec'.tickets = 1
    <3>1. Rec.tickets = Ledger(disk.tickets)
      BY <1>0, <2>1, <2>3, ImageIs, Zenon
    <3> QED
      BY <1>0, <2>2, <2>3, <3>1, Zenon DEF Ledger
  <2> QED
    BY <2>2, <2>3, <2>4, <2>5, ShowsTickets
<1> QED
  BY <1>1, <1>2, <1>3, Zenon DEF Creates

(* The writes on a session in memory.                                      *)
LEMMA AmendRefines ==
  ASSUME Inv, Ahead, ~broken, up, mem # Nothing, Amends,
         op.name # "delete", op'.name # "delete", files' = files
  PROVE  Refined
<1>0. /\ disk \in Dir /\ mem \in Record /\ life \in Nat
      /\ mem.tickets + 1 \in Nat /\ mem.epoch + 1 \in Nat /\ mem.epoch + 1 + 1 \in Nat
      /\ mem.envelope + 1 \in Nat /\ mem.head + 1 \in Nat /\ NextFrame \in Frame
      /\ disk.tickets \in Nat /\ disk.tickets <= mem.tickets + 1 /\ disk.tickets # Corrupt
  <2>1. disk \in Dir /\ mem \in Record /\ life \in Nat
    BY Zenon DEF Inv, Typed
  <2>2. disk.tickets \in Nat /\ disk.tickets <= mem.tickets + 1
    BY Zenon DEF Ahead
  <2>3. /\ mem.tickets \in Nat /\ mem.epoch \in Nat /\ mem.envelope \in Nat /\ mem.head \in Nat
    BY <2>1, RecordIs, Zenon
  <2>4. NextFrame \in Frame
    BY <2>1, SentIs, Zenon
  <2>5. disk.tickets # Corrupt
    BY <2>2, FsStoreAssumption, Zenon
  <2> QED
    BY <2>1, <2>2, <2>3, <2>4, <2>5
<1>1. Readable(disk) /\ disk.meta # Nothing /\ Image(disk) \in Record /\ Loaded = Image(disk)
  BY <1>0, LoadedIs, ImageIs, Zenon DEF Amends, Covers, Readable
<1>2. ASSUME disk' \in Dir, Readable(disk')
      PROVE  /\ Rec = Image(disk) /\ Rec' = Image(disk') /\ Atts' = Atts
             /\ Rec \in Record /\ Rec # Nothing /\ Rec' \in Record /\ Rec' # Nothing
             /\ disk.floor \in Nat
  BY <1>0, <1>1, <1>2, WriteShown, Zenon
<1>3. CASE disk' = Written(disk, Step("tickets", mem.tickets + 1))
  <2> DEFINE n == mem.tickets + 1
  <2>1. n \in Nat /\ disk' = Written(disk, Step("tickets", n)) /\ disk \in Dir /\ Readable(disk)
        /\ disk.tickets <= n
    BY <1>0, <1>1, <1>3, Zenon
  <2> HIDE DEF n
  <2>2. /\ disk' \in Dir /\ disk'.floor = disk.floor /\ Readable(disk')
        /\ Image(disk').members = Image(disk).members /\ Image(disk').epoch = Image(disk).epoch
        /\ Image(disk').head = Image(disk).head /\ Image(disk').log = Image(disk).log
        /\ Image(disk').tickets = n /\ Image(disk').envelope = Image(disk).envelope
    BY <2>1, WriteTickets
  <2>3. Rec' = [Rec EXCEPT !.tickets = Rec'.tickets]
    <3>1. /\ Rec.members = Rec'.members /\ Rec.head = Rec'.head /\ Rec.log = Rec'.log
          /\ Rec.epoch = Rec'.epoch /\ Rec.envelope = Rec'.envelope
      BY <1>2, <2>2, Zenon
    <3> QED
      BY <1>2, <2>2, <3>1, FieldsOf, Zenon
  <2>4. Rec.tickets = disk.tickets
    BY <1>0, <1>1, <1>2, <2>2, ImageIs, Zenon DEF Ledger
  <2>5. Rec'.tickets >= Rec.tickets
    BY <1>0, <1>2, <2>1, <2>2, <2>4, Zenon
  <2> QED
    BY <1>2, <2>2, <2>3, <2>5, ShowsTickets, Zenon
<1>4. CASE disk' = Written(disk, Step("floor", mem.epoch + 1 + 1))
  <2>1. disk' \in Dir /\ Image(disk') = Image(disk) /\ disk'.floor >= disk.floor
    BY <1>0, <1>4, WriteOutside, Zenon
  <2>2. Rec' = Rec /\ Atts' = Atts /\ disk.floor \in Nat /\ disk'.floor \in Nat
    BY <1>0, <2>1, WriteShown, Zenon
  <2> QED
    BY <2>1, <2>2, ShowsFloor, Zenon
<1>5. CASE disk' = Written(disk, Step("envelope", mem.envelope + 1))
  <2> DEFINE n == mem.envelope + 1
  <2>1. n \in Nat /\ disk' = Written(disk, Step("envelope", n)) /\ disk \in Dir /\ Readable(disk)
    BY <1>0, <1>1, <1>5, Zenon
  <2> HIDE DEF n
  <2>2. /\ disk' \in Dir /\ disk'.floor = disk.floor /\ Readable(disk')
        /\ Image(disk').members = Image(disk).members /\ Image(disk').epoch = Image(disk).epoch
        /\ Image(disk').head = Image(disk).head /\ Image(disk').log = Image(disk).log
        /\ Image(disk').tickets = Image(disk).tickets
    BY <2>1, WriteEnvelope
  <2>3. Rec' = [Rec EXCEPT !.envelope = Rec'.envelope]
    <3>1. /\ Rec.members = Rec'.members /\ Rec.head = Rec'.head /\ Rec.log = Rec'.log
          /\ Rec.epoch = Rec'.epoch /\ Rec.tickets = Rec'.tickets
      BY <1>2, <2>2, Zenon
    <3> QED
      BY <1>2, <2>2, <3>1, FieldsOf, Zenon
  <2> QED
    BY <1>2, <2>2, <2>3, ShowsEnvelope, Zenon
<1>6. CASE disk' = Written(disk, Step("frame", NextFrame))
  <2> DEFINE f == NextFrame
  <2>1. f \in Frame /\ disk' = Written(disk, Step("frame", f)) /\ disk \in Dir /\ Readable(disk)
    BY <1>0, <1>1, <1>6, Zenon
  <2> HIDE DEF f
  <2>2. /\ disk' \in Dir /\ disk'.floor = disk.floor /\ Readable(disk')
        /\ Image(disk').members = Image(disk).members /\ Image(disk').epoch = Image(disk).epoch
        /\ Image(disk').head = Larger(Image(disk).head, f.seq)
        /\ Image(disk').log = Append(Image(disk).log, f)
        /\ Image(disk').tickets = Image(disk).tickets
        /\ Image(disk').envelope = Image(disk).envelope
    BY <2>1, WriteFrame, Zenon
  <2>3. Rec' = [Rec EXCEPT !.log = Rec'.log, !.head = Rec'.head]
    <3>1. /\ Rec.members = Rec'.members /\ Rec.epoch = Rec'.epoch
          /\ Rec.tickets = Rec'.tickets /\ Rec.envelope = Rec'.envelope
      BY <1>2, <2>2, Zenon
    <3> QED
      BY <1>2, <2>2, <3>1, FieldsOf, Zenon
  <2>4. /\ Rec'.log = Append(Rec.log, f)
        /\ Rec'.head = IF f.seq > Rec.head THEN f.seq ELSE Rec.head
    <3>1. Rec.head \in Nat /\ f.seq \in Nat /\ Rec'.head = Larger(Rec.head, f.seq)
      BY <1>2, <2>1, <2>2, RecordIs, Zenon DEF Frame
    <3> QED
      BY <1>2, <2>2, <3>1 DEF Larger
  <2>5. Rec'.log # <<>> /\ Rec'.log[Len(Rec'.log)] = f
    <3>1. Rec.log \in Seq(Frame)
      BY <1>2, <2>2, RecordIs, Zenon
    <3>2. Append(Rec.log, f) # <<>> /\ Append(Rec.log, f)[Len(Append(Rec.log, f))] = f
      <4>1. f \in Frame
        BY <2>1, Zenon
      <4>2. ASSUME NEW S, NEW s \in Seq(S), NEW x \in S
            PROVE  Append(s, x) # <<>> /\ Append(s, x)[Len(Append(s, x))] = x
        BY ONLY <4>2
      <4> QED
        BY <3>1, <4>1, <4>2, Zenon
    <3> QED
      BY <2>4, <3>2, Zenon
  <2>6. Rec' = [Rec EXCEPT !.log = Append(Rec.log, f),
                           !.head = IF f.seq > Rec.head THEN f.seq ELSE Rec.head]
    BY <2>3, <2>4, Zenon
  <2> QED
    BY <1>2, <2>2, <2>5, <2>6, ShowsFrame, Zenon
<1>7. ASSUME NEW f, NEW v, disk' = Written(disk, Step(f, v)),
             \/ f \in {"member", "parted"} /\ v \in Peers
             \/ f \in {"epoch", "head"} /\ v \in Nat
      PROVE  /\ disk' \in Dir /\ disk'.floor = disk.floor /\ Readable(disk')
             /\ Rec'.epoch = (IF f = "epoch" THEN v ELSE Rec.epoch)
             /\ Rec'.head = (IF f = "head" THEN Larger(Rec.head, v) ELSE Rec.head)
             /\ f = "member" => Rec'.members = Rec.members \cup {v}
             /\ f = "parted" => Rec'.members = Rec.members \ {v}
             /\ f \in {"epoch", "head"} => Rec'.members = Rec.members
             /\ Rec'.log = Rec.log /\ Rec'.tickets = Rec.tickets /\ Rec'.envelope = Rec.envelope
  <2>0. /\ disk \in Dir /\ Readable(disk) /\ disk.meta # Nothing
        /\ disk' = Written(disk, Step(f, v))
        /\ \/ f \in {"member", "parted"} /\ v \in Peers
           \/ f \in {"epoch", "head"} /\ v \in Nat
    BY <1>0, <1>1, <1>7, Zenon
  <2>1. /\ disk' \in Dir /\ disk'.floor = disk.floor /\ Readable(disk')
        /\ Image(disk').epoch = (IF f = "epoch" THEN v ELSE Image(disk).epoch)
        /\ Image(disk').head = (IF f = "head" THEN Larger(Image(disk).head, v)
                                              ELSE Image(disk).head)
        /\ f = "member" => Image(disk').members = Image(disk).members \cup {v}
        /\ f = "parted" => Image(disk').members = Image(disk).members \ {v}
        /\ f \in {"epoch", "head"} => Image(disk').members = Image(disk).members
        /\ Image(disk').log = Image(disk).log /\ Image(disk').tickets = Image(disk).tickets
        /\ Image(disk').envelope = Image(disk).envelope
    BY ONLY <2>0, WriteMeta
  <2>2. Rec = Image(disk) /\ Rec' = Image(disk')
    BY <1>2, <2>1, Zenon
  <2> QED
    BY ONLY <2>1, <2>2, Zenon
<1>8. CASE disk' = Written(disk, Step("epoch", mem.epoch + 1)) /\ mem.epoch + 1 < disk.floor
  <2>1. /\ disk' \in Dir /\ disk'.floor = disk.floor /\ Readable(disk')
        /\ Rec'.epoch = mem.epoch + 1 /\ Rec'.head = Rec.head /\ Rec'.members = Rec.members
        /\ Rec'.log = Rec.log /\ Rec'.tickets = Rec.tickets /\ Rec'.envelope = Rec.envelope
    BY <1>0, <1>7, <1>8, Zenon
  <2>2. Rec' = [Rec EXCEPT !.epoch = Rec'.epoch]
    BY <1>2, <2>1, FieldsOf, Zenon
  <2> QED
    BY <1>0, <1>2, <1>8, <2>1, <2>2, ShowsEpoch, Zenon
<1>9. CASE disk' = Written(disk, Step("head", mem.head + 1)) /\ mem.head + 1 <= Loaded.head
  <2>1. /\ disk' \in Dir /\ disk'.floor = disk.floor /\ Readable(disk')
        /\ Rec'.epoch = Rec.epoch /\ Rec'.head = Larger(Rec.head, mem.head + 1)
        /\ Rec'.members = Rec.members
        /\ Rec'.log = Rec.log /\ Rec'.tickets = Rec.tickets /\ Rec'.envelope = Rec.envelope
    BY <1>0, <1>7, <1>9, Zenon
  <2>2. Rec'.head = Rec.head
    BY <1>0, <1>1, <1>2, <1>9, <2>1, RecordIs, Zenon DEF Larger
  <2>3. Rec' = Rec
    BY <1>2, <2>1, <2>2, SameSession, Zenon
  <2> QED
    BY <1>2, <2>1, <2>3, ShowsNothing, Zenon
<1>10. ASSUME NEW p \in Peers, \/ disk' = Written(disk, Step("member", p))
                               \/ disk' = Written(disk, Step("parted", p))
       PROVE  Refined
  <2>1. /\ disk' \in Dir /\ disk'.floor = disk.floor /\ Readable(disk')
        /\ Rec'.epoch = Rec.epoch /\ Rec'.head = Rec.head
        /\ Rec'.members = Rec.members \cup {p} \/ Rec'.members = Rec.members \ {p}
        /\ Rec'.log = Rec.log /\ Rec'.tickets = Rec.tickets /\ Rec'.envelope = Rec.envelope
    BY <1>7, <1>10
  <2>2. Rec' = [Rec EXCEPT !.members = Rec'.members]
    BY <1>2, <2>1, FieldsOf, Zenon
  <2>3. \/ Rec' = [Rec EXCEPT !.members = Rec.members \cup {p}]
        \/ Rec' = [Rec EXCEPT !.members = Rec.members \ {p}]
    BY <2>1, <2>2, Zenon
  <2> QED
    BY <1>2, <2>1, <2>3, ShowsMembers, Zenon
<1> QED
  BY <1>3, <1>4, <1>5, <1>6, <1>8, <1>9, <1>10, Zenon DEF Amends

(* Every step that neither breaks the directory nor crosses a life is a    *)
(* call of the trait, or shows nothing.                                    *)
LEMMA StepRefines ==
  ASSUME Inv, Inv', Ahead, [Next]_vars, ~broken', ~crossed', disk'.tickets # Corrupt
  PROVE  Refined
<1>0. /\ Typed /\ Stage /\ Nowhere /\ Registering /\ Owned /\ disk \in Dir /\ disk' \in Dir
      /\ files \in [Kinds -> Nat]
  BY DEF Inv, Typed
<1>1. ASSUME op.steps # <<>>, CanWrite(Head(op.steps)), disk' = Written(disk, Head(op.steps)),
             UNCHANGED <<up, mem, broken, crossed, files>>, op'.name # "delete"
      PROVE  Refined
  <2>1. up /\ op # Idle /\ op.name # "delete" /\ ~broken /\ ~crossed
    BY <1>0, <1>1, BusyIs, Zenon
  <2>2. CASE mem = Nothing
    <3>1. PICK e \in Nat : Creating(e)
      BY <1>0, <2>1, <2>2, BusyIs, Zenon
    <3>2. Creates(e)
      BY <1>1, <2>1, <3>1, CreateWrites, Zenon
    <3> QED
      BY <1>1, <2>1, <2>2, <3>2, CreateRefines, Zenon
  <2>3. CASE mem # Nothing
    <3>1. Amends
      BY <1>0, <1>1, <2>1, <2>3, AmendWrites, Zenon
    <3> QED
      BY <1>1, <2>1, <2>3, <3>1, AmendRefines, Zenon
  <2> QED
    BY <2>2, <2>3, Zenon
<1>2. ASSUME UNCHANGED <<disk, files>>, op.name # "delete", op'.name # "delete" PROVE Refined
  <2>1. Loaded' = Loaded
    BY <1>2, Zenon DEF Loaded, Skipped
  <2>2. Rec' = Rec /\ Atts' = Atts
    BY <1>2, <2>1, Zenon DEF Rec, Atts
  <2> QED
    BY <1>2, <2>2, ShowsNothing, Zenon
<1>3. ASSUME UNCHANGED <<disk, files, op>> PROVE Refined
  <2>1. Loaded' = Loaded
    BY <1>3, Zenon DEF Loaded, Skipped
  <2>2. Rec' = Rec /\ Atts' = Atts
    BY <1>3, <2>1, Zenon DEF Rec, Atts
  <2> QED
    BY <1>3, <2>2, ShowsNothing, Zenon
<1>4. ASSUME NEW n, NEW s, NEW r, n # "delete", Call(n, s, r) PROVE Refined
  <2>1. op = Idle /\ op'.name = n /\ UNCHANGED <<disk, files>>
    BY <1>4, CallIs, Zenon DEF dirVars
  <2> QED
    BY <1>2, <1>4, <2>1, CallNames, Zenon
<1>5. CASE HostFresh \/ HostResume \/ PutTickets \/ PutWorkspaceTicket \/ Send
           \/ \E p \in Peers : AddMember(p) \/ RemoveMember(p)
  BY <1>4, <1>5, Zenon DEF HostFresh, HostResume, PutTickets, PutWorkspaceTicket, Send, AddMember,
                    RemoveMember
<1>6. CASE Leave
  <2>1. /\ op = Idle /\ UNCHANGED <<disk, files>>
        /\ op' = [name |-> "delete", steps |-> <<>>, after |-> Nothing, was |-> <<Loaded, files>>]
    BY <1>6, Zenon DEF Leave, Call, Unlocked, dirVars
  <2>2. op.name # "delete" /\ op'.name = "delete" /\ op'.was[1] = Loaded /\ op'.was[2] = files
    BY <2>1, CallNames, Zenon
  <2>3. Rec' = Rec /\ Atts' = Atts
    BY <2>2 DEF Rec, Atts
  <2> QED
    BY <2>1, <2>3, ShowsNothing, Zenon
<1>7. CASE Write
  <2>1. /\ op.steps # <<>> /\ CanWrite(Head(op.steps)) /\ disk' = Written(disk, Head(op.steps))
        /\ op' = [op EXCEPT !.steps = Tail(@)]
        /\ UNCHANGED <<up, mem, broken, crossed, files>>
    BY <1>7 DEF Write
  <2>2. op'.name = op.name /\ op.name # "delete"
    BY <1>0, <2>1, BusyIs
  <2> QED
    BY <1>1, <2>1, <2>2, Zenon
<1>8. CASE \E done \in BOOLEAN : Fail(done)
  <2>1. PICK done \in BOOLEAN : Fail(done)
    BY <1>8
  <2>2. /\ op.steps # <<>> /\ op' = Idle /\ UNCHANGED <<up, mem, broken, crossed, files>>
        /\ \/ CanWrite(Head(op.steps)) /\ disk' = Written(disk, Head(op.steps))
           \/ disk' = disk
    BY <2>1, Zenon DEF Fail
  <2>3. op.name # "delete" /\ op'.name # "delete"
    BY <1>0, <2>2, BusyIs, CallNames, Zenon
  <2> QED
    BY <1>1, <1>2, <2>2, <2>3, Zenon
<1>9. CASE Return
  <2>1. /\ op # Idle /\ (op.name = "delete" => ~disk.dir) /\ op' = Idle /\ UNCHANGED <<disk, files>>
    BY <1>9, Zenon DEF Return, dirVars
  <2>2. CASE op.name = "delete"
    <3>1. disk.meta = Nothing /\ files = NoFiles
      BY <1>0, <2>1, <2>2, Zenon DEF Nowhere
    <3>2. Loaded' = Nothing /\ files' = NoFiles
      BY <2>1, <3>1, Zenon DEF Loaded, Skipped
    <3>3. Rec' = Nothing /\ Atts' = NoFiles
      BY <2>1, <3>2, CallNames, Zenon DEF Rec, Atts
    <3> QED
      BY <2>1, <3>3, ShowsDelete, Zenon
  <2>3. CASE op.name # "delete"
    BY <1>2, <2>1, <2>3, CallNames, Zenon
  <2> QED
    BY <2>2, <2>3, Zenon
<1>10. CASE DeleteStep
  <2>1. op.name = "delete" /\ op' = op
    BY <1>0, <1>10, UnlinkIs, Zenon DEF DeleteStep
  <2>2. disk'.floor = disk.floor
    BY <1>0, <1>10, Zenon DEF DeleteStep, Unlink, UnlinkAttachment, RemoveDir, NoDir, Dir
  <2>3. Rec' = Rec /\ Atts' = Atts
    BY <2>1, Zenon DEF Rec, Atts
  <2> QED
    BY <2>2, <2>3, ShowsNothing, Zenon
<1>11. CASE DeleteFails \/ Crash
  <2>1. UNCHANGED <<disk, files>> /\ op' = Idle /\ broken' = (broken \/ Begun)
    BY <1>11 DEF DeleteFails, Crash, dirVars
  <2>2. CASE op.name = "delete"
    <3>1. op.was = <<Loaded, files>>
      BY <2>1, <2>2, Zenon DEF Begun
    <3>2. op.was[1] = Loaded /\ op.was[2] = files
      BY <3>1
    <3>3. Loaded' = Loaded
      BY <2>1, Zenon DEF Loaded, Skipped
    <3>4. Rec' = Rec /\ Atts' = Atts
      BY <2>1, <2>2, <3>2, <3>3, CallNames, Zenon DEF Rec, Atts
    <3> QED
      BY <2>1, <3>4, ShowsNothing, Zenon
  <2>3. CASE op.name # "delete"
    BY <1>2, <2>1, <2>3, CallNames, Zenon
  <2> QED
    BY <2>2, <2>3
<1>12. CASE RegisterWrite
  <2>1. disk' = [disk EXCEPT !.dir = TRUE] /\ UNCHANGED <<files, op>>
    BY <1>12 DEF RegisterWrite, MadeDir, TmpFile
  <2>2. /\ disk'.meta = disk.meta /\ disk'.log = disk.log /\ disk'.tickets = disk.tickets
        /\ disk'.envelope = disk.envelope /\ disk'.floor = disk.floor
    BY <1>0, <2>1, Zenon DEF Dir
  <2>3. Loaded' = Loaded
    BY <2>2, Zenon DEF Loaded, Skipped
  <2>4. Rec' = Rec /\ Atts' = Atts
    BY <2>1, <2>3, Zenon DEF Rec, Atts
  <2> QED
    BY <2>2, <2>4, ShowsNothing, Zenon
<1>13. CASE RegisterRename
  <2>1. /\ reg.pc = "written" /\ files' = [files EXCEPT ![reg.kind] = reg.val]
        /\ UNCHANGED <<disk, op, broken, crossed>>
    BY <1>13, Zenon DEF RegisterRename, pastVars
  <2>2. reg.kind \in Kinds /\ op = Idle /\ mem # Nothing /\ up
    BY <1>0, <2>1, NothingIs, Zenon DEF Registering, Typed
  <2>3. Loaded # Nothing /\ Loaded' = Loaded /\ op.name # "delete"
    <3>1. Holds(mem)
      BY <1>0, <2>2, BusyIs, CallNames, Zenon DEF Stage, Deleting
    <3> QED
      BY <2>1, <2>2, <3>1, CallNames, Zenon DEF Holds, Covers, Loaded, Skipped
  <2>4. Rec # Nothing /\ Rec' = Rec /\ Atts = files /\ Atts' = files'
    BY <2>1, <2>3, Zenon DEF Rec, Atts
  <2>5. files' = [files EXCEPT ![reg.kind] = files'[reg.kind]]
    BY <1>0, <2>1, <2>2, Zenon
  <2> QED
    BY <2>1, <2>2, <2>4, <2>5, ShowsPut, Zenon
<1>14. CASE \E k \in Kinds : Forget(k)
  <2>1. PICK k \in Kinds : Forget(k)
    BY <1>14, Zenon
  <2>2. (mem # Nothing => op = Idle) /\ files' = [files EXCEPT ![k] = 0] /\ UNCHANGED <<disk, op>>
    BY <2>1 DEF Forget, Unlocked, Unregistered
  <2>3. op.name # "delete" /\ Loaded' = Loaded
    BY <1>0, <2>2, BusyIs, CallNames, Zenon DEF Loaded, Skipped
  <2>4. Rec' = Rec /\ Atts = files /\ Atts' = files'
    BY <2>2, <2>3, Zenon DEF Rec, Atts
  <2> QED
    BY <2>2, <2>4, ShowsForget, Zenon
<1>15. CASE Open
  <2>1. /\ UNCHANGED <<files, op>>
        /\ disk' = IF Skipped THEN disk ELSE [disk EXCEPT !.tickets = Ledger(@)]
    BY <1>15 DEF Open
  <2>2. CASE Skipped
    BY <1>3, <2>1, <2>2, Zenon
  <2>3. CASE ~Skipped
    <3>1. /\ disk'.meta = disk.meta /\ disk'.log = disk.log /\ disk'.tickets = Ledger(disk.tickets)
          /\ disk'.envelope = disk.envelope /\ disk'.floor = disk.floor
      BY <1>0, <2>1, <2>3, Zenon DEF Dir
    <3>2. Ledger(disk'.tickets) = Ledger(disk.tickets)
      BY <3>1 DEF Ledger
    <3>3. Loaded' = Loaded
      BY <3>1, <3>2, Zenon DEF Loaded, Skipped
    <3>4. Rec' = Rec /\ Atts' = Atts
      BY <2>1, <3>3, Zenon DEF Rec, Atts
    <3> QED
      BY <3>1, <3>4, ShowsNothing, Zenon
  <2> QED
    BY <2>2, <2>3, Zenon
<1>16. CASE CorruptTickets \/ CorruptEnvelope
  <2>1. CorruptTickets => disk'.tickets = Corrupt
    BY <1>0 DEF CorruptTickets, Dir
  <2>2. CorruptEnvelope => broken'
    BY DEF CorruptEnvelope
  <2> QED
    BY <1>16, <2>1, <2>2, Zenon
<1>17. CASE \/ RegisterCheck \/ RegisterFails \/ ListStart \/ ListEnd
            \/ \E k \in Kinds : Register(k) \/ ListRead(k)
            \/ UNCHANGED vars
  <2>1. UNCHANGED <<disk, files, op>>
    BY <1>17, Zenon DEF RegisterCheck, RegisterFails, ListStart, ListEnd, Register, ListRead,
                        dirVars, vars
  <2> QED
    BY <1>3, <2>1, Zenon
<1> QED
  BY <1>5, <1>6, <1>7, <1>8, <1>9, <1>10, <1>11, <1>12, <1>13, <1>14, <1>15, <1>16, <1>17, Zenon DEF Next

(* FsLogStore implements MemoryStore: for any peers, kinds, lives, errors  *)
(* and crashes, every file write is one call of the reference              *)
(* implementation or shows nothing, and a session that is hosted again has *)
(* nothing of the one before it, until a delete stops half-way, a          *)
(* registration crosses into a later life or a sidecar rots on disk.       *)
THEOREM RefinesSessionStore == Spec => ImplementsSessionStore
<1>1. Init => Abs!AbsInit
  <2> SUFFICES ASSUME Init PROVE Abs!AbsInit
    OBVIOUS
  <2>1. Loaded = Nothing /\ op.name # "delete" /\ files = NoFiles /\ disk.floor = 0
    BY DEF Init, Loaded, Skipped, NoDir, Idle
  <2> QED
    BY <2>1, Zenon DEF Abs!AbsInit, Abs!NoAttachments, NoFiles
<1>2. Inv /\ Inv' /\ Ahead /\ [Next]_vars
      => [~(broken' \/ crossed' \/ disk'.tickets = Corrupt) => [Abs!AbsNext]_(Abs!absVars)]_vars
  <2> SUFFICES ASSUME Inv, Inv', Ahead, [Next]_vars, ~broken', ~crossed', disk'.tickets # Corrupt
               PROVE  [Abs!AbsNext]_(Abs!absVars)
    OBVIOUS
  <2> QED
    BY StepRefines, Zenon DEF Refined
<1> QED
  BY <1>1, <1>2, InvHolds, AheadHolds, PTL DEF Spec, ImplementsSessionStore
=============================================================================
