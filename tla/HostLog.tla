------------------------------- MODULE HostLog -------------------------------
(***************************************************************************)
(* The host's message log: Registry::send (Local arm) sequences a message  *)
(* and FsLogStore makes it durable in two files, the framed log and        *)
(* meta.json's cached head, before memory changes.  The model has the      *)
(* daemon's memory, the two files, the I/O errors each write can return    *)
(* and a crash at every point of an append.                                *)
(*                                                                         *)
(* The framed log file is kept as the frames a reader recovers from its    *)
(* start (frames), whether a partial frame follows them (torn), and the    *)
(* frames written behind that partial frame (behind): the reader has lost  *)
(* the frame boundaries there, so the frame after the torn bytes is gone   *)
(* and later ones come back only if a misread length happens to end on a   *)
(* boundary.                                                               *)
(***************************************************************************)
EXTENDS Naturals, Sequences

CONSTANTS Calls,        \* Send requests, each issued at most once
          IoFaults,     \* I/O errors append can meet while the daemon lives
          MaxCrashes    \* bound on crashes

\* "none":  append_log failed before a byte reached the file
\* "part":  append_log's write failed with part of the frame written
\* "frame": the frame is in the file, the fsync or the meta rewrite failed
\* "meta":  both files are in place, the last directory fsync failed
AllIoFaults == {"none", "part", "frame", "meta"}

ASSUME HostLogAssumption == /\ IoFaults \subseteq AllIoFaults
                            /\ MaxCrashes \in Nat

VARIABLES frames, torn, behind, metaHead,   \* the two files
          up, log, head,                    \* the daemon's memory
          acked,                            \* messages whose Send returned Ok
          rejected, unanswered,             \* calls that got an error, no reply
          damaged,                          \* a failed append has left bytes
          crashes

fileVars == <<frames, torn, behind, metaHead>>
memVars  == <<up, log, head>>
callVars == <<acked, rejected, unanswered, damaged>>
vars     == <<fileVars, memVars, callVars, crashes>>

Frame == [seq : Nat, call : Calls]

MaxNat(a, b) == IF a >= b THEN a ELSE b

\* log.iter().map(|m| m.seq).max().unwrap_or(ZERO)
LogTail(l) ==
  LET seqs == {0} \cup {l[i].seq : i \in 1 .. Len(l)}
  IN  CHOOSE n \in seqs : \A m \in seqs : m <= n
-----------------------------------------------------------------------------
Init ==
  /\ frames = <<>> /\ torn = FALSE /\ behind = <<>> /\ metaHead = 0
  /\ up = TRUE /\ log = <<>> /\ head = 0
  /\ acked = {} /\ rejected = {} /\ unanswered = {}
  /\ damaged = FALSE /\ crashes = 0

AckedCalls == {m.call : m \in acked}

Unused(c) == c \notin AckedCalls \cup rejected \cup unanswered

\* The message a call gets: seq = head.next()
Prospective(c) == [seq |-> head + 1, call |-> c]

\* Mutant: append returns Ok with the frame still in a buffer.
WriteFrameBuffered(m) == UNCHANGED <<frames, behind, torn>>

\* append_log of a whole frame: it lands at the end of the file, which is
\* behind the torn bytes of an earlier failed write if there are any.
WriteFrame(m) ==
  /\ frames' = IF torn THEN frames ELSE Append(frames, m)
  /\ behind' = IF torn THEN Append(behind, m) ELSE behind
  /\ UNCHANGED torn

\* append_log of a part of a frame.  Bound: one partial write per run of the
\* daemon, so that one stretch of the file is out of frame at most.
WritePart == ~torn /\ torn' = TRUE /\ UNCHANGED <<frames, behind>>

\* Mutant: meta.head does not follow the log.
SendOkNoMeta(c) ==
  /\ up /\ Unused(c)
  /\ WriteFrame(Prospective(c))
  /\ head' = head + 1
  /\ log' = Append(log, Prospective(c))
  /\ acked' = acked \cup {Prospective(c)}
  /\ UNCHANGED <<up, metaHead, rejected, unanswered, damaged, crashes>>

\* store.append returned Ok: meta.head follows, then memory, then the reply.
SendOk(c) ==
  /\ up /\ Unused(c)
  /\ WriteFrame(Prospective(c))
  /\ metaHead' = MaxNat(metaHead, head + 1)
  /\ head' = head + 1
  /\ log' = Append(log, Prospective(c))
  /\ acked' = acked \cup {Prospective(c)}
  /\ UNCHANGED <<up, rejected, unanswered, damaged, crashes>>

\* store.append returned Err: head and log are left alone and the caller
\* gets a Storage error; the log file keeps what the failed write left.
SendErr(c, fault) ==
  /\ up /\ Unused(c) /\ fault \in IoFaults
  /\ CASE fault = "none"  -> UNCHANGED <<frames, torn, behind>>
       [] fault = "part"  -> WritePart
       [] fault \in {"frame", "meta"} -> WriteFrame(Prospective(c))
  /\ metaHead' = IF fault = "meta" THEN MaxNat(metaHead, head + 1) ELSE metaHead
  /\ rejected' = rejected \cup {c}
  /\ damaged' = (damaged \/ fault # "none")
  /\ UNCHANGED <<memVars, acked, unanswered, crashes>>

\* The daemon dies between requests or somewhere inside a send, having
\* written nothing, a part of the frame, the frame, or the frame and meta.
Crash ==
  /\ up /\ crashes < MaxCrashes
  /\ crashes' = crashes + 1
  /\ up' = FALSE /\ log' = <<>> /\ head' = 0
  /\ UNCHANGED <<acked, rejected, damaged>>
  /\ \/ UNCHANGED <<fileVars, unanswered>>
     \/ \E c \in Calls :
          /\ Unused(c)
          /\ unanswered' = unanswered \cup {c}
          /\ \/ UNCHANGED fileVars
             \/ WritePart /\ UNCHANGED metaHead
             \/ WriteFrame(Prospective(c)) /\ UNCHANGED metaHead
             \/ /\ WriteFrame(Prospective(c))
                /\ metaHead' = MaxNat(metaHead, head + 1)

\* Mutant: meta.head is trusted, frames above it are cut off.
LoadTrimsToMeta(k) ==
  /\ ~up /\ up' = TRUE
  /\ frames' = SelectSeq(frames, LAMBDA m : m.seq <= metaHead)
  /\ log' = frames' /\ head' = metaHead
  /\ torn' = FALSE /\ behind' = <<>>
  /\ UNCHANGED <<metaHead, callVars, crashes>>

\* read_log + load_one + Session::from_record.  A torn tail is cut off;
\* behind torn bytes the last k frames may be found again, never the first.
\* Skipped garbage stays framed as garbage, so it is dropped here.
Load(k) ==
  /\ ~up
  /\ LET found == frames \o SubSeq(behind, Len(behind) - k + 1, Len(behind))
     IN /\ frames' = found
        /\ log' = found
        /\ head' = MaxNat(metaHead, LogTail(found))
  /\ torn' = FALSE /\ behind' = <<>>
  /\ up' = TRUE
  /\ UNCHANGED <<metaHead, callVars, crashes>>

Restart == \E k \in 0 .. Len(behind) : (k = 0 \/ k < Len(behind)) /\ Load(k)

Next ==
  \/ \E c \in Calls : SendOk(c)
  \/ \E c \in Calls, fault \in AllIoFaults : SendErr(c, fault)
  \/ Crash
  \/ Restart

Spec == Init /\ [][Next]_vars
-----------------------------------------------------------------------------
(* The files, the daemon's memory and the answers given have their types.  *)
TypeOK ==
  /\ frames \in Seq(Frame) /\ behind \in Seq(Frame) /\ log \in Seq(Frame)
  /\ torn \in BOOLEAN /\ up \in BOOLEAN /\ damaged \in BOOLEAN
  /\ metaHead \in Nat /\ head \in Nat /\ crashes \in Nat
  /\ acked \subseteq Frame /\ rejected \subseteq Calls
  /\ unanswered \subseteq Calls

InLog(c, l) == \E i \in 1 .. Len(l) : l[i].call = c

Durable(m) == \E i \in 1 .. Len(frames) : frames[i] = m

(* "Append a single message to a session's log. Must be durable": an       *)
(* acknowledged Send is in the file where a restart is sure to find it,    *)
(* with the daemon dying at any point of an append, for as long as no      *)
(* failed append has left bytes in the file.                               *)
AckedIsDurable == ~damaged => \A m \in acked : Durable(m)

(* No seq is given out twice: the frames a restart reads have strictly     *)
(* increasing seqs (send assigns head.next(); load_one reconciles head).   *)
NoSecondFrameAtASeq ==
  ~damaged =>
    \A i, j \in 1 .. Len(frames) : i < j => frames[i].seq < frames[j].seq

(* A restart is invisible: load_one would rebuild exactly the log and the  *)
(* head the running daemon has.                                            *)
RestartIsTransparent ==
  up /\ ~damaged => /\ ~torn
                    /\ log = frames
                    /\ head = MaxNat(metaHead, LogTail(frames))

(* A Send that was answered with a Storage error never shows up in the     *)
(* log, not even after a restart ("the request is rejected").              *)
RejectedStaysOut ==
  ~damaged => \A c \in rejected : ~InLog(c, frames) /\ ~InLog(c, log)

(* Whatever I/O errors and crashes come between, no two acknowledged Sends *)
(* carry the same seq: meta.head is raised before the reply, and load_one  *)
(* takes the larger of it and the log tail, even when acknowledged frames  *)
(* are lost.                                                               *)
AckedSeqsDistinct == \A m, n \in acked : m.seq = n.seq => m = n

\* What the file holds, as the abstract log sees it.
Abs == INSTANCE DurableLog WITH
         entries <- [i \in 1 .. Len(frames) |-> frames[i].call],
         acked   <- AckedCalls

(* Registry::send over FsLogStore implements the durable log, crashes      *)
(* included: its steps are steps of the abstract log until a failed append *)
(* leaves bytes behind.                                                    *)
ImplementsDurableLog ==
  Abs!AbsInit /\ [][~damaged' => [Abs!AbsNext]_(Abs!absVars)]_vars

(* What a daemon that dies at any point of an append may not break, as     *)
(* long as no failed append has left bytes in the log file: acknowledged   *)
(* messages are found again, no seq has two frames, load_one rebuilds the  *)
(* memory that send left, and a refused Send stays out of the log.         *)
CrashSafety ==
  /\ AckedIsDurable
  /\ NoSecondFrameAtASeq
  /\ RestartIsTransparent
  /\ RejectedStaysOut
=============================================================================
