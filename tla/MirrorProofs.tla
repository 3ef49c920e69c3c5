---------------------------- MODULE MirrorProofs ----------------------------
(***************************************************************************)
(* Proofs about Mirror, for any number of messages, incarnations, epochs,  *)
(* joins and crashes.                                                      *)
(*                                                                         *)
(* The mirror is kept (once, in order, and on disk) from an invariant that *)
(* ties the forwarder's watermark and the directory to the mirror in the   *)
(* map.  That closes end the right incarnation, and that the last close is *)
(* accepted, follow from where epochs come from: none is ahead of the      *)
(* host, and a close at or above the epoch a ticket was minted with is of  *)
(* the ticket's own incarnation or a later one.                            *)
(***************************************************************************)
EXTENDS Mirror, SequenceTheorems, TLAPS

IsClose(e) == [type |-> "close", body |-> e] \in net

\* The forwarder and the directory belong to the mirror in the map; the forwarder
\* carries its epoch, and meta.json that or one of a bump that was reported failed.
BelongTogether ==
  /\ fwd.on => up /\ mir.state = "live" /\ fwd.epoch = mir.epoch
  /\ mir.state # "none" /\ disk.there => mir.epoch <= disk.epoch /\ disk.inc = mir.inc
  /\ mir.state # "none" \/ disk.there => joins >= 1

\* Nothing the joiner has, or can still receive, is ahead of the host.
BehindHost ==
  /\ \A e \in 0 .. MaxEpoch :
       IsClose(e) \/ [type |-> "beacon", body |-> e] \in net => e <= host.epoch
  /\ \A t \in tickets : t.epoch <= host.epoch /\ t.inc <= host.inc
  /\ mir.epoch <= host.epoch /\ mir.inc <= host.inc
  /\ disk.epoch <= host.epoch /\ disk.inc <= host.inc

\* A close that the epoch check lets through is of an incarnation that has ended.
ClosesEnd ==
  \A e \in 0 .. MaxEpoch : IsClose(e) =>
    /\ \A t \in tickets : e >= t.epoch => Ended(t.inc)
    /\ mir.state # "none" /\ e >= mir.epoch => Ended(mir.inc)
    /\ disk.there /\ e >= disk.epoch => Ended(disk.inc)
-----------------------------------------------------------------------------
(* Operators                                                               *)

\* The i-th message of a log once m has been inserted behind the first pos.
Shifted(l, pos, m, i) == IF i <= pos THEN l[i] ELSE IF i = pos + 1 THEN m ELSE l[i - 1]

(* Vec::insert at a partition point shifts what is behind it by one.       *)
LEMMA InsertedIs ==
  ASSUME NEW l \in Seq(Message), NEW pos \in 0 .. Len(l), NEW m \in Message
  PROVE  /\ Inserted(l, pos, m) \in Seq(Message)
         /\ Len(Inserted(l, pos, m)) = Len(l) + 1
         /\ DOMAIN Inserted(l, pos, m) = 1 .. Len(l) + 1
         /\ \A i \in 1 .. Len(l) + 1 : Inserted(l, pos, m)[i] = Shifted(l, pos, m, i)
<1> DEFINE front == SubSeq(l, 1, pos)
           back  == SubSeq(l, pos + 1, Len(l))
<1>1. /\ Len(l) \in Nat /\ pos \in Nat /\ pos <= Len(l)
      /\ \A i \in 1 .. Len(l) : l[i] \in Message
  OBVIOUS
<1>2. /\ front \in Seq(Message) /\ Len(front) = pos
      /\ \A i \in 1 .. pos : front[i] = l[i]
  BY <1>1, SubSeqProperties
<1>3. /\ back \in Seq(Message) /\ Len(back) = Len(l) - pos
      /\ \A i \in 1 .. Len(l) - pos : back[i] = l[pos + i]
  BY <1>1, SubSeqProperties
<1>4. Inserted(l, pos, m) = front \o <<m>> \o back
  <2>1. (pos + 1) - 1 = pos
    BY <1>1
  <2>2. Inserted(l, pos, m) = SubSeq(l, 1, (pos + 1) - 1) \o <<m>> \o back
    BY Zenon DEF Inserted, InsertAt
  <2>3. SubSeq(l, 1, (pos + 1) - 1) = front
    BY <2>1, Zenon
  <2> QED
    BY <2>2, <2>3, Zenon
<1> HIDE DEF front, back
<1>5. /\ front \o <<m>> \in Seq(Message) /\ Len(front \o <<m>>) = pos + 1
      /\ \A i \in 1 .. pos : (front \o <<m>>)[i] = l[i]
      /\ (front \o <<m>>)[pos + 1] = m
  BY <1>1, <1>2
<1> DEFINE fm == front \o <<m>>
<1> HIDE DEF fm
<1>6. /\ fm \o back \in Seq(Message)
      /\ Len(fm \o back) = Len(l) + 1
      /\ \A i \in 1 .. Len(l) + 1 : (fm \o back)[i] =
           IF i <= pos + 1 THEN fm[i] ELSE back[i - (pos + 1)]
  <2>1. fm \in Seq(Message) /\ Len(fm) = pos + 1
    BY <1>5 DEF fm
  <2>2. Len(fm) + Len(back) = Len(l) + 1
    BY <1>1, <1>3, <2>1
  <2> QED
    BY <2>1, <2>2, <1>3, ConcatProperties
<1>7. ASSUME NEW i \in 1 .. Len(l) + 1
      PROVE  (fm \o back)[i] = IF i <= pos THEN l[i]
                               ELSE IF i = pos + 1 THEN m ELSE l[i - 1]
  <2>1. CASE i <= pos + 1
    BY <1>1, <1>5, <1>6, <2>1 DEF fm
  <2>2. CASE i > pos + 1
    <3>1. i - (pos + 1) \in 1 .. Len(l) - pos /\ pos + (i - (pos + 1)) = i - 1
      BY <1>1, <2>2
    <3>2. ~(i <= pos + 1) /\ ~(i <= pos) /\ i # pos + 1
      BY <1>1, <2>2
    <3>3. (fm \o back)[i] = back[i - (pos + 1)]
      BY <1>6, <3>2, Zenon
    <3>4. back[i - (pos + 1)] = l[pos + (i - (pos + 1))]
      BY <1>3, <3>1, Zenon
    <3> QED
      BY <3>1, <3>2, <3>3, <3>4, Zenon
  <2>3. i <= pos + 1 \/ i > pos + 1
    BY <1>1
  <2> QED
    BY <2>1, <2>2, <2>3, Zenon
<1>8. Inserted(l, pos, m) = fm \o back
  BY <1>4, Zenon DEF fm
<1>9. DOMAIN (fm \o back) = 1 .. Len(l) + 1
  BY ONLY <1>6, LenProperties
<1>10. \A i \in 1 .. Len(l) + 1 : (fm \o back)[i] = Shifted(l, pos, m, i)
  BY <1>7, Zenon DEF Shifted
<1> QED
  BY ONLY <1>6, <1>8, <1>9, <1>10, Zenon

\* JoinedMirrorIsSorted, of any log.
Sorted(l) == \A i, j \in DOMAIN l : i < j => l[i].seq < l[j].seq

(* Inserting a seq that a sorted log does not have at the partition point  *)
(* for it leaves the log sorted.                                           *)
LEMMA InsertKeepsSorted ==
  ASSUME NEW l \in Seq(Message), NEW pos \in 0 .. Len(l), NEW m \in Message,
         Sorted(l), Crossing(l, m.seq, pos), ~IsDuplicate(l, m.seq, pos)
  PROVE  Sorted(Inserted(l, pos, m))
<1> DEFINE new == Inserted(l, pos, m)
           at(i) == Shifted(l, pos, m, i)
<1>1. /\ Len(l) \in Nat /\ DOMAIN l = 1 .. Len(l) /\ m.seq \in Nat
      /\ \A i \in 1 .. Len(l) : l[i].seq \in Nat
  <2>1. Len(l) \in Nat /\ DOMAIN l = 1 .. Len(l) /\ \A i \in 1 .. Len(l) : l[i] \in Message
    OBVIOUS
  <2>2. \A x \in Message : x.seq \in Nat
    BY ONLY MirrorAssumption DEF Message
  <2> QED
    BY <2>1, <2>2, Zenon
<1>2. /\ DOMAIN new = 1 .. Len(l) + 1
      /\ \A i \in 1 .. Len(l) + 1 : new[i] = at(i)
  BY InsertedIs, Zenon
<1>3. \A i \in 1 .. Len(l) : i <= pos => l[i].seq < m.seq
  <2> SUFFICES ASSUME NEW i \in 1 .. Len(l), i <= pos PROVE l[i].seq < m.seq
    OBVIOUS
  <2>1. l[pos].seq < m.seq /\ pos \in 1 .. Len(l)
    BY <1>1 DEF Crossing
  <2>2. l[i].seq <= l[pos].seq
    BY <1>1, <2>1 DEF Sorted
  <2> QED
    BY <1>1, <2>1, <2>2
<1>4. \A i \in 1 .. Len(l) : i > pos => m.seq < l[i].seq
  <2> SUFFICES ASSUME NEW i \in 1 .. Len(l), i > pos PROVE m.seq < l[i].seq
    OBVIOUS
  <2>1. pos + 1 \in 1 .. Len(l) /\ m.seq < l[pos + 1].seq
    BY <1>1 DEF Crossing, IsDuplicate
  <2>2. CASE i = pos + 1
    BY <2>1, <2>2
  <2>3. CASE i > pos + 1
    <3>1. l[pos + 1].seq < l[i].seq
      BY <1>1, <2>1, <2>3, Zenon DEF Sorted
    <3> QED
      BY <1>1, <2>1, <3>1
  <2> QED
    BY <1>1, <2>2, <2>3
<1>a. ASSUME NEW k \in 1 .. Len(l) + 1
      PROVE  /\ k \in Nat
             /\ k <= pos => at(k) = l[k] /\ k \in 1 .. Len(l)
             /\ k = pos + 1 => at(k) = m
             /\ k > pos + 1 => at(k) = l[k - 1] /\ k - 1 \in 1 .. Len(l) /\ k - 1 > pos
             /\ k <= pos \/ k = pos + 1 \/ k > pos + 1
  BY <1>1 DEF Shifted
<1>b. \A i, j \in 1 .. Len(l) : i < j => l[i].seq < l[j].seq
  BY <1>1, Zenon DEF Sorted
<1> HIDE DEF at
<1>5. ASSUME NEW i \in 1 .. Len(l) + 1, NEW j \in 1 .. Len(l) + 1, i < j
      PROVE  at(i).seq < at(j).seq
  <2>1. CASE j <= pos
    <3>1. at(i) = l[i] /\ at(j) = l[j] /\ i \in 1 .. Len(l) /\ j \in 1 .. Len(l)
      BY <1>1, <1>5, <1>a, <2>1
    <3> QED
      BY <1>5, <1>b, <3>1, Zenon
  <2>2. CASE j = pos + 1
    <3>1. at(i) = l[i] /\ i <= pos /\ i \in 1 .. Len(l) /\ at(j) = m
      BY <1>1, <1>5, <1>a, <2>2
    <3> QED
      BY <1>3, <3>1, Zenon
  <2>3. CASE j > pos + 1
    <3>1. at(j) = l[j - 1] /\ j - 1 \in 1 .. Len(l) /\ j - 1 > pos
      BY <1>a, <2>3
    <3>2. CASE i <= pos
      <4>1. at(i) = l[i] /\ i \in 1 .. Len(l) /\ i < j - 1
        BY <1>1, <1>a, <3>1, <3>2
      <4> QED
        BY <1>b, <3>1, <4>1, Zenon
    <3>3. CASE i = pos + 1
      <4>1. at(i) = m
        BY <1>a, <3>3, Zenon
      <4> QED
        BY <1>4, <3>1, <4>1, Zenon
    <3>4. CASE i > pos + 1
      <4>1. at(i) = l[i - 1] /\ i - 1 \in 1 .. Len(l) /\ i - 1 < j - 1
        BY <1>5, <1>a, <3>4
      <4> QED
        BY <1>b, <3>1, <4>1, Zenon
    <3> QED
      BY <1>a, <3>2, <3>3, <3>4, Zenon
  <2> QED
    BY <1>a, <2>1, <2>2, <2>3, Zenon
<1>6. ASSUME NEW i \in DOMAIN new, NEW j \in DOMAIN new, i < j
      PROVE  new[i].seq < new[j].seq
  <2>1. i \in 1 .. Len(l) + 1 /\ j \in 1 .. Len(l) + 1
    BY <1>2, Zenon
  <2>2. at(i).seq < at(j).seq
    BY <1>5, <1>6, <2>1, Zenon
  <2>3. new[i] = at(i) /\ new[j] = at(j)
    BY <1>2, <2>1, Zenon
  <2> QED
    BY <2>2, <2>3, Zenon
<1> QED
  BY <1>6 DEF Sorted

(* An append adds the frame to the file's content and keeps the rest.      *)
LEMMA AppendIs ==
  ASSUME NEW l \in Seq(Message), NEW m \in Message
  PROVE  Append(l, m) \in Seq(Message) /\ Range(Append(l, m)) = Range(l) \cup {m}
<1>1. /\ Append(l, m) \in Seq(Message) /\ DOMAIN l = 1 .. Len(l) /\ Len(l) \in Nat
      /\ DOMAIN Append(l, m) = 1 .. Len(l) + 1
      /\ \A i \in 1 .. Len(l) : Append(l, m)[i] = l[i]
      /\ Append(l, m)[Len(l) + 1] = m
  OBVIOUS
<1>2. 1 .. Len(l) + 1 = (1 .. Len(l)) \cup {Len(l) + 1}
  BY <1>1
<1> QED
  BY <1>1, <1>2 DEF Range

(* An insert brings nothing but the inserted message into the log.         *)
LEMMA InsertedRange ==
  ASSUME NEW l \in Seq(Message), NEW pos \in 0 .. Len(l), NEW m \in Message
  PROVE  Range(Inserted(l, pos, m)) \subseteq Range(l) \cup {m}
<1> DEFINE new == Inserted(l, pos, m)
<1>1. Len(l) \in Nat /\ DOMAIN l = 1 .. Len(l)
  OBVIOUS
<1>2. /\ DOMAIN new = 1 .. Len(l) + 1
      /\ \A i \in 1 .. Len(l) + 1 : new[i] = Shifted(l, pos, m, i)
  BY InsertedIs, Zenon
<1>3. ASSUME NEW i \in 1 .. Len(l) + 1
      PROVE  new[i] = m \/ \E j \in 1 .. Len(l) : new[i] = l[j]
  <2>1. new[i] = IF i <= pos THEN l[i] ELSE IF i = pos + 1 THEN m ELSE l[i - 1]
    BY <1>2, Zenon DEF Shifted
  <2>2. CASE i <= pos
    BY <1>1, <2>1, <2>2
  <2>3. CASE i > pos + 1
    <3>1. i - 1 \in 1 .. Len(l)
      BY <1>1, <2>3
    <3> QED
      BY <1>1, <2>1, <2>3, <3>1
  <2> QED
    BY <1>1, <2>1, <2>2, <2>3
<1> HIDE DEF new
<1>4. Range(new) \subseteq Range(l) \cup {m}
  BY <1>1, <1>2, <1>3, Zenon DEF Range
<1> QED
  BY <1>4 DEF new
-----------------------------------------------------------------------------
(* Types, and what belongs together                                        *)

(* The bounds are natural numbers, and there is room for one incarnation.  *)
LEMMA BoundsAreNat ==
  /\ MaxSeq \in Nat /\ MaxInc \in Nat /\ MaxEpoch \in Nat /\ MaxJoins \in Nat
  /\ MaxCrashes \in Nat /\ MaxFaults \in Nat /\ MaxInc >= 1
BY MirrorAssumption

\* TypeOK in two halves: the host's variables and the joiner's.
HostTypeOK ==
  /\ host \in [inc : 1 .. MaxInc, epoch : 0 .. MaxEpoch, open : BOOLEAN,
               len : 0 .. MaxSeq]
  /\ net \subseteq Posts /\ tickets \subseteq Ticket

MirType  == [state : {"none", "joining", "live"}, log : Seq(Message),
             epoch : 0 .. MaxEpoch, inc : 1 .. MaxInc, loaded : BOOLEAN,
             halved : BOOLEAN]
FwdType  == [on : BOOLEAN, epoch : 0 .. MaxEpoch]
TaskType == [msg : Message, of : 1 .. MaxJoins]
DiskType == [dir : BOOLEAN, there : BOOLEAN, frames : Seq(Message), torn : BOOLEAN,
             epoch : 0 .. MaxEpoch, inc : 1 .. MaxInc]

JoinerTypeOK ==
  /\ up \in BOOLEAN /\ mir \in MirType /\ fwd \in FwdType
  /\ tasks \subseteq TaskType /\ closers \subseteq {"close", "leave"}
  /\ disk \in DiskType /\ joins \in 0 .. MaxJoins /\ crashes \in 0 .. MaxCrashes
  /\ faults \in 0 .. MaxFaults

(* The values a mirror, a forwarder and a directory are reset to.          *)
LEMMA ResetTypes ==
  NoMirror \in MirType /\ Silent \in FwdType /\ NoDir \in DiskType
BY BoundsAreNat DEF NoMirror, Silent, NoDir, MirType, FwdType, DiskType

(* A directory that is gone has no meta.json, so no epoch of its own.      *)
LEMMA ResetEpochs == NoDir.epoch = 0 /\ NoDir.inc = 1 /\ ~NoDir.there
BY DEF NoDir

\* What every append leaves alone.
SameMeta(d) == d.there = disk.there /\ d.epoch = disk.epoch /\ d.inc = disk.inc

(* FsLogStore::append keeps meta.json's epoch and every frame of the file, *)
(* and adds its own unless it follows torn bytes.                          *)
LEMMA AppendedAre ==
  ASSUME disk \in DiskType, NEW m \in Message, NEW d \in Appended(m)
  PROVE  /\ d \in DiskType /\ SameMeta(d) /\ d.torn = disk.torn
         /\ Range(disk.frames) \subseteq Range(d.frames)
         /\ disk.torn \/ m \in Range(d.frames)
<1> DEFINE w == WithFrame(m)
<1>1. disk.frames \in Seq(Message)
  BY Zenon DEF DiskType
<1>2. /\ Append(disk.frames, m) \in Seq(Message)
      /\ Range(Append(disk.frames, m)) = Range(disk.frames) \cup {m}
  BY <1>1, AppendIs, Zenon
<1>3. w \in DiskType
  BY <1>2, Zenon DEF WithFrame, DiskType
<1>4. SameMeta(w) /\ w.torn = disk.torn /\ w.frames = Append(disk.frames, m)
  BY Zenon DEF WithFrame, DiskType, SameMeta
<1>5. d = w \/ (d = disk /\ disk.torn)
  BY Zenon DEF Appended
<1>6. SameMeta(disk)
  BY Zenon DEF SameMeta
<1> HIDE DEF w
<1>7. Range(disk.frames) \subseteq Range(w.frames) /\ m \in Range(w.frames)
  BY <1>2, <1>4, Zenon
<1> QED
  BY <1>3, <1>4, <1>5, <1>6, <1>7, Zenon

(* So does one that fails or is cut short, but it may tear the file.       *)
LEMMA CutShortAre ==
  ASSUME disk \in DiskType, NEW m \in Message, NEW d \in CutShort(m)
  PROVE  /\ d \in DiskType /\ SameMeta(d) /\ (disk.torn => d.torn)
         /\ Range(disk.frames) \subseteq Range(d.frames)
<1> DEFINE w == [disk EXCEPT !.torn = TRUE]
<1>1. w \in DiskType
  BY Zenon DEF DiskType
<1>2. SameMeta(w) /\ w.torn /\ w.frames = disk.frames
  BY Zenon DEF DiskType, SameMeta
<1>3. d = disk \/ d = w \/ d \in Appended(m)
  BY Zenon DEF CutShort
<1>4. SameMeta(disk)
  BY Zenon DEF SameMeta
<1> HIDE DEF w
<1> QED
  BY <1>1, <1>2, <1>3, <1>4, AppendedAre, Zenon

(* A delete that fails keeps meta.json or not.                             *)
LEMMA RemnantsAre ==
  ASSUME disk \in DiskType, NEW d \in Remnants
  PROVE  /\ d \in DiskType
         /\ \/ SameMeta(d)
            \/ ~d.there /\ d.epoch = 0 /\ d.inc = 1
<1>1. PICK meta \in BOOLEAN, log \in BOOLEAN : d = Remnant(meta, log)
  BY DEF Remnants
<1>2. /\ disk.there \in BOOLEAN /\ disk.torn \in BOOLEAN /\ disk.frames \in Seq(Message)
      /\ disk.epoch \in 0 .. MaxEpoch /\ disk.inc \in 1 .. MaxInc
      /\ DOMAIN disk = {"dir", "there", "frames", "torn", "epoch", "inc"}
      /\ disk.dir \in BOOLEAN
  BY DEF DiskType
<1>3. /\ 0 \in 0 .. MaxEpoch /\ 1 \in 1 .. MaxInc
  BY BoundsAreNat
<1>e. <<>> \in Seq(Message)
  OBVIOUS
<1>4. /\ d.there = (disk.there /\ meta)
      /\ d.epoch = IF meta THEN disk.epoch ELSE 0
      /\ d.inc = IF meta THEN disk.inc ELSE 1
      /\ d.frames = IF log THEN disk.frames ELSE <<>>
      /\ d.torn = (disk.torn /\ log)
      /\ d.dir = disk.dir
      /\ d = [x \in {"dir", "there", "frames", "torn", "epoch", "inc"} |-> d[x]]
  BY <1>1, <1>2, Zenon DEF Remnant
<1>5. /\ d.there \in BOOLEAN /\ d.torn \in BOOLEAN /\ d.frames \in Seq(Message)
      /\ d.epoch \in 0 .. MaxEpoch /\ d.inc \in 1 .. MaxInc /\ d.dir \in BOOLEAN
  BY <1>2, <1>3, <1>4, <1>e, Zenon
<1>6. d \in DiskType
  BY <1>4, <1>5, Zenon DEF DiskType
<1>7. SameMeta(d) \/ (~d.there /\ d.epoch = 0 /\ d.inc = 1)
  BY <1>2, <1>4, Zenon DEF SameMeta
<1> QED
  BY <1>6, <1>7

(* A step of the running daemon leaves the host alone and counts faults.   *)
LEMMA WorkingIs ==
  ASSUME faults \in 0 .. MaxFaults, NEW fault, Working(fault)
  PROVE  /\ up /\ up' = up /\ crashes' = crashes /\ UNCHANGED hostVars
         /\ faults' \in 0 .. MaxFaults
<1>1. up /\ up' = up /\ crashes' = crashes /\ UNCHANGED hostVars
  BY Zenon DEF Working
<1>2. CASE fault
  <2>1. faults < MaxFaults /\ faults' = faults + 1
    BY <1>2, Zenon DEF Working
  <2> QED
    BY <1>1, <2>1, BoundsAreNat
<1>3. CASE ~fault
  BY <1>1, <1>3, Zenon DEF Working
<1> QED
  BY <1>2, <1>3, Zenon

(* Every step keeps the types.                                             *)
LEMMA TypeStep ==
  ASSUME TypeOK, BelongTogether, [Next]_vars
  PROVE  TypeOK'
<1> USE BoundsAreNat
<1> DEFINE Types == HostTypeOK /\ JoinerTypeOK
<1>0. (TypeOK => Types) /\ (Types' => TypeOK')
  BY Zenon DEF TypeOK, HostTypeOK, JoinerTypeOK, MirType, FwdType, TaskType, DiskType
<1> SUFFICES ASSUME Types PROVE Types'
  BY <1>0
<1>1. CASE HostSend
  <2>1. [type |-> "msg", body |-> [inc |-> host.inc, seq |-> host.len + 1]] \in Posts
    BY <1>1 DEF HostSend, HostTypeOK, Posts, Message
  <2>2. HostTypeOK'
    BY <1>1, <2>1 DEF HostSend, HostTypeOK, Publish
  <2> QED
    BY <1>1, <2>2 DEF HostSend, JoinerIdle, bounds, JoinerTypeOK
<1>2. CASE HostResume
  <2>1. [type |-> "beacon", body |-> host.epoch + 1] \in Posts
    BY <1>2 DEF HostResume, HostTypeOK, Posts
  <2>2. [inc |-> host.inc, epoch |-> host.epoch + 1] \in Ticket
    BY <1>2 DEF HostResume, HostTypeOK, Ticket
  <2>3. HostTypeOK'
    BY <1>2, <2>1, <2>2 DEF HostResume, HostTypeOK, Publish
  <2> QED
    BY <1>2, <2>3, Zenon DEF HostResume, JoinerIdle, bounds, JoinerTypeOK
<1>3. CASE HostLeave
  <2>1. [type |-> "close", body |-> host.epoch] \in Posts
    BY <1>3, Zenon DEF HostLeave, HostTypeOK, Posts
  <2>2. HostTypeOK'
    BY <1>3, <2>1, Zenon DEF HostLeave, HostTypeOK, Publish
  <2> QED
    BY <1>3, <2>2, Zenon DEF HostLeave, JoinerIdle, bounds, JoinerTypeOK
<1>4. CASE HostCreate
  <2>1. [inc |-> host.inc + 1, epoch |-> host.epoch + 1] \in Ticket
    BY <1>4 DEF HostCreate, HostTypeOK, Ticket, EpochFloor
  <2>2. HostTypeOK'
    BY <1>4, <2>1 DEF HostCreate, HostTypeOK, EpochFloor
  <2> QED
    BY <1>4, <2>2 DEF HostCreate, JoinerIdle, bounds, JoinerTypeOK
<1>5. UNCHANGED hostVars => HostTypeOK'
  BY Zenon DEF HostTypeOK, hostVars
<1>w. ASSUME NEW fault, Working(fault)
      PROVE  /\ HostTypeOK' /\ up' \in BOOLEAN /\ crashes' \in 0 .. MaxCrashes
             /\ faults' \in 0 .. MaxFaults
  BY <1>5, <1>w, WorkingIs, Zenon DEF JoinerTypeOK
<1>i. Idle => /\ HostTypeOK' /\ up' \in BOOLEAN /\ crashes' \in 0 .. MaxCrashes
              /\ faults' \in 0 .. MaxFaults
  BY <1>w, Zenon DEF Idle
<1>d. ASSUME NEW t \in tasks, disk' \in CutShort(t.msg) PROVE disk' \in DiskType
  <2>1. t.msg \in Message
    BY Zenon DEF JoinerTypeOK, TaskType
  <2> QED
    BY <1>d, <2>1, CutShortAre, Zenon DEF JoinerTypeOK
<1>r. disk' \in Remnants => disk' \in DiskType
  BY RemnantsAre, Zenon DEF JoinerTypeOK
<1>6. ASSUME NEW t \in tickets, Claim(t) PROVE Types'
  <2>1. t.epoch \in 0 .. MaxEpoch /\ t.inc \in 1 .. MaxInc
    BY Zenon DEF HostTypeOK, Ticket
  <2>2. mir' \in MirType
    BY <1>6, <2>1, ResetTypes, Zenon DEF Claim, MirType
  <2>3. disk' \in DiskType
    BY <1>6, <2>1, Zenon DEF Claim, DiskType, JoinerTypeOK
  <2>4. joins' \in 0 .. MaxJoins
    BY <1>6 DEF Claim, JoinerTypeOK
  <2> QED
    BY <1>i, <1>6, <2>2, <2>3, <2>4, Zenon DEF Claim, JoinerTypeOK
<1>7. CASE JoinOk
  BY <1>i, <1>7, Zenon DEF JoinOk, JoinerTypeOK, MirType, FwdType, Subscribed
<1>8. CASE Resubscribe
  BY <1>i, <1>8, Zenon DEF Resubscribe, JoinerTypeOK, MirType, FwdType, Subscribed
<1>9. CASE JoinFails
  BY <1>r, <1>w, <1>9, ResetTypes, Zenon DEF JoinFails, JoinerTypeOK
<1>10. ASSUME NEW m \in Message, Receive(m) PROVE Types'
  <2>1. joins \in 1 .. MaxJoins
    BY <1>10 DEF Receive, Listening, BelongTogether, JoinerTypeOK, FwdType
  <2>2. tasks' \subseteq TaskType
    BY <1>10, <2>1 DEF Receive, JoinerTypeOK, TaskType
  <2> QED
    BY <1>i, <1>10, <2>2, Zenon DEF Receive, JoinerTypeOK
<1>11. ASSUME NEW t \in tasks PROVE t.msg \in Message
  BY Zenon DEF JoinerTypeOK, TaskType
<1>12. ASSUME NEW t \in tasks, NEW pos \in 0 .. Len(mir.log), ApplyOk(t, pos)
       PROVE  Types'
  <2>1. Inserted(mir.log, pos, t.msg) \in Seq(Message)
    BY <1>11, InsertedIs, Zenon DEF JoinerTypeOK, MirType
  <2>2. mir' \in MirType
    BY <1>12, <2>1, Zenon DEF ApplyOk, JoinerTypeOK, MirType
  <2>3. disk' \in DiskType
    BY <1>11, <1>12, AppendedAre, Zenon DEF ApplyOk, JoinerTypeOK
  <2> QED
    BY <1>i, <1>12, <2>2, <2>3, Zenon DEF ApplyOk, JoinerTypeOK
<1>13. ASSUME NEW t \in tasks, NEW pos \in 0 .. Len(mir.log), ApplyDuplicate(t, pos)
       PROVE  Types'
  BY <1>i, <1>13, Zenon DEF ApplyDuplicate, JoinerTypeOK
<1>14. ASSUME NEW t \in tasks, ApplyErr(t) \/ ApplyStale(t) PROVE Types'
  BY <1>d, <1>w, <1>14, Zenon DEF ApplyErr, ApplyStale, JoinerTypeOK
<1>15. ASSUME NEW e \in 0 .. MaxEpoch, HearBeacon(e) PROVE Types'
  <2>1. mir' \in MirType /\ disk' \in DiskType
    BY <1>15, Zenon DEF HearBeacon, Advanced, JoinerTypeOK, MirType, DiskType
  <2>2. fwd' \in FwdType
    BY <1>15 DEF HearBeacon, JoinerTypeOK, FwdType
  <2> QED
    BY <1>i, <1>15, <2>1, <2>2, Zenon DEF HearBeacon, JoinerTypeOK
<1>b. ASSUME NEW e \in 0 .. MaxEpoch, HearBeaconErr(e) PROVE Types'
  <2>1. disk' \in DiskType
    BY <1>b, Zenon DEF HearBeaconErr, JoinerTypeOK, DiskType
  <2> QED
    BY <1>b, <1>w, <2>1, Zenon DEF HearBeaconErr, JoinerTypeOK
<1>t. ASSUME NEW c \in {"close", "leave"}, Deletes(c), UNCHANGED <<fwd, tasks, joins>>
      PROVE  Types'
  <2>1. CASE Idle /\ disk' = NoDir /\ closers' = closers \cup {c} /\ UNCHANGED mir
    BY <1>i, <1>t, <2>1, ResetTypes, Zenon DEF JoinerTypeOK
  <2>2. CASE /\ Working(TRUE) /\ disk' \in Remnants /\ UNCHANGED closers
             /\ mir' = [mir EXCEPT !.halved = @ \/ disk' # disk]
    <3>1. mir' \in MirType
      BY <2>2, Zenon DEF JoinerTypeOK, MirType
    <3> QED
      BY <1>r, <1>t, <1>w, <2>2, <3>1, Zenon DEF JoinerTypeOK
  <2> QED
    BY <1>t, <2>1, <2>2, Zenon DEF Deletes
<1>16. ASSUME NEW e \in 0 .. MaxEpoch, HearClose(e) PROVE Types'
  BY <1>16, <1>t, Zenon DEF HearClose
<1>17. CASE Leave
  BY <1>17, <1>t, Zenon DEF Leave
<1>18. ASSUME NEW c \in closers, Finish(c) PROVE Types'
  BY <1>i, <1>18, ResetTypes, Zenon DEF Finish, JoinerTypeOK
<1>19. CASE Crash
  <2>1. disk' \in DiskType
    <3>2. \A e \in fwd.epoch + 1 .. MaxEpoch : e \in 0 .. MaxEpoch
      BY DEF JoinerTypeOK, FwdType
    <3>3. \A e \in 0 .. MaxEpoch : [disk EXCEPT !.epoch = e] \in DiskType
      BY Zenon DEF JoinerTypeOK, DiskType
    <3> QED
      BY <1>19, <1>d, <1>r, <3>2, <3>3, Zenon DEF Crash, JoinerTypeOK
  <2>2. crashes' \in 0 .. MaxCrashes
    BY <1>19 DEF Crash, JoinerTypeOK
  <2> QED
    BY <1>5, <1>19, <2>1, <2>2, ResetTypes, Zenon DEF Crash, JoinerTypeOK
<1>20. CASE Restart
  <2>1. mir' \in MirType
    BY <1>20, ResetTypes, Zenon DEF Restart, JoinerTypeOK, MirType, DiskType
  <2>2. disk' \in DiskType
    BY <1>20, Zenon DEF Restart, JoinerTypeOK, DiskType
  <2> QED
    BY <1>5, <1>20, <2>1, <2>2, Zenon DEF Restart, bounds, JoinerTypeOK
<1>21. CASE UNCHANGED vars
  BY <1>5, <1>21, Zenon DEF vars, hostVars, JoinerTypeOK
<1> QED
  BY <1>1, <1>2, <1>3, <1>4, <1>6, <1>7, <1>8, <1>9, <1>10, <1>12, <1>13, <1>14,
     <1>15, <1>b, <1>16, <1>17, <1>18, <1>19, <1>20, <1>21, Zenon DEF Next

\* The host's fields are numbers the provers can compare.
EpochNumbers ==
  /\ host.epoch \in Nat /\ host.inc \in Nat /\ host.open \in BOOLEAN
  /\ mir.epoch \in Nat /\ mir.inc \in Nat /\ disk.epoch \in Nat /\ disk.inc \in Nat
  /\ \A t \in tickets : t.epoch \in Nat /\ t.inc \in Nat
  /\ 0 .. MaxEpoch \subseteq Nat

(* Their types, from TypeOK.                                               *)
LEMMA EpochsAreNat == TypeOK => EpochNumbers
<1> SUFFICES ASSUME TypeOK PROVE EpochNumbers
  OBVIOUS
<1>1. 0 .. MaxEpoch \subseteq Nat /\ 1 .. MaxInc \subseteq Nat
  BY BoundsAreNat
<1>2. /\ host.epoch \in 0 .. MaxEpoch /\ host.inc \in 1 .. MaxInc /\ host.open \in BOOLEAN
      /\ mir.epoch \in 0 .. MaxEpoch /\ mir.inc \in 1 .. MaxInc
      /\ disk.epoch \in 0 .. MaxEpoch /\ disk.inc \in 1 .. MaxInc
  BY Zenon DEF TypeOK
<1>3. \A t \in tickets : t.epoch \in 0 .. MaxEpoch /\ t.inc \in 1 .. MaxInc
  BY Zenon DEF TypeOK, Ticket
<1> QED
  BY <1>1, <1>2, <1>3, Zenon DEF EpochNumbers

(* The forwarder and the directory stay with the mirror they belong to:    *)
(* in particular the live watermark of the Joiner role and the epoch that  *)
(* advance_host_epoch_watermark persists move together.                    *)
LEMMA BelongStep ==
  ASSUME TypeOK, BelongTogether, [Next]_vars
  PROVE  BelongTogether'
<1> USE DEF BelongTogether
<1>0. /\ mir \in MirType /\ fwd \in FwdType /\ disk \in DiskType
      /\ joins \in Nat /\ \A t \in tickets : t.epoch \in Nat
  <2>1. MaxEpoch \in Nat /\ MaxJoins \in Nat
    BY BoundsAreNat, Zenon
  <2>2. 0 .. MaxEpoch \subseteq Nat /\ 0 .. MaxJoins \subseteq Nat
    BY ONLY <2>1
  <2>3. mir \in MirType /\ fwd \in FwdType /\ disk \in DiskType
    BY Zenon DEF TypeOK, MirType, FwdType, DiskType
  <2>4. joins \in Nat /\ \A t \in tickets : t.epoch \in Nat
    BY <2>2, Zenon DEF TypeOK, Ticket
  <2> QED
    BY <2>3, <2>4, Zenon
<1>w. ASSUME NEW fault, Working(fault) PROVE up' = up
  BY <1>w, Zenon DEF Working
<1>i. Idle => up' = up
  BY <1>w, Zenon DEF Idle
<1>r. disk' \in Remnants => SameMeta(disk') \/ ~disk'.there
  BY <1>0, RemnantsAre, Zenon
<1>m. mir.epoch \in Nat /\ disk.epoch \in Nat
  BY EpochsAreNat, Zenon DEF EpochNumbers
<1>1. CASE HostSend \/ HostResume \/ HostLeave \/ HostCreate
  BY <1>1, Zenon DEF HostSend, HostResume, HostLeave, HostCreate, JoinerIdle, bounds
<1>2. ASSUME NEW t \in tickets, Claim(t) PROVE BelongTogether'
  <2>1. /\ mir'.epoch = t.epoch /\ mir'.inc = t.inc /\ mir'.state = "joining"
        /\ disk'.epoch = t.epoch /\ disk'.inc = t.inc /\ disk'.there
        /\ joins' = joins + 1 /\ fwd' = fwd /\ mir.state = "none"
    BY <1>0, <1>2, Zenon DEF Claim, NoMirror, DiskType
  <2>2. ~fwd.on
    BY <2>1, Zenon
  <2>3. joins' >= 1 /\ t.epoch <= t.epoch
    BY <1>0, <2>1
  <2> QED
    BY <2>1, <2>2, <2>3, Zenon
<1>3. CASE JoinOk
  BY <1>0, <1>i, <1>3, Zenon DEF JoinOk, MirType, Subscribed, Idle, Working
<1>4. CASE Resubscribe
  BY <1>0, <1>4, Zenon DEF Resubscribe, Subscribed, Idle, Working
<1>5. CASE JoinFails
  <2>1. /\ mir.state = "joining" /\ mir'.state = "none" /\ fwd' = fwd /\ joins' = joins
    BY <1>5, Zenon DEF JoinFails, NoMirror
  <2>2. ~fwd.on /\ joins >= 1
    BY <2>1
  <2> QED
    BY <2>1, <2>2, Zenon
<1>6. ASSUME NEW m \in Message, Receive(m) PROVE BelongTogether'
  BY <1>i, <1>6, Zenon DEF Receive
<1>7. ASSUME NEW t \in tasks, NEW pos \in 0 .. Len(mir.log), ApplyOk(t, pos)
      PROVE  BelongTogether'
  <2>1. SameMeta(disk')
    BY <1>0, <1>7, AppendedAre, Zenon DEF ApplyOk, TypeOK
  <2>2. mir'.state = mir.state /\ mir'.epoch = mir.epoch /\ mir'.inc = mir.inc
    BY <1>0, <1>7, Zenon DEF ApplyOk, MirType
  <2> QED
    BY <1>i, <1>7, <2>1, <2>2, Zenon DEF ApplyOk, SameMeta
<1>8. ASSUME NEW t \in tasks, NEW pos \in 0 .. Len(mir.log), ApplyDuplicate(t, pos)
      PROVE  BelongTogether'
  BY <1>i, <1>8, Zenon DEF ApplyDuplicate
<1>9. ASSUME NEW t \in tasks, ApplyErr(t) \/ ApplyStale(t) PROVE BelongTogether'
  <2>1. SameMeta(disk')
    BY <1>0, <1>9, CutShortAre, Zenon DEF ApplyErr, ApplyStale, TypeOK
  <2> QED
    BY <1>w, <1>9, <2>1, Zenon DEF ApplyErr, ApplyStale, SameMeta
<1>10. ASSUME NEW e \in 0 .. MaxEpoch, HearBeacon(e) PROVE BelongTogether'
  <2>1. /\ fwd'.epoch = e /\ fwd.on /\ e > fwd.epoch /\ joins' = joins
        /\ mir.state = "live" /\ fwd.epoch = mir.epoch /\ up
    BY <1>0, <1>10, Zenon DEF HearBeacon, Listening, FwdType
  <2>2. /\ mir'.state = mir.state /\ mir'.inc = mir.inc /\ mir'.epoch = e
        /\ disk'.there = disk.there /\ disk'.inc = disk.inc
        /\ (disk.there => disk'.epoch = e)
    BY <1>0, <1>10, <2>1, Zenon DEF HearBeacon, Advanced, MirType, DiskType
  <2>3. e <= e
    BY BoundsAreNat
  <2> QED
    BY <1>i, <1>10, <2>1, <2>2, <2>3, Zenon DEF HearBeacon
<1>b. ASSUME NEW e \in 0 .. MaxEpoch, HearBeaconErr(e) PROVE BelongTogether'
  <2>1. /\ disk'.epoch = e /\ disk'.inc = disk.inc /\ disk'.there = disk.there
        /\ e > mir.epoch
    BY <1>0, <1>b, Zenon DEF HearBeaconErr, DiskType
  <2>2. mir.epoch <= e
    BY <1>m, <2>1, BoundsAreNat
  <2> QED
    BY <1>w, <1>b, <2>1, <2>2, Zenon DEF HearBeaconErr
<1>t. ASSUME NEW c, Deletes(c), UNCHANGED <<fwd, tasks, joins>>, mir.state # "none"
      PROVE  BelongTogether'
  <2>1. SameMeta(disk') \/ ~disk'.there
    BY <1>r, <1>t, ResetEpochs, Zenon DEF Deletes
  <2>2. mir'.state = mir.state /\ mir'.epoch = mir.epoch /\ mir'.inc = mir.inc
    BY <1>0, <1>t, Zenon DEF Deletes, MirType
  <2>3. up' = up
    BY <1>i, <1>t, <1>w, Zenon DEF Deletes
  <2> QED
    BY <1>t, <2>1, <2>2, <2>3, Zenon DEF SameMeta
<1>11. ASSUME NEW e \in 0 .. MaxEpoch, HearClose(e) PROVE BelongTogether'
  BY <1>11, <1>t, Zenon DEF HearClose
<1>12. CASE Leave
  <2>1. mir.state # "none"
    BY <1>12, Zenon DEF Leave
  <2> QED
    BY <1>12, <1>t, <2>1, Zenon DEF Leave
<1>13. ASSUME NEW c \in closers, Finish(c) PROVE BelongTogether'
  BY <1>0, <1>13, Zenon DEF Finish, NoMirror, Silent
<1>14. CASE Crash
  <2>1. disk'.there => disk.there
    <3>1. \A t \in tasks : disk' \in CutShort(t.msg) => SameMeta(disk')
      BY <1>0, CutShortAre, Zenon DEF TypeOK
    <3>2. \A e : disk' = [disk EXCEPT !.epoch = e] => disk'.there = disk.there
      BY <1>0, Zenon DEF DiskType
    <3> QED
      BY <1>14, <1>r, <3>1, <3>2, Zenon DEF Crash, SameMeta
  <2> QED
    BY <1>0, <1>14, <2>1, Zenon DEF Crash, NoMirror, Silent
<1>15. CASE Restart
  <2>1. /\ disk'.there = disk.there /\ disk'.epoch = disk.epoch /\ disk'.inc = disk.inc
        /\ fwd' = fwd /\ joins' = joins /\ ~up
    BY <1>0, <1>15, Zenon DEF Restart, bounds, DiskType
  <2>2. disk.there => mir'.epoch = disk.epoch /\ mir'.inc = disk.inc
    BY <1>15, Zenon DEF Restart
  <2>3. ~disk.there => mir'.state = "none"
    BY <1>15, Zenon DEF Restart, NoMirror
  <2>4. disk.epoch <= disk.epoch
    BY <1>m
  <2> QED
    BY <2>1, <2>2, <2>3, <2>4, Zenon
<1>16. CASE UNCHANGED vars
  BY <1>16, Zenon DEF vars
<1> QED
  BY <1>1, <1>2, <1>3, <1>4, <1>5, <1>6, <1>7, <1>8, <1>9, <1>10, <1>b, <1>11, <1>12,
     <1>13, <1>14, <1>15, <1>16, Zenon DEF Next

(* The types of the mirror, its forwarder, its tasks and its directory,    *)
(* and that they belong together.                                          *)
LEMMA TypesHold == Spec => [](TypeOK /\ BelongTogether)
<1>1. Init => TypeOK /\ BelongTogether
  <2> SUFFICES ASSUME Init PROVE TypeOK /\ BelongTogether
    OBVIOUS
  <2>1. BelongTogether
    BY Zenon DEF Init, BelongTogether, NoMirror, Silent, NoDir
  <2>2. /\ host \in [inc : 1 .. MaxInc, epoch : 0 .. MaxEpoch, open : BOOLEAN,
                     len : 0 .. MaxSeq]
        /\ tickets \subseteq Ticket
    BY BoundsAreNat DEF Init, Ticket
  <2>3. TypeOK
    BY <2>2, BoundsAreNat, ResetTypes DEF Init, TypeOK, MirType, FwdType, DiskType
  <2> QED
    BY <2>1, <2>3, Zenon
<1>2. TypeOK /\ BelongTogether /\ [Next]_vars => (TypeOK /\ BelongTogether)'
  BY TypeStep, BelongStep, Zenon
<1> QED
  BY <1>1, <1>2, PTL DEF Spec
-----------------------------------------------------------------------------
(* What a mirror keeps                                                     *)

(* Apply tasks that take the session's lock in any order keep a joined     *)
(* mirror sorted.                                                          *)
LEMMA SortedStep ==
  ASSUME TypeOK, JoinedMirrorIsSorted, [Next]_vars
  PROVE  JoinedMirrorIsSorted'
<1>0. mir \in MirType /\ \A t \in tasks : t.msg \in Message
  BY Zenon DEF TypeOK, MirType
<1>1. CASE mir' = mir
  BY <1>1, Zenon DEF JoinedMirrorIsSorted
<1>2. CASE mir' = NoMirror
  BY <1>2, Zenon DEF JoinedMirrorIsSorted, NoMirror
<1>3. ASSUME NEW t \in tickets, Claim(t) PROVE JoinedMirrorIsSorted'
  <2>1. mir'.log = <<>>
    BY <1>3, Zenon DEF Claim, NoMirror
  <2> QED
    BY <2>1 DEF JoinedMirrorIsSorted
<1>4. CASE JoinOk
  <2>1. mir'.log = mir.log /\ mir'.loaded = mir.loaded /\ mir.state # "none"
    BY <1>0, <1>4, Zenon DEF JoinOk, MirType
  <2> QED
    BY <2>1, Zenon DEF JoinedMirrorIsSorted
<1>5. ASSUME NEW t \in tasks, NEW pos \in 0 .. Len(mir.log), ApplyOk(t, pos)
      PROVE  JoinedMirrorIsSorted'
  <2>1. /\ mir'.log = Inserted(mir.log, pos, t.msg) /\ mir'.state = mir.state
        /\ mir'.loaded = mir.loaded
    BY <1>0, <1>5, Zenon DEF ApplyOk, MirType
  <2>2. /\ mir.log \in Seq(Message) /\ Crossing(mir.log, t.msg.seq, pos)
        /\ ~IsDuplicate(mir.log, t.msg.seq, pos)
    BY <1>0, <1>5, Zenon DEF ApplyOk, MirType
  <2> SUFFICES ASSUME mir.state # "none", ~mir.loaded
               PROVE  Sorted(Inserted(mir.log, pos, t.msg))
    BY <2>1, Zenon DEF JoinedMirrorIsSorted, Sorted
  <2>3. Sorted(mir.log)
    BY Zenon DEF JoinedMirrorIsSorted, Sorted
  <2> QED
    BY <1>0, <2>2, <2>3, InsertKeepsSorted, Zenon
<1>6. ASSUME NEW e \in 0 .. MaxEpoch, HearBeacon(e) PROVE JoinedMirrorIsSorted'
  <2>1. mir'.log = mir.log /\ mir'.loaded = mir.loaded /\ mir'.state = mir.state
    BY <1>0, <1>6, Zenon DEF HearBeacon, Advanced, MirType
  <2> QED
    BY <2>1, Zenon DEF JoinedMirrorIsSorted
<1>7. CASE Restart
  <2>1. mir' = NoMirror \/ mir'.loaded
    BY <1>7, Zenon DEF Restart
  <2> QED
    BY <1>2, <2>1, Zenon DEF JoinedMirrorIsSorted
<1>8. CASE HostSend \/ HostResume \/ HostLeave \/ HostCreate
  BY <1>1, <1>8, Zenon DEF HostSend, HostResume, HostLeave, HostCreate, JoinerIdle
<1>9. ASSUME NEW m \in Message, Receive(m) PROVE JoinedMirrorIsSorted'
  BY <1>1, <1>9, Zenon DEF Receive
<1>10. ASSUME NEW t \in tasks, NEW pos \in 0 .. Len(mir.log), ApplyDuplicate(t, pos)
       PROVE  JoinedMirrorIsSorted'
  BY <1>1, <1>10, Zenon DEF ApplyDuplicate
<1>11. ASSUME NEW t \in tasks, ApplyErr(t) \/ ApplyStale(t) PROVE JoinedMirrorIsSorted'
  BY <1>1, <1>11, Zenon DEF ApplyErr, ApplyStale
<1>t. ASSUME NEW c, Deletes(c) PROVE JoinedMirrorIsSorted'
  <2>1. mir'.log = mir.log /\ mir'.loaded = mir.loaded /\ mir'.state = mir.state
    BY <1>0, <1>t, Zenon DEF Deletes, MirType
  <2> QED
    BY <2>1, Zenon DEF JoinedMirrorIsSorted
<1>12. ASSUME NEW e \in 0 .. MaxEpoch, HearClose(e) \/ HearBeaconErr(e)
       PROVE  JoinedMirrorIsSorted'
  BY <1>1, <1>12, <1>t, Zenon DEF HearClose, HearBeaconErr
<1>13. CASE Resubscribe \/ Leave \/ UNCHANGED vars
  BY <1>1, <1>13, <1>t, Zenon DEF Resubscribe, Leave, vars
<1>14. CASE JoinFails
  BY <1>2, <1>14, Zenon DEF JoinFails
<1>15. ASSUME NEW c \in closers, Finish(c) PROVE JoinedMirrorIsSorted'
  BY <1>2, <1>15, Zenon DEF Finish
<1>16. CASE Crash
  BY <1>2, <1>16, Zenon DEF Crash
<1> QED
  BY <1>3, <1>4, <1>5, <1>6, <1>7, <1>8, <1>9, <1>10, <1>11, <1>12, <1>13, <1>14,
     <1>15, <1>16, Zenon DEF Next

(* Store before memory: every step leaves on disk what memory holds.       *)
LEMMA KeepStep ==
  ASSUME TypeOK, BelongTogether, RestartKeepsTheMirror, [Next]_vars
  PROVE  RestartKeepsTheMirror'
<1>0. /\ mir \in MirType /\ fwd \in FwdType /\ disk \in DiskType
      /\ \A t \in tasks : t.msg \in Message
      /\ \A t \in tickets : t.epoch \in Nat
      /\ 0 .. MaxEpoch \subseteq Nat
  <2>1. MaxEpoch \in Nat
    BY BoundsAreNat, Zenon
  <2>2. 0 .. MaxEpoch \subseteq Nat
    BY ONLY <2>1
  <2>3. mir \in MirType /\ fwd \in FwdType /\ disk \in DiskType
    BY Zenon DEF TypeOK, MirType, FwdType, DiskType
  <2>4. \A t \in tasks : t.msg \in Message
    BY Zenon DEF TypeOK
  <2>5. \A t \in tickets : t.epoch \in Nat
    BY <2>2, Zenon DEF TypeOK, Ticket
  <2> QED
    BY <2>2, <2>3, <2>4, <2>5, Zenon
<1>1. CASE mir'.state = "none" \/ closers' # {} \/ mir'.halved
  BY <1>1, Zenon DEF RestartKeepsTheMirror
<1>2. CASE UNCHANGED <<mir, fwd, closers, disk>>
  BY <1>2, Zenon DEF RestartKeepsTheMirror
<1>3. ASSUME NEW m \in Message, disk' \in CutShort(m), UNCHANGED <<mir, fwd, closers>>
      PROVE  RestartKeepsTheMirror'
  BY <1>0, <1>3, CutShortAre, Zenon DEF RestartKeepsTheMirror, SameMeta
<1>4. ASSUME NEW t \in tickets, Claim(t) PROVE RestartKeepsTheMirror'
  <2>1. /\ mir'.log = <<>> /\ mir'.epoch = t.epoch /\ disk'.there
        /\ disk'.epoch = t.epoch /\ fwd' = fwd /\ mir.state = "none"
    BY <1>0, <1>4, Zenon DEF Claim, NoMirror, DiskType
  <2>2. Range(mir'.log) = {} /\ ~fwd.on
    BY <2>1 DEF Range, BelongTogether
  <2> QED
    BY <1>0, <2>1, <2>2 DEF RestartKeepsTheMirror
<1>5. CASE JoinOk \/ Resubscribe
  <2>1. /\ mir'.log = mir.log /\ mir'.epoch = mir.epoch /\ mir.state # "none"
        /\ mir'.halved = mir.halved
        /\ fwd'.epoch = mir.epoch /\ disk' = disk /\ closers' = closers
    BY <1>0, <1>5 DEF JoinOk, Resubscribe, Subscribed, MirType
  <2> QED
    BY <2>1, Zenon DEF RestartKeepsTheMirror
<1>6. ASSUME NEW t \in tasks, NEW pos \in 0 .. Len(mir.log), ApplyOk(t, pos)
      PROVE  RestartKeepsTheMirror'
  <2>1. /\ mir'.log = Inserted(mir.log, pos, t.msg) /\ mir'.state = mir.state
        /\ mir'.epoch = mir.epoch /\ mir'.halved = mir.halved
        /\ disk' \in Appended(t.msg) /\ fwd' = fwd /\ closers' = closers
    BY <1>0, <1>6, Zenon DEF ApplyOk, MirType
  <2>2. Range(mir'.log) \subseteq Range(mir.log) \cup {t.msg}
    BY <1>0, <2>1, InsertedRange, Zenon DEF MirType
  <2>3. /\ Range(disk.frames) \subseteq Range(disk'.frames)
        /\ disk.torn \/ t.msg \in Range(disk'.frames)
        /\ disk'.there = disk.there /\ disk'.epoch = disk.epoch /\ disk'.torn = disk.torn
    BY <1>0, <2>1, AppendedAre, Zenon DEF SameMeta
  <2> QED
    BY <2>1, <2>2, <2>3, Zenon DEF RestartKeepsTheMirror
<1>7. ASSUME NEW e \in 0 .. MaxEpoch, HearBeacon(e) PROVE RestartKeepsTheMirror'
  <2>1. /\ closers' = closers /\ mir'.log = mir.log /\ mir'.state = mir.state
        /\ mir'.halved = mir.halved /\ disk'.torn = disk.torn
        /\ disk'.frames = disk.frames /\ disk'.there = disk.there
    BY <1>0, <1>7, Zenon DEF HearBeacon, Advanced, MirType, DiskType
  <2>2. fwd'.epoch = e /\ (disk.there => mir'.epoch = e /\ disk'.epoch = e)
    BY <1>0, <1>7, Zenon DEF HearBeacon, Listening, Advanced, MirType, DiskType, FwdType,
                      BelongTogether
  <2> QED
    BY <1>0, <2>1, <2>2 DEF RestartKeepsTheMirror
<1>b. ASSUME NEW e \in 0 .. MaxEpoch, HearBeaconErr(e) PROVE RestartKeepsTheMirror'
  <2>1. /\ closers' = closers /\ mir' = mir /\ fwd' = fwd /\ disk'.frames = disk.frames
        /\ disk'.there = disk.there /\ disk'.torn = disk.torn /\ disk'.epoch = e
        /\ e > mir.epoch /\ e > fwd.epoch
    BY <1>0, <1>b, Zenon DEF HearBeaconErr, DiskType
  <2>2. mir.epoch \in Nat /\ fwd.epoch \in Nat /\ e \in Nat
    BY <1>0, Zenon DEF MirType, FwdType
  <2>3. mir.epoch <= e /\ fwd.epoch <= e
    BY ONLY <2>1, <2>2
  <2> QED
    BY <2>1, <2>3, Zenon DEF RestartKeepsTheMirror
<1>t. ASSUME NEW c, Deletes(c), UNCHANGED <<fwd, tasks, joins>>
      PROVE  RestartKeepsTheMirror'
  <2>1. CASE closers' = closers \cup {c}
    BY <1>1, <2>1, Zenon
  <2>2. CASE /\ UNCHANGED closers
             /\ mir' = [mir EXCEPT !.halved = @ \/ disk' # disk]
    <3>1. /\ mir'.state = mir.state /\ mir'.log = mir.log /\ mir'.epoch = mir.epoch
          /\ mir'.halved = (mir.halved \/ disk' # disk)
      BY <1>0, <2>2, Zenon DEF MirType
    <3> QED
      BY <1>t, <2>2, <3>1, Zenon DEF RestartKeepsTheMirror
  <2> QED
    BY <1>t, <2>1, <2>2, Zenon DEF Deletes
<1>8. CASE Restart
  <2>1. /\ disk'.there = disk.there /\ disk'.epoch = disk.epoch
        /\ disk'.frames = disk.frames /\ fwd' = fwd /\ ~fwd.on
    BY <1>0, <1>8, Zenon DEF Restart, BelongTogether, DiskType
  <2>2. CASE disk.there
    <3>1. mir'.log = disk.frames /\ mir'.epoch = disk.epoch
      BY <1>8, <2>2, Zenon DEF Restart
    <3> QED
      BY <1>0, <2>1, <2>2, <3>1 DEF RestartKeepsTheMirror, DiskType
  <2>3. CASE ~disk.there
    BY <1>1, <1>8, <2>3, Zenon DEF Restart, NoMirror
  <2> QED
    BY <2>2, <2>3, Zenon
<1>9. CASE HostSend \/ HostResume \/ HostLeave \/ HostCreate
  BY <1>2, <1>9, Zenon DEF HostSend, HostResume, HostLeave, HostCreate, JoinerIdle
<1>10. ASSUME NEW m \in Message, Receive(m) PROVE RestartKeepsTheMirror'
  BY <1>2, <1>10, Zenon DEF Receive
<1>11. ASSUME NEW t \in tasks, NEW pos \in 0 .. Len(mir.log), ApplyDuplicate(t, pos)
       PROVE  RestartKeepsTheMirror'
  BY <1>2, <1>11, Zenon DEF ApplyDuplicate
<1>12. ASSUME NEW t \in tasks, ApplyErr(t) \/ ApplyStale(t) PROVE RestartKeepsTheMirror'
  BY <1>0, <1>3, <1>12, Zenon DEF ApplyErr, ApplyStale
<1>13. ASSUME NEW e \in 0 .. MaxEpoch, HearClose(e) PROVE RestartKeepsTheMirror'
  BY <1>13, <1>t, Zenon DEF HearClose
<1>14. CASE Leave
  BY <1>14, <1>t, Zenon DEF Leave
<1>15. CASE JoinFails
  BY <1>1, <1>15, Zenon DEF JoinFails, NoMirror
<1>16. ASSUME NEW c \in closers, Finish(c) PROVE RestartKeepsTheMirror'
  BY <1>1, <1>16, Zenon DEF Finish, NoMirror
<1>17. CASE Crash
  BY <1>1, <1>17, Zenon DEF Crash, NoMirror
<1>18. CASE UNCHANGED vars
  BY <1>2, <1>18, Zenon DEF vars
<1> QED
  BY <1>4, <1>5, <1>6, <1>7, <1>b, <1>8, <1>9, <1>10, <1>11, <1>12, <1>13, <1>14, <1>15,
     <1>16, <1>17, <1>18, Zenon DEF Next

(* A mirror holds each seq once and in order, whatever order its apply     *)
(* tasks ran in, and a restart brings back all of it with a watermark no   *)
(* lower than the live one, unless a delete of its directory stopped half  *)
(* way; what was appended behind torn bytes excepted.                      *)
THEOREM MirrorKept == Spec => []MirrorIsKept
<1>1. Init => JoinedMirrorIsSorted /\ RestartKeepsTheMirror
  BY DEF Init, NoMirror, JoinedMirrorIsSorted, RestartKeepsTheMirror
<1>2. TypeOK /\ BelongTogether /\ JoinedMirrorIsSorted /\ RestartKeepsTheMirror
      /\ [Next]_vars => (JoinedMirrorIsSorted /\ RestartKeepsTheMirror)'
  BY SortedStep, KeepStep, Zenon
<1>3. TypeOK /\ JoinedMirrorIsSorted /\ RestartKeepsTheMirror => MirrorIsKept
  BY Zenon DEF MirrorIsKept
<1> QED
  BY <1>1, <1>2, <1>3, TypesHold, PTL DEF Spec
-----------------------------------------------------------------------------
(* Epochs and closes                                                       *)

\* What a step does to the joiner's epochs: the mirror and the directory keep the
\* ones they have, are gone, take them from a ticket or from each other, or take a
\* beacon's that is above the mirror's.
IsBeacon(e) == [type |-> "beacon", body |-> e] \in net
MirEpochStep ==
  \/ mir'.epoch = mir.epoch /\ mir'.inc = mir.inc
     /\ (mir'.state # "none" => mir.state # "none")
  \/ mir' = NoMirror
  \/ mir'.epoch = disk.epoch /\ mir'.inc = disk.inc /\ disk.there
  \/ \E t \in tickets : mir'.epoch = t.epoch /\ mir'.inc = t.inc
  \/ \E e \in 0 .. MaxEpoch : /\ IsBeacon(e) /\ mir'.epoch = e /\ mir'.inc = mir.inc
                              /\ e > mir.epoch /\ mir.state # "none"
DiskEpochStep ==
  \/ disk'.epoch = disk.epoch /\ disk'.inc = disk.inc
     /\ (disk'.there => disk.there)
  \/ disk'.epoch = 0 /\ disk'.inc = 1 /\ ~disk'.there
  \/ \E t \in tickets : disk'.epoch = t.epoch /\ disk'.inc = t.inc
  \/ \E e \in 0 .. MaxEpoch : /\ IsBeacon(e) /\ disk'.epoch = e /\ disk'.inc = mir.inc
                              /\ e > mir.epoch /\ mir.state # "none"
EpochStep == MirEpochStep /\ DiskEpochStep

(* Every step of the joiner is one of these, and leaves the host alone.    *)
LEMMA JoinerEpochs ==
  ASSUME TypeOK, BelongTogether, [Next]_vars
  PROVE  \/ HostSend \/ HostResume \/ HostLeave \/ HostCreate
         \/ UNCHANGED hostVars /\ EpochStep
<1> DEFINE Goal == UNCHANGED hostVars /\ EpochStep
<1>0. mir \in MirType /\ fwd \in FwdType /\ disk \in DiskType /\ MaxEpoch \in Nat
  BY BoundsAreNat, Zenon DEF TypeOK, MirType, FwdType, DiskType
<1>w. ASSUME NEW fault, Working(fault) PROVE UNCHANGED hostVars
  BY <1>w, Zenon DEF Working
<1>1. Idle => UNCHANGED hostVars
  BY <1>w, Zenon DEF Idle
<1>s. SameMeta(disk') => DiskEpochStep
  BY Zenon DEF SameMeta, DiskEpochStep
<1>r. disk' \in {NoDir} \cup Remnants => DiskEpochStep
  <2>1. disk' = NoDir => DiskEpochStep
    BY ResetEpochs, Zenon DEF DiskEpochStep
  <2>2. disk' \in Remnants => DiskEpochStep
    BY <1>0, <1>s, RemnantsAre, Zenon DEF DiskEpochStep
  <2> QED
    BY <2>1, <2>2, Zenon
<1>c. ASSUME NEW t \in tasks, disk' \in CutShort(t.msg) PROVE DiskEpochStep
  BY <1>0, <1>c, <1>s, CutShortAre, Zenon DEF TypeOK
<1>2. ASSUME NEW t \in tickets, Claim(t) PROVE Goal
  <2>1. disk'.epoch = t.epoch /\ disk'.inc = t.inc
    BY <1>0, <1>2, Zenon DEF Claim, DiskType
  <2>2. mir'.epoch = t.epoch /\ mir'.inc = t.inc
    BY <1>2, Zenon DEF Claim, NoMirror
  <2> QED
    BY <1>1, <1>2, <2>1, <2>2, Zenon DEF Claim, EpochStep, MirEpochStep, DiskEpochStep
<1>3. CASE JoinOk
  BY <1>0, <1>1, <1>3, Zenon DEF JoinOk, EpochStep, MirEpochStep, DiskEpochStep, MirType
<1>4. CASE Resubscribe
  BY <1>1, <1>4, Zenon DEF Resubscribe, EpochStep, MirEpochStep, DiskEpochStep
<1>5. CASE JoinFails
  BY <1>r, <1>w, <1>5, Zenon DEF JoinFails, EpochStep, MirEpochStep
<1>6. ASSUME NEW m \in Message, Receive(m) PROVE Goal
  BY <1>1, <1>6, Zenon DEF Receive, EpochStep, MirEpochStep, DiskEpochStep
<1>8. ASSUME NEW t \in tasks, NEW pos \in 0 .. Len(mir.log),
             ApplyOk(t, pos) \/ ApplyDuplicate(t, pos)
      PROVE  Goal
  <2>1. mir'.epoch = mir.epoch /\ mir'.inc = mir.inc /\ mir'.state = mir.state
    BY <1>0, <1>8, Zenon DEF ApplyOk, ApplyDuplicate, MirType
  <2>2. CASE ApplyOk(t, pos)
    <3>1. SameMeta(disk')
      BY <1>0, <2>2, AppendedAre, Zenon DEF ApplyOk, TypeOK
    <3> QED
      BY <1>1, <1>s, <2>1, <2>2, <3>1, Zenon DEF ApplyOk, EpochStep, MirEpochStep
  <2>3. CASE ApplyDuplicate(t, pos)
    BY <1>1, <1>s, <2>1, <2>3, Zenon DEF ApplyDuplicate, SameMeta, EpochStep, MirEpochStep
  <2> QED
    BY <1>8, <2>2, <2>3, Zenon
<1>9. ASSUME NEW t \in tasks, ApplyErr(t) \/ ApplyStale(t) PROVE Goal
  BY <1>c, <1>w, <1>9, Zenon DEF ApplyErr, ApplyStale, EpochStep, MirEpochStep
<1>10. ASSUME NEW e \in 0 .. MaxEpoch, HearBeacon(e) PROVE Goal
  <2>1. CASE mir.state # "none" /\ e > mir.epoch
    <3>1. /\ mir'.epoch = e /\ mir'.inc = mir.inc
          /\ IF disk.there THEN disk'.epoch = e /\ disk'.inc = disk.inc ELSE disk' = disk
      BY <1>0, <1>10, <2>1, Zenon DEF HearBeacon, Advanced, MirType, DiskType
    <3>2. IsBeacon(e) /\ (disk.there => disk.inc = mir.inc)
      BY <1>10, <2>1, Zenon DEF HearBeacon, BelongTogether, IsBeacon
    <3> QED
      BY <1>1, <1>10, <2>1, <3>1, <3>2, Zenon DEF HearBeacon, EpochStep, MirEpochStep, DiskEpochStep
  <2>2. CASE ~(mir.state # "none" /\ e > mir.epoch)
    BY <1>1, <1>10, <2>2 DEF HearBeacon, EpochStep, MirEpochStep, DiskEpochStep
  <2> QED
    BY <2>1, <2>2, Zenon
<1>b. ASSUME NEW e \in 0 .. MaxEpoch, HearBeaconErr(e) PROVE Goal
  <2>1. /\ disk'.epoch = e /\ disk'.inc = mir.inc /\ e > mir.epoch /\ mir.state # "none"
        /\ IsBeacon(e) /\ mir' = mir
    BY <1>0, <1>b, Zenon DEF HearBeaconErr, BelongTogether, IsBeacon, DiskType
  <2> QED
    BY <1>b, <1>w, <2>1, Zenon DEF HearBeaconErr, EpochStep, MirEpochStep, DiskEpochStep
<1>t. ASSUME NEW c, Deletes(c) PROVE Goal
  <2>1. mir'.state = mir.state /\ mir'.epoch = mir.epoch /\ mir'.inc = mir.inc
    BY <1>0, <1>t, Zenon DEF Deletes, MirType
  <2>2. disk' \in {NoDir} \cup Remnants /\ UNCHANGED hostVars
    BY <1>1, <1>t, <1>w, Zenon DEF Deletes
  <2> QED
    BY <1>r, <2>1, <2>2, Zenon DEF EpochStep, MirEpochStep
<1>11. ASSUME NEW e \in 0 .. MaxEpoch, HearClose(e) PROVE Goal
  BY <1>11, <1>t, Zenon DEF HearClose
<1>12. CASE Leave
  BY <1>12, <1>t, Zenon DEF Leave
<1>13. ASSUME NEW c \in closers, Finish(c) PROVE Goal
  BY <1>1, <1>13, Zenon DEF Finish, EpochStep, MirEpochStep, DiskEpochStep
<1>14. CASE Crash
  <2>1. UNCHANGED hostVars /\ mir' = NoMirror
    BY <1>14, Zenon DEF Crash
  <2>2. CASE UNCHANGED disk
    BY <2>1, <2>2, Zenon DEF EpochStep, MirEpochStep, DiskEpochStep
  <2>3. ASSUME NEW t \in tasks, disk' \in CutShort(t.msg) PROVE Goal
    BY <1>c, <2>1, <2>3, Zenon DEF EpochStep, MirEpochStep
  <2>5. CASE disk' \in Remnants
    BY <1>r, <2>1, <2>5, Zenon DEF EpochStep, MirEpochStep
  <2>4. ASSUME disk.there, Listening, NEW e \in fwd.epoch + 1 .. MaxEpoch,
               [type |-> "beacon", body |-> e] \in net,
               disk' = [disk EXCEPT !.epoch = e]
        PROVE  Goal
    <3>1. mir.epoch = fwd.epoch /\ mir.state # "none" /\ disk.inc = mir.inc
      BY <2>4, Zenon DEF Listening, BelongTogether
    <3>3. e \in 0 .. MaxEpoch /\ e > mir.epoch
      BY <1>0, <2>4, <3>1 DEF FwdType
    <3>2. disk'.epoch = e /\ disk'.inc = mir.inc
      BY <1>0, <2>4, <3>1, Zenon DEF DiskType
    <3> QED
      BY <2>1, <2>4, <3>1, <3>2, <3>3, Zenon DEF IsBeacon, EpochStep, MirEpochStep, DiskEpochStep
  <2> QED
    BY <1>14, <2>2, <2>3, <2>4, <2>5, Zenon DEF Crash
<1>15. CASE Restart
  <2>3. SameMeta(disk')
    BY <1>0, <1>15, Zenon DEF Restart, DiskType, SameMeta
  <2>1. CASE disk.there
    BY <1>15, <1>s, <2>1, <2>3, Zenon DEF Restart, EpochStep, MirEpochStep
  <2>2. CASE ~disk.there
    BY <1>15, <1>s, <2>2, <2>3, Zenon DEF Restart, EpochStep, MirEpochStep
  <2> QED
    BY <2>1, <2>2, Zenon
<1>16. CASE UNCHANGED vars
  BY <1>16, Zenon DEF vars, hostVars, EpochStep, MirEpochStep, DiskEpochStep
<1> QED
  BY <1>2, <1>3, <1>4, <1>5, <1>6, <1>8, <1>9, <1>10, <1>b, <1>11, <1>12, <1>13, <1>14,
     <1>15, <1>16, Zenon DEF Next

(* The host's steps: what they publish, and the tickets they mint, carry   *)
(* epochs the host has reached.                                            *)
LEMMA BehindStep ==
  ASSUME TypeOK, BelongTogether, BehindHost, [Next]_vars
  PROVE  BehindHost'
<1>0. EpochNumbers
  BY EpochsAreNat, Zenon
<1>1. ASSUME UNCHANGED <<mir, disk>>, host'.epoch >= host.epoch, host'.inc >= host.inc,
             host'.epoch \in Nat, host'.inc \in Nat,
             \A t \in tickets' \ tickets : t.epoch = host'.epoch /\ t.inc = host'.inc,
             \A e \in 0 .. MaxEpoch : (IsClose(e) \/ IsBeacon(e))'
                                      => IsClose(e) \/ IsBeacon(e) \/ e = host'.epoch
      PROVE  BehindHost'
  BY <1>0, <1>1 DEF BehindHost, EpochNumbers, IsBeacon
<1>2. CASE HostSend
  <2>1. host'.epoch = host.epoch /\ host'.inc = host.inc /\ tickets' = tickets
    BY <1>2, Zenon DEF HostSend, TypeOK
  <2>2. \A e \in 0 .. MaxEpoch : (IsClose(e) \/ IsBeacon(e))' => IsClose(e) \/ IsBeacon(e)
    BY <1>2, Zenon DEF HostSend, Publish, IsClose, IsBeacon
  <2>n. host.epoch \in Nat /\ host.inc \in Nat
    BY <1>0, Zenon DEF EpochNumbers
  <2>m. /\ host'.epoch >= host.epoch /\ host'.inc >= host.inc
        /\ host'.epoch \in Nat /\ host'.inc \in Nat
    BY ONLY <2>1, <2>n
  <2> QED
    BY <1>1, <1>2, <2>1, <2>2, <2>m, Zenon DEF HostSend, JoinerIdle
<1>3. CASE HostResume
  <2>1. /\ host'.epoch = host.epoch + 1 /\ host'.inc = host.inc
        /\ \A t \in tickets' \ tickets : t.epoch = host'.epoch /\ t.inc = host'.inc
    <3>1. host'.epoch = host.epoch + 1 /\ host'.inc = host.inc
      BY <1>3, Zenon DEF HostResume, TypeOK
    <3>2. tickets' = tickets \cup {[inc |-> host.inc, epoch |-> host.epoch + 1]}
      BY <1>3, Zenon DEF HostResume
    <3> QED
      BY ONLY <3>1, <3>2
  <2>2. \A e \in 0 .. MaxEpoch : (IsClose(e) \/ IsBeacon(e))'
                                 => IsClose(e) \/ IsBeacon(e) \/ e = host'.epoch
    BY <1>3, <2>1, Zenon DEF HostResume, Publish, IsClose, IsBeacon
  <2>n. host.epoch \in Nat /\ host.inc \in Nat
    BY <1>0, Zenon DEF EpochNumbers
  <2>m. /\ host'.epoch >= host.epoch /\ host'.inc >= host.inc
        /\ host'.epoch \in Nat /\ host'.inc \in Nat
    BY ONLY <2>1, <2>n
  <2> QED
    BY <1>1, <1>3, <2>1, <2>2, <2>m, Zenon DEF HostResume, JoinerIdle
<1>4. CASE HostLeave
  <2>1. host'.epoch = host.epoch /\ host'.inc = host.inc /\ tickets' = tickets
    BY <1>4, Zenon DEF HostLeave, TypeOK
  <2>2. \A e \in 0 .. MaxEpoch : (IsClose(e) \/ IsBeacon(e))'
                                 => IsClose(e) \/ IsBeacon(e) \/ e = host'.epoch
    BY <1>4, <2>1, Zenon DEF HostLeave, Publish, IsClose, IsBeacon
  <2>n. host.epoch \in Nat /\ host.inc \in Nat
    BY <1>0, Zenon DEF EpochNumbers
  <2>m. /\ host'.epoch >= host.epoch /\ host'.inc >= host.inc
        /\ host'.epoch \in Nat /\ host'.inc \in Nat
    BY ONLY <2>1, <2>n
  <2> QED
    BY <1>1, <1>4, <2>1, <2>2, <2>m, Zenon DEF HostLeave, JoinerIdle
<1>5. CASE HostCreate
  <2>1. /\ host'.epoch = host.epoch + 1 /\ host'.inc = host.inc + 1 /\ net' = net
        /\ \A t \in tickets' \ tickets : t.epoch = host'.epoch /\ t.inc = host'.inc
    BY <1>5 DEF HostCreate, EpochFloor
  <2>n. host.epoch \in Nat /\ host.inc \in Nat
    BY <1>0, Zenon DEF EpochNumbers
  <2>m. /\ host'.epoch >= host.epoch /\ host'.inc >= host.inc
        /\ host'.epoch \in Nat /\ host'.inc \in Nat
    BY ONLY <2>1, <2>n
  <2> QED
    BY <1>1, <1>5, <2>1, <2>m, Zenon DEF HostCreate, JoinerIdle, IsClose, IsBeacon
<1>6. ASSUME UNCHANGED hostVars, EpochStep PROVE BehindHost'
  <2>1. \A e \in 0 .. MaxEpoch : IsBeacon(e) => e <= host.epoch
    BY Zenon DEF BehindHost, IsBeacon
  <2>2. /\ \A t \in tickets : t.epoch <= host.epoch /\ t.inc <= host.inc
        /\ mir.epoch <= host.epoch /\ mir.inc <= host.inc
        /\ disk.epoch <= host.epoch /\ disk.inc <= host.inc
    BY Zenon DEF BehindHost
  <2>3. 0 <= host.epoch /\ 1 <= host.inc
    BY BoundsAreNat DEF TypeOK
  <2>4. mir'.epoch <= host.epoch /\ mir'.inc <= host.inc
    <3>1. CASE mir' = NoMirror
      BY <2>3, <3>1, Zenon DEF NoMirror
    <3>2. ASSUME NEW e \in 0 .. MaxEpoch, IsBeacon(e), mir'.epoch = e, mir'.inc = mir.inc
          PROVE  mir'.epoch <= host.epoch /\ mir'.inc <= host.inc
      BY <2>1, <2>2, <3>2, Zenon
    <3>3. ASSUME NEW t \in tickets, mir'.epoch = t.epoch, mir'.inc = t.inc
          PROVE  mir'.epoch <= host.epoch /\ mir'.inc <= host.inc
      BY <2>2, <3>3, Zenon
    <3> QED
      BY <1>6, <2>2, <3>1, <3>2, <3>3, Zenon DEF EpochStep, MirEpochStep
  <2>5. disk'.epoch <= host.epoch /\ disk'.inc <= host.inc
    <3>1. CASE disk'.epoch = 0 /\ disk'.inc = 1
      BY <2>3, <3>1, Zenon
    <3>2. ASSUME NEW e \in 0 .. MaxEpoch, IsBeacon(e), disk'.epoch = e,
                 disk'.inc = mir.inc
          PROVE  disk'.epoch <= host.epoch /\ disk'.inc <= host.inc
      BY <2>1, <2>2, <3>2, Zenon
    <3>3. ASSUME NEW t \in tickets, disk'.epoch = t.epoch, disk'.inc = t.inc
          PROVE  disk'.epoch <= host.epoch /\ disk'.inc <= host.inc
      BY <2>2, <3>3, Zenon
    <3> QED
      BY <1>6, <2>2, <3>1, <3>2, <3>3, Zenon DEF EpochStep, DiskEpochStep
  <2> QED
    BY <1>6, <2>4, <2>5, Zenon DEF BehindHost, hostVars, IsClose
<1> QED
  BY <1>2, <1>3, <1>4, <1>5, <1>6, JoinerEpochs, Zenon

(* A close stays below the epochs of the tickets minted after it: the      *)
(* epoch floor lifts a re-created session above the close that ended its   *)
(* predecessor.                                                            *)
LEMMA ClosesStep ==
  ASSUME TypeOK, BelongTogether, BehindHost, ClosesEnd, [Next]_vars
  PROVE  ClosesEnd'
<1>0. EpochNumbers /\ \A e \in 0 .. MaxEpoch : IsClose(e) => e <= host.epoch
  BY EpochsAreNat, Zenon DEF BehindHost
<1>1. ASSUME UNCHANGED <<mir, disk>>, \A i \in Nat : Ended(i) => Ended(i)',
             \A t \in tickets' \ tickets : t.epoch > host.epoch,
             \A e \in 0 .. MaxEpoch : IsClose(e)' => IsClose(e)
      PROVE  ClosesEnd'
  <2> SUFFICES ASSUME NEW e \in 0 .. MaxEpoch, IsClose(e)'
               PROVE  /\ \A t \in tickets' : e >= t.epoch => Ended(t.inc)'
                      /\ mir.state # "none" /\ e >= mir.epoch => Ended(mir.inc)'
                      /\ disk.there /\ e >= disk.epoch => Ended(disk.inc)'
    BY <1>1, Zenon DEF ClosesEnd, Ended
  <2>1. IsClose(e) /\ e <= host.epoch /\ e \in Nat /\ host.epoch \in Nat
    BY <1>0, <1>1, Zenon DEF EpochNumbers
  <2>2. ASSUME NEW t \in tickets', e >= t.epoch PROVE Ended(t.inc)'
    <3>1. CASE t \in tickets
      BY <1>0, <1>1, <2>1, <2>2, <3>1, Zenon DEF ClosesEnd, EpochNumbers
    <3>2. CASE t \notin tickets
      <4>1. t.epoch > host.epoch /\ t \in Ticket'
        BY <1>1, <3>2, TypeStep, Zenon DEF TypeOK
      <4> QED
        BY <2>1, <2>2, <4>1, BoundsAreNat DEF Ticket
    <3> QED
      BY <3>1, <3>2, Zenon
  <2>3. mir.state # "none" /\ e >= mir.epoch => Ended(mir.inc)'
    BY <1>0, <1>1, <2>1, Zenon DEF ClosesEnd, EpochNumbers
  <2>4. disk.there /\ e >= disk.epoch => Ended(disk.inc)'
    BY <1>0, <1>1, <2>1, Zenon DEF ClosesEnd, EpochNumbers
  <2> QED
    BY <2>2, <2>3, <2>4
<1>2. CASE HostSend
  <2>1. \A i \in Nat : Ended(i) => Ended(i)'
    BY <1>2, Zenon DEF HostSend, TypeOK, Ended
  <2>2. \A e \in 0 .. MaxEpoch : IsClose(e)' => IsClose(e)
    BY <1>2, Zenon DEF HostSend, Publish, IsClose, IsBeacon
  <2> QED
    BY <1>1, <1>2, <2>1, <2>2, Zenon DEF HostSend, JoinerIdle
<1>3. CASE HostResume
  <2>1. \A i \in Nat : Ended(i) => Ended(i)'
    BY <1>3, Zenon DEF HostResume, TypeOK, Ended
  <2>2. \A e \in 0 .. MaxEpoch : IsClose(e)' => IsClose(e)
    BY <1>3, Zenon DEF HostResume, Publish, IsClose, IsBeacon
  <2>3. \A t \in tickets' \ tickets : t.epoch > host.epoch
    BY <1>0, <1>3 DEF HostResume, EpochNumbers
  <2> QED
    BY <1>1, <1>3, <2>1, <2>2, <2>3, Zenon DEF HostResume, JoinerIdle
<1>4. CASE HostLeave
  <2>1. ASSUME NEW i \in Nat, i <= host.inc PROVE Ended(i)'
    <3>1. host'.inc = host.inc /\ host'.open = FALSE
      BY <1>4, Zenon DEF HostLeave, TypeOK
    <3> QED
      BY <1>0, <2>1, <3>1 DEF Ended, EpochNumbers
  <2>2. \A t \in tickets : Ended(t.inc)'
    BY <1>0, <2>1, Zenon DEF BehindHost, EpochNumbers
  <2>3. Ended(mir.inc)' /\ Ended(disk.inc)'
    BY <1>0, <1>4, <2>1, Zenon DEF HostLeave, JoinerIdle, BehindHost, EpochNumbers
  <2> QED
    BY <1>4, <2>2, <2>3, Zenon DEF HostLeave, JoinerIdle, ClosesEnd
<1>5. CASE HostCreate
  <2>1. \A i \in Nat : Ended(i) => Ended(i)'
    BY <1>0, <1>5 DEF HostCreate, Ended, EpochNumbers
  <2>2. \A t \in tickets' \ tickets : t.epoch > host.epoch
    BY <1>0, <1>5 DEF HostCreate, EpochFloor, EpochNumbers
  <2> QED
    BY <1>1, <1>5, <2>1, <2>2, Zenon DEF HostCreate, JoinerIdle, IsClose
<1>6. ASSUME UNCHANGED hostVars, EpochStep PROVE ClosesEnd'
  <2> SUFFICES ASSUME NEW e \in 0 .. MaxEpoch, IsClose(e)
               PROVE  /\ \A t \in tickets : e >= t.epoch => Ended(t.inc)
                      /\ mir'.state # "none" /\ e >= mir'.epoch => Ended(mir'.inc)
                      /\ disk'.there /\ e >= disk'.epoch => Ended(disk'.inc)
    BY <1>6, Zenon DEF ClosesEnd, hostVars, IsClose, Ended
  <2>1. /\ \A t \in tickets : e >= t.epoch => Ended(t.inc)
        /\ mir.state # "none" /\ e >= mir.epoch => Ended(mir.inc)
        /\ disk.there /\ e >= disk.epoch => Ended(disk.inc)
        /\ e \in Nat
    BY <1>0, Zenon DEF ClosesEnd, EpochNumbers
  <2>2. mir'.state # "none" /\ e >= mir'.epoch => Ended(mir'.inc)
    <3> SUFFICES ASSUME mir'.state # "none", e >= mir'.epoch PROVE Ended(mir'.inc)
      OBVIOUS
    <3>1. mir' # NoMirror
      BY DEF NoMirror
    <3>2. ASSUME NEW b \in 0 .. MaxEpoch, mir'.epoch = b, mir'.inc = mir.inc,
                 b > mir.epoch, mir.state # "none"
          PROVE  Ended(mir'.inc)
      BY <1>0, <2>1, <3>2 DEF EpochNumbers
    <3>3. ASSUME NEW t \in tickets, mir'.epoch = t.epoch, mir'.inc = t.inc
          PROVE  Ended(mir'.inc)
      BY <2>1, <3>3, Zenon
    <3> QED
      BY <1>6, <2>1, <3>1, <3>2, <3>3, Zenon DEF EpochStep, MirEpochStep
  <2>3. disk'.there /\ e >= disk'.epoch => Ended(disk'.inc)
    <3> SUFFICES ASSUME disk'.there, e >= disk'.epoch PROVE Ended(disk'.inc)
      OBVIOUS
    <3>2. ASSUME NEW b \in 0 .. MaxEpoch, disk'.epoch = b, disk'.inc = mir.inc,
                 b > mir.epoch, mir.state # "none"
          PROVE  Ended(disk'.inc)
      BY <1>0, <2>1, <3>2 DEF EpochNumbers
    <3>3. ASSUME NEW t \in tickets, disk'.epoch = t.epoch, disk'.inc = t.inc
          PROVE  Ended(disk'.inc)
      BY <2>1, <3>3, Zenon
    <3> QED
      BY <1>6, <2>1, <3>2, <3>3, Zenon DEF EpochStep, DiskEpochStep
  <2> QED
    BY <2>1, <2>2, <2>3, Zenon
<1> QED
  BY <1>2, <1>3, <1>4, <1>5, <1>6, JoinerEpochs, Zenon

(* Both facts about epochs hold in every run.                              *)
LEMMA EpochsHold == Spec => [](BehindHost /\ ClosesEnd)
<1>1. Init => BehindHost /\ ClosesEnd
  BY DEF Init, BehindHost, ClosesEnd, IsClose, NoMirror, NoDir
<1>2. TypeOK /\ BelongTogether /\ BehindHost /\ ClosesEnd /\ [Next]_vars
      => (BehindHost /\ ClosesEnd)'
  BY BehindStep, ClosesStep, Zenon
<1> QED
  BY <1>1, <1>2, TypesHold, PTL DEF Spec

(* The close of the incarnation that is open, or was the last, is accepted *)
(* by every forwarder: advance_host_epoch_watermark never gets ahead of    *)
(* the epoch the host's bump_host_epoch persisted.                         *)
THEOREM LastCloseAccepted == Spec => []LastCloseIsAccepted
<1>1. TypeOK /\ BelongTogether /\ BehindHost => LastCloseIsAccepted
  BY EpochsAreNat, Zenon DEF LastCloseIsAccepted, Listening, CloseAccepted, BelongTogether,
                      BehindHost, EpochNumbers
<1> QED
  BY <1>1, TypesHold, EpochsHold, PTL

(* A close, however late or repeated, and whichever incarnation it is of,  *)
(* tears down a mirror only if the incarnation the mirror was joined to    *)
(* has ended.                                                              *)
THEOREM ClosesRightIncarnation == Spec => ClosesAreOfItsIncarnation
<1>1. ASSUME TypeOK, BelongTogether, ClosesEnd, [Next]_vars,
             closers' \ closers = {"close"}
      PROVE  Ended(mir.inc)
  <2>1. ASSUME NEW e \in 0 .. MaxEpoch, HearClose(e) PROVE Ended(mir.inc)
    <3>1. IsClose(e) /\ fwd.on /\ e >= fwd.epoch /\ mir.state # "none"
      BY <2>1, Zenon DEF HearClose, Listening, CloseAccepted, IsClose
    <3>2. e >= mir.epoch
      BY <1>1, <3>1, Zenon DEF BelongTogether
    <3> QED
      BY <1>1, <3>1, <3>2, Zenon DEF ClosesEnd
  <2>2. (\E e \in 0 .. MaxEpoch : HearClose(e)) \/ closers' \ closers # {"close"}
    <3> SUFFICES ASSUME ~\E e \in 0 .. MaxEpoch : HearClose(e)
                 PROVE  closers' \ closers \in {{}, {"leave"}}
      OBVIOUS
    <3>1. CASE HostSend \/ HostResume \/ HostLeave \/ HostCreate
      BY <3>1, Zenon DEF HostSend, HostResume, HostLeave, HostCreate, JoinerIdle
    <3>2. CASE JoinOk \/ Resubscribe \/ Restart \/ UNCHANGED vars
      BY <3>2, Zenon DEF JoinOk, Resubscribe, Restart, vars
    <3>3. CASE Leave \/ Crash
      BY <3>3, Zenon DEF Leave, Deletes, Crash
    <3>4. ASSUME NEW t, Claim(t) PROVE closers' = closers
      BY <3>4, Zenon DEF Claim
    <3>5. ASSUME NEW t, NEW pos, ApplyOk(t, pos) \/ ApplyDuplicate(t, pos)
          PROVE  closers' = closers
      BY <3>5, Zenon DEF ApplyOk, ApplyDuplicate
    <3>6. ASSUME NEW t, ApplyErr(t) \/ ApplyStale(t) PROVE closers' = closers
      BY <3>6, Zenon DEF ApplyErr, ApplyStale
    <3>7. ASSUME NEW b, JoinFails \/ Receive(b) \/ HearBeacon(b) \/ HearBeaconErr(b)
          PROVE  closers' = closers
      BY <3>7, Zenon DEF JoinFails, Receive, HearBeacon, HearBeaconErr
    <3>8. ASSUME NEW c, Finish(c) PROVE closers' \ closers = {}
      BY <3>8, Zenon DEF Finish
    <3> QED
      BY <1>1, <3>1, <3>2, <3>3, <3>4, <3>5, <3>6, <3>7, <3>8, Zenon DEF Next
  <2> QED
    BY <1>1, <2>1, <2>2, Zenon
<1>2. TypeOK /\ BelongTogether /\ ClosesEnd /\ [Next]_vars
      => [closers' \ closers = {"close"} => Ended(mir.inc)]_vars
  BY <1>1
<1> QED
  BY <1>2, TypesHold, EpochsHold, PTL DEF Spec, ClosesAreOfItsIncarnation
=============================================================================
