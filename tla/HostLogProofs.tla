---------------------------- MODULE HostLogProofs ----------------------------
(***************************************************************************)
(* Proofs about HostLog, for every set of calls and any number of crashes. *)
(*                                                                         *)
(* Under every I/O fault: type correctness, and no two acknowledged sends  *)
(* share a seq (the cached head in meta.json covers every acknowledged     *)
(* seq, and memory's head covers them while the daemon is up).             *)
(*                                                                         *)
(* Until a failing append has left bytes behind, crashes at any point of   *)
(* an append included: the four invariants of the clean log, from the      *)
(* inductive invariant that frame i carries seq i and that memory is the   *)
(* file.  While the log is clean every step is a step of DurableLog or     *)
(* changes nothing it can see.                                             *)
(*                                                                         *)
(* The first lemmas are about numbers: induction stated for a set, and the *)
(* greatest of finitely many.                                              *)
(***************************************************************************)
EXTENDS HostLog, WellFoundedInduction, SequenceTheorems, TLAPS

(* A set that holds 0 and the successor of each of its members holds every *)
(* natural number.                                                         *)
LEMMA SetInduction ==
  ASSUME NEW S \in SUBSET Nat, 0 \in S, \A n \in S : n + 1 \in S
  PROVE  S = Nat
<1> SUFFICES ASSUME Nat \ S # {} PROVE FALSE
  BY Zenon
<1> DEFINE Less == OpToRel(<, Nat)
<1>1. IsWellFoundedOn(Less, Nat)
  BY NatLessThanWellFounded, Zenon
<1>2. PICK k \in Nat \ S : \A m \in Nat \ S : ~(<<m, k>> \in Less)
  <2> HIDE DEF Less
  <2> QED BY <1>1, WFMin, Zenon
<1>3. \A m \in Nat \ S : ~(m < k)
  BY <1>2, Zenon DEF OpToRel
<1>4. k # 0 /\ k - 1 \in Nat
  OBVIOUS
<1>5. k - 1 \in S
  BY <1>3, <1>4
<1> QED
  BY <1>4, <1>5

(* Finitely many natural numbers, given as a function on 1 .. n, have an   *)
(* upper bound.                                                            *)
LEMMA BoundedValues ==
  ASSUME NEW n \in Nat, NEW f \in [1 .. n -> Nat]
  PROVE  \E b \in Nat : \A i \in 1 .. n : f[i] <= b
<1> DEFINE S == {k \in Nat : k <= n => \E b \in Nat : \A i \in 1 .. k : f[i] <= b}
<1>1. 0 \in S
  OBVIOUS
<1>2. ASSUME NEW k \in S PROVE k + 1 \in S
  <2> SUFFICES ASSUME k + 1 <= n
               PROVE  \E b \in Nat : \A i \in 1 .. k + 1 : f[i] <= b
    OBVIOUS
  <2>1. PICK b \in Nat : \A i \in 1 .. k : f[i] <= b
    OBVIOUS
  <2>2. f[k + 1] \in Nat
    OBVIOUS
  <2>3. \A i \in 1 .. k + 1 : f[i] <= b + f[k + 1]
    BY <2>1, <2>2
  <2>4. b + f[k + 1] \in Nat
    BY ONLY <2>2
  <2> QED
    BY <2>3, <2>4, Zenon
<1>3. S = Nat
  <2> HIDE DEF S
  <2>1. S \in SUBSET Nat BY DEF S
  <2> QED BY <1>1, <1>2, <2>1, SetInduction, Zenon
<1>4. n \in S
  BY <1>3, Zenon
<1> QED
  BY <1>4

(* A non-empty bounded set of natural numbers has a greatest member.       *)
LEMMA GreatestMember ==
  ASSUME NEW T \in SUBSET Nat, T # {}, NEW b \in Nat, \A m \in T : m <= b
  PROVE  \E n \in T : \A m \in T : m <= n
<1> SUFFICES ASSUME \A n \in T : \E m \in T : m > n PROVE FALSE
  OBVIOUS
<1> DEFINE S == {k \in Nat : \E n \in T : n >= k}
<1>1. 0 \in S
  <2>1. PICK n : n \in T
    OBVIOUS
  <2> QED
    BY <2>1
<1>2. \A k \in S : k + 1 \in S
  OBVIOUS
<1>3. S = Nat
  <2> HIDE DEF S
  <2>1. S \in SUBSET Nat BY DEF S
  <2> QED BY <1>1, <1>2, <2>1, SetInduction
<1>4. b + 1 \in Nat
  OBVIOUS
<1>5. b + 1 \in S
  BY <1>3, <1>4, Zenon
<1>6. PICK n \in T : n >= b + 1
  BY <1>5, Zenon
<1> QED
  BY <1>6

(* max(log seqs, 0) exists and bounds every seq of the log.                *)
LEMMA LogTailIsMax ==
  ASSUME NEW l \in Seq(Frame)
  PROVE  LogTail(l) \in Nat /\ \A i \in 1 .. Len(l) : l[i].seq <= LogTail(l)
<1> DEFINE seqs == {0} \cup {l[i].seq : i \in 1 .. Len(l)}
           f    == [i \in 1 .. Len(l) |-> l[i].seq]
<1>1. Len(l) \in Nat /\ \A i \in 1 .. Len(l) : l[i].seq \in Nat
  <2>1. \A i \in 1 .. Len(l) : l[i] \in Frame
    OBVIOUS
  <2> QED
    BY <2>1 DEF Frame
<1>2. PICK b \in Nat : \A i \in 1 .. Len(l) : f[i] <= b
  <2>1. f \in [1 .. Len(l) -> Nat] BY <1>1
  <2> HIDE DEF f
  <2> QED BY <1>1, <2>1, BoundedValues, Zenon
<1>3. seqs \in SUBSET Nat /\ seqs # {} /\ \A m \in seqs : m <= b
  BY <1>1, <1>2
<1>4. \E n \in seqs : \A m \in seqs : m <= n
  <2> HIDE DEF seqs
  <2> QED BY <1>3, GreatestMember, Zenon
<1>5. /\ LogTail(l) \in seqs
      /\ \A m \in seqs : m <= LogTail(l)
  BY <1>4, Zenon DEF LogTail
<1> QED
  BY <1>3, <1>5, Zenon

(* When frame i carries seq i, the log tail is the log's length.           *)
LEMMA LogTailOfDense ==
  ASSUME NEW l \in Seq(Frame), \A i \in 1 .. Len(l) : l[i].seq = i
  PROVE  LogTail(l) = Len(l)
<1> DEFINE seqs == {0} \cup {l[i].seq : i \in 1 .. Len(l)}
<1>1. Len(l) \in Nat
  OBVIOUS
<1>2. seqs = 0 .. Len(l)
  BY <1>1, SMT
<1>3. \A n \in seqs : (\A m \in seqs : m <= n) <=> n = Len(l)
  BY <1>1, <1>2
<1>4. Len(l) \in seqs
  BY <1>1, <1>2
<1> HIDE DEF seqs
<1>5. (CHOOSE n \in seqs : \A m \in seqs : m <= n) = Len(l)
  BY <1>3, <1>4
<1> QED
  BY <1>5 DEF LogTail, seqs

\* The frames Load(k) recovers.
Found(k) == frames \o SubSeq(behind, Len(behind) - k + 1, Len(behind))

(* What a reload recovers is a log, and its head a number.                 *)
LEMMA FoundIsLog ==
  ASSUME frames \in Seq(Frame), behind \in Seq(Frame),
         NEW k \in 0 .. Len(behind)
  PROVE  Found(k) \in Seq(Frame) /\ LogTail(Found(k)) \in Nat
<1>1. Found(k) \in Seq(Frame)
  BY DEF Found
<1> QED
  BY <1>1, LogTailIsMax
-----------------------------------------------------------------------------
(* Every reachable state is type correct, under every combination of I/O   *)
(* faults and crashes: load_one's reconciled head is a number because the  *)
(* maximum over the recovered frames exists.                               *)
THEOREM TypeCorrect == Spec => []TypeOK
<1> DEFINE Flags   == torn \in BOOLEAN /\ up \in BOOLEAN /\ damaged \in BOOLEAN
           Seqs    == frames \in Seq(Frame) /\ behind \in Seq(Frame) /\ log \in Seq(Frame)
           Numbers == metaHead \in Nat /\ head \in Nat /\ crashes \in Nat
           Answers == acked \subseteq Frame /\ rejected \subseteq Calls
                      /\ unanswered \subseteq Calls
<1>0. TypeOK <=> Flags /\ Seqs /\ Numbers /\ Answers
  BY Zenon DEF TypeOK
<1>1. Init => TypeOK
  <2> SUFFICES ASSUME Init PROVE Flags /\ Seqs /\ Numbers /\ Answers
    BY <1>0, Zenon
  <2>1. Flags
    BY Zenon DEF Init
  <2>2. Seqs
    BY DEF Init
  <2>3. Numbers /\ Answers
    BY DEF Init
  <2> QED
    BY <2>1, <2>2, <2>3
<1>2. TypeOK /\ [Next]_vars => TypeOK'
  <2> SUFFICES ASSUME Flags, Seqs, Numbers, Answers, [Next]_vars
               PROVE  Flags' /\ Seqs' /\ Numbers' /\ Answers'
    BY Zenon DEF TypeOK
  <2>1. ASSUME NEW c \in Calls PROVE Prospective(c) \in Frame
    BY DEF Prospective, Frame
  <2>2. ASSUME NEW m \in Frame, WriteFrame(m)
        PROVE  frames' \in Seq(Frame) /\ behind' \in Seq(Frame)
    BY <2>2 DEF WriteFrame
  <2>3. ASSUME NEW c \in Calls, SendOk(c)
        PROVE  Flags' /\ Seqs' /\ Numbers' /\ Answers'
    <3>1. Flags'
      BY <2>3 DEF SendOk, WriteFrame
    <3>2. Seqs'
      BY <2>3, <2>1, <2>2 DEF SendOk
    <3>3. Numbers' /\ Answers'
      BY <2>3, <2>1 DEF SendOk, MaxNat
    <3> QED
      BY <3>1, <3>2, <3>3, Zenon
  <2>4. ASSUME NEW c \in Calls, NEW fault \in AllIoFaults, SendErr(c, fault)
        PROVE  Flags' /\ Seqs' /\ Numbers' /\ Answers'
    <3>1. Flags'
      BY <2>4, Zenon DEF SendErr, AllIoFaults, WriteFrame, WritePart, memVars
    <3>2. Seqs'
      BY <2>4, <2>1, <2>2, Zenon DEF SendErr, AllIoFaults, WritePart, memVars
    <3>3. Numbers' /\ Answers'
      BY <2>4 DEF SendErr, MaxNat, memVars
    <3> QED
      BY <3>1, <3>2, <3>3, Zenon
  <2>5. CASE Crash
    <3>1. Flags'
      BY <2>5, Zenon DEF Crash, WriteFrame, WritePart, fileVars
    <3>2. Seqs'
      BY <2>5, <2>1, <2>2 DEF Crash, WritePart, fileVars
    <3>3. Numbers' /\ Answers'
      BY <2>5 DEF Crash, MaxNat, fileVars
    <3> QED
      BY <3>1, <3>2, <3>3, Zenon
  <2>6. ASSUME NEW k \in 0 .. Len(behind), Load(k)
        PROVE  Flags' /\ Seqs' /\ Numbers' /\ Answers'
    <3>1. Found(k) \in Seq(Frame) /\ LogTail(Found(k)) \in Nat
      BY FoundIsLog
    <3>2. Flags'
      BY <2>6, Zenon DEF Load, callVars
    <3>3. Seqs'
      BY <2>6, <3>1 DEF Load, Found
    <3>4. Numbers' /\ Answers'
      BY <2>6, <3>1, Zenon DEF Load, Found, MaxNat, callVars
    <3> QED
      BY <3>2, <3>3, <3>4, Zenon
  <2>7. CASE UNCHANGED vars
    BY <2>7 DEF vars, fileVars, memVars, callVars
  <2> QED
    BY <2>3, <2>4, <2>5, <2>6, <2>7, Zenon DEF Next, Restart
<1> QED
  BY <1>1, <1>2, PTL DEF Spec

(* What makes acknowledged seqs distinct: both heads cover them.           *)
HeadsCoverAcked ==
  \A m \in acked : m.seq <= metaHead /\ (up => m.seq <= head)

(* No two acknowledged Sends ever share a seq, whatever an append's I/O    *)
(* errors leave in the files and however often the daemon crashes inside   *)
(* one: append raises meta.head before the reply and load_one never starts *)
(* below it.                                                               *)
THEOREM AckedSeqsAreDistinct == Spec => []AckedSeqsDistinct
<1> DEFINE IInv == HeadsCoverAcked /\ AckedSeqsDistinct
<1>1. Init => IInv
  BY DEF Init, HeadsCoverAcked, AckedSeqsDistinct
<1>2. TypeOK /\ IInv /\ [Next]_vars => IInv'
  <2> SUFFICES ASSUME TypeOK, IInv, [Next]_vars PROVE IInv'
    OBVIOUS
  <2> USE DEF TypeOK, HeadsCoverAcked, AckedSeqsDistinct, Frame
  <2>1. ASSUME NEW c \in Calls, SendOk(c) PROVE IInv'
    BY <2>1 DEF SendOk, Prospective, MaxNat
  <2>2. ASSUME NEW c \in Calls, NEW fault \in AllIoFaults, SendErr(c, fault)
        PROVE  IInv'
    BY <2>2 DEF SendErr, MaxNat, memVars
  <2>3. CASE Crash
    BY <2>3 DEF Crash, MaxNat, fileVars
  <2>4. ASSUME NEW k \in 0 .. Len(behind), Load(k) PROVE IInv'
    <3>1. LogTail(Found(k)) \in Nat
      <4> USE DEF TypeOK
      <4> HIDE DEF Frame, HeadsCoverAcked, AckedSeqsDistinct
      <4> QED BY FoundIsLog
    <3> QED
      BY <2>4, <3>1 DEF Load, Found, MaxNat, callVars
  <2>5. CASE UNCHANGED vars
    BY <2>5, Zenon DEF vars, fileVars, memVars, callVars
  <2> QED
    BY <2>1, <2>2, <2>3, <2>4, <2>5 DEF Next, Restart
<1> QED
  BY <1>1, <1>2, TypeCorrect, PTL DEF Spec

-----------------------------------------------------------------------------
(* From here on no failing append has left bytes behind; a crash still may *)
(* come at any point of one.                                               *)

\* Memory is the file, the file is 1, 2, 3, ..., and every frame in it was
\* acknowledged or was in flight at a crash.
Dense ==
  /\ behind = <<>>
  /\ \A i \in 1 .. Len(frames) : frames[i].seq = i
  /\ metaHead <= Len(frames)
  /\ IF up THEN ~torn /\ log = frames /\ head = Len(frames) ELSE log = <<>>
  /\ \A m \in acked : \E i \in 1 .. Len(frames) : frames[i] = m
  /\ \A i \in 1 .. Len(frames) :
       frames[i] \in acked \/ frames[i].call \in unanswered
  /\ (AckedCalls \cup unanswered) \cap rejected = {}

(* Appending the prospective message at seq Len + 1 keeps the file dense.  *)
LEMMA AppendDense ==
  ASSUME NEW c \in Calls, frames \in Seq(Frame), head = Len(frames), ~torn,
         behind = <<>>, \A i \in 1 .. Len(frames) : frames[i].seq = i,
         WriteFrame(Prospective(c))
  PROVE  /\ behind' = <<>> /\ torn' = torn /\ frames' \in Seq(Frame)
         /\ frames' = Append(frames, Prospective(c))
         /\ Len(frames') = Len(frames) + 1
         /\ frames'[Len(frames) + 1] = Prospective(c)
         /\ Prospective(c).seq = Len(frames) + 1 /\ Prospective(c).call = c
         /\ \A i \in 1 .. Len(frames) : frames'[i] = frames[i]
         /\ \A i \in 1 .. Len(frames') : frames'[i].seq = i
<1>1. Prospective(c) \in Frame
  <2>1. head + 1 \in Nat
    OBVIOUS
  <2> QED
    BY <2>1, Zenon DEF Prospective, Frame
<1>2. Prospective(c).seq = Len(frames) + 1 /\ Prospective(c).call = c
  BY Zenon DEF Prospective
<1>3. /\ behind' = <<>> /\ torn' = torn
      /\ frames' = Append(frames, Prospective(c))
  BY Zenon DEF WriteFrame
<1>4. /\ Len(frames') = Len(frames) + 1 /\ frames' \in Seq(Frame)
      /\ frames'[Len(frames) + 1] = Prospective(c)
      /\ \A i \in 1 .. Len(frames) : frames'[i] = frames[i]
  BY <1>1, <1>3
<1>5. \A i \in 1 .. Len(frames') : frames'[i].seq = i
  <2> SUFFICES ASSUME NEW i \in 1 .. Len(frames') PROVE frames'[i].seq = i
    OBVIOUS
  <2>1. CASE i = Len(frames) + 1
    BY <2>1, <1>2, <1>4, Zenon
  <2>2. CASE i \in 1 .. Len(frames)
    BY <2>2, <1>4, Zenon
  <2> QED
    BY <2>1, <2>2, <1>4
<1> QED
  BY <1>2, <1>3, <1>4, <1>5, Zenon

(* Damage is never undone: no step clears the flag.                        *)
LEMMA DamageStays ==
  ASSUME TypeOK, [Next]_vars, ~damaged'
  PROVE  ~damaged
<1>1. ASSUME NEW c \in Calls, SendOk(c) PROVE ~damaged
  BY <1>1, Zenon DEF SendOk
<1>2. ASSUME NEW c \in Calls, NEW fault \in AllIoFaults, SendErr(c, fault)
      PROVE  ~damaged
  BY <1>2, Zenon DEF SendErr
<1>3. CASE Crash
  BY <1>3 DEF Crash
<1>4. ASSUME NEW k \in 0 .. Len(behind), Load(k) PROVE ~damaged
  BY <1>4 DEF Load, callVars
<1>5. CASE UNCHANGED vars
  BY <1>5 DEF vars, callVars
<1> QED
  BY <1>1, <1>2, <1>3, <1>4, <1>5, Zenon DEF Next, Restart

(* Dense is inductive for as long as no failing append has left bytes.     *)
LEMMA DenseInductive ==
  ASSUME TypeOK, Dense, [Next]_vars, ~damaged'
  PROVE  Dense'
<1> DEFINE File     == /\ behind = <<>>
                       /\ \A i \in 1 .. Len(frames) : frames[i].seq = i
                       /\ metaHead <= Len(frames)
           Memory   == IF up THEN ~torn /\ log = frames /\ head = Len(frames)
                       ELSE log = <<>>
           Kept     == \A m \in acked : \E i \in 1 .. Len(frames) : frames[i] = m
           Answered == \A i \in 1 .. Len(frames) :
                         frames[i] \in acked \/ frames[i].call \in unanswered
           Apart    == (AckedCalls \cup unanswered) \cap rejected = {}
<1>0. File /\ Memory /\ Kept /\ Answered /\ Apart
  BY DEF Dense
<1>t. /\ frames \in Seq(Frame) /\ metaHead \in Nat /\ head \in Nat
      /\ up \in BOOLEAN /\ torn \in BOOLEAN
  BY DEF TypeOK
<1> SUFFICES File' /\ Memory' /\ Kept' /\ Answered' /\ Apart'
  BY Zenon DEF Dense
<1>1. ASSUME NEW c \in Calls, up, Unused(c), WriteFrame(Prospective(c)),
             \/ acked' = acked \cup {Prospective(c)} /\ unanswered' = unanswered
             \/ acked' = acked /\ unanswered' = unanswered \cup {c},
             rejected' = rejected,
             metaHead' = metaHead \/ metaHead' = MaxNat(metaHead, head + 1)
      PROVE  File' /\ Kept' /\ Answered' /\ Apart'
  <2>1. head = Len(frames) /\ ~torn
    BY <1>0, <1>1
  <2>2. /\ behind' = <<>>
        /\ Len(frames') = Len(frames) + 1
        /\ frames'[Len(frames) + 1] = Prospective(c)
        /\ Prospective(c).call = c
        /\ \A i \in 1 .. Len(frames) : frames'[i] = frames[i]
        /\ \A i \in 1 .. Len(frames') : frames'[i].seq = i
    BY <1>0, <1>1, <1>t, <2>1, AppendDense, Zenon
  <2>3. Len(frames) \in Nat
    BY <1>t
  <2>4. File'
    BY <1>0, <1>1, <1>t, <2>1, <2>2, <2>3 DEF MaxNat
  <2>5. Kept'
    <3> SUFFICES ASSUME NEW m \in acked'
                 PROVE  \E i \in 1 .. Len(frames') : frames'[i] = m
      OBVIOUS
    <3>1. CASE m \in acked
      BY <3>1, <1>0, <2>2, <2>3
    <3>2. CASE m = Prospective(c)
      <4>1. Len(frames) + 1 \in 1 .. Len(frames')
        BY <2>2, <2>3
      <4> QED
        BY <3>2, <4>1, <2>2, Zenon
    <3> QED
      BY <1>1, <3>1, <3>2, Zenon
  <2>6. Answered'
    <3> SUFFICES ASSUME NEW i \in 1 .. Len(frames')
                 PROVE  frames'[i] \in acked' \/ frames'[i].call \in unanswered'
      OBVIOUS
    <3>1. CASE i = Len(frames) + 1
      BY <3>1, <1>1, <2>2, Zenon
    <3>2. CASE i \in 1 .. Len(frames)
      BY <3>2, <1>0, <1>1, <2>2, Zenon
    <3> QED
      BY <3>1, <3>2, <2>2, <2>3
  <2>7. Apart'
    BY <1>0, <1>1, <2>2 DEF AckedCalls, Unused
  <2> QED
    BY <2>4, <2>5, <2>6, <2>7
<1>2. ASSUME NEW c \in Calls, SendOk(c)
      PROVE  File' /\ Memory' /\ Kept' /\ Answered' /\ Apart'
  <2>1. /\ up /\ Unused(c) /\ WriteFrame(Prospective(c))
        /\ acked' = acked \cup {Prospective(c)} /\ unanswered' = unanswered
        /\ rejected' = rejected /\ metaHead' = MaxNat(metaHead, head + 1)
    BY <1>2, Zenon DEF SendOk
  <2>2. File' /\ Kept' /\ Answered' /\ Apart'
    <3> HIDE DEF File, Memory, Kept, Answered, Apart
    <3> QED BY <1>1, <2>1, Zenon
  <2>3. Memory'
    <3>1. head = Len(frames) /\ ~torn /\ log = frames
      BY <1>0, <2>1, Zenon
    <3>2. /\ torn' = torn /\ frames' = Append(frames, Prospective(c))
          /\ Len(frames') = Len(frames) + 1
      BY <1>0, <1>t, <2>1, <3>1, AppendDense, Zenon
    <3>3. head' = head + 1 /\ log' = Append(log, Prospective(c)) /\ up'
      BY <1>2, Zenon DEF SendOk
    <3> QED
      BY <3>1, <3>2, <3>3, Zenon
  <2> QED
    BY <2>2, <2>3, Zenon
<1>3. ASSUME NEW c \in Calls, NEW fault \in AllIoFaults, SendErr(c, fault)
      PROVE  File' /\ Memory' /\ Kept' /\ Answered' /\ Apart'
  <2>1. fault = "none"
    BY <1>3, Zenon DEF SendErr
  <2>2. /\ UNCHANGED <<frames, torn, behind, metaHead, up, log, head, acked,
                       unanswered>>
        /\ rejected' = rejected \cup {c} /\ Unused(c)
    BY <1>3, <2>1 DEF SendErr, memVars
  <2> QED
    BY <1>0, <2>2 DEF AckedCalls, Unused
<1>4. CASE Crash
  <2>1. ~up' /\ log' = <<>> /\ acked' = acked /\ rejected' = rejected /\ up
    BY <1>4 DEF Crash
  <2>2. CASE UNCHANGED <<fileVars, unanswered>>
    BY <1>0, <2>1, <2>2 DEF fileVars, AckedCalls
  <2>3. ASSUME NEW c \in Calls, Unused(c), unanswered' = unanswered \cup {c},
               UNCHANGED fileVars \/ (WritePart /\ UNCHANGED metaHead)
        PROVE  File' /\ Memory' /\ Kept' /\ Answered' /\ Apart'
    <3>1. UNCHANGED <<frames, behind, metaHead>>
      BY <2>3, Zenon DEF fileVars, WritePart
    <3>2. File' /\ Memory' /\ Kept'
      BY <1>0, <2>1, <3>1, Zenon
    <3>3. Answered'
      BY <1>0, <2>1, <2>3, <3>1, Zenon
    <3>4. Apart'
      BY <1>0, <2>1, <2>3 DEF AckedCalls, Unused
    <3> QED
      BY <3>2, <3>3, <3>4, Zenon
  <2>4. ASSUME NEW c \in Calls, Unused(c), unanswered' = unanswered \cup {c},
               WriteFrame(Prospective(c)),
               metaHead' = metaHead \/ metaHead' = MaxNat(metaHead, head + 1)
        PROVE  File' /\ Memory' /\ Kept' /\ Answered' /\ Apart'
    BY <1>1, <2>1, <2>4
  <2> HIDE DEF File, Memory, Kept, Answered, Apart
  <2> SUFFICES ASSUME ~UNCHANGED <<fileVars, unanswered>>
               PROVE  File' /\ Memory' /\ Kept' /\ Answered' /\ Apart'
    BY <2>2
  <2> DEFINE Goal == File' /\ Memory' /\ Kept' /\ Answered' /\ Apart'
  <2>5. PICK c \in Calls :
          /\ Unused(c)
          /\ unanswered' = unanswered \cup {c}
          /\ \/ UNCHANGED fileVars
             \/ WritePart /\ UNCHANGED metaHead
             \/ WriteFrame(Prospective(c)) /\ UNCHANGED metaHead
             \/ /\ WriteFrame(Prospective(c))
                /\ metaHead' = MaxNat(metaHead, head + 1)
    BY <1>4, Zenon DEF Crash
  <2>6. UNCHANGED fileVars => Goal
    BY <2>3, <2>5 DEF fileVars
  <2>7. WritePart /\ UNCHANGED metaHead => Goal
    BY <2>3, <2>5, Zenon
  <2>8. WriteFrame(Prospective(c)) /\ UNCHANGED metaHead => Goal
    BY <2>4, <2>5
  <2>9. /\ WriteFrame(Prospective(c))
        /\ metaHead' = MaxNat(metaHead, head + 1)
        => Goal
    BY <2>4, <2>5
  <2> HIDE DEF Goal
  <2>10. Goal
    BY <2>5, <2>6, <2>7, <2>8, <2>9
  <2> QED
    BY <2>10 DEF Goal
<1>5. ASSUME NEW k \in 0 .. Len(behind), Load(k)
      PROVE  File' /\ Memory' /\ Kept' /\ Answered' /\ Apart'
  <2>1. k = 0 /\ SubSeq(behind, Len(behind) - k + 1, Len(behind)) = <<>>
    BY <1>0, <1>5
  <2>0. frames \o <<>> = frames
    BY <1>t
  <2>2. /\ frames' = frames /\ log' = frames /\ up' /\ behind' = <<>> /\ torn' = FALSE
        /\ head' = MaxNat(metaHead, LogTail(frames))
        /\ UNCHANGED <<metaHead, acked, rejected, unanswered>>
    BY <1>5, <2>0, <2>1, Zenon DEF Load, callVars
  <2>3. LogTail(frames) = Len(frames) /\ Len(frames) \in Nat
    BY <1>0, <1>t, LogTailOfDense
  <2>4. head' = Len(frames)
    BY <1>0, <1>t, <2>2, <2>3 DEF MaxNat
  <2> QED
    BY <1>0, <2>2, <2>4, Zenon DEF AckedCalls
<1>6. CASE UNCHANGED vars
  BY <1>0, <1>6 DEF vars, fileVars, memVars, callVars, AckedCalls
<1> QED
  BY <1>2, <1>3, <1>4, <1>5, <1>6 DEF Next, Restart

(* The dense log is what a run keeps until a failing append has left bytes *)
(* behind: append and load_one, crashes included, preserve it.             *)
LEMMA DenseUntilDamaged == Spec => [](~damaged => Dense)
<1> DEFINE IInv == ~damaged => Dense
<1>1. Init => IInv
  BY DEF Init, Dense, AckedCalls
<1>2. TypeOK /\ IInv /\ [Next]_vars => IInv'
  <2> SUFFICES ASSUME TypeOK, IInv, [Next]_vars, ~damaged' PROVE Dense'
    OBVIOUS
  <2>1. ~damaged
    BY DamageStays
  <2> QED
    BY <2>1, DenseInductive
<1> QED
  BY <1>1, <1>2, TypeCorrect, PTL DEF Spec

(* Until a failing append has left bytes behind, and with the daemon       *)
(* crashing at any point of any append: acknowledged messages are durable, *)
(* no seq is used twice, a restart rebuilds the running daemon's log and   *)
(* head, and a rejected Send never resurfaces.                             *)
THEOREM CrashSafe == Spec => []CrashSafety
<1>1. TypeOK /\ (~damaged => Dense) => CrashSafety
  <2>0. damaged => CrashSafety
    BY DEF CrashSafety, AckedIsDurable, NoSecondFrameAtASeq,
           RestartIsTransparent, RejectedStaysOut
  <2> SUFFICES ASSUME TypeOK, Dense
               PROVE  CrashSafety
    BY <2>0
  <2>1. AckedIsDurable
    BY DEF Dense, AckedIsDurable, Durable
  <2>2. NoSecondFrameAtASeq
    BY Zenon DEF Dense, NoSecondFrameAtASeq, TypeOK
  <2>3. LogTail(frames) = Len(frames) /\ Len(frames) \in Nat /\ metaHead \in Nat
    BY LogTailOfDense DEF Dense, TypeOK
  <2>4. RestartIsTransparent
    BY <2>3 DEF Dense, RestartIsTransparent, MaxNat
  <2>5. \A c \in rejected : ~InLog(c, frames)
    BY DEF Dense, InLog, AckedCalls
  <2>6. RejectedStaysOut
    BY <2>5 DEF Dense, RejectedStaysOut, InLog
  <2> QED
    BY <2>1, <2>2, <2>4, <2>6 DEF CrashSafety
<1> QED
  BY <1>1, TypeCorrect, DenseUntilDamaged, PTL
-----------------------------------------------------------------------------
(* The refinement.                                                         *)

\* The abstract log's entries: the calls of the frames.
CallsOf(l) == [i \in 1 .. Len(l) |-> l[i].call]

(* A function on 1 .. n is a sequence of length n.                         *)
LEMMA FunctionIsSeq ==
  ASSUME NEW S, NEW n \in Nat, NEW f \in [1 .. n -> S]
  PROVE  f \in Seq(S) /\ Len(f) = n
<1>1. f \in Seq(S)
  BY SeqDef, Zenon
<1>2. Len(f) \in Nat /\ DOMAIN f = 1 .. Len(f) /\ DOMAIN f = 1 .. n
  BY <1>1, LenProperties, Zenon
<1> QED
  BY <1>1, <1>2

(* The calls of a log are a sequence of its length.                        *)
LEMMA CallsAreSeq ==
  ASSUME NEW l \in Seq(Frame)
  PROVE  /\ Len(l) \in Nat /\ Len(CallsOf(l)) = Len(l)
         /\ CallsOf(l) \in Seq(Calls)
         /\ \A i \in 1 .. Len(l) : CallsOf(l)[i] = l[i].call
<1>0. Len(l) \in Nat /\ \A i \in 1 .. Len(l) : l[i] \in Frame
  OBVIOUS
<1>1. Len(l) \in Nat /\ CallsOf(l) \in [1 .. Len(l) -> Calls]
  BY <1>0, Zenon DEF CallsOf, Frame
<1>2. CallsOf(l) \in Seq(Calls) /\ Len(CallsOf(l)) = Len(l)
  BY <1>1, FunctionIsSeq, Zenon
<1> QED
  BY <1>1, <1>2, Zenon DEF CallsOf

(* A call that got no answer yet is fresh for the abstract log: every      *)
(* frame in the file belongs to an acknowledged call or to one cut off by  *)
(* a crash.                                                                *)
LEMMA UnusedIsFresh ==
  ASSUME TypeOK, Dense, NEW c \in Calls, Unused(c)
  PROVE  Abs!Fresh(c)
<1>1. c \notin AckedCalls \cup rejected
  BY DEF Unused
<1>2. \A i \in 1 .. Len(frames) : frames[i].call # c
  BY DEF Dense, Unused, AckedCalls
<1>3. Len(CallsOf(frames)) = Len(frames)
  BY CallsAreSeq DEF TypeOK
<1> QED
  BY <1>1, <1>2, <1>3, Zenon DEF Abs!Fresh, Abs!Logged, CallsOf

(* A frame that WriteFrame puts into the undamaged file is an entry of the *)
(* abstract log.                                                           *)
LEMMA WriteIsCommit ==
  ASSUME TypeOK, Dense, up, NEW c \in Calls, WriteFrame(Prospective(c))
  PROVE  CallsOf(frames)' = Append(CallsOf(frames), c)
<1>1. /\ frames \in Seq(Frame) /\ head = Len(frames) /\ ~torn /\ behind = <<>>
      /\ \A i \in 1 .. Len(frames) : frames[i].seq = i
  BY DEF TypeOK, Dense
<1>2. /\ Len(frames') = Len(frames) + 1 /\ frames' \in Seq(Frame)
      /\ frames'[Len(frames) + 1].call = c
      /\ \A i \in 1 .. Len(frames) : frames'[i] = frames[i]
  BY <1>1, AppendDense
<1> DEFINE new == Append(CallsOf(frames), c)
<1>3. /\ new \in Seq(Calls) /\ Len(new) = Len(frames) + 1
      /\ \A i \in 1 .. Len(frames) : new[i] = frames[i].call
      /\ new[Len(frames) + 1] = c
  BY <1>1, CallsAreSeq
<1>4. /\ CallsOf(frames') \in Seq(Calls) /\ Len(CallsOf(frames')) = Len(frames) + 1
      /\ \A i \in 1 .. Len(frames) + 1 : CallsOf(frames')[i] = frames'[i].call
  BY <1>2, CallsAreSeq, Zenon
<1>5. Len(frames) \in Nat
  BY <1>1
<1>6. \A i \in 1 .. Len(frames) + 1 : CallsOf(frames')[i] = new[i]
  BY <1>2, <1>3, <1>4, <1>5
<1> HIDE DEF new
<1>7. CallsOf(frames') = new
  BY <1>3, <1>4, <1>6, SeqEqual, Zenon
<1> QED
  BY <1>7, Zenon DEF new, CallsOf

(* Every step of the undamaged host log is a step of the abstract log or   *)
(* leaves it alone.                                                        *)
LEMMA StepIsAbstract ==
  ASSUME TypeOK, Dense, [Next]_vars, ~damaged'
  PROVE  [Abs!AbsNext]_(Abs!absVars)
<1> DEFINE Stutters == CallsOf(frames)' = CallsOf(frames) /\ AckedCalls' = AckedCalls
                       /\ rejected' = rejected
<1>0. Stutters => [Abs!AbsNext]_(Abs!absVars)
  BY Zenon DEF Abs!absVars, CallsOf
<1>1. ASSUME NEW c \in Calls, SendOk(c) PROVE [Abs!AbsNext]_(Abs!absVars)
  <2>1. Abs!Fresh(c)
    BY <1>1, UnusedIsFresh, Zenon DEF SendOk
  <2>2. CallsOf(frames)' = Append(CallsOf(frames), c)
    BY <1>1, WriteIsCommit, Zenon DEF SendOk
  <2>3. AckedCalls' = AckedCalls \cup {c} /\ rejected' = rejected
    BY <1>1 DEF SendOk, AckedCalls, Prospective
  <2>4. Abs!Commit(c)
    BY <2>1, <2>2, <2>3, Zenon DEF Abs!Commit, CallsOf
  <2> QED
    BY <2>4, Zenon DEF Abs!AbsNext
<1>2. ASSUME NEW c \in Calls, NEW fault \in AllIoFaults, SendErr(c, fault)
      PROVE  [Abs!AbsNext]_(Abs!absVars)
  <2>1. fault = "none"
    BY <1>2, Zenon DEF SendErr
  <2>2. frames' = frames /\ acked' = acked /\ rejected' = rejected \cup {c}
    BY <1>2, <2>1 DEF SendErr
  <2>3. Abs!Fresh(c)
    BY <1>2, UnusedIsFresh DEF SendErr
  <2>4. Abs!Reject(c)
    BY <2>2, <2>3 DEF Abs!Reject, AckedCalls
  <2> QED
    BY <2>4 DEF Abs!AbsNext
<1>3. CASE Crash
  <2>1. up /\ AckedCalls' = AckedCalls /\ rejected' = rejected
    BY <1>3 DEF Crash, AckedCalls
  <2>2. CASE frames' = frames
    BY <1>0, <2>1, <2>2 DEF CallsOf
  <2>3. ASSUME NEW c \in Calls, Unused(c), WriteFrame(Prospective(c))
        PROVE  [Abs!AbsNext]_(Abs!absVars)
    <3>1. CallsOf(frames)' = Append(CallsOf(frames), c)
      BY <2>1, <2>3, WriteIsCommit
    <3>2. Abs!CommitUnanswered(c)
      BY <2>1, <2>3, <3>1, UnusedIsFresh, Zenon DEF Abs!CommitUnanswered, CallsOf
    <3> QED
      BY <3>2 DEF Abs!AbsNext
  <2>4. \/ frames' = frames
        \/ \E c \in Calls : Unused(c) /\ WriteFrame(Prospective(c))
    BY <1>3 DEF Crash, fileVars, WritePart
  <2> QED
    BY <2>2, <2>3, <2>4
<1>4. ASSUME NEW k \in 0 .. Len(behind), Load(k)
      PROVE  [Abs!AbsNext]_(Abs!absVars)
  <2>1. SubSeq(behind, Len(behind) - k + 1, Len(behind)) = <<>>
    BY <1>4 DEF Dense
  <2>2. frames \o <<>> = frames
    BY DEF TypeOK
  <2>3. frames' = frames /\ acked' = acked /\ rejected' = rejected
    BY <1>4, <2>1, <2>2, Zenon DEF Load, callVars
  <2> QED
    BY <1>0, <2>3 DEF CallsOf, AckedCalls
<1>5. CASE UNCHANGED vars
  BY <1>0, <1>5 DEF vars, fileVars, callVars, CallsOf, AckedCalls
<1> QED
  BY <1>1, <1>2, <1>3, <1>4, <1>5, Zenon DEF Next, Restart

(* Registry::send over FsLogStore implements the durable log: it starts as *)
(* the empty one, and until a failed append leaves bytes behind every step *)
(* of it, a crash or a reload included, is a commit, a refusal or nothing. *)
THEOREM RefinesDurableLog == Spec => ImplementsDurableLog
<1>1. Init => Abs!AbsInit
  BY DEF Init, Abs!AbsInit, AckedCalls
<1>2. TypeOK /\ (~damaged => Dense) /\ [Next]_vars
      => [~damaged' => [Abs!AbsNext]_(Abs!absVars)]_vars
  <2> SUFFICES ASSUME TypeOK, ~damaged => Dense, [Next]_vars, ~damaged'
               PROVE  [Abs!AbsNext]_(Abs!absVars)
    OBVIOUS
  <2>1. ~damaged
    BY DamageStays
  <2> QED
    BY <2>1, StepIsAbstract
<1> QED
  BY <1>1, <1>2, TypeCorrect, DenseUntilDamaged, PTL DEF Spec, ImplementsDurableLog
=============================================================================
