---------------------------- MODULE FsStoreWrites ----------------------------
(***************************************************************************)
(* The inductive invariant of FsStore, lemmas on what one write of a store *)
(* call does to the session that a restart would load, and the proof that  *)
(* a call keeps the invariant as it begins, writes, fails and returns.     *)
(* The theorems are in FsStoreProofs.                                      *)
(*                                                                         *)
(* The invariant follows a store call write by write.  At each stage it    *)
(* names the session that a restart would load there, exactly as long as   *)
(* no write has failed, and as a lower bound from then on.                 *)
(***************************************************************************)
EXTENDS FsStore, TLAPS
-----------------------------------------------------------------------------
(* The inductive invariant                                                 *)

\* A log that has a highest sequence number
Log == {l \in Seq(Frame) : \E m \in {0} \cup {l[i].seq : i \in DOMAIN l} :
                              \A i \in DOMAIN l : l[i].seq <= m}

Dir == [dir : BOOLEAN, meta : Meta \cup {Nothing}, log : Log,
        tickets : Nat \cup {Corrupt}, envelope : Nat \cup {Corrupt}, floor : Nat]

Calls == [pc : {"none", "found", "checked", "written"}, kind : {reg.kind}, val : Nat, life : Nat]

Typed ==
  /\ disk \in Dir /\ files \in [Kinds -> Nat] /\ tmps \subseteq Kinds
  /\ mem \in Record \cup {Nothing} /\ life \in Nat /\ puts \in Nat
  /\ reg \in Calls /\ list \in [on : BOOLEAN, todo : SUBSET Kinds, out : SUBSET (Kinds \X Nat)]
  /\ {up, shaky, broken, crossed} \subseteq BOOLEAN
  /\ ~up => mem = Nothing /\ op = Idle /\ reg = NoCall /\ list = NoList

\* A restart would load at least this session.
Covers(r) ==
  /\ Loaded # Nothing
  /\ r.tickets <= Loaded.tickets /\ r.envelope <= Loaded.envelope
  /\ r.epoch <= Loaded.epoch /\ r.head <= Loaded.head

\* It would load exactly this one, as long as no write has failed.
Holds(r) ==
  /\ ~broken => Covers(r)
  /\ ~broken /\ ~shaky => Loaded = r

Blank == ~broken /\ ~shaky => disk.meta = Nothing

Doing(name, steps, after) ==
  op = [name |-> name, steps |-> steps, after |-> after, was |-> Nothing]

\* The session that Registry::host creates, its ledger written or not yet.
Fresh(e, t) == [members |-> {Host}, epoch |-> e, head |-> 0, log |-> <<>>,
                tickets |-> t, envelope |-> 0]

FirstMeta(e) == Step("meta", [members |-> {Host}, epoch |-> e, head |-> 0])

Creating(e) ==
  \/ /\ Doing("create", <<Step("dir", 0), Step("floor", e + 1), FirstMeta(e), Step("tickets", 1)>>,
              Fresh(e, 1))
     /\ Blank
  \/ /\ Doing("create", <<Step("floor", e + 1), FirstMeta(e), Step("tickets", 1)>>, Fresh(e, 1))
     /\ Blank /\ disk.dir
  \/ /\ Doing("create", <<FirstMeta(e), Step("tickets", 1)>>, Fresh(e, 1))
     /\ Blank /\ disk.dir /\ e < disk.floor
  \/ Doing("create", <<Step("tickets", 1)>>, Fresh(e, 1)) /\ Holds(Fresh(e, 0))
  \/ Doing("create", <<>>, Fresh(e, 1)) /\ Holds(Fresh(e, 1))

Reissued == [mem EXCEPT !.tickets = mem.tickets + 1]
Resumed  == [mem EXCEPT !.tickets = mem.tickets + 1, !.epoch = mem.epoch + 1]

Resuming ==
  LET n == mem.epoch + 1
      t == Step("tickets", mem.tickets + 1)
  IN \/ Doing("resume", <<t, Step("floor", n + 1), Step("epoch", n)>>, Resumed) /\ Holds(mem)
     \/ Doing("resume", <<Step("floor", n + 1), Step("epoch", n)>>, Resumed) /\ Holds(Reissued)
     \/ /\ Doing("resume", <<Step("epoch", n)>>, Resumed)
        /\ Holds(Reissued) /\ n < disk.floor
     \/ Doing("resume", <<>>, Resumed) /\ Holds(Resumed)
     \/ Doing("resume", <<t>>, Resumed) /\ broken

Enveloped  == [mem EXCEPT !.envelope = mem.envelope + 1]
Joined(p)  == [mem EXCEPT !.members = mem.members \cup {p}]
Parted(p)  == [mem EXCEPT !.members = mem.members \ {p}]

\* A call of one write
Rewriting(name, s, after) ==
  \/ Doing(name, <<s>>, after) /\ Holds(mem)
  \/ Doing(name, <<>>, after) /\ Holds(after)

Rewrites ==
  \/ Rewriting("tickets", Step("tickets", mem.tickets + 1), Reissued)
  \/ Rewriting("envelope", Step("envelope", mem.envelope + 1), Enveloped)
  \/ \E p \in Peers : \/ Rewriting("add", Step("member", p), Joined(p))
                      \/ Rewriting("remove", Step("parted", p), Parted(p))

NextFrame == [seq |-> mem.head + 1, life |-> life]
Sent      == [mem EXCEPT !.head = mem.head + 1, !.log = Append(mem.log, NextFrame)]

Appending ==
  \/ Doing("append", <<Step("frame", NextFrame), Step("head", mem.head + 1)>>, Sent) /\ Holds(mem)
  \/ Doing("append", <<Step("head", mem.head + 1)>>, Sent) /\ Holds(Sent)
  \/ Doing("append", <<>>, Sent) /\ Holds(Sent)

\* A session that a restart would have loaded is this one, in the same sense.
Kept(l, r) ==
  /\ ~broken => /\ l # Nothing
                /\ r.tickets <= l.tickets /\ r.envelope <= l.envelope
                /\ r.epoch <= l.epoch /\ r.head <= l.head
  /\ ~broken /\ ~shaky => l = r

\* A delete knows what there was to load when it began.
Deleting ==
  /\ op = [name |-> "delete", steps |-> <<>>, after |-> Nothing, was |-> op.was]
  /\ Kept(op.was[1], mem)

Stage ==
  \/ op = Idle /\ (up => IF mem = Nothing THEN Blank ELSE Holds(mem))
  \/ mem = Nothing /\ up /\ \E e \in Nat : Creating(e)
  \/ mem # Nothing /\ up /\ (Resuming \/ Rewrites \/ Appending \/ Deleting)

\* Every epoch ever in meta.json is below the floor.
Floors ==
  /\ epochs \subseteq Nat /\ \A e \in epochs : e < disk.floor
  /\ disk.meta # Nothing => disk.meta.epoch < disk.floor

\* Nothing is beside a meta.json that is not there, and the envelope is readable.
Bare ==
  ~broken =>
    /\ disk.envelope # Corrupt
    /\ disk.meta = Nothing /\ op.name # "delete" =>
         disk.log = <<>> /\ disk.tickets = 0 /\ disk.envelope = 0

\* Nothing is in a directory that is not there.
Nowhere ==
  ~disk.dir => /\ disk.meta = Nothing /\ disk.log = <<>> /\ disk.tickets = 0 /\ disk.envelope = 0
               /\ files = NoFiles /\ tmps = {}

\* A registration past its check has the lock of the present session, until one has
\* crossed into a later life.
Registering ==
  /\ reg.pc # "none" => reg.kind \in Kinds /\ reg.val \in 1 .. puts /\ reg.life <= life
  /\ op.name = "create" /\ reg.pc # "none" => reg.life < life
  /\ ~crossed /\ reg.pc \in {"checked", "written"} =>
       reg.life = life /\ op = Idle /\ mem # Nothing
  /\ ~crossed /\ reg.pc = "found" /\ reg.life = life /\ op = Idle /\ mem = Nothing => ~disk.dir

\* Attachments are those of a session in memory or, while the daemon is down, on disk.
Owned ==
  /\ \A k \in Kinds : files[k] \in 0 .. puts
  /\ up => tmps \subseteq IF reg.pc = "written" THEN {reg.kind} ELSE {}
  /\ \A x \in list.out : x[2] \in 1 .. puts
  /\ ~broken /\ ~crossed /\ disk.meta = Nothing /\ op.name # "delete" => files = NoFiles
  /\ ~broken /\ ~crossed /\ up /\ mem = Nothing => files = NoFiles

Inv == Typed /\ Stage /\ Floors /\ Bare /\ Nowhere /\ Registering /\ Owned
-----------------------------------------------------------------------------
(* Maxima, and what a directory loads as                                   *)

(* Taking the larger of two is associative and commutative.                *)
LEMMA LargerOfThree ==
  ASSUME NEW a \in Nat, NEW b \in Nat, NEW c \in Nat
  PROVE  /\ Larger(a, Larger(b, c)) = Larger(Larger(a, b), c)
         /\ Larger(Larger(a, c), b) = Larger(Larger(a, b), c)
BY DEF Larger

(* The frames of a log have sequence numbers.                              *)
LEMMA SeqsOf ==
  ASSUME NEW l \in Seq(Frame)
  PROVE  /\ DOMAIN l = 1 .. Len(l) /\ Len(l) \in Nat
         /\ \A i \in DOMAIN l : l[i].seq \in Nat
<1>1. DOMAIN l = 1 .. Len(l) /\ Len(l) \in Nat /\ \A i \in DOMAIN l : l[i] \in Frame
  OBVIOUS
<1> QED
  BY <1>1 DEF Frame

(* The highest sequence number in a log is the one bound that is attained. *)
LEMMA TailIs ==
  ASSUME NEW l \in Seq(Frame), NEW m \in {0} \cup {l[i].seq : i \in DOMAIN l},
         \A i \in DOMAIN l : l[i].seq <= m
  PROVE  LogTail(l) = m /\ m \in Nat /\ l \in Log
<1> DEFINE S == {0} \cup {l[i].seq : i \in DOMAIN l}
           Bound(x) == \A i \in DOMAIN l : l[i].seq <= x
<1>1. S \subseteq Nat /\ m \in S /\ Bound(m)
  BY SeqsOf
<1>2. \A x \in S : Bound(x) => x = m
  <2> SUFFICES ASSUME NEW x \in S, Bound(x) PROVE x = m
    OBVIOUS
  <2>1. x \in Nat /\ m \in Nat
    BY <1>1, Zenon
  <2>2. x = 0 \/ x <= m
    OBVIOUS
  <2>3. m = 0 \/ m <= x
    OBVIOUS
  <2> QED
    BY <2>1, <2>2, <2>3
<1>3. LogTail(l) = CHOOSE x \in S : Bound(x)
  BY DEF LogTail
<1>4. l \in Log
  BY Zenon DEF Log
<1> HIDE DEF S, Bound
<1> QED
  BY <1>1, <1>2, <1>3, <1>4

(* The tail of a log is its highest sequence number.                       *)
LEMMA TailExists ==
  ASSUME NEW l \in Log
  PROVE  /\ LogTail(l) \in {0} \cup {l[i].seq : i \in DOMAIN l} /\ LogTail(l) \in Nat
         /\ \A i \in DOMAIN l : l[i].seq <= LogTail(l)
         /\ l \in Seq(Frame)
<1>1. l \in Seq(Frame)
  BY DEF Log
<1>2. PICK m \in {0} \cup {l[i].seq : i \in DOMAIN l} : \A i \in DOMAIN l : l[i].seq <= m
  BY Zenon DEF Log
<1>3. LogTail(l) = m /\ m \in Nat
  BY <1>1, <1>2, TailIs
<1> QED
  BY <1>1, <1>2, <1>3

(* The tail of a log with one more frame.                                  *)
LEMMA TailOfAppend ==
  ASSUME NEW l \in Log, NEW f \in Frame
  PROVE  /\ Append(l, f) \in Log
         /\ LogTail(Append(l, f)) = Larger(LogTail(l), f.seq)
<1> DEFINE a == Append(l, f)
           n == Larger(LogTail(l), f.seq)
<1>0. l \in Seq(Frame)
  BY TailExists
<1>1. a \in Seq(Frame) /\ DOMAIN l = 1 .. Len(l) /\ Len(l) \in Nat /\ DOMAIN a = 1 .. Len(l) + 1
  BY <1>0
<1>2. a[Len(l) + 1] = f /\ \A i \in 1 .. Len(l) : a[i] = l[i]
  BY <1>0
<1>3. /\ LogTail(l) \in {0} \cup {l[i].seq : i \in DOMAIN l} /\ LogTail(l) \in Nat
      /\ \A i \in DOMAIN l : l[i].seq <= LogTail(l)
  BY TailExists
<1>4. f.seq \in Nat /\ \A i \in DOMAIN l : l[i].seq \in Nat
  BY <1>0, SeqsOf DEF Frame
<1> HIDE DEF a
<1>5. n \in {0} \cup {a[i].seq : i \in DOMAIN a}
  BY <1>1, <1>2, <1>3 DEF Larger
<1>6. \A i \in DOMAIN a : a[i].seq <= n
  <2> SUFFICES ASSUME NEW i \in DOMAIN a PROVE a[i].seq <= n
    OBVIOUS
  <2>1. CASE i = Len(l) + 1
    BY <1>2, <1>3, <1>4, <2>1 DEF Larger
  <2>2. CASE i \in DOMAIN l
    BY <1>1, <1>2, <1>3, <1>4, <2>2 DEF Larger
  <2> QED
    BY <1>1, <2>1, <2>2
<1> HIDE DEF n
<1>7. LogTail(a) = n /\ a \in Log
  BY <1>1, <1>5, <1>6, TailIs, Zenon
<1> QED
  BY <1>7 DEF a, n

(* An empty log has tail 0.                                                *)
LEMMA TailOfEmpty == <<>> \in Log /\ <<>> \in Seq(Frame) /\ LogTail(<<>>) = 0
<1> DEFINE l == <<>>
<1>1. l \in Seq(Frame) /\ DOMAIN l = {}
  OBVIOUS
<1> HIDE DEF l
<1>2. 0 \in {0} \cup {l[i].seq : i \in DOMAIN l} /\ \A i \in DOMAIN l : l[i].seq <= 0
  BY <1>1
<1>3. LogTail(l) = 0 /\ l \in Log
  BY <1>1, <1>2, TailIs, Zenon
<1> QED
  BY <1>1, <1>3 DEF l

Session(ms, e, h, l, t, v) ==
  [members |-> ms, epoch |-> e, head |-> h, log |-> l, tickets |-> t, envelope |-> v]

\* What load_one makes of a directory.
Readable(d) == d.meta # Nothing /\ d.envelope # Corrupt
Image(d) ==
  IF Readable(d)
  THEN Session(d.meta.members, d.meta.epoch, Larger(d.meta.head, LogTail(d.log)), d.log,
               Ledger(d.tickets), d.envelope)
  ELSE Nothing

(* A session is a record, and Nothing is not.                              *)
LEMMA SessionIs ==
  ASSUME NEW ms \in SUBSET Peers, NEW e \in Nat, NEW h \in Nat, NEW l \in Seq(Frame),
         NEW t \in Nat, NEW v \in Nat
  PROVE  /\ Session(ms, e, h, l, t, v) \in Record /\ Session(ms, e, h, l, t, v) # Nothing
         /\ Session(ms, e, h, l, t, v).members = ms /\ Session(ms, e, h, l, t, v).epoch = e
         /\ Session(ms, e, h, l, t, v).head = h /\ Session(ms, e, h, l, t, v).log = l
         /\ Session(ms, e, h, l, t, v).tickets = t /\ Session(ms, e, h, l, t, v).envelope = v
BY FsStoreAssumption DEF Session, Record

(* What a session in memory or on disk consists of.                        *)
LEMMA RecordIs ==
  ASSUME NEW r \in Record
  PROVE  /\ r.members \in SUBSET Peers /\ r.epoch \in Nat /\ r.head \in Nat /\ r.log \in Seq(Frame)
         /\ r.tickets \in Nat /\ r.envelope \in Nat /\ r # Nothing
         /\ r = Session(r.members, r.epoch, r.head, r.log, r.tickets, r.envelope)
BY FsStoreAssumption DEF Session, Record

(* What a directory consists of.                                           *)
LEMMA DirIs ==
  ASSUME NEW d \in Dir
  PROVE  /\ d.dir \in BOOLEAN /\ d.log \in Log /\ d.log \in Seq(Frame) /\ LogTail(d.log) \in Nat
         /\ d.tickets \in Nat \cup {Corrupt} /\ Ledger(d.tickets) \in Nat
         /\ d.envelope \in Nat \cup {Corrupt} /\ d.floor \in Nat
         /\ d.meta \in Meta \cup {Nothing} /\ Nothing \notin Meta /\ Corrupt \notin Nat
         /\ d.meta # Nothing => /\ d.meta \in Meta /\ d.meta.members \in SUBSET Peers
                                /\ d.meta.epoch \in Nat /\ d.meta.head \in Nat
<1>1. /\ d.dir \in BOOLEAN /\ d.log \in Log /\ d.floor \in Nat
      /\ d.tickets \in Nat \cup {Corrupt} /\ d.envelope \in Nat \cup {Corrupt}
      /\ d.meta \in Meta \cup {Nothing}
  BY DEF Dir
<1>2. LogTail(d.log) \in Nat /\ d.log \in Seq(Frame)
  BY <1>1, TailExists
<1>3. Ledger(d.tickets) \in Nat
  BY <1>1 DEF Ledger
<1> QED
  BY <1>1, <1>2, <1>3, FsStoreAssumption, Zenon DEF Meta

(* A directory loads as a session or not at all.                           *)
LEMMA ImageIs ==
  ASSUME NEW d \in Dir
  PROVE  /\ Image(d) \in Record \cup {Nothing} /\ Nothing \notin Record
         /\ Readable(d) <=> Image(d) # Nothing
         /\ Readable(d) => /\ Image(d).epoch = d.meta.epoch /\ Image(d).log = d.log
                           /\ Image(d).members = d.meta.members
                           /\ Image(d).head = Larger(d.meta.head, LogTail(d.log))
                           /\ Image(d).tickets = Ledger(d.tickets)
                           /\ Image(d).envelope = d.envelope
<1>1. CASE Readable(d)
  <2>1. /\ d.meta.members \in SUBSET Peers /\ d.meta.epoch \in Nat /\ d.log \in Seq(Frame)
        /\ Ledger(d.tickets) \in Nat /\ d.envelope \in Nat
        /\ Larger(d.meta.head, LogTail(d.log)) \in Nat
    BY <1>1, DirIs DEF Readable, Larger
  <2> QED
    BY <1>1, <2>1, SessionIs, FsStoreAssumption DEF Image
<1>2. CASE ~Readable(d)
  BY <1>2, FsStoreAssumption DEF Image
<1> QED
  BY <1>1, <1>2

(* Loaded is that image.                                                   *)
LEMMA LoadedIs ==
  ASSUME disk \in Dir PROVE Loaded = Image(disk) /\ (Skipped <=> ~Readable(disk))
BY DEF Loaded, Image, Readable, Skipped, Session

(* So is the next state's.                                                 *)
LEMMA LoadedNext ==
  ASSUME disk' \in Dir PROVE Loaded' = Image(disk') /\ (Skipped' <=> ~Readable(disk'))
BY DEF Loaded, Image, Readable, Skipped, Session
-----------------------------------------------------------------------------
(* One write of a call                                                     *)

(* Steps are told apart by the file they write.                            *)
LEMMA StepIs ==
  ASSUME NEW f, NEW v PROVE Step(f, v).file = f /\ Step(f, v).val = v
BY DEF Step

(* create writes meta.json.                                                *)
LEMMA StepMeta ==
  ASSUME NEW d, NEW v PROVE Written(d, Step("meta", v)) = [d EXCEPT !.meta = v]
<1> DEFINE s == Step("meta", v)
<1>1. s.file = "meta" /\ s.val = v
  BY StepIs
<1> HIDE DEF s
<1>2. Written(d, s) = [d EXCEPT !.meta = s.val]
  BY <1>1 DEF Written
<1> QED
  BY <1>1, <1>2 DEF s

(* append_log adds a frame.                                                *)
LEMMA StepFrame ==
  ASSUME NEW d, NEW v PROVE Written(d, Step("frame", v)) = [d EXCEPT !.log = Append(d.log, v)]
<1> DEFINE s == Step("frame", v)
<1>1. s.file = "frame" /\ s.val = v
  BY StepIs
<1> HIDE DEF s
<1>2. Written(d, s) = [d EXCEPT !.log = Append(d.log, s.val)]
  BY <1>1 DEF Written
<1> QED
  BY <1>1, <1>2 DEF s

(* append rewrites the head in meta.json.                                  *)
LEMMA StepHead ==
  ASSUME NEW d, NEW v PROVE Written(d, Step("head", v)) = [d EXCEPT !.meta.head = Larger(d.meta.head, v)]
<1> DEFINE s == Step("head", v)
<1>1. s.file = "head" /\ s.val = v
  BY StepIs
<1> HIDE DEF s
<1>2. Written(d, s) = [d EXCEPT !.meta.head = Larger(d.meta.head, s.val)]
  BY <1>1 DEF Written
<1> QED
  BY <1>1, <1>2 DEF s

(* bump_host_epoch rewrites the epoch.                                     *)
LEMMA StepEpoch ==
  ASSUME NEW d, NEW v PROVE Written(d, Step("epoch", v)) = [d EXCEPT !.meta.epoch = v]
<1> DEFINE s == Step("epoch", v)
<1>1. s.file = "epoch" /\ s.val = v
  BY StepIs
<1> HIDE DEF s
<1>2. Written(d, s) = [d EXCEPT !.meta.epoch = s.val]
  BY <1>1 DEF Written
<1> QED
  BY <1>1, <1>2 DEF s

(* add_member rewrites the members.                                        *)
LEMMA StepMember ==
  ASSUME NEW d, NEW v PROVE Written(d, Step("member", v)) = [d EXCEPT !.meta.members = d.meta.members \cup {v}]
<1> DEFINE s == Step("member", v)
<1>1. s.file = "member" /\ s.val = v
  BY StepIs
<1> HIDE DEF s
<1>2. Written(d, s) = [d EXCEPT !.meta.members = d.meta.members \cup {s.val}]
  BY <1>1 DEF Written
<1> QED
  BY <1>1, <1>2 DEF s

(* remove_member rewrites them.                                            *)
LEMMA StepParted ==
  ASSUME NEW d, NEW v PROVE Written(d, Step("parted", v)) = [d EXCEPT !.meta.members = d.meta.members \ {v}]
<1> DEFINE s == Step("parted", v)
<1>1. s.file = "parted" /\ s.val = v
  BY StepIs
<1> HIDE DEF s
<1>2. Written(d, s) = [d EXCEPT !.meta.members = d.meta.members \ {s.val}]
  BY <1>1 DEF Written
<1> QED
  BY <1>1, <1>2 DEF s

(* ensure_dir and the floor leave the session alone.                       *)
LEMMA WriteOutside ==
  ASSUME NEW d \in Dir, NEW w, NEW n \in Nat,
         w = Written(d, Step("dir", 0)) \/ w = Written(d, Step("floor", n))
  PROVE  /\ w \in Dir /\ w.meta = d.meta /\ w.log = d.log /\ w.tickets = d.tickets
         /\ w.envelope = d.envelope /\ w.floor >= d.floor /\ (d.dir => w.dir)
         /\ w = Written(d, Step("dir", 0)) => w.dir
         /\ w = Written(d, Step("floor", n)) => w.floor >= n /\ w.dir = d.dir
         /\ Image(w) = Image(d)
<1>1. d.floor \in Nat
  BY DirIs, Zenon
<1>2. Written(d, Step("dir", 0)) = [d EXCEPT !.dir = TRUE]
  BY StepIs DEF Written, MadeDir
<1>3. Written(d, Step("floor", n)) = [d EXCEPT !.floor = Larger(d.floor, n)]
  <2>1. Written(d, Step("floor", n)) = FloorRaised(d, n)
    BY StepIs DEF Written
  <2> QED
    BY <2>1, Zenon DEF FloorRaised
<1>4. Larger(d.floor, n) \in Nat /\ Larger(d.floor, n) >= d.floor /\ Larger(d.floor, n) >= n
  BY <1>1 DEF Larger
<1>5. CASE w = [d EXCEPT !.dir = TRUE]
  <2>1. /\ w \in Dir /\ w.meta = d.meta /\ w.log = d.log /\ w.tickets = d.tickets
        /\ w.envelope = d.envelope /\ w.floor = d.floor /\ w.dir
    BY <1>5, Zenon DEF Dir
  <2>2. Image(w) = Image(d)
    BY <2>1 DEF Image, Readable
  <2>3. w = Written(d, Step("floor", n)) => w.floor >= n /\ w.dir = d.dir
    <3> SUFFICES ASSUME w = [d EXCEPT !.floor = Larger(d.floor, n)] PROVE w.floor >= n /\ w.dir = d.dir
      BY <1>3
    <3> QED
      BY <1>4 DEF Dir
  <2>4. w.floor >= d.floor
    BY <1>1, <2>1
  <2> QED
    BY <2>1, <2>2, <2>3, <2>4, Zenon
<1>6. CASE w = [d EXCEPT !.floor = Larger(d.floor, n)]
  <2>1. /\ w \in Dir /\ w.meta = d.meta /\ w.log = d.log /\ w.tickets = d.tickets
        /\ w.envelope = d.envelope /\ w.floor = Larger(d.floor, n) /\ w.dir = d.dir
    BY <1>4, <1>6 DEF Dir
  <2>2. Image(w) = Image(d)
    BY <2>1 DEF Image, Readable
  <2>3. w = Written(d, Step("dir", 0)) => w.dir
    <3> SUFFICES ASSUME w = [d EXCEPT !.dir = TRUE] PROVE w.dir
      BY <1>2
    <3> QED
      BY DEF Dir
  <2> QED
    BY <1>4, <2>1, <2>2, <2>3
<1> QED
  BY <1>2, <1>3, <1>5, <1>6

(* put_tickets replaces the ledger.                                        *)
LEMMA WriteTickets ==
  ASSUME NEW d \in Dir, NEW w, NEW n \in Nat, w = Written(d, Step("tickets", n))
  PROVE  /\ w \in Dir /\ w.dir = d.dir /\ w.meta = d.meta /\ w.log = d.log /\ w.floor = d.floor
         /\ w.tickets = n /\ w.envelope = d.envelope
         /\ Readable(d) => /\ Readable(w)
                           /\ Image(w).members = Image(d).members /\ Image(w).epoch = Image(d).epoch
                           /\ Image(w).head = Image(d).head /\ Image(w).log = Image(d).log
                           /\ Image(w).tickets = n /\ Image(w).envelope = Image(d).envelope
<1>0. n # Corrupt
  BY FsStoreAssumption, Zenon
<1>1. w = [d EXCEPT !.tickets = n]
  BY StepIs DEF Written
<1>2. /\ w \in Dir /\ w.dir = d.dir /\ w.meta = d.meta /\ w.log = d.log /\ w.floor = d.floor
      /\ w.tickets = n /\ w.envelope = d.envelope
  BY <1>1 DEF Dir
<1>3. Readable(d) => Readable(w)
  BY <1>0, <1>2, Zenon DEF Readable
<1> QED
  BY <1>0, <1>2, <1>3, ImageIs DEF Ledger

(* put_workspace_ticket replaces the envelope.                             *)
LEMMA WriteEnvelope ==
  ASSUME NEW d \in Dir, NEW w, NEW n \in Nat, w = Written(d, Step("envelope", n))
  PROVE  /\ w \in Dir /\ w.dir = d.dir /\ w.meta = d.meta /\ w.log = d.log /\ w.floor = d.floor
         /\ w.envelope = n /\ w.tickets = d.tickets
         /\ Readable(d) => /\ Readable(w)
                           /\ Image(w).members = Image(d).members /\ Image(w).epoch = Image(d).epoch
                           /\ Image(w).head = Image(d).head /\ Image(w).log = Image(d).log
                           /\ Image(w).envelope = n /\ Image(w).tickets = Image(d).tickets
<1>0. n # Corrupt
  BY FsStoreAssumption, Zenon
<1>1. w = [d EXCEPT !.envelope = n]
  BY StepIs DEF Written
<1>2. /\ w \in Dir /\ w.dir = d.dir /\ w.meta = d.meta /\ w.log = d.log /\ w.floor = d.floor
      /\ w.envelope = n /\ w.tickets = d.tickets
  BY <1>1 DEF Dir
<1>3. Readable(d) => Readable(w)
  BY <1>0, <1>2, Zenon DEF Readable
<1> QED
  BY <1>0, <1>2, <1>3, ImageIs, Zenon

(* append_log, and a rewrite of the head, epoch or members in meta.json.   *)
LEMMA WriteFrame ==
  ASSUME NEW d \in Dir, NEW w, NEW f \in Frame, w = Written(d, Step("frame", f))
  PROVE  /\ w \in Dir /\ w.dir = d.dir /\ w.meta = d.meta /\ w.log = Append(d.log, f)
         /\ w.floor = d.floor /\ w.tickets = d.tickets /\ w.envelope = d.envelope
         /\ Readable(d) => /\ Readable(w)
                           /\ Image(w).members = Image(d).members /\ Image(w).epoch = Image(d).epoch
                           /\ Image(w).head = Larger(Image(d).head, f.seq)
                           /\ Image(w).log = Append(Image(d).log, f)
                           /\ Image(w).tickets = Image(d).tickets
                           /\ Image(w).envelope = Image(d).envelope
<1>1. w = [d EXCEPT !.log = Append(d.log, f)]
  BY StepFrame
<1>2. /\ Append(d.log, f) \in Log
      /\ LogTail(Append(d.log, f)) = Larger(LogTail(d.log), f.seq)
  BY DirIs, TailOfAppend
<1>3. /\ w \in Dir /\ w.dir = d.dir /\ w.meta = d.meta /\ w.log = Append(d.log, f)
      /\ w.floor = d.floor /\ w.tickets = d.tickets /\ w.envelope = d.envelope
  BY <1>1, <1>2, Zenon DEF Dir
<1>4. ASSUME Readable(d)
      PROVE  Larger(d.meta.head, LogTail(w.log)) = Larger(Larger(d.meta.head, LogTail(d.log)), f.seq)
  <2>1. d.meta.head \in Nat /\ LogTail(d.log) \in Nat /\ f.seq \in Nat
    BY <1>4, DirIs DEF Readable, Frame
  <2>2. LogTail(w.log) = Larger(LogTail(d.log), f.seq)
    BY <1>2, <1>3, Zenon
  <2> QED
    BY <2>1, <2>2, LargerOfThree
<1>5. Readable(d) <=> Readable(w)
  BY <1>3, Zenon DEF Readable
<1> QED
  BY <1>3, <1>4, <1>5, ImageIs, Zenon

\* The rewrites of meta.json
Rewritten(m, f, v) ==
  [members |-> CASE f = "member" -> m.members \cup {v} [] f = "parted" -> m.members \ {v}
                 [] OTHER -> m.members,
   epoch   |-> IF f = "epoch" THEN v ELSE m.epoch,
   head    |-> IF f = "head" THEN Larger(m.head, v) ELSE m.head]

(* A rewrite of meta.json yields a meta.json.                              *)
LEMMA RewrittenIs ==
  ASSUME NEW m \in Meta, NEW f, NEW v,
         \/ f \in {"member", "parted"} /\ v \in Peers
         \/ f \in {"epoch", "head"} /\ v \in Nat
  PROVE  /\ Rewritten(m, f, v) \in Meta
         /\ Rewritten(m, f, v).epoch = (IF f = "epoch" THEN v ELSE m.epoch)
         /\ Rewritten(m, f, v).head = (IF f = "head" THEN Larger(m.head, v) ELSE m.head)
         /\ f = "member" => Rewritten(m, f, v).members = m.members \cup {v}
         /\ f = "parted" => Rewritten(m, f, v).members = m.members \ {v}
         /\ f \in {"epoch", "head"} => Rewritten(m, f, v).members = m.members
<1>1. m.members \in SUBSET Peers /\ m.epoch \in Nat /\ m.head \in Nat
  BY DEF Meta
<1>2. CASE f = "member"
  BY <1>1, <1>2 DEF Rewritten, Meta
<1>3. CASE f = "parted"
  BY <1>1, <1>3 DEF Rewritten, Meta
<1>4. CASE f = "epoch"
  BY <1>1, <1>4 DEF Rewritten, Meta
<1>5. CASE f = "head"
  BY <1>1, <1>5, Zenon DEF Rewritten, Meta, Larger
<1> QED
  BY <1>2, <1>3, <1>4, <1>5

(* What such a rewrite does to the directory and to what it loads as.      *)
LEMMA WriteMeta ==
  ASSUME NEW d \in Dir, d.meta # Nothing, NEW w, NEW f, NEW v, w = Written(d, Step(f, v)),
         \/ f \in {"member", "parted"} /\ v \in Peers
         \/ f \in {"epoch", "head"} /\ v \in Nat
  PROVE  /\ w \in Dir /\ w.dir = d.dir /\ w.meta = Rewritten(d.meta, f, v) /\ w.log = d.log
         /\ w.floor = d.floor /\ w.tickets = d.tickets /\ w.envelope = d.envelope
         /\ w.meta # Nothing /\ w.meta.epoch = (IF f = "epoch" THEN v ELSE d.meta.epoch)
         /\ Readable(d) => /\ Readable(w)
                           /\ Image(w).epoch = (IF f = "epoch" THEN v ELSE Image(d).epoch)
                           /\ Image(w).head = (IF f = "head" THEN Larger(Image(d).head, v) ELSE Image(d).head)
                           /\ f = "member" => Image(w).members = Image(d).members \cup {v}
                           /\ f = "parted" => Image(w).members = Image(d).members \ {v}
                           /\ f \in {"epoch", "head"} => Image(w).members = Image(d).members
                           /\ Image(w).log = Image(d).log /\ Image(w).tickets = Image(d).tickets
                           /\ Image(w).envelope = Image(d).envelope
<1>0. d.meta \in Meta /\ d.meta.head \in Nat
  BY DirIs
<1>1. w = [d EXCEPT !.meta = Rewritten(d.meta, f, v)]
  <2>1. CASE f = "member"
    <3>1. w = [d EXCEPT !.meta.members = d.meta.members \cup {v}]
      BY <2>1, StepMember
    <3> QED
      BY <1>0, <2>1, <3>1 DEF Rewritten, Meta, Dir
  <2>2. CASE f = "parted"
    <3>1. w = [d EXCEPT !.meta.members = d.meta.members \ {v}]
      BY <2>2, StepParted
    <3> QED
      BY <1>0, <2>2, <3>1 DEF Rewritten, Meta, Dir
  <2>3. CASE f = "epoch"
    <3>1. w = [d EXCEPT !.meta.epoch = v]
      BY <2>3, StepEpoch
    <3> QED
      BY <1>0, <2>3, <3>1 DEF Rewritten, Meta, Dir
  <2>4. CASE f = "head"
    <3>1. Larger(d.meta.head, v) \in Nat
      BY <1>0, <2>4 DEF Larger
    <3>2. w = [d EXCEPT !.meta.head = Larger(d.meta.head, v)]
      BY <2>4, StepHead, Zenon
    <3> QED
      BY <1>0, <2>4, <3>1, <3>2, Zenon DEF Rewritten, Meta, Dir
  <2> QED
    BY <2>1, <2>2, <2>3, <2>4, Zenon
<1>2. /\ Rewritten(d.meta, f, v) \in Meta /\ Rewritten(d.meta, f, v) # Nothing
      /\ Rewritten(d.meta, f, v).epoch = (IF f = "epoch" THEN v ELSE d.meta.epoch)
      /\ Rewritten(d.meta, f, v).head = (IF f = "head" THEN Larger(d.meta.head, v) ELSE d.meta.head)
      /\ f = "member" => Rewritten(d.meta, f, v).members = d.meta.members \cup {v}
      /\ f = "parted" => Rewritten(d.meta, f, v).members = d.meta.members \ {v}
      /\ f \in {"epoch", "head"} => Rewritten(d.meta, f, v).members = d.meta.members
  BY <1>0, RewrittenIs, FsStoreAssumption
<1>3. /\ w \in Dir /\ w.dir = d.dir /\ w.meta = Rewritten(d.meta, f, v) /\ w.log = d.log
      /\ w.floor = d.floor /\ w.tickets = d.tickets /\ w.envelope = d.envelope
  BY <1>1, <1>2, Zenon DEF Dir
<1>4. Readable(d) <=> Readable(w)
  BY <1>2, <1>3 DEF Readable
<1>5. ASSUME f = "head"
      PROVE  Larger(Larger(d.meta.head, v), LogTail(d.log)) = Larger(Larger(d.meta.head, LogTail(d.log)), v)
  <2>1. d.meta.head \in Nat /\ LogTail(d.log) \in Nat /\ v \in Nat
    BY <1>0, <1>5, DirIs, Zenon
  <2> QED
    BY <2>1, LargerOfThree
<1>6. Readable(d) => Image(w).head = (IF f = "head" THEN Larger(Image(d).head, v) ELSE Image(d).head)
  BY <1>2, <1>3, <1>4, <1>5, ImageIs
<1> QED
  BY <1>2, <1>3, <1>4, <1>6, ImageIs, Zenon

(* The first write of meta.json, by create.                                *)
LEMMA WriteFirst ==
  ASSUME NEW d \in Dir, NEW w, NEW e \in Nat, w = Written(d, FirstMeta(e))
  PROVE  /\ w \in Dir /\ w.dir = d.dir /\ w.log = d.log /\ w.floor = d.floor
         /\ w.tickets = d.tickets /\ w.envelope = d.envelope
         /\ w.meta # Nothing /\ w.meta.epoch = e /\ w.meta.head = 0 /\ w.meta.members = {Host}
<1> DEFINE m == [members |-> {Host}, epoch |-> e, head |-> 0]
<1>1. m \in Meta /\ m # Nothing
  BY FsStoreAssumption DEF Meta
<1>2. w = [d EXCEPT !.meta = m]
  BY StepMeta, Zenon DEF FirstMeta
<1>3. m.members = {Host} /\ m.epoch = e /\ m.head = 0
  OBVIOUS
<1> HIDE DEF m
<1>4. /\ w \in Dir /\ w.dir = d.dir /\ w.log = d.log /\ w.floor = d.floor
      /\ w.tickets = d.tickets /\ w.envelope = d.envelope /\ w.meta = m
  BY <1>1, <1>2 DEF Dir
<1> QED
  BY <1>1, <1>3, <1>4
-----------------------------------------------------------------------------
(* Memory after each call                                                  *)

(* The ledger is written again.                                            *)
LEMMA ReissuedIs ==
  ASSUME mem \in Record
  PROVE  /\ Reissued \in Record
         /\ Reissued.members = mem.members /\ Reissued.epoch = mem.epoch
         /\ Reissued.head = mem.head /\ Reissued.log = mem.log
         /\ Reissued.tickets = mem.tickets + 1 /\ Reissued.envelope = mem.envelope
<1>1. mem.tickets + 1 \in Nat
  BY RecordIs
<1> QED
  BY <1>1 DEF Reissued, Record

(* The session is hosted again.                                            *)
LEMMA ResumedIs ==
  ASSUME mem \in Record
  PROVE  /\ Resumed \in Record
         /\ Resumed.members = mem.members /\ Resumed.epoch = mem.epoch + 1
         /\ Resumed.head = mem.head /\ Resumed.log = mem.log
         /\ Resumed.tickets = mem.tickets + 1 /\ Resumed.envelope = mem.envelope
<1>1. mem.tickets + 1 \in Nat /\ mem.epoch + 1 \in Nat
  BY RecordIs
<1> QED
  BY <1>1, Zenon DEF Resumed, Record

(* The workspace ticket is replaced.                                       *)
LEMMA EnvelopedIs ==
  ASSUME mem \in Record
  PROVE  /\ Enveloped \in Record
         /\ Enveloped.members = mem.members /\ Enveloped.epoch = mem.epoch
         /\ Enveloped.head = mem.head /\ Enveloped.log = mem.log
         /\ Enveloped.tickets = mem.tickets /\ Enveloped.envelope = mem.envelope + 1
<1>1. mem.envelope + 1 \in Nat
  BY RecordIs
<1> QED
  BY <1>1 DEF Enveloped, Record

(* A member is added.                                                      *)
LEMMA JoinedIs ==
  ASSUME mem \in Record, NEW p \in Peers
  PROVE  /\ Joined(p) \in Record
         /\ Joined(p).members = mem.members \cup {p} /\ Joined(p).epoch = mem.epoch
         /\ Joined(p).head = mem.head /\ Joined(p).log = mem.log
         /\ Joined(p).tickets = mem.tickets /\ Joined(p).envelope = mem.envelope
<1>1. mem.members \cup {p} \in SUBSET Peers
  BY RecordIs
<1> QED
  BY <1>1 DEF Joined, Record

(* A member is removed.                                                    *)
LEMMA PartedIs ==
  ASSUME mem \in Record, NEW p \in Peers
  PROVE  /\ Parted(p) \in Record
         /\ Parted(p).members = mem.members \ {p} /\ Parted(p).epoch = mem.epoch
         /\ Parted(p).head = mem.head /\ Parted(p).log = mem.log
         /\ Parted(p).tickets = mem.tickets /\ Parted(p).envelope = mem.envelope
<1>1. mem.members \ {p} \in SUBSET Peers
  BY RecordIs
<1> QED
  BY <1>1 DEF Parted, Record

(* A message is sent.                                                      *)
LEMMA SentIs ==
  ASSUME mem \in Record, life \in Nat
  PROVE  /\ NextFrame \in Frame /\ NextFrame.seq = mem.head + 1
         /\ Sent \in Record
         /\ Sent.members = mem.members /\ Sent.epoch = mem.epoch
         /\ Sent.head = mem.head + 1 /\ Sent.log = Append(mem.log, NextFrame)
         /\ Sent.tickets = mem.tickets /\ Sent.envelope = mem.envelope
<1>1. mem.head + 1 \in Nat /\ mem.log \in Seq(Frame)
  BY RecordIs
<1>2. NextFrame \in Frame /\ NextFrame.seq = mem.head + 1
  BY <1>1 DEF NextFrame, Frame
<1>3. Append(mem.log, NextFrame) \in Seq(Frame)
  BY <1>1, <1>2
<1> DEFINE l == Append(mem.log, NextFrame)
<1>4. Sent = [mem EXCEPT !.head = mem.head + 1, !.log = l]
  BY DEF Sent
<1> HIDE DEF l
<1>5. l \in Seq(Frame)
  BY <1>3 DEF l
<1>6. Sent \in Record /\ Sent.members = mem.members /\ Sent.epoch = mem.epoch
      /\ Sent.head = mem.head + 1 /\ Sent.log = l /\ Sent.tickets = mem.tickets
      /\ Sent.envelope = mem.envelope
  BY <1>1, <1>4, <1>5, Zenon DEF Record
<1> QED
  BY <1>2, <1>6 DEF l

(* A session is its fields.                                                *)
LEMMA SameSession ==
  ASSUME NEW a \in Record, NEW b \in Record, a.members = b.members, a.epoch = b.epoch,
         a.head = b.head, a.log = b.log, a.tickets = b.tickets, a.envelope = b.envelope
  PROVE  a = b
BY RecordIs

(* A session that has just been created.                                   *)
LEMMA FreshIs ==
  ASSUME NEW e \in Nat, NEW t \in Nat
  PROVE  /\ Fresh(e, t) \in Record
         /\ Fresh(e, t).members = {Host} /\ Fresh(e, t).epoch = e
         /\ Fresh(e, t).head = 0 /\ Fresh(e, t).log = <<>>
         /\ Fresh(e, t).tickets = t /\ Fresh(e, t).envelope = 0
BY FsStoreAssumption DEF Fresh, Record

(* The first write of a call, and the ones that remain.                    *)
LEMMA FirstOf ==
  ASSUME NEW a, NEW b, NEW c, NEW d
  PROVE  /\ Head(<<a>>) = a /\ Tail(<<a>>) = <<>>
         /\ Head(<<a, b>>) = a /\ Tail(<<a, b>>) = <<b>>
         /\ Head(<<a, b, c>>) = a /\ Tail(<<a, b, c>>) = <<b, c>>
         /\ Head(<<a, b, c, d>>) = a /\ Tail(<<a, b, c, d>>) = <<b, c, d>>
OBVIOUS

(* A call in progress after one of its writes.                             *)
LEMMA DoingIs ==
  ASSUME NEW n, NEW s, NEW r, Doing(n, s, r)
  PROVE  /\ op.steps = s /\ op.name = n /\ op.after = r
         /\ [op EXCEPT !.steps = Tail(@)] =
              [name |-> n, steps |-> Tail(s), after |-> r, was |-> Nothing]
<1>1. op = [name |-> n, steps |-> s, after |-> r, was |-> Nothing]
  BY DEF Doing
<1>2. op.steps = s /\ op.name = n /\ op.after = r
  BY <1>1
<1>3. ASSUME NEW t PROVE [op EXCEPT !.steps = t] = [name |-> n, steps |-> t, after |-> r, was |-> Nothing]
  BY <1>1
<1>4. [op EXCEPT !.steps = Tail(s)] = [name |-> n, steps |-> Tail(s), after |-> r, was |-> Nothing]
  BY <1>3, Zenon
<1> QED
  BY <1>2, <1>4, Zenon
-----------------------------------------------------------------------------
(* A write of a call in progress, whether it returns or fails afterwards   *)

Empty(d) == d.log = <<>> /\ d.tickets = 0 /\ d.envelope = 0

Wrote ==
  /\ disk' \in Dir /\ disk'.floor >= disk.floor
  /\ disk'.meta # Nothing => disk'.meta.epoch < disk'.floor
  /\ disk.dir => disk'.dir
  /\ ~disk'.dir => disk'.meta = Nothing /\ Empty(disk')
  /\ ~broken => /\ disk'.envelope # Corrupt
                /\ disk'.meta = Nothing => disk.meta = Nothing /\ Empty(disk')

Reaches(d, r) ==
  /\ Image(d) # Nothing
  /\ r.tickets <= Image(d).tickets /\ r.envelope <= Image(d).envelope
  /\ r.epoch <= Image(d).epoch /\ r.head <= Image(d).head

(* What a stage of a call says about the files.                            *)
LEMMA HoldsIs ==
  ASSUME disk \in Dir, NEW r
  PROVE  /\ Covers(r) <=> Reaches(disk, r)
         /\ Holds(r) <=> (~broken => Reaches(disk, r)) /\ (~broken /\ ~shaky => Image(disk) = r)
BY LoadedIs DEF Covers, Holds, Reaches

(* Where a session is held there is a directory to load.                   *)
LEMMA HeldIsReadable ==
  ASSUME disk \in Dir, NEW r, Holds(r) PROVE ~broken => Readable(disk)
<1>1. ~broken => Image(disk) # Nothing
  BY HoldsIs, Zenon DEF Reaches
<1> QED
  BY <1>1, ImageIs, Zenon

(* A field of meta.json is written only where there is one.                *)
LEMMA FieldOfMeta ==
  ASSUME NEW f \in {"member", "parted", "head", "epoch"}, NEW v, CanWrite(Step(f, v))
  PROVE  disk.meta # Nothing
BY StepIs, Zenon DEF CanWrite

(* A write of a call on a session in memory keeps the floor above the      *)
(* epochs, and writes nothing where there is no session.                   *)
LEMMA WriteKnown ==
  ASSUME Typed, Floors, Bare, Nowhere, op.name # "delete", NEW f, NEW v, CanWrite(Step(f, v)),
         disk' = Written(disk, Step(f, v)), f # "floor" /\ ~broken => Readable(disk),
         \/ f \in {"tickets", "envelope", "head", "floor"} /\ v \in Nat
         \/ f = "frame" /\ v \in Frame
         \/ f \in {"member", "parted"} /\ v \in Peers
         \/ f = "epoch" /\ v \in Nat /\ v < disk.floor
  PROVE  Wrote
<1>1. /\ disk \in Dir /\ disk.floor \in Nat
      /\ disk.meta # Nothing => disk.meta.epoch \in Nat /\ disk.meta.epoch < disk.floor
  BY DirIs, Zenon DEF Typed, Floors
<1>2. CASE f \in {"tickets", "envelope"}
  <2>1. disk.dir /\ v \in Nat /\ v # Corrupt
    BY <1>2, StepIs, FsStoreAssumption, Zenon DEF CanWrite
  <2>2. /\ disk' \in Dir /\ disk'.dir = disk.dir /\ disk'.meta = disk.meta /\ disk'.floor = disk.floor
        /\ disk'.envelope = (IF f = "envelope" THEN v ELSE disk.envelope)
    <3>1. CASE f = "tickets"
      <4>1. disk' = [disk EXCEPT !.tickets = v]
        BY <3>1, StepIs, Zenon DEF Written
      <4>2. /\ disk' \in Dir /\ disk'.dir = disk.dir /\ disk'.meta = disk.meta
            /\ disk'.floor = disk.floor /\ disk'.envelope = disk.envelope
        BY <1>1, <2>1, <4>1, Zenon DEF Dir
      <4> QED
        BY <3>1, <4>2, Zenon
    <3>2. CASE f = "envelope"
      <4>1. disk' = [disk EXCEPT !.envelope = v]
        BY <3>2, StepIs, Zenon DEF Written
      <4>2. /\ disk' \in Dir /\ disk'.dir = disk.dir /\ disk'.meta = disk.meta
            /\ disk'.floor = disk.floor /\ disk'.envelope = v
        BY <1>1, <2>1, <4>1, Zenon DEF Dir
      <4> QED
        BY <3>2, <4>2, Zenon
    <3> QED
      BY <1>2, <3>1, <3>2, Zenon
  <2>3. ~broken => disk.meta # Nothing /\ disk.envelope # Corrupt
    BY <1>2 DEF Readable
  <2> QED
    BY <1>1, <2>1, <2>2, <2>3 DEF Wrote
<1>3. CASE f = "frame"
  <2>1. disk.dir /\ v \in Frame
    BY <1>3, StepIs DEF CanWrite
  <2>2. /\ disk' \in Dir /\ disk'.dir = disk.dir /\ disk'.meta = disk.meta /\ disk'.floor = disk.floor
        /\ disk'.envelope = disk.envelope
    BY <1>1, <1>3, <2>1, WriteFrame, Zenon
  <2>3. ~broken => disk.meta # Nothing /\ disk.envelope # Corrupt
    BY <1>3 DEF Readable
  <2> QED
    BY <1>1, <2>1, <2>2, <2>3 DEF Wrote
<1>4. CASE f \in {"member", "parted", "head", "epoch"}
  <2>1. disk.meta # Nothing
    BY <1>4, StepIs, Zenon DEF CanWrite
  <2>2. disk.dir
    BY <2>1, Zenon DEF Nowhere
  <2>3. /\ disk' \in Dir /\ disk'.dir = disk.dir /\ disk'.meta # Nothing /\ disk'.floor = disk.floor
        /\ disk'.envelope = disk.envelope
        /\ disk'.meta.epoch = (IF f = "epoch" THEN v ELSE disk.meta.epoch)
    BY <1>1, <1>4, <2>1, WriteMeta
  <2>4. ~broken => disk.envelope # Corrupt
    BY <1>4, Zenon DEF Readable
  <2> QED
    BY <1>1, <2>1, <2>2, <2>3, <2>4 DEF Wrote
<1>5. CASE f = "floor"
  <2>1. /\ disk' \in Dir /\ disk'.meta = disk.meta /\ disk'.log = disk.log /\ disk'.floor \in Nat
        /\ disk'.tickets = disk.tickets /\ disk'.envelope = disk.envelope
        /\ disk'.floor >= disk.floor /\ disk'.dir = disk.dir
    <3>1. disk' = Written(disk, Step("floor", v)) /\ v \in Nat
      BY <1>5
    <3>2. /\ disk' \in Dir /\ disk'.meta = disk.meta /\ disk'.log = disk.log
          /\ disk'.tickets = disk.tickets /\ disk'.envelope = disk.envelope
          /\ disk'.floor >= disk.floor /\ disk'.dir = disk.dir
      BY <1>1, <3>1, WriteOutside, ZenonT(40)
    <3> QED
      BY <3>2, DirIs, Zenon
  <2>2. /\ disk'.meta # Nothing => disk'.meta.epoch < disk'.floor
        /\ ~disk'.dir => disk'.meta = Nothing /\ Empty(disk')
    BY <1>1, <2>1 DEF Nowhere, Empty
  <2>3. ~broken => /\ disk'.envelope # Corrupt
                   /\ disk'.meta = Nothing => disk.meta = Nothing /\ Empty(disk')
    BY <2>1 DEF Bare, Empty
  <2> QED
    BY <2>1, <2>2, <2>3, Zenon DEF Wrote
<1> QED
  BY <1>2, <1>3, <1>4, <1>5, Zenon
-----------------------------------------------------------------------------
(* What the directory loads as after each write of a call                  *)

After(q) ==
  /\ ~broken => Reaches(disk', q)
  /\ ~broken /\ ~shaky => Image(disk') = q

(* The ledger, of a resume or of a call of its own.                        *)
LEMMA TicketsFollow ==
  ASSUME Typed, mem \in Record, Holds(mem),
         disk' = Written(disk, Step("tickets", mem.tickets + 1))
  PROVE  After(Reissued) /\ (~broken => Reaches(disk', mem))
<1>1. disk \in Dir /\ (~broken => Readable(disk) /\ Reaches(disk, mem))
  BY HoldsIs, ImageIs, Zenon DEF Typed, Reaches
<1>2. /\ mem \in Record /\ Reissued \in Record
      /\ mem.tickets + 1 \in Nat /\ mem.epoch \in Nat /\ mem.head \in Nat /\ mem.tickets \in Nat /\ mem.envelope \in Nat
  BY ReissuedIs, RecordIs, Zenon
<1>3. ASSUME ~broken
      PROVE  /\ Image(disk') \in Record /\ Image(disk') # Nothing /\ Image(disk) \in Record
             /\ Image(disk).epoch \in Nat /\ Image(disk).head \in Nat
             /\ Image(disk).tickets \in Nat /\ Image(disk).envelope \in Nat
             /\ Image(disk').members = Image(disk).members /\ Image(disk').epoch = Image(disk).epoch
             /\ Image(disk').head = Image(disk).head /\ Image(disk').log = Image(disk).log
             /\ Image(disk').tickets = mem.tickets + 1 /\ Image(disk').envelope = Image(disk).envelope
  <2>1. disk' \in Dir /\ Readable(disk')
    BY <1>1, <1>2, <1>3, WriteTickets
  <2>2. /\ Image(disk') \in Record /\ Image(disk') # Nothing /\ Image(disk) \in Record
    BY <1>1, <1>3, <2>1, ImageIs
  <2>3. Image(disk').members = Image(disk).members /\ Image(disk').epoch = Image(disk).epoch
        /\ Image(disk').head = Image(disk).head /\ Image(disk').log = Image(disk).log
        /\ Image(disk').tickets = mem.tickets + 1 /\ Image(disk').envelope = Image(disk).envelope
    <3> DEFINE n == mem.tickets + 1
    <3>1. n \in Nat /\ disk' = Written(disk, Step("tickets", n)) /\ disk \in Dir /\ Readable(disk)
      BY <1>1, <1>2, <1>3
    <3> HIDE DEF n
    <3>2. /\ Image(disk').members = Image(disk).members /\ Image(disk').epoch = Image(disk).epoch
          /\ Image(disk').head = Image(disk).head /\ Image(disk').log = Image(disk).log
          /\ Image(disk').tickets = n /\ Image(disk').envelope = Image(disk).envelope
      BY <3>1, WriteTickets
    <3> QED
      BY <3>2 DEF n
  <2> QED
    BY <2>2, <2>3, RecordIs, Zenon
<1>4. ~broken => Reaches(disk', Reissued) /\ Reaches(disk', mem)
  BY <1>1, <1>2, <1>3, ReissuedIs DEF Reaches
<1>5. ~broken /\ ~shaky => Image(disk') = Reissued
  <2> SUFFICES ASSUME ~broken, ~shaky PROVE Image(disk') = Reissued
    OBVIOUS
  <2>1. Image(disk) = mem
    BY <1>1, HoldsIs, Zenon
  <2>2. /\ Image(disk').members = Reissued.members /\ Image(disk').epoch = Reissued.epoch
        /\ Image(disk').head = Reissued.head /\ Image(disk').log = Reissued.log
        /\ Image(disk').tickets = Reissued.tickets /\ Image(disk').envelope = Reissued.envelope
    BY <1>2, <1>3, <2>1, ReissuedIs, Zenon
  <2> QED
    BY <1>2, <1>3, <2>2, SameSession, Zenon
<1> QED
  BY <1>4, <1>5 DEF After

(* The epoch of a resume.                                                  *)
LEMMA EpochFollows ==
  ASSUME Typed, mem \in Record, disk.meta # Nothing, Holds(Reissued),
         disk' = Written(disk, Step("epoch", mem.epoch + 1))
  PROVE  After(Resumed) /\ (~broken => Reaches(disk', mem))
<1>1. disk \in Dir /\ (~broken => Readable(disk) /\ Reaches(disk, Reissued))
  BY HoldsIs, ImageIs, Zenon DEF Typed, Reaches
<1>2. /\ Reissued \in Record /\ Resumed \in Record
      /\ mem.epoch \in Nat /\ mem.head \in Nat /\ mem.tickets \in Nat /\ mem.envelope \in Nat
  BY ReissuedIs, ResumedIs, RecordIs, Zenon
<1>3. ASSUME ~broken
      PROVE  /\ Image(disk') \in Record /\ Image(disk') # Nothing /\ Image(disk) \in Record
             /\ Image(disk).epoch \in Nat /\ Image(disk).head \in Nat
             /\ Image(disk).tickets \in Nat /\ Image(disk).envelope \in Nat
             /\ Image(disk').members = Image(disk).members /\ Image(disk').epoch = mem.epoch + 1
             /\ Image(disk').head = Image(disk).head /\ Image(disk').log = Image(disk).log
             /\ Image(disk').tickets = Image(disk).tickets /\ Image(disk').envelope = Image(disk).envelope
  <2>1. disk' \in Dir /\ Readable(disk')
    BY <1>1, <1>2, <1>3, WriteMeta
  <2>2. /\ Image(disk') \in Record /\ Image(disk') # Nothing /\ Image(disk) \in Record
    BY <1>1, <1>3, <2>1, ImageIs, Zenon
  <2>3. Image(disk').members = Image(disk).members /\ Image(disk').epoch = mem.epoch + 1
        /\ Image(disk').head = Image(disk).head /\ Image(disk').log = Image(disk).log
        /\ Image(disk').tickets = Image(disk).tickets /\ Image(disk').envelope = Image(disk).envelope
    BY <1>1, <1>2, <1>3, WriteMeta
  <2> QED
    BY <2>2, <2>3, RecordIs, Zenon
<1>4. ~broken => Reaches(disk', Resumed) /\ Reaches(disk', mem)
  BY <1>1, <1>2, <1>3, ReissuedIs, ResumedIs DEF Reaches
<1>5. ~broken /\ ~shaky => Image(disk') = Resumed
  <2> SUFFICES ASSUME ~broken, ~shaky PROVE Image(disk') = Resumed
    OBVIOUS
  <2>1. Image(disk) = Reissued
    BY <1>1, HoldsIs, Zenon
  <2>2. /\ Image(disk').members = Resumed.members /\ Image(disk').epoch = Resumed.epoch
        /\ Image(disk').head = Resumed.head /\ Image(disk').log = Resumed.log
        /\ Image(disk').tickets = Resumed.tickets /\ Image(disk').envelope = Resumed.envelope
    BY <1>2, <1>3, <2>1, ReissuedIs, ResumedIs, Zenon
  <2> QED
    BY <1>2, <1>3, <2>2, SameSession, Zenon
<1> QED
  BY <1>4, <1>5, Zenon DEF After

(* The workspace ticket.                                                   *)
LEMMA EnvelopeFollows ==
  ASSUME Typed, mem \in Record, Holds(mem),
         disk' = Written(disk, Step("envelope", mem.envelope + 1))
  PROVE  After(Enveloped) /\ (~broken => Reaches(disk', mem))
<1>1. disk \in Dir /\ (~broken => Readable(disk) /\ Reaches(disk, mem))
  BY HoldsIs, ImageIs, Zenon DEF Typed, Reaches
<1>2. /\ mem \in Record /\ Enveloped \in Record
      /\ mem.envelope + 1 \in Nat /\ mem.epoch \in Nat /\ mem.head \in Nat /\ mem.tickets \in Nat /\ mem.envelope \in Nat
  BY EnvelopedIs, RecordIs, Zenon
<1>3. ASSUME ~broken
      PROVE  /\ Image(disk') \in Record /\ Image(disk') # Nothing /\ Image(disk) \in Record
             /\ Image(disk).epoch \in Nat /\ Image(disk).head \in Nat
             /\ Image(disk).tickets \in Nat /\ Image(disk).envelope \in Nat
             /\ Image(disk').members = Image(disk).members /\ Image(disk').epoch = Image(disk).epoch
             /\ Image(disk').head = Image(disk).head /\ Image(disk').log = Image(disk).log
             /\ Image(disk').tickets = Image(disk).tickets /\ Image(disk').envelope = mem.envelope + 1
  <2>1. disk' \in Dir /\ Readable(disk')
    BY <1>1, <1>2, <1>3, WriteEnvelope
  <2>2. /\ Image(disk') \in Record /\ Image(disk') # Nothing /\ Image(disk) \in Record
    BY <1>1, <1>3, <2>1, ImageIs, Zenon
  <2>3. Image(disk').members = Image(disk).members /\ Image(disk').epoch = Image(disk).epoch
        /\ Image(disk').head = Image(disk).head /\ Image(disk').log = Image(disk).log
        /\ Image(disk').tickets = Image(disk).tickets /\ Image(disk').envelope = mem.envelope + 1
    <3> DEFINE n == mem.envelope + 1
    <3>1. n \in Nat /\ disk' = Written(disk, Step("envelope", n)) /\ disk \in Dir /\ Readable(disk)
      BY <1>1, <1>2, <1>3, Zenon
    <3> HIDE DEF n
    <3>2. /\ Image(disk').members = Image(disk).members /\ Image(disk').epoch = Image(disk).epoch
          /\ Image(disk').head = Image(disk).head /\ Image(disk').log = Image(disk).log
          /\ Image(disk').tickets = Image(disk).tickets /\ Image(disk').envelope = n
      BY <3>1, WriteEnvelope
    <3> QED
      BY <3>2, Zenon DEF n
  <2> QED
    BY <2>2, <2>3, RecordIs, Zenon
<1>4. ~broken => Reaches(disk', Enveloped) /\ Reaches(disk', mem)
  BY <1>1, <1>2, <1>3, EnvelopedIs DEF Reaches
<1>5. ~broken /\ ~shaky => Image(disk') = Enveloped
  <2> SUFFICES ASSUME ~broken, ~shaky PROVE Image(disk') = Enveloped
    OBVIOUS
  <2>1. Image(disk) = mem
    BY <1>1, HoldsIs, Zenon
  <2>2. /\ Image(disk').members = Enveloped.members /\ Image(disk').epoch = Enveloped.epoch
        /\ Image(disk').head = Enveloped.head /\ Image(disk').log = Enveloped.log
        /\ Image(disk').tickets = Enveloped.tickets /\ Image(disk').envelope = Enveloped.envelope
    BY <1>2, <1>3, <2>1, EnvelopedIs, Zenon
  <2> QED
    BY <1>2, <1>3, <2>2, SameSession, Zenon
<1> QED
  BY <1>4, <1>5, Zenon DEF After

(* A new member.                                                           *)
LEMMA MemberFollows ==
  ASSUME Typed, mem \in Record, disk.meta # Nothing, NEW p \in Peers, Holds(mem),
         disk' = Written(disk, Step("member", p))
  PROVE  After(Joined(p)) /\ (~broken => Reaches(disk', mem))
<1>1. disk \in Dir /\ (~broken => Readable(disk) /\ Reaches(disk, mem))
  BY HoldsIs, ImageIs, Zenon DEF Typed, Reaches
<1>2. /\ mem \in Record /\ Joined(p) \in Record
      /\ mem.epoch \in Nat /\ mem.head \in Nat /\ mem.tickets \in Nat /\ mem.envelope \in Nat
  BY JoinedIs, RecordIs, Zenon
<1>3. ASSUME ~broken
      PROVE  /\ Image(disk') \in Record /\ Image(disk') # Nothing /\ Image(disk) \in Record
             /\ Image(disk).epoch \in Nat /\ Image(disk).head \in Nat
             /\ Image(disk).tickets \in Nat /\ Image(disk).envelope \in Nat
             /\ Image(disk').members = Image(disk).members \cup {p} /\ Image(disk').epoch = Image(disk).epoch
             /\ Image(disk').head = Image(disk).head /\ Image(disk').log = Image(disk).log
             /\ Image(disk').tickets = Image(disk).tickets /\ Image(disk').envelope = Image(disk).envelope
  <2>1. disk' \in Dir /\ Readable(disk')
    BY <1>1, <1>2, <1>3, WriteMeta, ZenonT(40)
  <2>2. /\ Image(disk') \in Record /\ Image(disk') # Nothing /\ Image(disk) \in Record
    BY <1>1, <1>3, <2>1, ImageIs
  <2>3. Image(disk').members = Image(disk).members \cup {p} /\ Image(disk').epoch = Image(disk).epoch
        /\ Image(disk').head = Image(disk).head /\ Image(disk').log = Image(disk).log
        /\ Image(disk').tickets = Image(disk).tickets /\ Image(disk').envelope = Image(disk).envelope
    BY <1>1, <1>2, <1>3, WriteMeta
  <2> QED
    BY <2>2, <2>3, RecordIs, Zenon
<1>4. ~broken => Reaches(disk', Joined(p)) /\ Reaches(disk', mem)
  BY <1>1, <1>2, <1>3, JoinedIs, Zenon DEF Reaches
<1>5. ~broken /\ ~shaky => Image(disk') = Joined(p)
  <2> SUFFICES ASSUME ~broken, ~shaky PROVE Image(disk') = Joined(p)
    OBVIOUS
  <2>1. Image(disk) = mem
    BY <1>1, HoldsIs, Zenon
  <2>2. /\ Image(disk').members = Joined(p).members /\ Image(disk').epoch = Joined(p).epoch
        /\ Image(disk').head = Joined(p).head /\ Image(disk').log = Joined(p).log
        /\ Image(disk').tickets = Joined(p).tickets /\ Image(disk').envelope = Joined(p).envelope
    BY <1>2, <1>3, <2>1, JoinedIs, Zenon
  <2> QED
    BY <1>2, <1>3, <2>2, SameSession, Zenon
<1> QED
  BY <1>4, <1>5, Zenon DEF After

(* A member that has left.                                                 *)
LEMMA PartedFollows ==
  ASSUME Typed, mem \in Record, disk.meta # Nothing, NEW p \in Peers, Holds(mem),
         disk' = Written(disk, Step("parted", p))
  PROVE  After(Parted(p)) /\ (~broken => Reaches(disk', mem))
<1>1. disk \in Dir /\ (~broken => Readable(disk) /\ Reaches(disk, mem))
  BY HoldsIs, ImageIs, Zenon DEF Typed, Reaches
<1>2. /\ mem \in Record /\ Parted(p) \in Record
      /\ mem.epoch \in Nat /\ mem.head \in Nat /\ mem.tickets \in Nat /\ mem.envelope \in Nat
  BY PartedIs, RecordIs, Zenon
<1>3. ASSUME ~broken
      PROVE  /\ Image(disk') \in Record /\ Image(disk') # Nothing /\ Image(disk) \in Record
             /\ Image(disk).epoch \in Nat /\ Image(disk).head \in Nat
             /\ Image(disk).tickets \in Nat /\ Image(disk).envelope \in Nat
             /\ Image(disk').members = Image(disk).members \ {p} /\ Image(disk').epoch = Image(disk).epoch
             /\ Image(disk').head = Image(disk).head /\ Image(disk').log = Image(disk).log
             /\ Image(disk').tickets = Image(disk).tickets /\ Image(disk').envelope = Image(disk).envelope
  <2>1. disk' \in Dir /\ Readable(disk')
    BY <1>1, <1>2, <1>3, WriteMeta
  <2>2. /\ Image(disk') \in Record /\ Image(disk') # Nothing /\ Image(disk) \in Record
    BY <1>1, <1>3, <2>1, ImageIs, Zenon
  <2>3. Image(disk').members = Image(disk).members \ {p} /\ Image(disk').epoch = Image(disk).epoch
        /\ Image(disk').head = Image(disk).head /\ Image(disk').log = Image(disk).log
        /\ Image(disk').tickets = Image(disk).tickets /\ Image(disk').envelope = Image(disk).envelope
    BY <1>1, <1>2, <1>3, WriteMeta
  <2> QED
    BY <2>2, <2>3, RecordIs, Zenon
<1>4. ~broken => Reaches(disk', Parted(p)) /\ Reaches(disk', mem)
  BY <1>1, <1>2, <1>3, PartedIs, Zenon DEF Reaches
<1>5. ~broken /\ ~shaky => Image(disk') = Parted(p)
  <2> SUFFICES ASSUME ~broken, ~shaky PROVE Image(disk') = Parted(p)
    OBVIOUS
  <2>1. Image(disk) = mem
    BY <1>1, HoldsIs
  <2>2. /\ Image(disk').members = Parted(p).members /\ Image(disk').epoch = Parted(p).epoch
        /\ Image(disk').head = Parted(p).head /\ Image(disk').log = Parted(p).log
        /\ Image(disk').tickets = Parted(p).tickets /\ Image(disk').envelope = Parted(p).envelope
    BY <1>2, <1>3, <2>1, PartedIs, Zenon
  <2> QED
    BY <1>2, <1>3, <2>2, SameSession
<1> QED
  BY <1>4, <1>5, Zenon DEF After

(* The frame of a message.                                                 *)
LEMMA FrameFollows ==
  ASSUME Typed, mem \in Record, Holds(mem),
         disk' = Written(disk, Step("frame", NextFrame))
  PROVE  After(Sent) /\ (~broken => Reaches(disk', mem))
<1>1. disk \in Dir /\ (~broken => Readable(disk) /\ Reaches(disk, mem))
  BY HoldsIs, ImageIs DEF Typed, Reaches
<1>2. /\ mem \in Record /\ Sent \in Record
      /\ NextFrame \in Frame /\ NextFrame.seq = mem.head + 1 /\ mem.epoch \in Nat /\ mem.head \in Nat /\ mem.tickets \in Nat /\ mem.envelope \in Nat
  BY SentIs, RecordIs, Zenon DEF Typed
<1>3. ASSUME ~broken
      PROVE  /\ Image(disk') \in Record /\ Image(disk') # Nothing /\ Image(disk) \in Record
             /\ Image(disk).epoch \in Nat /\ Image(disk).head \in Nat
             /\ Image(disk).tickets \in Nat /\ Image(disk).envelope \in Nat
             /\ Image(disk').members = Image(disk).members /\ Image(disk').epoch = Image(disk).epoch
             /\ Image(disk').head = Larger(Image(disk).head, mem.head + 1) /\ Image(disk').log = Append(Image(disk).log, NextFrame)
             /\ Image(disk').tickets = Image(disk).tickets /\ Image(disk').envelope = Image(disk).envelope
  <2>1. disk' \in Dir /\ Readable(disk')
    BY <1>1, <1>2, <1>3, WriteFrame, Zenon
  <2>2. /\ Image(disk') \in Record /\ Image(disk') # Nothing /\ Image(disk) \in Record
    BY <1>1, <1>3, <2>1, ImageIs, Zenon
  <2>3. Image(disk').members = Image(disk).members /\ Image(disk').epoch = Image(disk).epoch
        /\ Image(disk').head = Larger(Image(disk).head, mem.head + 1) /\ Image(disk').log = Append(Image(disk).log, NextFrame)
        /\ Image(disk').tickets = Image(disk).tickets /\ Image(disk').envelope = Image(disk).envelope
    BY <1>1, <1>2, <1>3, WriteFrame
  <2> QED
    BY <2>2, <2>3, RecordIs, Zenon
<1>4. ~broken => Reaches(disk', Sent) /\ Reaches(disk', mem)
  BY <1>1, <1>2, <1>3, SentIs DEF Reaches, Larger, Typed
<1>5. ~broken /\ ~shaky => Image(disk') = Sent
  <2> SUFFICES ASSUME ~broken, ~shaky PROVE Image(disk') = Sent
    OBVIOUS
  <2>1. Image(disk) = mem
    BY <1>1, HoldsIs
  <2>2. /\ Image(disk').members = Sent.members /\ Image(disk').epoch = Sent.epoch
        /\ Image(disk').head = Sent.head /\ Image(disk').log = Sent.log
        /\ Image(disk').tickets = Sent.tickets /\ Image(disk').envelope = Sent.envelope
    <3>1. Larger(mem.head, mem.head + 1) = mem.head + 1
      BY <1>2 DEF Larger
    <3> QED
      BY <1>2, <1>3, <2>1, <3>1, SentIs, Zenon DEF Typed
  <2> QED
    BY <1>2, <1>3, <2>2, SameSession
<1> QED
  BY <1>4, <1>5, Zenon DEF After

(* The head in meta.json.                                                  *)
LEMMA HeadFollows ==
  ASSUME Typed, mem \in Record, disk.meta # Nothing, Holds(Sent),
         disk' = Written(disk, Step("head", mem.head + 1))
  PROVE  After(Sent) /\ (~broken => Reaches(disk', mem))
<1>1. disk \in Dir /\ (~broken => Readable(disk) /\ Reaches(disk, Sent))
  BY HoldsIs, ImageIs DEF Typed, Reaches
<1>2. /\ Sent \in Record /\ Sent \in Record
      /\ mem.epoch \in Nat /\ mem.head \in Nat /\ mem.tickets \in Nat /\ mem.envelope \in Nat
  BY SentIs, RecordIs DEF Typed
<1>3. ASSUME ~broken
      PROVE  /\ Image(disk') \in Record /\ Image(disk') # Nothing /\ Image(disk) \in Record
             /\ Image(disk).epoch \in Nat /\ Image(disk).head \in Nat
             /\ Image(disk).tickets \in Nat /\ Image(disk).envelope \in Nat
             /\ Image(disk').members = Image(disk).members /\ Image(disk').epoch = Image(disk).epoch
             /\ Image(disk').head = Larger(Image(disk).head, mem.head + 1) /\ Image(disk').log = Image(disk).log
             /\ Image(disk').tickets = Image(disk).tickets /\ Image(disk').envelope = Image(disk).envelope
  <2>1. disk' \in Dir /\ Readable(disk')
    BY <1>1, <1>2, <1>3, WriteMeta
  <2>2. /\ Image(disk') \in Record /\ Image(disk') # Nothing /\ Image(disk) \in Record
    BY <1>1, <1>3, <2>1, ImageIs, Zenon
  <2>3. Image(disk').members = Image(disk).members /\ Image(disk').epoch = Image(disk).epoch
        /\ Image(disk').head = Larger(Image(disk).head, mem.head + 1) /\ Image(disk').log = Image(disk).log
        /\ Image(disk').tickets = Image(disk).tickets /\ Image(disk').envelope = Image(disk).envelope
    BY <1>1, <1>2, <1>3, WriteMeta
  <2> QED
    BY <2>2, <2>3, RecordIs, Zenon
<1>4. ~broken => Reaches(disk', Sent) /\ Reaches(disk', mem)
  BY <1>1, <1>2, <1>3, SentIs DEF Reaches, Larger, Typed
<1>5. ~broken /\ ~shaky => Image(disk') = Sent
  <2> SUFFICES ASSUME ~broken, ~shaky PROVE Image(disk') = Sent
    OBVIOUS
  <2>1. Image(disk) = Sent
    BY <1>1, HoldsIs, Zenon
  <2>2. /\ Image(disk').members = Sent.members /\ Image(disk').epoch = Sent.epoch
        /\ Image(disk').head = Sent.head /\ Image(disk').log = Sent.log
        /\ Image(disk').tickets = Sent.tickets /\ Image(disk').envelope = Sent.envelope
    BY <1>2, <1>3, <2>1, SentIs DEF Larger, Typed
  <2> QED
    BY <1>2, <1>3, <2>2, SameSession
<1> QED
  BY <1>4, <1>5, Zenon DEF After
-----------------------------------------------------------------------------
(* The stages of a call                                                    *)

Moved == op' = [op EXCEPT !.steps = Tail(@)] /\ shaky' = shaky

\* The next state's Covers and Holds, of a session known now
CoversNext(q) ==
  /\ Loaded' # Nothing
  /\ q.tickets <= Loaded'.tickets /\ q.envelope <= Loaded'.envelope
  /\ q.epoch <= Loaded'.epoch /\ q.head <= Loaded'.head
HoldsNext(q) ==
  /\ ~broken' => CoversNext(q)
  /\ ~broken' /\ ~shaky' => Loaded' = q

(* What the next directory loads as is what the next stage says.           *)
LEMMA AfterIs ==
  ASSUME disk' \in Dir, broken' = broken, NEW q
  PROVE  /\ After(q) /\ shaky' = shaky => HoldsNext(q)
         /\ Reaches(disk', q) => CoversNext(q)
BY LoadedNext DEF After, HoldsNext, CoversNext, Reaches

(* The write that a call makes next, and the writes that remain.           *)
LEMMA NextWrite ==
  ASSUME NEW n, NEW s, NEW r, Doing(n, s, r), NEW a, NEW rest, Head(s) = a, Tail(s) = rest,
         CanWrite(Head(op.steps)), disk' = Written(disk, Head(op.steps))
  PROVE  /\ op.name = n /\ CanWrite(a) /\ disk' = Written(disk, a)
         /\ Moved => op' = [name |-> n, steps |-> rest, after |-> r, was |-> Nothing]
<1>1. /\ op.steps = s /\ op.name = n
      /\ [op EXCEPT !.steps = Tail(@)] = [name |-> n, steps |-> Tail(s), after |-> r, was |-> Nothing]
  <2>1. op.steps = s /\ op.name = n
    BY DoingIs, Zenon
  <2>2. op = [name |-> n, steps |-> s, after |-> r, was |-> Nothing]
    BY Zenon DEF Doing
  <2>3. ASSUME NEW t
        PROVE  [op EXCEPT !.steps = t] = [name |-> n, steps |-> t, after |-> r, was |-> Nothing]
    BY ONLY <2>2
  <2>4. [op EXCEPT !.steps = Tail(s)] = [name |-> n, steps |-> Tail(s), after |-> r, was |-> Nothing]
    BY <2>3, Zenon
  <2> QED
    BY <2>1, <2>4, Zenon
<1> QED
  BY <1>1, Zenon DEF Moved

(* The writes of Registry::host for a session in memory.                   *)
LEMMA WriteResume ==
  ASSUME Typed, Floors, Bare, Nowhere, mem # Nothing, Resuming, op.steps # <<>>,
         CanWrite(Head(op.steps)), disk' = Written(disk, Head(op.steps)),
         UNCHANGED <<mem, broken>>
  PROVE  Wrote /\ (~broken => CoversNext(mem)) /\ (Moved => Resuming')
<1> DEFINE n == mem.epoch + 1
           t == Step("tickets", mem.tickets + 1)
           F == Step("floor", n + 1)
           E == Step("epoch", n)
<1>0. /\ mem \in Record /\ disk \in Dir
      /\ mem.tickets + 1 \in Nat /\ n \in Nat /\ n + 1 \in Nat
      /\ Reissued' = Reissued /\ Resumed' = Resumed
      /\ t' = t /\ F' = F /\ E' = E
  BY RecordIs DEF Typed, Reissued, Resumed
<1> HIDE DEF t, F, E
<1>2. CASE Doing("resume", <<t, F, E>>, Resumed) /\ Holds(mem)
  <2>0. Head(<<t, F, E>>) = t /\ Tail(<<t, F, E>>) = <<F, E>>
    BY FirstOf
  <2>1. /\ op.name = "resume" /\ CanWrite(t) /\ disk' = Written(disk, t)
        /\ Moved => op' = [name |-> "resume", steps |-> <<F, E>>, after |-> Resumed, was |-> Nothing]
    BY <1>2, <2>0, NextWrite, Zenon
  <2>2. ~broken => Readable(disk)
    BY <1>0, <1>2, HeldIsReadable, Zenon
  <2>3. Wrote
    BY <1>0, <2>1, <2>2, WriteKnown, Zenon DEF t
  <2>4. After(Reissued) /\ (~broken => Reaches(disk', mem))
    BY <1>0, <1>2, <2>1, TicketsFollow, Zenon DEF t
  <2>5. (~broken => CoversNext(mem)) /\ (shaky' = shaky => HoldsNext(Reissued))
    BY <2>3, <2>4, AfterIs, Zenon DEF Wrote
  <2> QED
    BY <1>0, <2>1, <2>3, <2>5, Zenon DEF Doing, Resuming, Moved, t, F, E, Holds, Covers, HoldsNext, CoversNext
<1>3. CASE Doing("resume", <<F, E>>, Resumed) /\ Holds(Reissued)
  <2>0. Head(<<F, E>>) = F /\ Tail(<<F, E>>) = <<E>>
    BY FirstOf
  <2>1. /\ op.name = "resume" /\ CanWrite(F) /\ disk' = Written(disk, F)
        /\ Moved => op' = [name |-> "resume", steps |-> <<E>>, after |-> Resumed, was |-> Nothing]
    BY <1>3, <2>0, NextWrite, Zenon
  <2>3. Wrote
    BY <1>0, <2>1, WriteKnown, Zenon DEF F
  <2>4. Image(disk') = Image(disk) /\ disk'.floor >= n + 1 /\ disk'.floor \in Nat
    <3>1. disk' = Written(disk, Step("floor", n + 1))
      BY <2>1 DEF F
    <3>2. Image(disk') = Image(disk) /\ disk'.floor >= n + 1
      BY <1>0, <3>1, WriteOutside, Zenon
    <3> QED
      BY <2>3, <3>2, DirIs, Zenon DEF Wrote
  <2>5. After(Reissued)
    BY <1>0, <1>3, <2>4, HoldsIs, Zenon DEF After, Reaches
  <2>6. ~broken => Reaches(disk', mem)
    BY <1>0, <2>5, ReissuedIs, RecordIs, ImageIs, <2>3 DEF After, Reaches, Wrote
  <2>7. (~broken => CoversNext(mem)) /\ (shaky' = shaky => HoldsNext(Reissued))
    BY <2>3, <2>5, <2>6, AfterIs, Zenon DEF Wrote
  <2>9. n < disk'.floor
    BY <1>0, <2>4
  <2> QED
    BY <1>0, <2>1, <2>3, <2>7, <2>9 DEF Doing, Resuming, Moved, t, F, E, Holds, Covers, HoldsNext, CoversNext
<1>4. CASE Doing("resume", <<E>>, Resumed) /\ Holds(Reissued) /\ n < disk.floor
  <2>0. Head(<<E>>) = E /\ Tail(<<E>>) = <<>>
    BY FirstOf
  <2>1. /\ op.name = "resume" /\ CanWrite(E) /\ disk' = Written(disk, E)
        /\ Moved => op' = [name |-> "resume", steps |-> <<>>, after |-> Resumed, was |-> Nothing]
    BY <1>4, <2>0, NextWrite, Zenon
  <2>2. disk.meta # Nothing /\ (~broken => Readable(disk))
    BY <1>0, <1>4, <2>1, HeldIsReadable, FieldOfMeta, Zenon DEF E
  <2>3. Wrote
    BY <1>0, <1>4, <2>1, <2>2, WriteKnown, Zenon DEF E
  <2>4. After(Resumed) /\ (~broken => Reaches(disk', mem))
    BY <1>0, <1>4, <2>1, <2>2, EpochFollows, Zenon DEF E
  <2>5. (~broken => CoversNext(mem)) /\ (shaky' = shaky => HoldsNext(Resumed))
    BY <2>3, <2>4, AfterIs DEF Wrote
  <2> QED
    BY <1>0, <2>1, <2>3, <2>5, Zenon DEF Doing, Resuming, Moved, t, F, E, Holds, Covers, HoldsNext, CoversNext
<1>5. CASE Doing("resume", <<>>, Resumed)
  BY <1>5, DoingIs, Zenon
<1>6. CASE Doing("resume", <<t>>, Resumed) /\ broken
  <2>0. Head(<<t>>) = t /\ Tail(<<t>>) = <<>>
    BY FirstOf
  <2>1. /\ op.name = "resume" /\ CanWrite(t) /\ disk' = Written(disk, t)
        /\ Moved => op' = [name |-> "resume", steps |-> <<>>, after |-> Resumed, was |-> Nothing]
    BY <1>6, <2>0, NextWrite, Zenon
  <2>3. Wrote
    BY <1>0, <1>6, <2>1, WriteKnown, Zenon DEF t
  <2> QED
    BY <1>0, <1>6, <2>1, <2>3 DEF Doing, Resuming, t, F, E, Holds
<1> QED
  BY <1>2, <1>3, <1>4, <1>5, <1>6, Zenon DEF Resuming, t, F, E

(* The write of a call that has only one.                                  *)
LEMMA WriteRewrites ==
  ASSUME Typed, Floors, Bare, Nowhere, mem # Nothing, Rewrites, op.steps # <<>>,
         CanWrite(Head(op.steps)), disk' = Written(disk, Head(op.steps)),
         UNCHANGED <<mem, broken>>
  PROVE  Wrote /\ (~broken => CoversNext(mem)) /\ (Moved => Rewrites')
<1>0. /\ mem \in Record /\ disk \in Dir
      /\ mem.tickets + 1 \in Nat /\ mem.envelope + 1 \in Nat
  BY RecordIs DEF Typed
<1>1. ASSUME Rewriting("tickets", Step("tickets", mem.tickets + 1), Reissued)
      PROVE  Wrote /\ (~broken => CoversNext(mem)) /\ (Moved => Rewrites')
  <2> DEFINE s == Step("tickets", mem.tickets + 1)
  <2>1. Doing("tickets", <<s>>, Reissued) /\ Holds(mem)
    BY <1>1, DoingIs, Zenon DEF Rewriting
  <2>2. Head(<<s>>) = s /\ Tail(<<s>>) = <<>>
    BY FirstOf
  <2>3. s' = s /\ Reissued' = Reissued
    BY DEF Reissued
  <2> HIDE DEF s
  <2>4. /\ op.name = "tickets" /\ CanWrite(s) /\ disk' = Written(disk, s)
        /\ Moved => op' = [name |-> "tickets", steps |-> <<>>, after |-> Reissued, was |-> Nothing]
    BY <2>1, <2>2, NextWrite, Zenon
  <2>5. (~broken => Readable(disk))
    BY <1>0, <2>1, HeldIsReadable, Zenon
  <2>6. Wrote
    BY <1>0, <1>1, <2>4, <2>5, WriteKnown, Zenon DEF s
  <2>7. After(Reissued) /\ (~broken => Reaches(disk', mem))
    BY <1>0, <1>1, <2>1, <2>4, <2>5, TicketsFollow, Zenon DEF s
  <2>8. (~broken => CoversNext(mem)) /\ (shaky' = shaky => HoldsNext(Reissued))
    BY <2>6, <2>7, AfterIs DEF Wrote
  <2>9. Moved => Rewriting("tickets", s, Reissued)'
    BY <2>3, <2>4, <2>8, Zenon DEF Rewriting, Doing, Moved, Holds, Covers, HoldsNext, CoversNext
  <2> QED
    BY <1>1, <2>6, <2>8, <2>9 DEF Rewrites, s
<1>2. ASSUME Rewriting("envelope", Step("envelope", mem.envelope + 1), Enveloped)
      PROVE  Wrote /\ (~broken => CoversNext(mem)) /\ (Moved => Rewrites')
  <2> DEFINE s == Step("envelope", mem.envelope + 1)
  <2>1. Doing("envelope", <<s>>, Enveloped) /\ Holds(mem)
    BY <1>2, DoingIs, Zenon DEF Rewriting
  <2>2. Head(<<s>>) = s /\ Tail(<<s>>) = <<>>
    BY FirstOf
  <2>3. s' = s /\ Enveloped' = Enveloped
    BY DEF Enveloped
  <2> HIDE DEF s
  <2>4. /\ op.name = "envelope" /\ CanWrite(s) /\ disk' = Written(disk, s)
        /\ Moved => op' = [name |-> "envelope", steps |-> <<>>, after |-> Enveloped, was |-> Nothing]
    BY <2>1, <2>2, NextWrite, Zenon
  <2>5. (~broken => Readable(disk))
    BY <1>0, <2>1, HeldIsReadable, Zenon
  <2>6. Wrote
    BY <1>0, <1>2, <2>4, <2>5, WriteKnown, Zenon DEF s
  <2>7. After(Enveloped) /\ (~broken => Reaches(disk', mem))
    BY <1>0, <1>2, <2>1, <2>4, <2>5, EnvelopeFollows, Zenon DEF s
  <2>8. (~broken => CoversNext(mem)) /\ (shaky' = shaky => HoldsNext(Enveloped))
    BY <2>6, <2>7, AfterIs DEF Wrote
  <2>9. Moved => Rewriting("envelope", s, Enveloped)'
    BY <2>3, <2>4, <2>8, Zenon DEF Rewriting, Doing, Moved, Holds, Covers, HoldsNext, CoversNext
  <2> QED
    BY <1>2, <2>6, <2>8, <2>9 DEF Rewrites, s
<1>3. ASSUME NEW p \in Peers, Rewriting("add", Step("member", p), Joined(p))
      PROVE  Wrote /\ (~broken => CoversNext(mem)) /\ (Moved => Rewrites')
  <2> DEFINE s == Step("member", p)
  <2>1. Doing("add", <<s>>, Joined(p)) /\ Holds(mem)
    BY <1>3, DoingIs, Zenon DEF Rewriting
  <2>2. Head(<<s>>) = s /\ Tail(<<s>>) = <<>>
    BY FirstOf
  <2>3. s' = s /\ Joined(p)' = Joined(p)
    BY DEF Joined
  <2> HIDE DEF s
  <2>4. /\ op.name = "add" /\ CanWrite(s) /\ disk' = Written(disk, s)
        /\ Moved => op' = [name |-> "add", steps |-> <<>>, after |-> Joined(p), was |-> Nothing]
    BY <2>1, <2>2, NextWrite, Zenon
  <2>5. disk.meta # Nothing /\ (~broken => Readable(disk))
    BY <1>0, <2>1, <2>4, HeldIsReadable, FieldOfMeta, Zenon DEF s
  <2>6. Wrote
    BY <1>0, <1>3, <2>4, <2>5, WriteKnown DEF s
  <2>7. After(Joined(p)) /\ (~broken => Reaches(disk', mem))
    BY <1>0, <1>3, <2>1, <2>4, <2>5, MemberFollows, Zenon DEF s
  <2>8. (~broken => CoversNext(mem)) /\ (shaky' = shaky => HoldsNext(Joined(p)))
    BY <2>6, <2>7, AfterIs, Zenon DEF Wrote
  <2>9. Moved => Rewriting("add", s, Joined(p))'
    BY <2>3, <2>4, <2>8, Zenon DEF Rewriting, Doing, Moved, Holds, Covers, HoldsNext, CoversNext
  <2> QED
    BY <1>3, <2>6, <2>8, <2>9 DEF Rewrites, s
<1>4. ASSUME NEW p \in Peers, Rewriting("remove", Step("parted", p), Parted(p))
      PROVE  Wrote /\ (~broken => CoversNext(mem)) /\ (Moved => Rewrites')
  <2> DEFINE s == Step("parted", p)
  <2>1. Doing("remove", <<s>>, Parted(p)) /\ Holds(mem)
    BY <1>4, DoingIs, Zenon DEF Rewriting
  <2>2. Head(<<s>>) = s /\ Tail(<<s>>) = <<>>
    BY FirstOf
  <2>3. s' = s /\ Parted(p)' = Parted(p)
    BY DEF Parted
  <2> HIDE DEF s
  <2>4. /\ op.name = "remove" /\ CanWrite(s) /\ disk' = Written(disk, s)
        /\ Moved => op' = [name |-> "remove", steps |-> <<>>, after |-> Parted(p), was |-> Nothing]
    BY <2>1, <2>2, NextWrite, Zenon
  <2>5. disk.meta # Nothing /\ (~broken => Readable(disk))
    BY <1>0, <2>1, <2>4, HeldIsReadable, FieldOfMeta, Zenon DEF s
  <2>6. Wrote
    BY <1>0, <1>4, <2>4, <2>5, WriteKnown, Zenon DEF s
  <2>7. After(Parted(p)) /\ (~broken => Reaches(disk', mem))
    BY <1>0, <1>4, <2>1, <2>4, <2>5, PartedFollows, Zenon DEF s
  <2>8. (~broken => CoversNext(mem)) /\ (shaky' = shaky => HoldsNext(Parted(p)))
    BY <2>6, <2>7, AfterIs, Zenon DEF Wrote
  <2>9. Moved => Rewriting("remove", s, Parted(p))'
    BY <2>3, <2>4, <2>8 DEF Rewriting, Doing, Moved, Holds, Covers, HoldsNext, CoversNext
  <2> QED
    BY <1>4, <2>6, <2>8, <2>9 DEF Rewrites, s
<1> QED
  BY <1>1, <1>2, <1>3, <1>4, Zenon DEF Rewrites

(* The two writes of Registry::send.                                       *)
LEMMA WriteAppend ==
  ASSUME Typed, Floors, Bare, Nowhere, mem # Nothing, Appending, op.steps # <<>>,
         CanWrite(Head(op.steps)), disk' = Written(disk, Head(op.steps)),
         UNCHANGED <<mem, broken, life>>
  PROVE  Wrote /\ (~broken => CoversNext(mem)) /\ (Moved => Appending')
<1> DEFINE f == Step("frame", NextFrame)
           h == Step("head", mem.head + 1)
<1>0. /\ mem \in Record /\ disk \in Dir /\ mem.head + 1 \in Nat /\ NextFrame \in Frame
      /\ Sent' = Sent /\ f' = f /\ h' = h
  BY RecordIs, SentIs DEF Typed, Sent, NextFrame
<1> HIDE DEF f, h
<1>1. CASE Doing("append", <<f, h>>, Sent) /\ Holds(mem)
  <2>1. Head(<<f, h>>) = f /\ Tail(<<f, h>>) = <<h>>
    BY FirstOf
  <2>2. /\ op.name = "append" /\ CanWrite(f) /\ disk' = Written(disk, f)
        /\ Moved => op' = [name |-> "append", steps |-> <<h>>, after |-> Sent, was |-> Nothing]
    BY <1>1, <2>1, NextWrite, Zenon
  <2>3. ~broken => Readable(disk)
    BY <1>0, <1>1, HeldIsReadable, Zenon
  <2>4. Wrote
    BY <1>0, <2>2, <2>3, WriteKnown DEF f
  <2>5. After(Sent) /\ (~broken => Reaches(disk', mem))
    BY <1>0, <1>1, <2>2, FrameFollows, Zenon DEF f
  <2>6. (~broken => CoversNext(mem)) /\ (shaky' = shaky => HoldsNext(Sent))
    BY <2>4, <2>5, AfterIs, Zenon DEF Wrote
  <2> QED
    BY <1>0, <2>2, <2>4, <2>6, Zenon DEF Doing, Appending, Moved, f, h, Holds, Covers, HoldsNext, CoversNext
<1>2. CASE Doing("append", <<h>>, Sent) /\ Holds(Sent)
  <2>1. Head(<<h>>) = h /\ Tail(<<h>>) = <<>>
    BY FirstOf
  <2>2. /\ op.name = "append" /\ CanWrite(h) /\ disk' = Written(disk, h)
        /\ Moved => op' = [name |-> "append", steps |-> <<>>, after |-> Sent, was |-> Nothing]
    BY <1>2, <2>1, NextWrite, Zenon
  <2>3. disk.meta # Nothing /\ (~broken => Readable(disk))
    BY <1>0, <1>2, <2>2, HeldIsReadable, FieldOfMeta, Zenon DEF h
  <2>4. Wrote
    BY <1>0, <2>2, <2>3, WriteKnown DEF h
  <2>5. After(Sent) /\ (~broken => Reaches(disk', mem))
    BY <1>0, <1>2, <2>2, <2>3, HeadFollows, Zenon DEF h
  <2>6. (~broken => CoversNext(mem)) /\ (shaky' = shaky => HoldsNext(Sent))
    BY <2>4, <2>5, AfterIs DEF Wrote
  <2> QED
    BY <1>0, <2>2, <2>4, <2>6, Zenon DEF Doing, Appending, Moved, f, h, Holds, Covers, HoldsNext, CoversNext
<1>3. CASE Doing("append", <<>>, Sent)
  BY <1>3, DoingIs, Zenon
<1> QED
  BY <1>1, <1>2, <1>3, Zenon DEF Appending, f, h

(* The four writes of Registry::host for a new session.                    *)
LEMMA WriteCreate ==
  ASSUME Typed, Floors, Bare, Nowhere, NEW e \in Nat, Creating(e), op.steps # <<>>,
         CanWrite(Head(op.steps)), disk' = Written(disk, Head(op.steps)),
         UNCHANGED <<mem, broken>>
  PROVE  Wrote /\ (Moved => Creating(e)')
<1> DEFINE D == Step("dir", 0)
           F == Step("floor", e + 1)
           M == FirstMeta(e)
           T == Step("tickets", 1)
<1>0. /\ disk \in Dir /\ disk.floor \in Nat /\ e + 1 \in Nat
      /\ Fresh(e, 0) \in Record /\ Fresh(e, 1) \in Record
      /\ disk.meta # Nothing => disk.meta.epoch \in Nat /\ disk.meta.epoch < disk.floor
  <2>1. Fresh(e, 0) \in Record /\ Fresh(e, 1) \in Record
    BY FreshIs
  <2>2. disk \in Dir /\ (disk.meta # Nothing => disk.meta.epoch < disk.floor)
    BY DEF Typed, Floors
  <2> QED
    BY <2>1, <2>2, DirIs
<1> HIDE DEF D, F, M, T
<1>1. ASSUME op.name = "create", disk' \in Dir, disk'.meta = disk.meta, disk'.log = disk.log,
             disk'.tickets = disk.tickets, disk'.envelope = disk.envelope,
             disk'.floor >= disk.floor, disk.dir => disk'.dir
      PROVE  Wrote
  <2>1. disk'.floor \in Nat
    BY <1>1, DirIs, Zenon
  <2>2. disk'.meta # Nothing => disk'.meta.epoch < disk'.floor
    BY <1>0, <1>1, <2>1
  <2>3. ~disk'.dir => disk'.meta = Nothing /\ Empty(disk')
    BY <1>1, Zenon DEF Nowhere, Empty
  <2>4. ~broken => /\ disk'.envelope # Corrupt
                   /\ disk'.meta = Nothing => disk.meta = Nothing /\ Empty(disk')
    BY <1>1 DEF Bare, Empty
  <2> QED
    BY <1>1, <2>2, <2>3, <2>4, Zenon DEF Wrote
<1>2. CASE Doing("create", <<D, F, M, T>>, Fresh(e, 1)) /\ Blank
  <2>1. Head(<<D, F, M, T>>) = D /\ Tail(<<D, F, M, T>>) = <<F, M, T>>
    BY FirstOf
  <2>2. /\ op.name = "create" /\ CanWrite(D) /\ disk' = Written(disk, D)
        /\ Moved => op' = [name |-> "create", steps |-> <<F, M, T>>, after |-> Fresh(e, 1), was |-> Nothing]
    BY <1>2, <2>1, NextWrite, Zenon
  <2>3. disk' = Written(disk, Step("dir", 0)) /\ 0 \in Nat
    BY <2>2 DEF D
  <2>4. /\ disk' \in Dir /\ disk'.meta = disk.meta /\ disk'.log = disk.log
        /\ disk'.tickets = disk.tickets /\ disk'.envelope = disk.envelope
        /\ disk'.floor >= disk.floor /\ disk'.dir
    BY <1>0, <2>3, WriteOutside, Zenon
  <2> QED
    BY <1>1, <1>2, <2>2, <2>4, Zenon DEF Creating, Doing, Blank, Moved, F, M, T
<1>3. CASE Doing("create", <<F, M, T>>, Fresh(e, 1)) /\ Blank /\ disk.dir
  <2>1. Head(<<F, M, T>>) = F /\ Tail(<<F, M, T>>) = <<M, T>>
    BY FirstOf
  <2>2. /\ op.name = "create" /\ CanWrite(F) /\ disk' = Written(disk, F)
        /\ Moved => op' = [name |-> "create", steps |-> <<M, T>>, after |-> Fresh(e, 1), was |-> Nothing]
    BY <1>3, <2>1, NextWrite, Zenon
  <2>3. disk' = Written(disk, Step("floor", e + 1))
    BY <2>2, Zenon DEF F
  <2>4. /\ disk' \in Dir /\ disk'.meta = disk.meta /\ disk'.log = disk.log
        /\ disk'.tickets = disk.tickets /\ disk'.envelope = disk.envelope
        /\ disk'.floor >= disk.floor /\ disk'.floor >= e + 1 /\ disk'.dir = disk.dir
    BY <1>0, <2>3, WriteOutside, ZenonT(40)
  <2>5. e < disk'.floor
    BY <2>4, DirIs
  <2>6. Wrote
    BY <1>1, <2>2, <2>4
  <2> QED
    BY <1>3, <2>2, <2>4, <2>5, <2>6, Zenon DEF Creating, Doing, Blank, Moved, M, T
<1>4. CASE Doing("create", <<M, T>>, Fresh(e, 1)) /\ Blank /\ disk.dir /\ e < disk.floor
  <2>1. Head(<<M, T>>) = M /\ Tail(<<M, T>>) = <<T>>
    BY FirstOf
  <2>2. /\ op.name = "create" /\ CanWrite(M) /\ disk' = Written(disk, M)
        /\ Moved => op' = [name |-> "create", steps |-> <<T>>, after |-> Fresh(e, 1), was |-> Nothing]
    BY <1>4, <2>1, NextWrite, Zenon
  <2>3. /\ disk' \in Dir /\ disk'.dir = disk.dir /\ disk'.log = disk.log /\ disk'.floor = disk.floor
        /\ disk'.tickets = disk.tickets /\ disk'.envelope = disk.envelope
        /\ disk'.meta # Nothing /\ disk'.meta.epoch = e /\ disk'.meta.head = 0
        /\ disk'.meta.members = {Host}
    <3>1. disk' = Written(disk, FirstMeta(e))
      BY <2>2 DEF M
    <3>2. disk \in Dir /\ e \in Nat
      BY <1>0
    <3> QED
      BY <3>1, <3>2, WriteFirst, ZenonT(40)
  <2>4. ~broken => disk.envelope # Corrupt
    BY DEF Bare
  <2>5. Wrote
    <3>1. disk'.floor >= disk.floor /\ disk'.meta.epoch < disk'.floor
      BY <1>0, <1>4, <2>3
    <3>2. disk'.dir
      BY <1>4, <2>3, Zenon
    <3> QED
      BY <2>3, <2>4, <3>1, <3>2, Zenon DEF Wrote
  <2>6. ASSUME ~broken
        PROVE  /\ Image(disk') \in Record /\ Image(disk').epoch = e
               /\ Image(disk').head = Larger(0, LogTail(disk.log)) /\ Image(disk').log = disk.log
               /\ Image(disk').tickets = Ledger(disk.tickets) /\ Image(disk').envelope = disk.envelope
               /\ Image(disk').members = {Host}
    BY <2>3, <2>4, <2>6, ImageIs, Zenon DEF Readable
  <2>7. ~broken => Reaches(disk', Fresh(e, 0))
    <3> SUFFICES ASSUME ~broken PROVE Reaches(disk', Fresh(e, 0))
      OBVIOUS
    <3>1. /\ Image(disk').head \in Nat /\ Image(disk').tickets \in Nat /\ Image(disk').envelope \in Nat
          /\ Image(disk') # Nothing
      BY <2>6, RecordIs, Zenon
    <3> QED
      BY <2>6, <3>1, FreshIs DEF Reaches
  <2>8. ~broken /\ ~shaky => Image(disk') = Fresh(e, 0)
    <3> SUFFICES ASSUME ~broken, ~shaky PROVE Image(disk') = Fresh(e, 0)
      OBVIOUS
    <3>1. disk.log = <<>> /\ disk.tickets = 0 /\ disk.envelope = 0
      BY <1>4, <2>2, Zenon DEF Blank, Bare
    <3>2. Larger(0, LogTail(disk.log)) = 0 /\ Ledger(disk.tickets) = 0
      BY <3>1, TailOfEmpty, FsStoreAssumption, Zenon DEF Larger, Ledger
    <3>3. /\ Fresh(e, 0).members = {Host} /\ Fresh(e, 0).epoch = e /\ Fresh(e, 0).head = 0
          /\ Fresh(e, 0).log = <<>> /\ Fresh(e, 0).tickets = 0 /\ Fresh(e, 0).envelope = 0
      BY FreshIs
    <3>4. Image(disk') \in Record /\ Fresh(e, 0) \in Record
      BY <1>0, <2>6
    <3>5. /\ Image(disk').members = Fresh(e, 0).members /\ Image(disk').epoch = Fresh(e, 0).epoch
          /\ Image(disk').head = Fresh(e, 0).head /\ Image(disk').log = Fresh(e, 0).log
          /\ Image(disk').tickets = Fresh(e, 0).tickets /\ Image(disk').envelope = Fresh(e, 0).envelope
      BY <2>6, <3>1, <3>2, <3>3, Zenon
    <3> QED
      BY <3>4, <3>5, SameSession, Zenon
  <2>9. shaky' = shaky => HoldsNext(Fresh(e, 0))
    BY <2>3, <2>7, <2>8, AfterIs, Zenon DEF After
  <2> QED
    BY <2>2, <2>5, <2>9 DEF Creating, Doing, Moved, T, Holds, Covers, HoldsNext, CoversNext
<1>5. CASE Doing("create", <<T>>, Fresh(e, 1)) /\ Holds(Fresh(e, 0))
  <2>1. Head(<<T>>) = T /\ Tail(<<T>>) = <<>>
    BY FirstOf
  <2>2. /\ op.name = "create" /\ CanWrite(T) /\ disk' = Written(disk, T)
        /\ Moved => op' = [name |-> "create", steps |-> <<>>, after |-> Fresh(e, 1), was |-> Nothing]
    BY <1>5, <2>1, NextWrite, Zenon
  <2>3. ~broken => Readable(disk) /\ Reaches(disk, Fresh(e, 0))
    BY <1>0, <1>5, HoldsIs, ImageIs, Zenon DEF Reaches
  <2>4. Wrote
    BY <1>0, <2>2, <2>3, WriteKnown, Zenon DEF T
  <2>5. ASSUME ~broken
        PROVE  /\ Image(disk') \in Record /\ Image(disk) \in Record
               /\ Image(disk').members = Image(disk).members /\ Image(disk').epoch = Image(disk).epoch
               /\ Image(disk').head = Image(disk).head /\ Image(disk').log = Image(disk).log
               /\ Image(disk').tickets = 1 /\ Image(disk').envelope = Image(disk).envelope
    <3>1. PICK n \in Nat : /\ n = 1 /\ disk' = Written(disk, Step("tickets", n))
                           /\ disk \in Dir /\ Readable(disk)
      BY <1>0, <2>2, <2>3, <2>5, Zenon DEF T
    <3>2. /\ Readable(disk')
          /\ Image(disk').members = Image(disk).members /\ Image(disk').epoch = Image(disk).epoch
          /\ Image(disk').head = Image(disk).head /\ Image(disk').log = Image(disk).log
          /\ Image(disk').tickets = n /\ Image(disk').envelope = Image(disk).envelope
      BY <3>1, WriteTickets
    <3>3. Image(disk') \in Record /\ Image(disk) \in Record
      BY <1>0, <2>3, <2>4, <2>5, <3>2, ImageIs, Zenon DEF Wrote
    <3> QED
      BY <3>1, <3>2, <3>3
  <2>6. ~broken => Reaches(disk', Fresh(e, 1))
    <3> SUFFICES ASSUME ~broken PROVE Reaches(disk', Fresh(e, 1))
      OBVIOUS
    <3>1. Image(disk') # Nothing
      BY <2>5, RecordIs, Zenon
    <3> QED
      BY <2>3, <2>5, <3>1, FreshIs DEF Reaches
  <2>7. ~broken /\ ~shaky => Image(disk') = Fresh(e, 1)
    <3> SUFFICES ASSUME ~broken, ~shaky PROVE Image(disk') = Fresh(e, 1)
      OBVIOUS
    <3>1. Image(disk) = Fresh(e, 0)
      BY <1>0, <1>5, HoldsIs, Zenon
    <3>2. /\ Fresh(e, 0).members = {Host} /\ Fresh(e, 0).epoch = e /\ Fresh(e, 0).head = 0
          /\ Fresh(e, 0).log = <<>> /\ Fresh(e, 0).envelope = 0
          /\ Fresh(e, 1).members = {Host} /\ Fresh(e, 1).epoch = e /\ Fresh(e, 1).head = 0
          /\ Fresh(e, 1).log = <<>> /\ Fresh(e, 1).tickets = 1 /\ Fresh(e, 1).envelope = 0
      BY FreshIs
    <3>4. Image(disk') \in Record /\ Fresh(e, 1) \in Record
      BY <1>0, <2>5
    <3>5. /\ Image(disk').members = Fresh(e, 1).members /\ Image(disk').epoch = Fresh(e, 1).epoch
          /\ Image(disk').head = Fresh(e, 1).head /\ Image(disk').log = Fresh(e, 1).log
          /\ Image(disk').tickets = Fresh(e, 1).tickets /\ Image(disk').envelope = Fresh(e, 1).envelope
      BY <2>5, <3>1, <3>2, Zenon
    <3> QED
      BY <3>4, <3>5, SameSession
  <2>8. shaky' = shaky => HoldsNext(Fresh(e, 1))
    BY <2>4, <2>6, <2>7, AfterIs DEF After, Wrote
  <2> QED
    BY <2>2, <2>4, <2>8, Zenon DEF Creating, Doing, Moved, Holds, Covers, HoldsNext, CoversNext
<1>6. CASE Doing("create", <<>>, Fresh(e, 1))
  BY <1>6, DoingIs, Zenon
<1> QED
  BY <1>2, <1>3, <1>4, <1>5, <1>6, Zenon DEF Creating, D, F, M, T
-----------------------------------------------------------------------------
(* The stage that a call is in                                             *)

(* Each stage is one of its own call.                                      *)
LEMMA CallNames ==
  /\ \A e \in Nat : Creating(e) => op.name = "create"
  /\ Resuming => op.name = "resume"
  /\ Rewrites => op.name \in {"tickets", "envelope", "add", "remove"}
  /\ Appending => op.name = "append"
  /\ Deleting => op.name = "delete" /\ op.steps = <<>> /\ op.after = Nothing
  /\ Idle.name = "idle" /\ Idle.steps = <<>>
<1>0. ASSUME NEW n, NEW s, NEW r, Doing(n, s, r) PROVE op.name = n
  BY <1>0, DoingIs, Zenon
<1>1. ASSUME NEW e \in Nat, Creating(e) PROVE op.name = "create"
  BY <1>0, <1>1, Zenon DEF Creating
<1>2. Resuming => op.name = "resume"
  BY <1>0 DEF Resuming
<1>3. Rewrites => op.name \in {"tickets", "envelope", "add", "remove"}
  BY <1>0, Zenon DEF Rewrites, Rewriting
<1>4. Appending => op.name = "append"
  BY <1>0 DEF Appending
<1>5. Deleting => op.name = "delete" /\ op.steps = <<>> /\ op.after = Nothing
  <2> SUFFICES ASSUME Deleting PROVE op.name = "delete" /\ op.steps = <<>> /\ op.after = Nothing
    OBVIOUS
  <2> DEFINE w == op.was
  <2>1. op = [name |-> "delete", steps |-> <<>>, after |-> Nothing, was |-> w]
    BY DEF Deleting
  <2> HIDE DEF w
  <2> QED
    BY <2>1
<1>6. Idle.name = "idle" /\ Idle.steps = <<>>
  BY Zenon DEF Idle
<1> QED
  BY <1>1, <1>2, <1>3, <1>4, <1>5, <1>6, Zenon

(* A call needs a running daemon; only create is without a session.        *)
LEMMA BusyIs ==
  ASSUME Stage
  PROVE  /\ op # Idle => up /\ op.name # "idle"
         /\ op.steps # <<>> => op # Idle /\ op.name # "delete"
         /\ op.name = "delete" => Deleting /\ mem # Nothing /\ up
         /\ op.name = "create" => mem = Nothing /\ op # Idle
         /\ mem = Nothing /\ op # Idle => op.name = "create" /\ \E e \in Nat : Creating(e)
         /\ mem # Nothing /\ op # Idle => Resuming \/ Rewrites \/ Appending \/ Deleting
<1>1. CASE op = Idle
  BY <1>1, CallNames, Zenon
<1>2. CASE mem = Nothing /\ up /\ \E e \in Nat : Creating(e)
  BY <1>2, CallNames, Zenon
<1>3. CASE mem # Nothing /\ up /\ (Resuming \/ Rewrites \/ Appending \/ Deleting)
  BY <1>3, CallNames, Zenon
<1> QED
  BY <1>1, <1>2, <1>3, Zenon DEF Stage

(* A stage stays what it is while neither the call nor what a restart      *)
(* would load changes.                                                     *)
LEMMA StageSame ==
  ASSUME Stage, UNCHANGED <<op, up, mem, life, broken, shaky>>, Loaded' = Loaded,
         disk'.meta = disk.meta, disk'.floor = disk.floor, disk.dir => disk'.dir
  PROVE  Stage'
<1>0. /\ Reissued' = Reissued /\ Resumed' = Resumed /\ Enveloped' = Enveloped /\ Sent' = Sent
      /\ NextFrame' = NextFrame
      /\ \A p : Joined(p)' = Joined(p) /\ Parted(p)' = Parted(p)
  BY DEF Reissued, Resumed, Enveloped, Sent, NextFrame, Joined, Parted
<1>1. Blank => Blank'
  BY DEF Blank
<1>2. ASSUME NEW r, Holds(r) PROVE HoldsNext(r)
  BY <1>2 DEF Holds, HoldsNext, Covers, CoversNext
<1>3. ASSUME NEW e \in Nat, Creating(e) PROVE Creating(e)'
  <2>1. /\ Holds(Fresh(e, 0)) => Holds(Fresh(e, 0))'
        /\ Holds(Fresh(e, 1)) => Holds(Fresh(e, 1))'
    BY <1>2, Zenon DEF Holds, HoldsNext, Covers, CoversNext
  <2> QED
    BY <1>1, <1>3, <2>1, Zenon DEF Creating, Doing
<1>4. /\ Holds(mem) => Holds(mem)'
      /\ Holds(Reissued) => Holds(Reissued)'
      /\ Holds(Resumed) => Holds(Resumed)'
      /\ Holds(Enveloped) => Holds(Enveloped)'
      /\ Holds(Sent) => Holds(Sent)'
      /\ \A p : (Holds(Joined(p)) => Holds(Joined(p))') /\ (Holds(Parted(p)) => Holds(Parted(p))')
  BY <1>0, <1>2, Zenon DEF Holds, HoldsNext, Covers, CoversNext
<1>5. Resuming => Resuming'
  BY <1>0, <1>4, Zenon DEF Resuming, Doing
<1>6. Rewrites => Rewrites'
  BY <1>0, <1>4, Zenon DEF Rewrites, Rewriting, Doing
<1>7. Appending => Appending'
  BY <1>0, <1>4, Zenon DEF Appending, Doing
<1>8. Deleting => Deleting'
  BY DEF Deleting, Kept
<1> QED
  BY <1>1, <1>3, <1>4, <1>5, <1>6, <1>7, <1>8, Zenon DEF Stage
-----------------------------------------------------------------------------
(* A call begins                                                           *)

Began ==
  /\ up /\ Unlocked /\ UNCHANGED <<dirVars, up, mem, reg, list, puts, pastVars>>
  /\ op'.name # "idle"
  /\ \/ op'.name = "create" /\ mem = Nothing /\ life' = life + 1
     \/ op'.name # "create" /\ mem # Nothing /\ life' = life

(* The session lock is taken, and nothing is written yet.                  *)
LEMMA CallIs ==
  ASSUME NEW n, NEW s, NEW r, n # "delete", Call(n, s, r)
  PROVE  /\ up /\ op = Idle /\ Unlocked
         /\ UNCHANGED <<dirVars, up, mem, reg, list, puts, pastVars>>
         /\ op' = [name |-> n, steps |-> s, after |-> r, was |-> Nothing] /\ op'.name = n
<1>1. op' = [name |-> n, steps |-> s, after |-> r, was |-> Nothing]
  BY DEF Call
<1>2. op'.name = n
  BY <1>1
<1> QED
  BY <1>1, <1>2, Zenon DEF Call, Unlocked

(* What is held in memory is on disk when a call begins.                   *)
LEMMA KnownIsHeld ==
  ASSUME Stage, up, op = Idle, mem # Nothing, UNCHANGED <<dirVars, mem, pastVars>>
  PROVE  Holds(mem) /\ Holds(mem)' /\ (disk.meta = Nothing => broken)
<1>1. Holds(mem)
  BY BusyIs, CallNames, Zenon DEF Stage, Deleting
<1>2. Loaded' = Loaded
  BY DEF Loaded, Skipped, dirVars
<1>3. Holds(mem)'
  BY <1>1, <1>2 DEF Holds, Covers, pastVars
<1>4. disk.meta = Nothing => broken
  BY <1>1, Zenon DEF Holds, Covers, Loaded, Skipped
<1> QED
  BY <1>1, <1>3, <1>4, Zenon

(* Registry::host for a session that is not in memory.                     *)
LEMMA FreshBegins ==
  ASSUME Typed, Stage, HostFresh PROVE Began /\ Stage'
<1>1. PICK e \in Nat : e = disk.floor
  BY Zenon DEF Typed, Dir
<1> DEFINE s == <<Step("dir", 0), Step("floor", e + 1), FirstMeta(e), Step("tickets", 1)>>
<1>2. mem = Nothing /\ life' = life + 1 /\ Call("create", s, Fresh(e, 1))
  <2>1. /\ Fresh(e, 1).members = {Host} /\ Fresh(e, 1).epoch = e /\ Fresh(e, 1).tickets = 1
    BY FreshIs
  <2>2. CreateSteps(Fresh(e, 1)) = s
    BY <2>1, Zenon DEF CreateSteps, FirstMeta
  <2>3. Call("create", CreateSteps(Fresh(e, 1)), Fresh(e, 1))
    BY <1>1, Zenon DEF HostFresh, Fresh, FirstEpoch
  <2> QED
    BY <2>2, <2>3, Zenon DEF HostFresh
<1> HIDE DEF s
<1>3. /\ up /\ op = Idle /\ Unlocked /\ UNCHANGED <<dirVars, up, mem, reg, list, puts, pastVars>>
      /\ op' = [name |-> "create", steps |-> s, after |-> Fresh(e, 1), was |-> Nothing]
      /\ op'.name = "create"
  BY <1>2, CallIs, Zenon
<1>4. Began
  BY <1>2, <1>3, Zenon DEF Began
<1>5. Blank
  BY <1>2, <1>3, BusyIs, CallNames, Zenon DEF Stage
<1>6. Blank'
  BY <1>3, <1>5 DEF Blank, dirVars, pastVars
<1>7. Creating(e)'
  BY <1>3, <1>6, Zenon DEF Creating, Doing, s
<1>8. mem' = Nothing /\ up'
  BY <1>2, <1>3
<1> QED
  BY <1>4, <1>7, <1>8, Zenon DEF Stage

(* For one that is: the ledger, then the floor and the epoch.              *)
LEMMA ResumeBegins ==
  ASSUME Typed, Stage, HostResume PROVE Began /\ Stage'
<1> DEFINE n == mem.epoch + 1
           t == Step("tickets", mem.tickets + 1)
           F == Step("floor", n + 1)
           E == Step("epoch", n)
           s == IF disk.meta = Nothing THEN <<t>> ELSE <<t, F, E>>
<1>1. mem # Nothing /\ life' = life /\ Call("resume", s, Resumed)
  BY DEF HostResume, Known, Resumed, ResumeSteps
<1> HIDE DEF s
<1>2. /\ up /\ op = Idle /\ Unlocked /\ UNCHANGED <<dirVars, up, mem, reg, list, puts, pastVars>>
      /\ op' = [name |-> "resume", steps |-> s, after |-> Resumed, was |-> Nothing]
      /\ op'.name = "resume"
  BY <1>1, CallIs
<1>3. Began
  BY <1>1, <1>2, Zenon DEF Began
<1>4. Holds(mem)' /\ (disk.meta = Nothing => broken')
  BY <1>1, <1>2, KnownIsHeld DEF pastVars
<1>5. Resumed' = Resumed /\ t' = t /\ F' = F /\ E' = E
  BY <1>2, Zenon DEF Resumed
<1> HIDE DEF t, F, E
<1>6. CASE disk.meta = Nothing
  <2>1. (Doing("resume", <<t>>, Resumed) /\ broken)'
    BY <1>2, <1>4, <1>5, <1>6, Zenon DEF Doing, s
  <2> QED
    BY <1>1, <1>2, <1>3, <2>1, Zenon DEF Stage, Resuming, t
<1>7. CASE disk.meta # Nothing
  <2>1. (Doing("resume", <<t, F, E>>, Resumed) /\ Holds(mem))'
    BY <1>2, <1>4, <1>5, <1>7, Zenon DEF Doing, s
  <2> QED
    BY <1>1, <1>2, <1>3, <2>1, Zenon DEF Stage, Resuming, t, F, E
<1> QED
  BY <1>6, <1>7

(* A call of one write on a session in memory.                             *)
LEMMA RewriteBegins ==
  ASSUME Stage, mem # Nothing, life' = life, NEW n, n \notin {"delete", "create", "idle"},
         NEW s, NEW r, Call(n, <<s>>, r)
  PROVE  /\ Began /\ UNCHANGED <<mem, up>> /\ up
         /\ op' = [name |-> n, steps |-> <<s>>, after |-> r, was |-> Nothing] /\ Holds(mem)'
<1>1. /\ up /\ op = Idle /\ Unlocked /\ UNCHANGED <<dirVars, up, mem, reg, list, puts, pastVars>>
      /\ op' = [name |-> n, steps |-> <<s>>, after |-> r, was |-> Nothing] /\ op'.name = n
  BY CallIs
<1>2. Began
  BY <1>1 DEF Began
<1>3. Holds(mem)'
  BY <1>1, KnownIsHeld
<1> QED
  BY <1>1, <1>2, <1>3, Zenon

(* mint, revoke and used_by, put_workspace_ticket, add and remove.         *)
LEMMA RewritesBegin ==
  ASSUME Stage, \/ PutTickets \/ PutWorkspaceTicket
                \/ \E p \in Peers : AddMember(p) \/ RemoveMember(p)
  PROVE  Began /\ Stage'
<1>1. ASSUME PutTickets PROVE Began /\ Stage'
  <2> DEFINE s == Step("tickets", mem.tickets + 1)
  <2>1. mem # Nothing /\ life' = life /\ Call("tickets", <<s>>, Reissued)
    BY <1>1 DEF PutTickets, Known, Reissued
  <2> HIDE DEF s
  <2>2. /\ Began /\ UNCHANGED <<mem, up>> /\ up /\ Holds(mem)'
        /\ op' = [name |-> "tickets", steps |-> <<s>>, after |-> Reissued, was |-> Nothing]
    BY <2>1, RewriteBegins
  <2>3. s' = s /\ Reissued' = Reissued
    BY <2>2 DEF s, Reissued
  <2>4. Rewriting("tickets", s, Reissued)'
    BY <2>2, <2>3, Zenon DEF Rewriting, Doing
  <2> QED
    BY <2>1, <2>2, <2>4 DEF Stage, Rewrites, s
<1>2. ASSUME PutWorkspaceTicket PROVE Began /\ Stage'
  <2> DEFINE s == Step("envelope", mem.envelope + 1)
  <2>1. mem # Nothing /\ life' = life /\ Call("envelope", <<s>>, Enveloped)
    BY <1>2 DEF PutWorkspaceTicket, Known, Enveloped
  <2> HIDE DEF s
  <2>2. /\ Began /\ UNCHANGED <<mem, up>> /\ up /\ Holds(mem)'
        /\ op' = [name |-> "envelope", steps |-> <<s>>, after |-> Enveloped, was |-> Nothing]
    BY <2>1, RewriteBegins
  <2>3. s' = s /\ Enveloped' = Enveloped
    BY <2>2 DEF s, Enveloped
  <2>4. Rewriting("envelope", s, Enveloped)'
    BY <2>2, <2>3, Zenon DEF Rewriting, Doing
  <2> QED
    BY <2>1, <2>2, <2>4 DEF Stage, Rewrites, s
<1>3. ASSUME NEW p \in Peers, AddMember(p) PROVE Began /\ Stage'
  <2> DEFINE s == Step("member", p)
  <2>1. mem # Nothing /\ life' = life /\ Call("add", <<s>>, Joined(p))
    BY <1>3 DEF AddMember, Known, Joined
  <2> HIDE DEF s
  <2>2. /\ Began /\ UNCHANGED <<mem, up>> /\ up /\ Holds(mem)'
        /\ op' = [name |-> "add", steps |-> <<s>>, after |-> Joined(p), was |-> Nothing]
    BY <2>1, RewriteBegins
  <2>3. s' = s /\ Joined(p)' = Joined(p)
    BY <2>2 DEF s, Joined
  <2>4. Rewriting("add", s, Joined(p))'
    BY <2>2, <2>3, Zenon DEF Rewriting, Doing
  <2> QED
    BY <1>3, <2>1, <2>2, <2>4 DEF Stage, Rewrites, s
<1>4. ASSUME NEW p \in Peers, RemoveMember(p) PROVE Began /\ Stage'
  <2> DEFINE s == Step("parted", p)
  <2>1. mem # Nothing /\ life' = life /\ Call("remove", <<s>>, Parted(p))
    BY <1>4, Zenon DEF RemoveMember, Known, Parted
  <2> HIDE DEF s
  <2>2. /\ Began /\ UNCHANGED <<mem, up>> /\ up /\ Holds(mem)'
        /\ op' = [name |-> "remove", steps |-> <<s>>, after |-> Parted(p), was |-> Nothing]
    BY <2>1, RewriteBegins
  <2>3. s' = s /\ Parted(p)' = Parted(p)
    BY <2>2, Zenon DEF s, Parted
  <2>4. Rewriting("remove", s, Parted(p))'
    BY <2>2, <2>3, Zenon DEF Rewriting, Doing
  <2> QED
    BY <1>4, <2>1, <2>2, <2>4, Zenon DEF Stage, Rewrites, s
<1> QED
  BY <1>1, <1>2, <1>3, <1>4, Zenon

(* Registry::send.                                                         *)
LEMMA SendBegins ==
  ASSUME Stage, Send PROVE Began /\ Stage'
<1> DEFINE f == Step("frame", NextFrame)
           h == Step("head", mem.head + 1)
<1>1. mem # Nothing /\ life' = life /\ Call("append", <<f, h>>, Sent)
  BY Zenon DEF Send, Known, Sent, NextFrame
<1> HIDE DEF f, h
<1>2. /\ up /\ op = Idle /\ Unlocked /\ UNCHANGED <<dirVars, up, mem, reg, list, puts, pastVars>>
      /\ op' = [name |-> "append", steps |-> <<f, h>>, after |-> Sent, was |-> Nothing]
      /\ op'.name = "append"
  BY <1>1, CallIs, Zenon
<1>3. Began
  BY <1>1, <1>2, Zenon DEF Began
<1>4. Holds(mem)'
  BY <1>1, <1>2, KnownIsHeld
<1>5. f' = f /\ h' = h /\ Sent' = Sent
  BY <1>1, <1>2, Zenon DEF f, h, Sent, NextFrame
<1>6. (Doing("append", <<f, h>>, Sent) /\ Holds(mem))'
  BY <1>2, <1>4, <1>5, Zenon DEF Doing
<1> QED
  BY <1>1, <1>2, <1>3, <1>6 DEF Stage, Appending, f, h

(* The host leaves: delete notes what there is.                            *)
LEMMA LeaveBegins ==
  ASSUME Stage, Leave PROVE Began /\ Stage'
<1>1. /\ mem # Nothing /\ life' = life /\ up /\ op = Idle /\ Unlocked
      /\ UNCHANGED <<dirVars, up, mem, reg, list, puts, pastVars>>
      /\ op' = [name |-> "delete", steps |-> <<>>, after |-> Nothing, was |-> <<Loaded, files>>]
  BY DEF Leave, Known, Call, Unlocked
<1>2. op'.name = "delete" /\ op'.was = <<Loaded, files>> /\ op'.was[1] = Loaded
  BY <1>1, Zenon
<1>3. Began
  BY <1>1, <1>2, Zenon DEF Began
<1>4. Holds(mem)
  BY <1>1, KnownIsHeld, Zenon
<1>5. Kept(op'.was[1], mem)
  BY <1>2, <1>4, Zenon DEF Kept, Holds, Covers
<1>6. Deleting'
  BY <1>1, <1>2, <1>5, Zenon DEF Deleting, Kept, pastVars
<1> QED
  BY <1>1, <1>3, <1>6, Zenon DEF Stage

(* A call that begins changes nothing else, and no registration past its   *)
(* check is in its way.                                                    *)
LEMMA BeganKeeps ==
  ASSUME Inv, Began, Stage' PROVE Inv'
<1>1. /\ Typed /\ Floors /\ Bare /\ Nowhere /\ Registering /\ Owned
      /\ up /\ Unlocked /\ op = Idle /\ op.name = "idle"
  BY CallNames, Zenon DEF Inv, Began, Unlocked
<1>2. UNCHANGED <<disk, files, tmps, up, mem, reg, list, puts, epochs, faults, shaky, broken, crossed>>
  BY Zenon DEF Began, dirVars, pastVars
<1>3. op' # Idle /\ op'.name # "idle"
  BY CallNames, Zenon DEF Began
<1>4. Typed'
  <2>1. life \in Nat /\ (life' = life \/ life' = life + 1)
    BY <1>1 DEF Typed, Began
  <2>2. life' \in Nat
    BY <2>1
  <2>3. up'
    BY <1>1, <1>2, Zenon
  <2> QED
    BY <1>1, <1>2, <2>2, <2>3, Zenon DEF Typed, Calls
<1>5. Floors' /\ Bare' /\ Nowhere'
  BY <1>1, <1>2, Zenon DEF Floors, Bare, Nowhere
<1>6. Registering'
  <2>1. /\ life \in Nat /\ (life' = life \/ life' = life + 1)
        /\ op'.name = "create" => life' = life + 1
    BY <1>1, Zenon DEF Typed, Began
  <2>2. reg.pc # "none" => /\ reg.kind \in Kinds /\ reg.val \in 1 .. puts /\ reg.life <= life
                           /\ reg.life \in Nat
    BY <1>1, Zenon DEF Registering, Typed, Calls
  <2>3. ~(~crossed /\ reg.pc \in {"checked", "written"})
    BY <1>1, Zenon DEF Registering, Unlocked
  <2>4. reg.pc # "none" => reg.life <= life' /\ (op'.name = "create" => reg.life < life')
    BY <2>1, <2>2
  <2> QED
    BY <1>2, <1>3, <2>2, <2>3, <2>4, Zenon DEF Registering
<1>7. Owned'
  BY <1>1, <1>2, Zenon DEF Owned
<1> QED
  BY <1>4, <1>5, <1>6, <1>7, Zenon DEF Inv
-----------------------------------------------------------------------------
(* The writes of a call, and its end                                       *)

\* What a write leaves alone, whether or not it is the last of its call.
Rewrote ==
  /\ Wrote /\ UNCHANGED <<files, tmps, up, mem, reg, list, life, puts, broken, crossed>>
  /\ epochs' = IF disk'.meta = Nothing THEN epochs ELSE epochs \cup {disk'.meta.epoch}
  /\ op # Idle /\ op.name # "delete"
  /\ op' = Idle \/ op'.name = op.name
  /\ shaky' \in BOOLEAN

(* The next write of a call is made.                                       *)
LEMMA WriteIs ==
  ASSUME Inv, op.steps # <<>>, CanWrite(Head(op.steps)), disk' = Written(disk, Head(op.steps)),
         UNCHANGED <<mem, broken, life, up>>
  PROVE  /\ Wrote /\ op # Idle /\ op.name # "delete" /\ up
         /\ mem # Nothing /\ ~broken => CoversNext(mem)
         /\ Moved => Stage'
<1>1. /\ Typed /\ Floors /\ Bare /\ Nowhere /\ op # Idle /\ op.name # "delete" /\ up
      /\ mem = Nothing => \E e \in Nat : Creating(e)
      /\ mem # Nothing => Resuming \/ Rewrites \/ Appending \/ Deleting
  BY BusyIs, Zenon DEF Inv
<1>2. CASE mem = Nothing
  <2>1. PICK e \in Nat : Creating(e)
    BY <1>1, <1>2, Zenon
  <2>2. Wrote /\ (Moved => Creating(e)')
    BY <1>1, <2>1, WriteCreate, Zenon
  <2> QED
    BY <1>1, <1>2, <2>2, Zenon DEF Stage
<1>3. CASE mem # Nothing /\ Resuming
  BY <1>1, <1>3, WriteResume, Zenon DEF Stage
<1>4. CASE mem # Nothing /\ Rewrites
  BY <1>1, <1>4, WriteRewrites, Zenon DEF Stage
<1>5. CASE mem # Nothing /\ Appending
  BY <1>1, <1>5, WriteAppend, Zenon DEF Stage
<1>6. ~Deleting
  BY CallNames
<1> QED
  BY <1>1, <1>2, <1>3, <1>4, <1>5, <1>6, Zenon

(* A write that is made.                                                   *)
LEMMA WriteStep ==
  ASSUME Inv, Write PROVE Rewrote /\ Stage'
<1>1. /\ op.steps # <<>> /\ CanWrite(Head(op.steps)) /\ disk' = Written(disk, Head(op.steps))
      /\ epochs' = IF disk'.meta = Nothing THEN epochs ELSE epochs \cup {disk'.meta.epoch}
      /\ op' = [op EXCEPT !.steps = Tail(@)]
      /\ UNCHANGED <<files, tmps, up, mem, reg, list, life, puts, faults, shaky, broken, crossed>>
  BY DEF Write
<1>2. Wrote /\ op # Idle /\ op.name # "delete" /\ up /\ (Moved => Stage')
  BY <1>1, WriteIs
<1>3. Moved
  BY <1>1 DEF Moved
<1>4. op'.name = op.name
  BY <1>1
<1>5. shaky' \in BOOLEAN
  BY <1>1 DEF Inv, Typed
<1> QED
  BY <1>1, <1>2, <1>3, <1>4, <1>5, Zenon DEF Rewrote

(* Up to its last write a call leaves at least what is in memory on disk.  *)
LEMMA StageCovers ==
  ASSUME Typed, Stage, mem # Nothing, op # Idle, op.name # "delete", ~broken
  PROVE  Covers(mem)
<1>1. mem \in Record /\ disk \in Dir /\ life \in Nat
  BY Zenon DEF Typed
<1>2. /\ mem.tickets \in Nat /\ mem.envelope \in Nat /\ mem.epoch \in Nat /\ mem.head \in Nat
  BY <1>1, RecordIs, Zenon
<1>3. ASSUME NEW r \in Record, Holds(r), mem.tickets <= r.tickets, mem.envelope <= r.envelope,
             mem.epoch <= r.epoch, mem.head <= r.head
      PROVE  Covers(mem)
  <2>1. Loaded \in Record
    BY <1>1, <1>3, LoadedIs, ImageIs, Zenon DEF Holds, Covers
  <2>2. /\ Loaded.tickets \in Nat /\ Loaded.envelope \in Nat /\ Loaded.epoch \in Nat /\ Loaded.head \in Nat
        /\ r.tickets \in Nat /\ r.envelope \in Nat /\ r.epoch \in Nat /\ r.head \in Nat
    BY <2>1, RecordIs
  <2> QED
    BY <1>2, <1>3, <2>2 DEF Holds, Covers
<1>4. Holds(mem) => Covers(mem)
  BY DEF Holds
<1>5. Holds(Reissued) => Covers(mem)
  BY <1>1, <1>2, <1>3, ReissuedIs
<1>6. Holds(Resumed) => Covers(mem)
  BY <1>1, <1>2, <1>3, ResumedIs
<1>7. Holds(Enveloped) => Covers(mem)
  BY <1>1, <1>2, <1>3, EnvelopedIs
<1>8. Holds(Sent) => Covers(mem)
  <2>1. /\ Sent \in Record /\ Sent.tickets = mem.tickets /\ Sent.envelope = mem.envelope
        /\ Sent.epoch = mem.epoch /\ Sent.head = mem.head + 1
    BY <1>1, SentIs, Zenon
  <2> QED
    BY <1>2, <1>3, <2>1
<1>9. ASSUME NEW p \in Peers PROVE (Holds(Joined(p)) => Covers(mem)) /\ (Holds(Parted(p)) => Covers(mem))
  <2>1. Holds(Joined(p)) => Covers(mem)
    BY <1>1, <1>2, <1>3, JoinedIs
  <2>2. Holds(Parted(p)) => Covers(mem)
    BY <1>1, <1>2, <1>3, PartedIs
  <2> QED
    BY <2>1, <2>2, Zenon
<1>10. Resuming \/ Rewrites \/ Appending
  BY BusyIs, CallNames, Zenon
<1> QED
  BY <1>4, <1>5, <1>6, <1>7, <1>8, <1>9, <1>10, Zenon DEF Resuming, Rewrites, Rewriting, Appending

(* A directory that is not written stays as a write would leave it.        *)
LEMMA NoWrite ==
  ASSUME Typed, Floors, Bare, Nowhere, op.name # "delete", disk' = disk PROVE Wrote
<1>1. disk \in Dir /\ disk.floor \in Nat
  BY DirIs DEF Typed
<1>2. disk'.floor >= disk.floor
  BY <1>1
<1> QED
  BY <1>1, <1>2, Zenon DEF Wrote, Floors, Bare, Nowhere, Empty

(* A write that fails, before or after it was made.  Memory stays what it  *)
(* was, and the files hold at least that.                                  *)
LEMMA FailStep ==
  ASSUME Inv, NEW done \in BOOLEAN, Fail(done) PROVE Rewrote /\ Stage'
<1>1. /\ op.steps # <<>> /\ op' = Idle /\ shaky'
      /\ epochs' = IF disk'.meta = Nothing THEN epochs ELSE epochs \cup {disk'.meta.epoch}
      /\ UNCHANGED <<files, tmps, up, mem, reg, list, life, puts, broken, crossed>>
      /\ \/ CanWrite(Head(op.steps)) /\ disk' = Written(disk, Head(op.steps))
         \/ disk' = disk
  BY Zenon DEF Fail
<1>2. /\ Typed /\ Stage /\ Floors /\ Bare /\ Nowhere /\ op # Idle /\ op.name # "delete" /\ up
  BY <1>1, BusyIs, Zenon DEF Inv
<1>3. CASE CanWrite(Head(op.steps)) /\ disk' = Written(disk, Head(op.steps))
  <2>1. Wrote /\ (mem # Nothing /\ ~broken => CoversNext(mem))
    BY <1>1, <1>3, WriteIs, Zenon
  <2>2. mem # Nothing => Holds(mem)'
    BY <1>1, <2>1, Zenon DEF Holds, Covers, CoversNext
  <2>3. Blank'
    BY <1>1, Zenon DEF Blank
  <2> QED
    BY <1>1, <1>2, <2>1, <2>2, <2>3, Zenon DEF Rewrote, Stage
<1>4. CASE disk' = disk
  <2>1. Wrote
    BY <1>2, <1>4, NoWrite
  <2>2. mem # Nothing /\ ~broken => Covers(mem)
    BY <1>1, <1>2, StageCovers, Zenon
  <2>3. Loaded' = Loaded
    BY <1>4, Zenon DEF Loaded, Skipped
  <2>4. mem # Nothing => Holds(mem)'
    BY <1>1, <2>2, <2>3, Zenon DEF Holds, Covers
  <2>5. Blank'
    BY <1>1, Zenon DEF Blank
  <2> QED
    BY <1>1, <1>2, <2>1, <2>4, <2>5, Zenon DEF Rewrote, Stage
<1> QED
  BY <1>1, <1>3, <1>4, Zenon

(* A write keeps the floor above the epochs, makes no file outside the     *)
(* directory, and lets no registration out of its lock.                    *)
LEMMA RewroteKeeps ==
  ASSUME Inv, Rewrote, Stage' PROVE Inv'
<1>1. /\ Typed /\ Stage /\ Floors /\ Bare /\ Nowhere /\ Registering /\ Owned
      /\ Wrote /\ op # Idle /\ op.name # "delete" /\ up
  BY BusyIs, Zenon DEF Inv, Rewrote
<1>2. UNCHANGED <<files, tmps, up, mem, reg, list, life, puts, broken, crossed>>
  BY Zenon DEF Rewrote
<1>3. Typed'
  <2>1. disk' \in Dir /\ up' /\ shaky' \in BOOLEAN
    BY <1>1, <1>2 DEF Wrote, Rewrote
  <2> QED
    BY <1>1, <1>2, <2>1, ZenonT(40) DEF Typed, Calls
<1>4. Floors'
  <2>1. disk'.floor \in Nat /\ disk.floor \in Nat /\ disk'.floor >= disk.floor
    BY <1>1, DirIs, Zenon DEF Wrote, Typed
  <2>2. \A e \in epochs' : e \in epochs \/ (disk'.meta # Nothing /\ e = disk'.meta.epoch)
    BY Zenon DEF Rewrote
  <2>3. \A e \in epochs : e \in Nat /\ e < disk.floor
    BY <1>1, Zenon DEF Floors
  <2>4. disk'.meta # Nothing => disk'.meta.epoch < disk'.floor /\ disk'.meta.epoch \in Nat
    BY <1>1, DirIs DEF Wrote
  <2>5. \A e \in epochs : e < disk'.floor
    BY <2>1, <2>3
  <2>6. epochs' \subseteq Nat /\ \A e \in epochs' : e < disk'.floor
    BY <2>2, <2>3, <2>4, <2>5, Zenon
  <2> QED
    BY <2>4, <2>6, Zenon DEF Floors
<1>5. Bare'
  BY <1>1, <1>2, Zenon DEF Bare, Wrote, Empty
<1>6. Nowhere'
  BY <1>1, <1>2, Zenon DEF Nowhere, Wrote, Empty
<1>7. Registering'
  <2>1. op'.name = "create" => op.name = "create"
    BY CallNames, Zenon DEF Rewrote
  <2>2. ~(~crossed /\ reg.pc \in {"checked", "written"})
    BY <1>1, Zenon DEF Registering
  <2>3. mem = Nothing /\ reg.pc # "none" => reg.life < life
    BY <1>1, BusyIs, Zenon DEF Registering
  <2>4. reg.pc = "found" /\ mem = Nothing => reg.life # life
    BY <1>1, <2>3 DEF Typed, Calls
  <2> QED
    BY <1>1, <1>2, <2>1, <2>2, <2>4, Zenon DEF Registering
<1>8. Owned'
  BY <1>1, <1>2, Zenon DEF Owned, Wrote
<1> QED
  BY <1>3, <1>4, <1>5, <1>6, <1>7, <1>8, Zenon DEF Inv

(* A call that has made all its writes has its outcome on disk.            *)
LEMMA Returned ==
  ASSUME Typed, Stage, op # Idle, op.name # "delete", op.steps = <<>>
  PROVE  op.after \in Record /\ Holds(op.after)
<1>0. ASSUME NEW n, NEW s, NEW r, Doing(n, s, r) PROVE op.steps = s /\ op.after = r
  BY <1>0, DoingIs, Zenon
<1>1. CASE mem = Nothing
  <2>1. PICK e \in Nat : Creating(e)
    BY <1>1, BusyIs, Zenon
  <2>2. op.after = Fresh(e, 1) /\ Holds(Fresh(e, 1))
    <3>1. \A a, b, c, d : <<a>> # <<>> /\ <<a, b>> # <<>> /\ <<a, b, c>> # <<>> /\ <<a, b, c, d>> # <<>>
      OBVIOUS
    <3>2. \A s : Doing("create", s, Fresh(e, 1)) => s = <<>> /\ op.after = Fresh(e, 1)
      BY <1>0, Zenon
    <3>3. Doing("create", <<>>, Fresh(e, 1)) /\ Holds(Fresh(e, 1))
      BY <2>1, <3>1, <3>2, Zenon DEF Creating
    <3> QED
      BY <3>2, <3>3
  <2>3. Fresh(e, 1) \in Record
    BY FreshIs, Zenon
  <2> QED
    BY <2>2, <2>3
<1>2. CASE mem # Nothing
  <2>1. mem \in Record /\ life \in Nat
    BY <1>2, Zenon DEF Typed
  <2>2. CASE Resuming
    <3>1. op.after = Resumed /\ Holds(Resumed)
      <4>1. \A a, b, c : <<a>> # <<>> /\ <<a, b>> # <<>> /\ <<a, b, c>> # <<>>
        OBVIOUS
      <4>2. \A s : Doing("resume", s, Resumed) => s = <<>> /\ op.after = Resumed
        BY <1>0, Zenon
      <4>3. Doing("resume", <<>>, Resumed) /\ Holds(Resumed)
        BY <2>2, <4>1, <4>2, Zenon DEF Resuming
      <4> QED
        BY <4>2, <4>3, Zenon
    <3> QED
      BY <2>1, <3>1, ResumedIs, Zenon
  <2>3. CASE Rewrites
    <3>1. \/ op.after = Reissued /\ Holds(Reissued)
          \/ op.after = Enveloped /\ Holds(Enveloped)
          \/ \E p \in Peers : \/ op.after = Joined(p) /\ Holds(Joined(p))
                              \/ op.after = Parted(p) /\ Holds(Parted(p))
      <4>1. ASSUME NEW n, NEW s, NEW r, Rewriting(n, s, r) PROVE op.after = r /\ Holds(r)
        BY <1>0, <4>1 DEF Rewriting
      <4> QED
        BY <2>3, <4>1, Zenon DEF Rewrites
    <3> QED
      BY <2>1, <3>1, ReissuedIs, EnvelopedIs, JoinedIs, PartedIs, Zenon
  <2>4. CASE Appending
    <3>1. op.after = Sent /\ Holds(Sent)
      BY <1>0, <2>4 DEF Appending
    <3> QED
      BY <2>1, <3>1, SentIs, Zenon
  <2> QED
    BY <1>2, <2>2, <2>3, <2>4, BusyIs, CallNames, Zenon
<1> QED
  BY <1>1, <1>2

(* The call returns and memory follows; after a delete nothing is left.    *)
LEMMA ReturnKeeps ==
  ASSUME Inv, Return PROVE Inv'
<1>1. /\ Typed /\ Stage /\ Floors /\ Bare /\ Nowhere /\ Registering /\ Owned
      /\ op # Idle /\ op.steps = <<>> /\ (op.name = "delete" => ~disk.dir) /\ up
      /\ mem' = op.after /\ op' = Idle
  BY BusyIs, Zenon DEF Inv, Return
<1>2. UNCHANGED <<disk, files, tmps, up, reg, list, life, puts, epochs, faults, shaky, broken, crossed>>
  BY Zenon DEF Return, dirVars, pastVars
<1>3. op.name = "delete" => mem' = Nothing
  BY <1>1, BusyIs, CallNames, Zenon
<1>4. op.name # "delete" => mem' \in Record /\ mem' # Nothing /\ Holds(op.after)
  BY <1>1, Returned, RecordIs, Zenon
<1>5. Loaded' = Loaded
  BY <1>2 DEF Loaded, Skipped
<1>6. Stage'
  <2>1. CASE op.name = "delete"
    BY <1>1, <1>2, <1>3, <2>1, Zenon DEF Stage, Blank, Nowhere
  <2>2. CASE op.name # "delete"
    <3>1. Holds(mem)'
      BY <1>1, <1>2, <1>4, <1>5, <2>2, Zenon DEF Holds, Covers
    <3> QED
      BY <1>1, <1>4, <2>2, <3>1, Zenon DEF Stage
  <2> QED
    BY <2>1, <2>2, Zenon
<1>7. Typed'
  <2>1. mem' \in Record \cup {Nothing} /\ up'
    BY <1>1, <1>2, <1>3, <1>4, Zenon
  <2> QED
    BY <1>1, <1>2, <2>1, Zenon DEF Typed, Calls
<1>8. Floors' /\ Bare' /\ Nowhere'
  BY <1>1, <1>2, Zenon DEF Floors, Bare, Nowhere
<1>9. Registering'
  <2>1. ~(~crossed /\ reg.pc \in {"checked", "written"})
    BY <1>1, Zenon DEF Registering
  <2>2. mem' = Nothing => ~disk'.dir
    BY <1>1, <1>2, <1>4, Zenon
  <2> QED
    BY <1>1, <1>2, <2>1, <2>2, CallNames DEF Registering
<1>10. Owned'
  <2>1. op.name = "delete" => files = NoFiles
    BY <1>1 DEF Nowhere
  <2> QED
    BY <1>1, <1>2, <1>4, <2>1, Zenon DEF Owned
<1> QED
  BY <1>6, <1>7, <1>8, <1>9, <1>10, Zenon DEF Inv
=============================================================================
