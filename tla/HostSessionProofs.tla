-------------------------- MODULE HostSessionProofs --------------------------
(***************************************************************************)
(* What a hosted session promises across crashes, failed writes, deletes   *)
(* that stop half way and operations that outlive a leave: its ticket      *)
(* ledger is exact and its incarnation epoch is above every close.         *)
(*                                                                         *)
(* Both rest on what the steps do to the ledger, the epoch and the         *)
(* directory; what they do to the log and to the capabilities is a fold    *)
(* over the log, which no theorem here is about.                           *)
(***************************************************************************)
EXTENDS HostSession, TLAPS

\* s is a session record, as far as ledger and epoch go.
IsSession(s) ==
  s \in [live : BOOLEAN, members : {s.members}, tickets : Ledger, caps : {s.caps},
         log : {s.log}, head : {s.head}, epoch : Nat]

\* d is a directory, as far as ledger and epoch go.
IsDir(d) ==
  d \in [dir : BOOLEAN, meta : BOOLEAN, members : {d.members}, head : {d.head},
         epoch : Nat, tickets : Ledger, log : {d.log}]

\* Two directories, or two sessions, that differ in members and log at most.
SameDir(d, e) == d.dir = e.dir /\ d.meta = e.meta /\ d.epoch = e.epoch
SameCore(s, r) == s.live = r.live /\ s.tickets = r.tickets /\ s.epoch = r.epoch
                  /\ (Host \in s.members => Host \in r.members)

\* The ledger with one ticket more.
Issued(ledger, t) == [ledger EXCEPT ![t] = "Active"]

\* How a step leaves the daemon: with its memory as it was, or dead.
Held == up' /\ sess' = sess /\ crashes' = crashes
Died == ~up' /\ sess' = [x \in AllHandles |-> NoSession] /\ crashes' = crashes + 1

Shape ==
  /\ sess = [h \in AllHandles |-> sess[h]]
  /\ \A h \in AllHandles : IsSession(sess[h])
  /\ IsDir(disk) /\ floor \in Nat /\ closed \subseteq Nat /\ crashes \in Nat
  /\ up \in BOOLEAN /\ leaving \in BOOLEAN /\ scenario \in Scenario
  /\ minted \subseteq Tickets /\ handed \subseteq minted /\ dead \subseteq handed
  /\ revoked \subseteq minted
  /\ ~up => /\ \A h \in AllHandles : sess[h] = NoSession
            /\ ~leaving /\ crashes # 0

\* Where the session stands, and its directory with it.
Standing ==
  /\ leaving => sess["map"].live /\ Host \notin sess["map"].members /\ ~disk.dir /\ ~disk.meta
  /\ ~scenario.partial /\ sess["map"].live /\ disk.dir => disk.meta

\* Only drawn tickets are listed, and no ticket by two sessions.
Listed ==
  /\ \A t \in Tickets : disk.tickets[t] # "absent" => t \in minted
  /\ \A h \in AllHandles, t \in Tickets : sess[h].tickets[t] # "absent" => t \in minted
  /\ \A t \in Tickets : sess["map"].tickets[t] = "absent" \/ sess["orphan"].tickets[t] = "absent"

\* A revoked ticket is Active nowhere, and what memory has as Revoked the file
\* does not have as Active.
Revocations ==
  /\ \A t \in revoked : disk.tickets[t] # "Active"
  /\ \A h \in AllHandles, t \in revoked : sess[h].tickets[t] # "Active"
  /\ \A h \in AllHandles, t \in Tickets :
       sess[h].tickets[t] = "Revoked" => disk.tickets[t] # "Active"

\* A session that is not there has no ticket that must stay listed.
StayListed ==
  /\ \A t \in handed \ dead :
       /\ disk.tickets[t] # "absent"
       /\ sess["map"].live => sess["map"].tickets[t] # "absent"
  /\ ~disk.meta \/ leaving \/ (up /\ ~sess["map"].live) => handed \subseteq dead

Issuance == ~scenario.stale /\ ~scenario.partial => StayListed

\* A closed incarnation's tickets are not in the file either.
Burial ==
  ~scenario.stale =>
    \A t \in dead : /\ disk.tickets[t] # "Active"
                    /\ leaving \/ sess["map"].tickets[t] # "Active"

\* The epochs of memory and of meta.json, below the floor and above the closes.
Fenced ==
  /\ \A e \in closed : e < floor
  /\ sess["map"].live /\ ~leaving => sess["map"].epoch < floor
  /\ disk.meta => disk.epoch < floor
  /\ ~scenario.stale /\ disk.meta => \A e \in closed : e < disk.epoch
  /\ (~scenario.stale \/ crashes = 0) /\ sess["map"].live /\ ~leaving =>
       \A e \in closed : e < sess["map"].epoch

Epochs == ~scenario.partial => Fenced
-----------------------------------------------------------------------------
(* The steps                                                               *)

(* No session and no directory are a session and a directory.              *)
LEMMA NothingIs ==
  /\ IsSession(NoSession) /\ ~NoSession.live /\ NoSession.tickets = NoTickets
  /\ IsDir(NoDir) /\ ~NoDir.dir /\ ~NoDir.meta /\ NoDir.tickets = NoTickets
  /\ NoTickets \in Ledger /\ \A t \in Tickets : NoTickets[t] = "absent"
<1>1. NoTickets \in Ledger /\ \A t \in Tickets : NoTickets[t] = "absent"
  BY DEF NoTickets, Ledger
<1> QED
  BY <1>1 DEF IsSession, NoSession, IsDir, NoDir

(* A ledger with one ticket more.                                          *)
LEMMA IssuedIs ==
  ASSUME NEW ledger \in Ledger, NEW t \in Tickets
  PROVE  /\ Issued(ledger, t) \in Ledger /\ Issued(ledger, t)[t] = "Active"
         /\ \A u \in Tickets : u # t => Issued(ledger, t)[u] = ledger[u]
BY DEF Issued, Ledger

(* Memory after an operation: changed, as it was, or gone.                 *)
LEMMA ReturnIs ==
  ASSUME Shape, NEW o \in Outcomes, NEW h \in AllHandles, NEW s, NEW g, Return(o, h, s, g)
  PROVE  /\ up /\ crashes' \in Nat /\ up' \in BOOLEAN
         /\ \/ /\ o = "ok" /\ up' /\ crashes' = crashes /\ sess'[h] = s
               /\ sess' = [x \in AllHandles |-> sess'[x]]
               /\ \A x \in AllHandles : x # h => sess'[x] = sess[x]
            \/ o \in {"late", "err"} /\ Held
            \/ o = "crash" /\ Died
<1>1. /\ up /\ up' = (o # "crash")
      /\ crashes' = IF o = "crash" THEN crashes + 1 ELSE crashes
      /\ o = "ok" => sess' = [sess EXCEPT ![h] = s]
      /\ o \in {"late", "err"} => sess' = sess
      /\ o = "crash" => sess' = [x \in AllHandles |-> NoSession]
  BY DEF Return, Outcomes
<1>2. CASE o = "ok"
  <2>1. sess = [x \in AllHandles |-> sess[x]] /\ crashes \in Nat
    BY DEF Shape
  <2>2. /\ sess'[h] = s /\ sess' = [x \in AllHandles |-> sess'[x]]
        /\ \A x \in AllHandles : x # h => sess'[x] = sess[x]
    BY <1>1, <1>2, <2>1
  <2> QED
    BY <1>1, <1>2, <2>1, <2>2, Zenon
<1>3. CASE o \in {"late", "err"}
  BY <1>1, <1>3, Zenon DEF Held, Shape
<1>4. CASE o = "crash"
  <2>1. crashes \in Nat
    BY DEF Shape
  <2>2. up' = FALSE /\ crashes' = crashes + 1 /\ up
    BY <1>1, <1>4, Zenon
  <2>3. Died
    BY <1>1, <1>4, <2>2 DEF Died
  <2>4. crashes' \in Nat
    BY <2>1, <2>2
  <2>5. up' \in BOOLEAN
    BY <2>2, Zenon
  <2> QED
    BY <1>4, <2>2, <2>3, <2>4, <2>5, Zenon
<1> QED
  BY <1>2, <1>3, <1>4 DEF Outcomes

(* A crash leaves no session in memory.                                    *)
LEMMA DiedIs ==
  ASSUME Died
  PROVE  /\ sess' = [x \in AllHandles |-> sess'[x]]
         /\ \A h \in AllHandles : sess'[h] = NoSession
BY DEF Died

\* What the steps of members and of the log do to ledger and epoch: nothing but
\* the rewrite of the ledger that an admission makes.
Quiet ==
  /\ up /\ SameTickets /\ leaving' = (leaving /\ up')
  /\ IsDir(disk') /\ SameDir(disk', disk)
  /\ \/ disk'.tickets = disk.tickets
     \/ disk.meta /\ \E h \in Handles : disk'.tickets = sess[h].tickets
  /\ \/ Died
     \/ /\ up' /\ crashes' = crashes /\ sess' = [x \in AllHandles |-> sess'[x]]
        /\ \A x \in AllHandles : IsSession(sess'[x]) /\ SameCore(sess'[x], sess[x])

(* An operation that gives the session other members or another log.       *)
LEMMA QuietReturn ==
  ASSUME Shape, NEW o \in Outcomes, NEW h \in AllHandles, NEW s, NEW g,
         IsSession(s), SameCore(s, sess[h]), Return(o, h, s, g)
  PROVE  /\ up
         /\ \/ Died
            \/ /\ up' /\ crashes' = crashes /\ sess' = [x \in AllHandles |-> sess'[x]]
               /\ \A x \in AllHandles : IsSession(sess'[x]) /\ SameCore(sess'[x], sess[x])
<1>1. /\ \A x \in AllHandles : IsSession(sess[x]) /\ SameCore(sess[x], sess[x])
      /\ sess = [x \in AllHandles |-> sess[x]]
  BY DEF Shape, SameCore
<1>2. CASE Died
  BY <1>2, ReturnIs
<1>3. CASE Held
  <2>1. up' /\ crashes' = crashes /\ sess' = sess
    BY <1>3 DEF Held
  <2> QED
    BY <1>1, <2>1, ReturnIs
<1>4. CASE ~Died /\ ~Held
  <2>1. /\ up /\ up' /\ crashes' = crashes /\ sess'[h] = s
        /\ sess' = [x \in AllHandles |-> sess'[x]]
        /\ \A x \in AllHandles : x # h => sess'[x] = sess[x]
    BY <1>4, ReturnIs
  <2>2. ASSUME NEW x \in AllHandles PROVE IsSession(sess'[x]) /\ SameCore(sess'[x], sess[x])
    BY <1>1, <2>1
  <2> QED
    BY <2>1, <2>2
<1> QED
  BY <1>2, <1>3, <1>4

(* The handles of a scenario are handles.                                  *)
LEMMA HandlesAre == Handles \subseteq AllHandles
BY DEF Handles, AllHandles

(* Admission: a member more, and perhaps the ledger of memory in the file. *)
LEMMA EnsureMemberIs ==
  ASSUME Shape, NEW o \in Outcomes, NEW h \in Handles, NEW p \in Peers, NEW t \in Tickets,
         EnsureMember(h, p, t, o)
  PROVE  Quiet
<1>0. h \in AllHandles /\ IsSession(sess[h]) /\ IsDir(disk) /\ Host # p
  BY HandlesAre, HostSessionAssumption DEF Shape
<1>1. PICK ledger \in {disk.tickets, sess[h].tickets} :
        disk' = [disk EXCEPT !.members = disk.members \cup {p}, !.tickets = ledger]
  BY Zenon DEF EnsureMember
<1>2. IsDir(disk') /\ SameDir(disk', disk) /\ disk'.tickets = ledger
  BY <1>0, <1>1, Zenon DEF IsDir, SameDir, IsSession
<1> DEFINE s == [sess[h] EXCEPT !.members = sess[h].members \cup {p}]
<1>3. IsSession(s) /\ SameCore(s, sess[h])
  BY <1>0 DEF IsSession, SameCore
<1>4. /\ Return(o, h, s, grants \cup {[peer |-> p, cap |-> TicketCap[t]]})
      /\ disk.meta /\ StillLeaving /\ SameTickets
  BY DEF EnsureMember
<1> QED
  BY <1>0, <1>1, <1>2, <1>3, <1>4, QuietReturn DEF Quiet, StillLeaving

(* A member less.                                                          *)
LEMMA RemoveMemberIs ==
  ASSUME Shape, NEW o \in Outcomes, NEW h \in Handles, NEW p \in Peers, RemoveMember(h, p, o)
  PROVE  Quiet
<1>0. h \in AllHandles /\ IsSession(sess[h]) /\ IsDir(disk)
  BY HandlesAre DEF Shape
<1>1. disk' = [disk EXCEPT !.members = disk.members \ {p}]
  BY DEF RemoveMember
<1>2. IsDir(disk') /\ SameDir(disk', disk) /\ disk'.tickets = disk.tickets
  BY <1>0, <1>1 DEF IsDir, SameDir
<1> DEFINE s == [sess[h] EXCEPT !.members = sess[h].members \ {p}]
<1>3. IsSession(s) /\ SameCore(s, sess[h])
  BY <1>0 DEF IsSession, SameCore
<1>4. Return(o, h, s, grants) /\ StillLeaving /\ SameTickets
  BY DEF RemoveMember
<1> QED
  BY <1>0, <1>2, <1>3, <1>4, QuietReturn DEF Quiet, StillLeaving

(* A message more.                                                         *)
LEMMA SendIs ==
  ASSUME Shape, NEW o \in Outcomes, NEW h \in Handles, NEW m, NEW g, Send(h, m, o, g)
  PROVE  Quiet
<1>0. h \in AllHandles /\ IsSession(sess[h]) /\ IsDir(disk)
  BY HandlesAre DEF Shape
<1> DEFINE entry == m @@ [seq |-> sess[h].head + 1]
<1> DEFINE frame == [disk EXCEPT !.log = Append(disk.log, entry)]
<1> DEFINE s == [sess[h] EXCEPT !.head = sess[h].head + 1, !.log = Append(sess[h].log, entry),
                                !.caps = ApplyCapability(sess[h].caps, entry)]
<1>1. /\ \/ disk' = frame
         \/ disk' = [frame EXCEPT !.head = Larger(frame.head, entry.seq)]
      /\ Return(o, h, s, g) /\ StillLeaving /\ SameTickets
  BY DEF Send
<1> HIDE DEF entry
<1>2. IsDir(frame) /\ SameDir(frame, disk) /\ frame.tickets = disk.tickets
  BY <1>0, Zenon DEF IsDir, SameDir
<1>3. IsDir(disk') /\ SameDir(disk', disk) /\ disk'.tickets = disk.tickets
  BY <1>0, <1>1, Zenon DEF IsDir, SameDir
<1>4. ASSUME NEW n, NEW l, NEW c
      PROVE  LET r == [sess[h] EXCEPT !.head = n, !.log = l, !.caps = c]
             IN  IsSession(r) /\ SameCore(r, sess[h])
  BY <1>0, Zenon DEF IsSession, SameCore
<1>5. IsSession(s) /\ SameCore(s, sess[h])
  BY <1>4, Zenon
<1> HIDE DEF s
<1> QED
  BY <1>0, <1>1, <1>3, <1>5, <1>4, QuietReturn, Zenon DEF Quiet, StillLeaving

(* An auto-grant that fails.                                               *)
LEMMA AutoGrantIs ==
  ASSUME Shape, NEW o \in Outcomes, NEW h \in Handles, NEW g \in grants, AutoGrant(h, g, o)
  PROVE  Quiet
<1>1. CASE up /\ UNCHANGED <<sess, disk, up, leaving, crashes>> /\ SameTickets
  BY <1>1 DEF Quiet, Shape, SameDir, SameCore
<1> QED
  BY <1>1, SendIs DEF AutoGrant

\* A new ticket is drawn.
Drawn(t) == t \notin minted /\ minted' = minted \cup {t}

\* Memory after an operation that would make h a session with this ledger and
\* epoch, and with the members of m.
Became(h, ledger, epoch, m) ==
  /\ up' /\ crashes' = crashes /\ sess' = [x \in AllHandles |-> sess'[x]]
  /\ \A x \in AllHandles : IsSession(sess'[x]) /\ (x # h => sess'[x] = sess[x])
  /\ sess'[h].live /\ sess'[h].tickets = ledger /\ sess'[h].epoch = epoch
  /\ sess'[h].members = m

(* Memory after such an operation.                                         *)
LEMMA BecameIs ==
  ASSUME Shape, NEW o \in Outcomes, NEW h \in AllHandles, NEW s, NEW g,
         IsSession(s), s.live, Return(o, h, s, g)
  PROVE  /\ up
         /\ \/ o = "ok" /\ Became(h, s.tickets, s.epoch, s.members)
            \/ o \in {"late", "err"} /\ Held
            \/ o = "crash" /\ Died
<1>1. CASE o = "ok"
  <2>1. /\ up /\ up' /\ crashes' = crashes /\ sess'[h] = s
        /\ sess' = [x \in AllHandles |-> sess'[x]]
        /\ \A x \in AllHandles : x # h => sess'[x] = sess[x]
    BY <1>1, ReturnIs
  <2>2. \A x \in AllHandles : IsSession(sess'[x])
    BY <2>1 DEF Shape
  <2> QED
    BY <1>1, <2>1, <2>2 DEF Became
<1>2. CASE o # "ok"
  BY <1>2, ReturnIs
<1> QED
  BY <1>1, <1>2

(* host() of an id the map does not hold.                                  *)
LEMMA CreateIs ==
  ASSUME Shape, NEW o \in Outcomes, NEW t \in Tickets, HostCreate(t, o)
  PROVE  /\ up /\ ~sess["map"].live /\ Drawn(t) /\ leaving' = (leaving /\ up')
         /\ UNCHANGED <<dead, revoked, closed>> /\ IsDir(disk') /\ disk'.dir
         /\ \/ o = "err" /\ SameDir(disk', [disk EXCEPT !.dir = TRUE])
               /\ disk'.tickets = disk.tickets /\ floor' \in {floor, floor + 1}
            \/ /\ disk'.meta /\ disk'.epoch = floor /\ floor' = floor + 1
               /\ \/ o = "err" /\ disk'.tickets = disk.tickets
                  \/ o # "err" /\ disk'.tickets = Issued(NoTickets, t)
         /\ handed' = IF o = "ok" THEN handed \cup {t} ELSE handed
         /\ \/ o = "ok" /\ Became("map", Issued(NoTickets, t), floor, {Host})
            \/ o \in {"late", "err"} /\ Held
            \/ o = "crash" /\ Died
<1>0. IsDir(disk) /\ floor \in Nat /\ Issued(NoTickets, t) \in Ledger /\ "map" \in AllHandles
  BY NothingIs, IssuedIs DEF Shape, AllHandles
<1> DEFINE s == [NoSession EXCEPT !.live = TRUE, !.members = {Host}, !.epoch = floor,
                                  !.tickets = FreshDir(t).tickets]
<1>1. /\ FreshDir(t).dir /\ FreshDir(t).meta /\ FreshDir(t).epoch = floor
      /\ FreshDir(t).tickets = Issued(NoTickets, t) /\ IsDir(FreshDir(t))
  BY <1>0 DEF FreshDir, IsDir, Issued
<1>2. LET d == [FreshDir(t) EXCEPT !.tickets = disk.tickets]
      IN  IsDir(d) /\ d.dir /\ d.meta /\ d.epoch = floor /\ d.tickets = disk.tickets
  BY <1>0, <1>1 DEF IsDir
<1>3. LET d == [disk EXCEPT !.dir = TRUE]
      IN  IsDir(d) /\ d.dir /\ SameDir(d, d) /\ d.tickets = disk.tickets
  BY <1>0, Zenon DEF IsDir, SameDir
<1>4. /\ IsSession(s) /\ s.live /\ s.tickets = Issued(NoTickets, t) /\ s.epoch = floor
      /\ s.members = {Host}
  BY <1>0, <1>1, NothingIs, Zenon DEF IsSession, NoSession
<1>5. /\ Return(o, "map", s, grants) /\ ~sess["map"].live /\ Drawn(t) /\ StillLeaving
      /\ UNCHANGED <<dead, revoked, closed>> /\ handed' = Told(o, handed, t)
      /\ IF o = "err"
         THEN \/ disk' = [disk EXCEPT !.dir = TRUE] /\ floor' \in {floor, floor + 1}
              \/ disk' = [FreshDir(t) EXCEPT !.tickets = disk.tickets] /\ floor' = floor + 1
         ELSE disk' = FreshDir(t) /\ floor' = floor + 1
  BY DEF HostCreate, Mint, Drawn
<1> HIDE DEF s
<1>6. /\ IsDir(disk') /\ disk'.dir
      /\ \/ o = "err" /\ SameDir(disk', [disk EXCEPT !.dir = TRUE])
            /\ disk'.tickets = disk.tickets /\ floor' \in {floor, floor + 1}
         \/ /\ disk'.meta /\ disk'.epoch = floor /\ floor' = floor + 1
            /\ \/ o = "err" /\ disk'.tickets = disk.tickets
               \/ o # "err" /\ disk'.tickets = Issued(NoTickets, t)
  BY <1>1, <1>2, <1>3, <1>5, Zenon
<1>7. /\ up
      /\ \/ o = "ok" /\ Became("map", Issued(NoTickets, t), floor, {Host})
         \/ o \in {"late", "err"} /\ Held
         \/ o = "crash" /\ Died
  BY <1>0, <1>4, <1>5, BecameIs, Zenon
<1> QED
  BY <1>5, <1>6, <1>7 DEF Told, StillLeaving

(* host() of an id the map holds.                                          *)
LEMMA ResumeIs ==
  ASSUME Shape, NEW o \in Outcomes, NEW h \in Handles, NEW t \in Tickets, HostResume(h, t, o)
  PROVE  /\ up /\ sess[h].live /\ disk.dir /\ Drawn(t) /\ leaving' = (leaving /\ up')
         /\ UNCHANGED <<dead, revoked, closed>> /\ IsDir(disk')
         /\ disk'.dir /\ disk'.meta = disk.meta
         /\ disk'.tickets = Issued(sess[h].tickets, t)
         /\ \/ disk'.epoch = disk.epoch /\ floor' \in Nat /\ floor' >= floor /\ o = "err" /\ disk.meta
            \/ /\ disk.meta /\ disk'.epoch = sess[h].epoch + 1 /\ o # "err"
               /\ floor' \in Nat /\ floor' >= floor /\ floor' >= sess[h].epoch + 2
            \/ ~disk.meta /\ disk'.epoch = disk.epoch /\ floor' = floor /\ o # "err"
         /\ handed' = IF o = "ok" THEN handed \cup {t} ELSE handed
         /\ \/ o = "ok" /\ Became(h, Issued(sess[h].tickets, t), sess[h].epoch + 1, sess[h].members)
            \/ o \in {"late", "err"} /\ Held
            \/ o = "crash" /\ Died
<1>0. /\ h \in AllHandles /\ IsSession(sess[h]) /\ IsDir(disk) /\ floor \in Nat
      /\ sess[h].tickets \in Ledger /\ sess[h].epoch \in Nat
      /\ Issued(sess[h].tickets, t) \in Ledger
  <2>1. h \in AllHandles /\ IsSession(sess[h]) /\ IsDir(disk) /\ floor \in Nat
    BY HandlesAre DEF Shape
  <2>2. sess[h].tickets \in Ledger /\ sess[h].epoch \in Nat
    BY <2>1 DEF IsSession
  <2> QED
    BY <2>1, <2>2, IssuedIs
<1> DEFINE ledger == Issued(sess[h].tickets, t)
           e == sess[h].epoch + 1
           raised == IF disk.meta THEN Larger(floor, e + 1) ELSE floor
           s == [sess[h] EXCEPT !.tickets = ledger, !.epoch = e]
<1>1. /\ Return(o, h, s, grants) /\ sess[h].live /\ disk.dir /\ Drawn(t) /\ StillLeaving
      /\ UNCHANGED <<dead, revoked, closed>> /\ handed' = Told(o, handed, t)
      /\ IF o = "err"
         THEN /\ disk.meta /\ disk' = [disk EXCEPT !.tickets = ledger]
              /\ floor' \in {floor, raised}
         ELSE /\ disk' = [disk EXCEPT !.tickets = ledger,
                                      !.epoch = IF disk.meta THEN e ELSE disk.epoch]
              /\ floor' = raised
  BY DEF HostResume, Mint, Drawn, Issued
<1>2. e \in Nat /\ raised \in Nat /\ raised >= floor /\ (disk.meta => raised >= sess[h].epoch + 2)
  BY <1>0 DEF Larger
<1> HIDE DEF ledger, raised
<1>3. /\ IsSession(s) /\ s.live /\ s.tickets = ledger /\ s.epoch = e
      /\ s.members = sess[h].members
  BY <1>0, <1>1, <1>2, Zenon DEF IsSession, ledger
<1>4. ASSUME NEW x \in Nat
      PROVE  LET d == [disk EXCEPT !.tickets = ledger, !.epoch = x]
             IN  IsDir(d) /\ d.dir = disk.dir /\ d.meta = disk.meta /\ d.tickets = ledger /\ d.epoch = x
  BY <1>0, Zenon DEF IsDir, ledger
<1>5. LET d == [disk EXCEPT !.tickets = ledger]
      IN  /\ IsDir(d) /\ d.dir = disk.dir /\ d.meta = disk.meta /\ d.tickets = ledger
          /\ d.epoch = disk.epoch
  BY <1>0 DEF IsDir, ledger
<1>6. disk.epoch \in Nat
  BY <1>0 DEF IsDir
<1>7. CASE o = "err"
  <2>1. /\ disk.meta /\ IsDir(disk') /\ disk'.dir /\ disk'.meta = disk.meta
        /\ disk'.tickets = ledger /\ disk'.epoch = disk.epoch
    BY <1>1, <1>5, <1>7, Zenon
  <2>2. floor' \in Nat /\ floor' >= floor
    BY <1>0, <1>1, <1>2, <1>7
  <2>3. up /\ Held
    BY <1>0, <1>1, <1>3, <1>7, BecameIs, Zenon
  <2> QED
    BY <1>1, <1>7, <2>1, <2>2, <2>3 DEF ledger, Told, StillLeaving
<1>8. CASE o # "err"
  <2>1. /\ IsDir(disk') /\ disk'.dir /\ disk'.meta = disk.meta /\ disk'.tickets = ledger
        /\ disk'.epoch = IF disk.meta THEN e ELSE disk.epoch
    <3> DEFINE x == IF disk.meta THEN e ELSE disk.epoch
    <3>1. x \in Nat /\ disk' = [disk EXCEPT !.tickets = ledger, !.epoch = x] /\ disk.dir
      BY <1>1, <1>2, <1>6, <1>8
    <3> HIDE DEF x
    <3>2. /\ IsDir(disk') /\ disk'.dir /\ disk'.meta = disk.meta /\ disk'.tickets = ledger
          /\ disk'.epoch = x
      BY <1>4, <3>1, Zenon
    <3> QED
      BY <3>2 DEF x
  <2>2. /\ disk.meta => floor' \in Nat /\ floor' >= floor /\ floor' >= sess[h].epoch + 2
        /\ ~disk.meta => floor' = floor
    BY <1>0, <1>1, <1>2, <1>8 DEF raised
  <2>3. /\ up
        /\ \/ o = "ok" /\ Became(h, ledger, e, sess[h].members)
           \/ o \in {"late", "err"} /\ Held
           \/ o = "crash" /\ Died
    BY <1>0, <1>1, <1>3, BecameIs, Zenon
  <2> QED
    BY <1>1, <1>8, <2>1, <2>2, <2>3 DEF ledger, Told, StillLeaving
<1> QED
  BY <1>7, <1>8

\* The ledger is rewritten, on disk and then in memory.
Rewrote(h, ledger, o) ==
  /\ up /\ sess[h].live /\ disk.dir
  /\ IsDir(disk') /\ SameDir(disk', disk) /\ disk'.tickets = ledger
  /\ \/ o = "ok" /\ Became(h, ledger, sess[h].epoch, sess[h].members)
     \/ o = "late" /\ Held
     \/ o = "crash" /\ Died

(* put_tickets and what its callers do after it.                           *)
LEMMA WriteLedgerIs ==
  ASSUME Shape, NEW o \in Outcomes, NEW h \in Handles, NEW ledger \in Ledger,
         WriteLedger(h, ledger, o)
  PROVE  Rewrote(h, ledger, o)
<1>0. h \in AllHandles /\ IsSession(sess[h]) /\ IsDir(disk)
  BY HandlesAre DEF Shape
<1> DEFINE s == [sess[h] EXCEPT !.tickets = ledger]
<1>1. /\ Return(o, h, s, grants) /\ o # "err" /\ sess[h].live /\ disk.dir
      /\ disk' = [disk EXCEPT !.tickets = ledger]
  BY DEF WriteLedger
<1>2. /\ IsSession(s) /\ s.live /\ s.tickets = ledger /\ s.epoch = sess[h].epoch
      /\ s.members = sess[h].members
  BY <1>0, <1>1 DEF IsSession
<1>3. IsDir(disk') /\ SameDir(disk', disk) /\ disk'.tickets = ledger
  BY <1>0, <1>1, Zenon DEF IsDir, SameDir
<1> HIDE DEF s
<1>4. /\ up
      /\ \/ o = "ok" /\ Became(h, ledger, sess[h].epoch, sess[h].members)
         \/ o \in {"late", "err"} /\ Held
         \/ o = "crash" /\ Died
  BY <1>0, <1>1, <1>2, BecameIs
<1> QED
  BY <1>1, <1>3, <1>4 DEF Rewrote

\* One of the Remnants.
Remnant(m, l, t) == [disk EXCEPT !.meta = m,
                                 !.members = IF m THEN @ ELSE {},
                                 !.head    = IF m THEN @ ELSE 0,
                                 !.epoch   = IF m THEN @ ELSE 0,
                                 !.log     = IF l THEN @ ELSE <<>>,
                                 !.tickets = IF t THEN @ ELSE NoTickets]

(* The Remnants are these.                                                 *)
LEMMA RemnantsAre == Remnants = {Remnant(m, l, t) : m, l, t \in BOOLEAN}
BY DEF Remnants, Remnant

(* What a half-done delete leaves is a directory, with its ledger or none. *)
LEMMA RemnantIs ==
  ASSUME IsDir(disk), NEW m \in BOOLEAN, NEW l \in BOOLEAN, NEW t \in BOOLEAN
  PROVE  IsDir(Remnant(m, l, t)) /\ Remnant(m, l, t).tickets \in {disk.tickets, NoTickets}
<1>1. NoTickets \in Ledger
  BY NothingIs
<1>2. CASE m
  <2>1. CASE l
    BY <1>1, <1>2, <2>1, Zenon DEF Remnant, IsDir
  <2>2. CASE ~l
    BY <1>1, <1>2, <2>2, Zenon DEF Remnant, IsDir
  <2> QED
    BY <2>1, <2>2
<1>3. CASE ~m
  <2>1. CASE l
    BY <1>1, <1>3, <2>1, Zenon DEF Remnant, IsDir
  <2>2. CASE ~l
    BY <1>1, <1>3, <2>2, Zenon DEF Remnant, IsDir
  <2> QED
    BY <2>1, <2>2
<1> QED
  BY <1>2, <1>3

(* The host's leave, under the lock.                                       *)
LEMMA LeaveIs ==
  ASSUME Shape, NEW o \in Outcomes, LeaveHost(o)
  PROVE  /\ up /\ sess["map"].live /\ Host \in sess["map"].members /\ IsDir(disk')
         /\ \/ ~disk'.dir /\ ~disk'.meta /\ disk'.tickets = NoTickets /\ dead' = handed
            \/ /\ scenario.partial /\ o # "ok" /\ UNCHANGED dead
               /\ disk'.tickets \in {disk.tickets, NoTickets}
         /\ leaving' = (o = "ok") /\ UNCHANGED <<floor, minted, handed, revoked>>
         /\ closed' = IF o = "ok" THEN closed \cup {sess["map"].epoch} ELSE closed
         /\ \/ o = "ok" /\ Became("map", sess["map"].tickets, sess["map"].epoch,
                                  sess["map"].members \ {Host})
            \/ o \in {"late", "err"} /\ Held
            \/ o = "crash" /\ Died
<1>0. "map" \in AllHandles /\ IsSession(sess["map"]) /\ IsDir(disk)
  BY DEF Shape, AllHandles
<1> DEFINE s == [sess["map"] EXCEPT !.members = sess["map"].members \ {Host}]
<1>1. /\ Return(o, "map", s, grants) /\ sess["map"].live /\ Host \in sess["map"].members
      /\ \/ disk' = NoDir /\ dead' = handed
         \/ scenario.partial /\ o # "ok" /\ disk' \in Remnants /\ UNCHANGED dead
      /\ leaving' = (o = "ok") /\ UNCHANGED <<floor, minted, handed, revoked>>
      /\ closed' = IF o = "ok" THEN closed \cup {sess["map"].epoch} ELSE closed
  BY DEF LeaveHost
<1>2. /\ IsSession(s) /\ s.live /\ s.tickets = sess["map"].tickets
      /\ s.epoch = sess["map"].epoch /\ s.members = sess["map"].members \ {Host}
  BY <1>0, <1>1 DEF IsSession
<1> HIDE DEF s
<1>3. ASSUME NEW d \in Remnants PROVE IsDir(d) /\ d.tickets \in {disk.tickets, NoTickets}
  <2>1. PICK m, l, t \in BOOLEAN : d = Remnant(m, l, t)
    BY RemnantsAre
  <2> QED
    BY <1>0, <2>1, RemnantIs
<1>4. /\ IsDir(disk')
      /\ \/ ~disk'.dir /\ ~disk'.meta /\ disk'.tickets = NoTickets /\ dead' = handed
         \/ /\ scenario.partial /\ o # "ok" /\ UNCHANGED dead
            /\ disk'.tickets \in {disk.tickets, NoTickets}
  BY <1>1, <1>3, NothingIs
<1>5. /\ up
      /\ \/ o = "ok" /\ Became("map", sess["map"].tickets, sess["map"].epoch,
                               sess["map"].members \ {Host})
         \/ o \in {"late", "err"} /\ Held
         \/ o = "crash" /\ Died
  BY <1>0, <1>1, <1>2, BecameIs
<1> QED
  BY <1>1, <1>4, <1>5

(* The host's leave, after the lock.                                       *)
LEMMA FinishIs ==
  ASSUME Shape, LeaveFinish
  PROVE  /\ up /\ leaving /\ ~leaving' /\ SameTickets /\ UNCHANGED <<disk, up, crashes>>
         /\ sess' = [h \in AllHandles |-> sess'[h]]
         /\ \A h \in AllHandles : IsSession(sess'[h])
         /\ sess'["map"] = NoSession
         /\ sess'["orphan"] \in {sess["map"], sess["orphan"], NoSession}
<1>1. PICK kept \in {sess["map"], sess["orphan"], NoSession} :
        sess' = [sess EXCEPT !["map"] = NoSession, !["orphan"] = kept]
  BY Zenon DEF LeaveFinish
<1>2. /\ sess = [h \in AllHandles |-> sess[h]] /\ "map" \in AllHandles /\ "orphan" \in AllHandles
      /\ \A h \in AllHandles : IsSession(sess[h]) /\ h \in {"map", "orphan"}
  BY DEF Shape, AllHandles
<1>3. sess'["map"] = NoSession /\ sess'["orphan"] = kept /\ sess' = [h \in AllHandles |-> sess'[h]]
  BY <1>1, <1>2, Zenon
<1>4. \A h \in AllHandles : IsSession(sess'[h])
  BY <1>2, <1>3, NothingIs
<1> QED
  BY <1>1, <1>3, <1>4, Zenon DEF LeaveFinish

(* The daemon dies between operations.                                     *)
LEMMA CrashIs ==
  ASSUME Shape, Crash
  PROVE  Quiet
<1>1. up /\ Died
  <2>1. Return("crash", "map", NoSession, {}) /\ "crash" \in Outcomes /\ "map" \in AllHandles
    BY DEF Crash, Outcomes, AllHandles
  <2> QED
    BY <2>1, ReturnIs
<1> QED
  BY <1>1, Zenon DEF Crash, Quiet, Died, SameDir, Shape

(* The daemon starts.                                                      *)
LEMMA LoadIs ==
  ASSUME Shape, Load
  PROVE  /\ ~up /\ up' /\ UNCHANGED <<disk, leaving, crashes>> /\ SameTickets
         /\ sess' = [h \in AllHandles |-> sess'[h]]
         /\ \A h \in AllHandles : IsSession(sess'[h])
         /\ sess'["orphan"] = sess["orphan"]
         /\ \/ /\ disk.meta /\ sess'["map"].live /\ sess'["map"].tickets = disk.tickets
               /\ sess'["map"].epoch = disk.epoch
            \/ ~disk.meta /\ sess'["map"] = NoSession
<1>1. /\ sess = [h \in AllHandles |-> sess[h]] /\ "map" \in AllHandles /\ "orphan" \in AllHandles
      /\ \A h \in AllHandles : IsSession(sess[h]) /\ h \in {"map", "orphan"}
      /\ IsDir(disk)
  BY DEF Shape, AllHandles
<1>2. /\ LoadOne.live /\ LoadOne.tickets = disk.tickets /\ LoadOne.epoch = disk.epoch
      /\ IsSession(LoadOne)
  <2>1. ASSUME NEW c, NEW n
        PROVE  LET r == [live |-> TRUE, members |-> disk.members, tickets |-> disk.tickets,
                         caps |-> c, log |-> disk.log, head |-> n, epoch |-> disk.epoch]
               IN  IsSession(r) /\ r.live /\ r.tickets = disk.tickets /\ r.epoch = disk.epoch
    BY <1>1 DEF IsSession, IsDir
  <2> DEFINE c == ProjectCaps(disk.log)
             n == Larger(disk.head, TailSeq(disk.log))
  <2>2. LoadOne = [live |-> TRUE, members |-> disk.members, tickets |-> disk.tickets,
                   caps |-> c, log |-> disk.log, head |-> n, epoch |-> disk.epoch]
    BY DEF LoadOne, Loaded
  <2> HIDE DEF c, n
  <2> QED
    BY <2>1, <2>2
<1>3. /\ ~up /\ up' /\ UNCHANGED <<disk, leaving, crashes>> /\ SameTickets
      /\ sess' = [sess EXCEPT !["map"] = IF disk.meta THEN LoadOne ELSE NoSession]
  BY DEF Load
<1>4. /\ sess'["map"] = (IF disk.meta THEN LoadOne ELSE NoSession)
      /\ sess'["orphan"] = sess["orphan"] /\ sess' = [h \in AllHandles |-> sess'[h]]
  BY <1>1, <1>3
<1>5. \A h \in AllHandles : IsSession(sess'[h])
  BY <1>1, <1>2, <1>4, NothingIs
<1> QED
  BY <1>2, <1>3, <1>4, <1>5

(* Every step, by what it does to ledger, epoch and directory.             *)
LEMMA StepIs ==
  ASSUME Shape, [Next]_vars
  PROVE  /\ scenario' = scenario
         /\ \/ Quiet \/ LeaveFinish \/ Load \/ UNCHANGED vars
            \/ \E o \in Outcomes :
                 \/ LeaveHost(o)
                 \/ \E t \in Tickets : HostCreate(t, o)
                 \/ \E h \in Handles, t \in Tickets :
                      HostResume(h, t, o) \/ IssueTicket(h, t, o) \/ RevokeTicket(h, t, o)
<1>1. ASSUME NEW o \in Outcomes, NEW h \in Handles, NEW p \in Peers,
             MemberWrite(h, p, o) \/ RemoveMember(h, p, o)
      PROVE  Quiet
  BY <1>1, SendIs, RemoveMemberIs DEF MemberWrite
<1>2. ASSUME NEW o \in Outcomes, NEW h \in Handles, NEW a \in CapActions, HostCapability(h, a, o)
      PROVE  Quiet
  BY <1>2, SendIs DEF HostCapability
<1>3. scenario' = scenario
  BY DEF Next, vars
<1> QED
  BY <1>1, <1>2, <1>3, EnsureMemberIs, AutoGrantIs, CrashIs DEF Next, Step

(* IssueTicket and RevokeTicket, flattened.                                *)
LEMMA IssueIs ==
  ASSUME Shape, NEW o \in Outcomes, NEW h \in Handles, NEW t \in Tickets, IssueTicket(h, t, o)
  PROVE  /\ Drawn(t) /\ Rewrote(h, Issued(sess[h].tickets, t), o)
         /\ handed' = IF o = "ok" THEN handed \cup {t} ELSE handed
         /\ leaving' = (leaving /\ up') /\ UNCHANGED <<floor, dead, revoked, closed>>
         /\ Issued(sess[h].tickets, t) \in Ledger
<1>1. h \in AllHandles /\ sess[h].tickets \in Ledger
  BY HandlesAre DEF Shape, IsSession
<1>2. Issued(sess[h].tickets, t) \in Ledger
  BY <1>1, IssuedIs
<1>3. WriteLedger(h, Issued(sess[h].tickets, t), o)
  BY Zenon DEF IssueTicket, Issued
<1> QED
  BY <1>2, <1>3, WriteLedgerIs DEF IssueTicket, Mint, Drawn, Told, StillLeaving

\* The ledger with a ticket revoked.
Withdrawn(ledger, t) == [ledger EXCEPT ![t] = "Revoked"]

(* A revocation: of a ticket that was Active, or of one already revoked.   *)
LEMMA RevokeIs ==
  ASSUME Shape, NEW o \in Outcomes, NEW h \in Handles, NEW t \in Tickets, RevokeTicket(h, t, o)
  PROVE  /\ sess[h].tickets[t] # "absent" /\ up
         /\ \/ /\ sess[h].tickets[t] = "Revoked" /\ o = "ok"
               /\ UNCHANGED <<sess, disk, up, crashes>>
            \/ Rewrote(h, Withdrawn(sess[h].tickets, t), o)
         /\ revoked' = IF o = "ok" THEN revoked \cup {t} ELSE revoked
         /\ leaving' = (leaving /\ up') /\ UNCHANGED <<floor, minted, handed, dead, closed>>
         /\ Withdrawn(sess[h].tickets, t) \in Ledger
         /\ Withdrawn(sess[h].tickets, t)[t] = "Revoked"
         /\ \A u \in Tickets : u # t => Withdrawn(sess[h].tickets, t)[u] = sess[h].tickets[u]
<1>1. h \in AllHandles /\ sess[h].tickets \in Ledger
  BY HandlesAre DEF Shape, IsSession
<1>2. /\ Withdrawn(sess[h].tickets, t) \in Ledger /\ Withdrawn(sess[h].tickets, t)[t] = "Revoked"
      /\ \A u \in Tickets : u # t => Withdrawn(sess[h].tickets, t)[u] = sess[h].tickets[u]
  BY <1>1, Zenon DEF Withdrawn, Ledger
<1>3. \/ /\ sess[h].tickets[t] = "Revoked" /\ o = "ok" /\ up
         /\ UNCHANGED <<sess, disk, up, crashes>>
      \/ WriteLedger(h, Withdrawn(sess[h].tickets, t), o)
  BY DEF RevokeTicket, Withdrawn
<1>4. \/ /\ sess[h].tickets[t] = "Revoked" /\ o = "ok" /\ up
         /\ UNCHANGED <<sess, disk, up, crashes>>
      \/ up /\ Rewrote(h, Withdrawn(sess[h].tickets, t), o)
  BY <1>2, <1>3, WriteLedgerIs DEF Rewrote
<1> QED
  BY <1>2, <1>4 DEF RevokeTicket, Told, StillLeaving
-----------------------------------------------------------------------------
(* The invariant, step by step                                             *)

\* Memory after a step is well formed.
Recorded ==
  /\ sess' = [h \in AllHandles |-> sess'[h]] /\ \A h \in AllHandles : IsSession(sess'[h])
  /\ crashes' \in Nat /\ up' \in BOOLEAN
  /\ ~up' => crashes' # 0 /\ \A h \in AllHandles : sess'[h] = NoSession

(* Memory is well formed after every operation.                            *)
LEMMA RecordedIs ==
  ASSUME Shape, Died \/ Held \/ \E h, l, e, m : Became(h, l, e, m)
  PROVE  Recorded
<1>0. /\ sess = [h \in AllHandles |-> sess[h]] /\ \A h \in AllHandles : IsSession(sess[h])
      /\ crashes \in Nat
  BY DEF Shape
<1>1. CASE Died
  <2>1. crashes' = crashes + 1 /\ up' = FALSE
    BY <1>1 DEF Died
  <2>2. crashes' \in Nat /\ crashes' # 0
    BY <1>0, <2>1
  <2>3. up' \in BOOLEAN
    BY <2>1, Zenon
  <2> QED
    BY <1>1, <2>2, <2>3, DiedIs, NothingIs DEF Recorded
<1>2. CASE Held
  BY <1>0, <1>2 DEF Held, Recorded
<1>3. ASSUME NEW h, NEW l, NEW e, NEW m, Became(h, l, e, m) PROVE Recorded
  BY <1>0, <1>3 DEF Became, Recorded
<1> QED
  BY <1>1, <1>2, <1>3

(* The records keep their shape.                                           *)
LEMMA ShapeStep ==
  ASSUME Shape, Listed, [Next]_vars
  PROVE  Shape'
<1>s. scenario' = scenario /\ scenario \in Scenario
  BY StepIs DEF Shape
<1>1. CASE Quiet
  <2>1. Recorded
    <3>1. CASE Died
      BY <3>1, RecordedIs
    <3>2. CASE ~Died
      BY <1>1, <3>2, Zenon DEF Quiet, Recorded, Shape
    <3> QED
      BY <3>1, <3>2
  <2>2. IsDir(disk') /\ SameTickets /\ leaving' = (leaving /\ up')
    BY <1>1 DEF Quiet
  <2> QED
    BY <1>s, <2>1, <2>2 DEF Recorded, Shape, SameTickets
<1>2. CASE LeaveFinish
  <2>1. /\ up /\ ~leaving' /\ UNCHANGED <<disk, up, crashes>> /\ SameTickets
        /\ sess' = [h \in AllHandles |-> sess'[h]] /\ \A h \in AllHandles : IsSession(sess'[h])
    BY <1>2, FinishIs
  <2>2. leaving' \in BOOLEAN
    BY <1>2, Zenon DEF LeaveFinish
  <2> QED
    BY <1>s, <2>1, <2>2 DEF Shape, SameTickets
<1>3. CASE Load
  <2>1. /\ up' /\ UNCHANGED <<disk, leaving, crashes>> /\ SameTickets
        /\ sess' = [h \in AllHandles |-> sess'[h]] /\ \A h \in AllHandles : IsSession(sess'[h])
    BY <1>3, LoadIs
  <2>2. up' \in BOOLEAN
    BY <1>3, Zenon DEF Load
  <2> QED
    BY <1>s, <2>1, <2>2 DEF Shape, SameTickets
<1>4. CASE UNCHANGED vars
  BY <1>4 DEF Shape, vars, IsSession, IsDir
<1>5. ASSUME NEW o \in Outcomes, LeaveHost(o) PROVE Shape'
  <2>1. Recorded /\ (~up' => o # "ok")
    BY <1>5, LeaveIs, RecordedIs, Zenon DEF Held, Became
  <2>2. sess["map"].epoch \in Nat /\ closed \subseteq Nat
    BY DEF Shape, AllHandles, IsSession
  <2>3. closed' \subseteq Nat
    BY <1>5, <2>2, LeaveIs, Zenon
  <2>4. IsDir(disk') /\ leaving' \in BOOLEAN /\ (~up' => ~leaving')
    BY <1>5, <2>1, LeaveIs, Zenon
  <2>5. UNCHANGED <<floor, minted, handed, revoked>> /\ dead' \subseteq handed'
    BY <1>5, LeaveIs, Zenon DEF Shape
  <2> QED
    BY <1>s, <2>1, <2>3, <2>4, <2>5 DEF Shape, Recorded
<1>6. ASSUME NEW o \in Outcomes, NEW t \in Tickets, HostCreate(t, o) PROVE Shape'
  <2>1. Recorded
    BY <1>6, CreateIs, RecordedIs
  <2>2. floor' \in Nat /\ IsDir(disk')
    <3>1. IsDir(disk') /\ floor' \in {floor, floor + 1} /\ floor \in Nat
      BY <1>6, CreateIs, Zenon DEF Shape
    <3>2. \A n \in Nat : n + 1 \in Nat
      OBVIOUS
    <3> QED
      BY <3>1, <3>2, Zenon
  <2>3. /\ minted' = minted \cup {t} /\ handed' \in {handed, handed \cup {t}}
        /\ leaving' = (leaving /\ up') /\ UNCHANGED <<dead, revoked, closed>>
    BY <1>6, CreateIs DEF Drawn
  <2> QED
    BY <1>s, <2>1, <2>2, <2>3 DEF Shape, Recorded
<1>7. ASSUME NEW o \in Outcomes, NEW h \in Handles, NEW t \in Tickets, HostResume(h, t, o)
       PROVE  Shape'
  <2>1. Recorded
    BY <1>7, ResumeIs, RecordedIs, Zenon
  <2>2. floor' \in Nat /\ IsDir(disk')
    BY <1>7, ResumeIs, Zenon DEF Shape
  <2>3. /\ minted' = minted \cup {t} /\ handed' \in {handed, handed \cup {t}}
        /\ leaving' = (leaving /\ up') /\ UNCHANGED <<dead, revoked, closed>>
    BY <1>7, ResumeIs, Zenon DEF Drawn
  <2> QED
    BY <1>s, <2>1, <2>2, <2>3, Zenon DEF Shape, Recorded
<1>8. ASSUME NEW o \in Outcomes, NEW h \in Handles, NEW t \in Tickets, IssueTicket(h, t, o)
       PROVE  Shape'
  <2>1. Recorded /\ IsDir(disk')
    BY <1>8, IssueIs, RecordedIs DEF Rewrote
  <2>2. /\ minted' = minted \cup {t} /\ handed' \in {handed, handed \cup {t}}
        /\ leaving' = (leaving /\ up') /\ UNCHANGED <<floor, dead, revoked, closed>>
    BY <1>8, IssueIs DEF Drawn
  <2> QED
    BY <1>s, <2>1, <2>2, Zenon DEF Shape, Recorded
<1>9. ASSUME NEW o \in Outcomes, NEW h \in Handles, NEW t \in Tickets, RevokeTicket(h, t, o)
       PROVE  Shape'
  <2>1. Recorded /\ IsDir(disk')
    <3>1. CASE UNCHANGED <<sess, disk, up, crashes>>
      BY <3>1 DEF Shape, Recorded
    <3>2. CASE Rewrote(h, Withdrawn(sess[h].tickets, t), o)
      BY <3>2, RecordedIs, Zenon DEF Rewrote
    <3> QED
      BY <1>9, <3>1, <3>2, RevokeIs
  <2>2. t \in minted
    BY <1>9, RevokeIs, HandlesAre DEF Listed
  <2>3. /\ revoked' \in {revoked, revoked \cup {t}}
        /\ leaving' = (leaving /\ up') /\ UNCHANGED <<floor, minted, handed, dead, closed>>
    BY <1>9, RevokeIs
  <2> QED
    BY <1>s, <2>1, <2>2, <2>3, Zenon DEF Shape, Recorded
<1> QED
  BY <1>1, <1>2, <1>3, <1>4, <1>5, <1>6, <1>7, <1>8, <1>9, StepIs

(* After a crash memory lists no ticket.                                   *)
LEMMA GoneIs ==
  ASSUME Died
  PROVE  \A h \in AllHandles : ~sess'[h].live /\ \A t \in Tickets : sess'[h].tickets[t] = "absent"
BY DiedIs, NothingIs

(* There are two handles.                                                  *)
LEMMA TwoHandles ==
  "map" \in AllHandles /\ "orphan" \in AllHandles /\ \A h \in AllHandles : h \in {"map", "orphan"}
BY DEF AllHandles

(* The ledgers list what was drawn, each ticket in one session.            *)
LEMMA ListedStep ==
  ASSUME Shape, Listed, [Next]_vars
  PROVE  Listed'
<1> USE TwoHandles
<1>d. ASSUME Died, \A t \in Tickets : disk'.tickets[t] # "absent" => t \in minted'
      PROVE  Listed'
  BY <1>d, GoneIs DEF Listed
<1>h. ASSUME Held, \A t \in Tickets : disk'.tickets[t] # "absent" => t \in minted',
             minted \subseteq minted'
      PROVE  Listed'
  BY <1>h DEF Listed, Held
<1>b. ASSUME NEW h \in AllHandles, NEW ledger \in Ledger, NEW e, NEW m, Became(h, ledger, e, m),
             \A t \in Tickets : disk'.tickets[t] # "absent" => t \in minted',
             minted \subseteq minted',
             \A t \in Tickets : ledger[t] # "absent" =>
               t \in minted' /\ (t \notin minted \/ sess[h].tickets[t] # "absent")
      PROVE  Listed'
  <2>1. \A x \in AllHandles : IF x = h THEN sess'[x].tickets = ledger ELSE sess'[x] = sess[x]
    BY <1>b DEF Became
  <2>2. ASSUME NEW x \in AllHandles, NEW t \in Tickets, sess'[x].tickets[t] # "absent"
        PROVE  t \in minted'
    BY <1>b, <2>1, <2>2, Zenon DEF Listed
  <2>3. ASSUME NEW t \in Tickets, sess'["map"].tickets[t] # "absent",
               sess'["orphan"].tickets[t] # "absent"
        PROVE  FALSE
    BY <1>b, <2>1, <2>3 DEF Listed
  <2> QED
    BY <1>b, <2>2, <2>3 DEF Listed
<1>1. CASE Quiet
  <2>1. minted' = minted /\ \A t \in Tickets : disk'.tickets[t] # "absent" => t \in minted'
    BY <1>1, HandlesAre DEF Quiet, Listed, SameTickets
  <2>2. CASE ~Died
    BY <1>1, <2>1, <2>2 DEF Quiet, Listed, SameCore
  <2> QED
    BY <1>d, <2>1, <2>2
<1>2. CASE LeaveFinish
  <2>1. /\ UNCHANGED <<disk, minted>> /\ sess'["map"] = NoSession
        /\ sess'["orphan"] \in {sess["map"], sess["orphan"], NoSession}
    BY <1>2, FinishIs DEF SameTickets
  <2>2. \A t \in Tickets : NoSession.tickets[t] = "absent"
    BY NothingIs
  <2> QED
    BY <2>1, <2>2 DEF Listed
<1>3. CASE Load
  <2>1. /\ UNCHANGED <<disk, minted>> /\ sess'["orphan"] = NoSession
        /\ sess'["map"].tickets = disk.tickets \/ sess'["map"] = NoSession
    BY <1>3, LoadIs DEF SameTickets, Shape
  <2>2. \A t \in Tickets : NoSession.tickets[t] = "absent"
    BY NothingIs
  <2> QED
    BY <2>1, <2>2 DEF Listed
<1>4. CASE UNCHANGED vars
  BY <1>4, Zenon DEF Listed, vars
<1>5. ASSUME NEW o \in Outcomes, LeaveHost(o) PROVE Listed'
  <2>1. /\ minted' = minted
        /\ \A t \in Tickets : disk'.tickets[t] # "absent" => t \in minted'
        /\ sess["map"].tickets \in Ledger
    BY <1>5, LeaveIs, NothingIs DEF Listed, Shape, IsSession
  <2>2. ASSUME NEW e, NEW m, Became("map", sess["map"].tickets, e, m) PROVE Listed'
    BY <1>b, <2>1, <2>2 DEF Listed
  <2> QED
    BY <1>5, <1>d, <1>h, <2>1, <2>2, LeaveIs, Zenon
<1>6. ASSUME NEW o \in Outcomes, NEW t \in Tickets, HostCreate(t, o) PROVE Listed'
  <2>1. minted' = minted \cup {t} /\ t \notin minted
    BY <1>6, CreateIs DEF Drawn
  <2>2. /\ Issued(NoTickets, t) \in Ledger
        /\ \A u \in Tickets : Issued(NoTickets, t)[u] # "absent" => u = t
    BY NothingIs, IssuedIs
  <2>3. \A u \in Tickets : disk'.tickets[u] # "absent" => u \in minted'
    <3>1. disk'.tickets \in {disk.tickets, Issued(NoTickets, t)}
      BY <1>6, CreateIs, Zenon
    <3> QED
      BY <2>1, <2>2, <3>1 DEF Listed
  <2>4. ASSUME NEW e, NEW m, Became("map", Issued(NoTickets, t), e, m) PROVE Listed'
    BY <1>b, <2>1, <2>2, <2>3, <2>4
  <2> QED
    BY <1>6, <1>d, <1>h, <2>1, <2>3, <2>4, CreateIs
<1>7. ASSUME NEW h \in Handles, NEW t \in Tickets, Drawn(t),
             disk'.tickets = Issued(sess[h].tickets, t),
             \/ Held \/ Died
             \/ \E e, m : Became(h, Issued(sess[h].tickets, t), e, m)
      PROVE  Listed'
  <2>1. minted' = minted \cup {t} /\ t \notin minted /\ h \in AllHandles
    BY <1>7, HandlesAre DEF Drawn
  <2>2. /\ Issued(sess[h].tickets, t) \in Ledger
        /\ \A u \in Tickets : u = t \/ Issued(sess[h].tickets, t)[u] = sess[h].tickets[u]
    BY <2>1, IssuedIs DEF Shape, IsSession
  <2>3. \A u \in Tickets : Issued(sess[h].tickets, t)[u] # "absent" =>
          u \in minted' /\ (u \notin minted \/ sess[h].tickets[u] # "absent")
    BY <2>1, <2>2, Zenon DEF Listed
  <2>4. ASSUME NEW e, NEW m, Became(h, Issued(sess[h].tickets, t), e, m) PROVE Listed'
    BY <1>7, <1>b, <2>1, <2>2, <2>3, <2>4
  <2> QED
    BY <1>7, <1>d, <1>h, <2>1, <2>3, <2>4, Zenon
<1>8. ASSUME NEW o \in Outcomes, NEW h \in Handles, NEW t \in Tickets, RevokeTicket(h, t, o)
      PROVE  Listed'
  <2>1. minted' = minted /\ h \in AllHandles
    BY <1>8, RevokeIs, HandlesAre
  <2>2. CASE UNCHANGED <<sess, disk, up, crashes>>
    BY <2>1, <2>2 DEF Listed
  <2>3. CASE Rewrote(h, Withdrawn(sess[h].tickets, t), o)
    <3> DEFINE ledger == Withdrawn(sess[h].tickets, t)
    <3>1. /\ ledger \in Ledger /\ sess[h].tickets[t] # "absent"
          /\ \A u \in Tickets : u # t => ledger[u] = sess[h].tickets[u]
      BY <1>8, RevokeIs
    <3>2. \A u \in Tickets : ledger[u] # "absent" => u \in minted /\ sess[h].tickets[u] # "absent"
      BY <2>1, <3>1 DEF Listed
    <3>3. disk'.tickets = ledger /\ (Held \/ Died \/ \E e, m : Became(h, ledger, e, m))
      BY <2>3, Zenon DEF Rewrote
    <3> HIDE DEF ledger
    <3>4. ASSUME NEW e, NEW m, Became(h, ledger, e, m) PROVE Listed'
      BY <1>b, <2>1, <3>1, <3>2, <3>3, <3>4
    <3> QED
      BY <1>d, <1>h, <2>1, <3>2, <3>3, <3>4, Zenon
  <2> QED
    BY <1>8, <2>2, <2>3, RevokeIs, Zenon
<1>9. ASSUME NEW o \in Outcomes, NEW h \in Handles, NEW t \in Tickets,
             HostResume(h, t, o) \/ IssueTicket(h, t, o)
      PROVE  Listed'
  <2>1. CASE HostResume(h, t, o)
    BY <1>7, <2>1, ResumeIs
  <2>2. CASE IssueTicket(h, t, o)
    <3>1. Drawn(t) /\ Rewrote(h, Issued(sess[h].tickets, t), o)
      BY <2>2, IssueIs
    <3>2. /\ disk'.tickets = Issued(sess[h].tickets, t)
          /\ Held \/ Died \/ \E e, m : Became(h, Issued(sess[h].tickets, t), e, m)
      BY <3>1 DEF Rewrote
    <3> QED
      BY <1>7, <3>1, <3>2
  <2> QED
    BY <1>9, <2>1, <2>2, Zenon
<1> QED
  BY <1>1, <1>2, <1>3, <1>4, <1>5, <1>6, <1>8, <1>9, StepIs, Zenon

(* A revocation stays, in every ledger.                                    *)
LEMMA RevocationsStep ==
  ASSUME Shape, Listed, Revocations, [Next]_vars
  PROVE  Revocations'
<1> USE TwoHandles
<1>0. revoked \subseteq minted /\ minted \subseteq Tickets
  BY DEF Shape
<1>a. ASSUME NEW x \in AllHandles, NEW h \in AllHandles, NEW u \in Tickets,
             sess[x].tickets[u] = "Revoked"
      PROVE  sess[h].tickets[u] # "Active"
  BY <1>a, Zenon DEF Listed
<1>d. ASSUME Died, \A t \in revoked' : disk'.tickets[t] # "Active", revoked' \subseteq Tickets
      PROVE  Revocations'
  BY <1>d, GoneIs DEF Revocations
<1>h. ASSUME Held, revoked' = revoked, \A t \in revoked' : disk'.tickets[t] # "Active",
             \A x \in AllHandles, t \in Tickets :
               sess[x].tickets[t] = "Revoked" => disk'.tickets[t] # "Active"
      PROVE  Revocations'
  BY <1>h, Zenon DEF Revocations, Held
<1>b. ASSUME NEW h \in AllHandles, NEW ledger \in Ledger, NEW e, NEW m, Became(h, ledger, e, m),
             \A t \in revoked' : disk'.tickets[t] # "Active" /\ ledger[t] # "Active",
             \A x \in AllHandles, t \in revoked' : x # h => sess[x].tickets[t] # "Active",
             \A x \in AllHandles, t \in Tickets :
               x # h /\ sess[x].tickets[t] = "Revoked" => disk'.tickets[t] # "Active",
             \A t \in Tickets : ledger[t] = "Revoked" => disk'.tickets[t] # "Active"
      PROVE  Revocations'
  <2>1. \A x \in AllHandles : IF x = h THEN sess'[x].tickets = ledger ELSE sess'[x] = sess[x]
    BY <1>b DEF Became
  <2> QED
    BY <1>b, <2>1 DEF Revocations
<1>1. CASE Quiet
  <2>1. /\ revoked' = revoked
        /\ disk'.tickets = disk.tickets \/ \E h \in AllHandles : disk'.tickets = sess[h].tickets
    BY <1>1, HandlesAre DEF Quiet, SameTickets
  <2>2. /\ \A t \in revoked' : disk'.tickets[t] # "Active"
        /\ \A x \in AllHandles, t \in Tickets :
             sess[x].tickets[t] = "Revoked" => disk'.tickets[t] # "Active"
    BY <1>a, <2>1 DEF Revocations
  <2>3. CASE ~Died
    <3>1. \A x \in AllHandles : sess'[x].tickets = sess[x].tickets
      BY <1>1, <2>3, Zenon DEF Quiet, SameCore
    <3> QED
      BY <2>1, <2>2, <3>1 DEF Revocations
  <2> QED
    BY <1>0, <1>d, <2>1, <2>2, <2>3
<1>2. CASE LeaveFinish
  <2>1. /\ UNCHANGED <<disk, revoked>> /\ sess'["map"] = NoSession
        /\ sess'["orphan"] \in {sess["map"], sess["orphan"], NoSession}
    BY <1>2, FinishIs DEF SameTickets
  <2>2. \A t \in Tickets : NoSession.tickets[t] = "absent"
    BY NothingIs
  <2> QED
    BY <1>0, <2>1, <2>2 DEF Revocations
<1>3. CASE Load
  <2>1. /\ UNCHANGED <<disk, revoked>> /\ sess'["orphan"] = NoSession
        /\ sess'["map"].tickets = disk.tickets \/ sess'["map"] = NoSession
    BY <1>3, LoadIs, Zenon DEF SameTickets, Shape
  <2>2. \A t \in Tickets : NoSession.tickets[t] = "absent"
    BY NothingIs
  <2> QED
    BY <1>0, <2>1, <2>2, Zenon DEF Revocations
<1>4. CASE UNCHANGED vars
  BY <1>4, Zenon DEF Revocations, vars
<1>5. ASSUME NEW o \in Outcomes, LeaveHost(o) PROVE Revocations'
  <2>1. revoked' = revoked /\ disk'.tickets \in {disk.tickets, NoTickets}
        /\ sess["map"].tickets \in Ledger
    BY <1>5, LeaveIs, Zenon DEF Shape, IsSession
  <2>2. /\ \A t \in revoked' : disk'.tickets[t] # "Active"
        /\ \A x \in AllHandles, t \in Tickets :
             sess[x].tickets[t] = "Revoked" => disk'.tickets[t] # "Active"
    BY <1>0, <2>1, NothingIs, Zenon DEF Revocations
  <2>3. ASSUME NEW e, NEW m, Became("map", sess["map"].tickets, e, m) PROVE Revocations'
    BY <1>0, <1>b, <2>1, <2>2, <2>3 DEF Revocations
  <2> QED
    BY <1>0, <1>5, <1>d, <1>h, <2>1, <2>2, <2>3, LeaveIs, Zenon
<1>6. ASSUME NEW o \in Outcomes, NEW t \in Tickets, HostCreate(t, o) PROVE Revocations'
  <2>1. revoked' = revoked /\ t \notin minted /\ disk'.tickets \in {disk.tickets, Issued(NoTickets, t)}
    BY <1>6, CreateIs DEF Drawn
  <2>2. /\ Issued(NoTickets, t) \in Ledger /\ Issued(NoTickets, t)[t] = "Active"
        /\ \A u \in Tickets : u # t => Issued(NoTickets, t)[u] = "absent"
    BY NothingIs, IssuedIs
  <2>3. /\ \A u \in revoked' : disk'.tickets[u] # "Active" /\ Issued(NoTickets, t)[u] # "Active"
        /\ \A x \in AllHandles, u \in Tickets :
             sess[x].tickets[u] = "Revoked" => disk'.tickets[u] # "Active"
    BY <1>0, <2>1, <2>2 DEF Revocations, Listed
  <2>4. ASSUME NEW e, NEW m, Became("map", Issued(NoTickets, t), e, m) PROVE Revocations'
    <3>1. \A u \in Tickets : Issued(NoTickets, t)[u] # "Revoked"
      BY <2>2, Zenon
    <3> QED
      BY <1>b, <2>1, <2>2, <2>3, <2>4, <3>1 DEF Revocations
  <2> QED
    BY <1>0, <1>6, <1>d, <1>h, <2>1, <2>3, <2>4, CreateIs, Zenon
<1>7. ASSUME NEW h \in Handles, NEW t \in Tickets, Drawn(t), revoked' = revoked,
             disk'.tickets = Issued(sess[h].tickets, t),
             \/ Held \/ Died
             \/ \E e, m : Became(h, Issued(sess[h].tickets, t), e, m)
      PROVE  Revocations'
  <2>1. t \notin minted /\ h \in AllHandles /\ t \notin revoked
    BY <1>0, <1>7, HandlesAre, Zenon DEF Drawn
  <2>2. /\ Issued(sess[h].tickets, t) \in Ledger /\ Issued(sess[h].tickets, t)[t] = "Active"
        /\ \A u \in Tickets : u # t => Issued(sess[h].tickets, t)[u] = sess[h].tickets[u]
    BY <2>1, IssuedIs DEF Shape, IsSession
  <2>3. /\ \A u \in revoked' : disk'.tickets[u] # "Active"
        /\ \A x \in AllHandles, u \in Tickets :
             sess[x].tickets[u] = "Revoked" => disk'.tickets[u] # "Active"
    BY <1>0, <1>7, <1>a, <2>1, <2>2 DEF Revocations, Listed
  <2>4. ASSUME NEW e, NEW m, Became(h, Issued(sess[h].tickets, t), e, m) PROVE Revocations'
    <3> DEFINE ledger == Issued(sess[h].tickets, t)
    <3>1. /\ \A u \in revoked' : disk'.tickets[u] # "Active" /\ ledger[u] # "Active"
          /\ \A u \in Tickets : ledger[u] = "Revoked" => disk'.tickets[u] # "Active"
      BY <1>7, <2>3, Zenon
    <3>2. \A x \in AllHandles, u \in revoked' : x # h => sess[x].tickets[u] # "Active"
      BY <1>7, Zenon DEF Revocations
    <3> HIDE DEF ledger
    <3> QED
      BY <1>b, <2>1, <2>2, <2>3, <2>4, <3>1, <3>2 DEF ledger
  <2> QED
    BY <1>0, <1>7, <1>d, <1>h, <2>3, <2>4, Zenon
<1>8. ASSUME NEW o \in Outcomes, NEW h \in Handles, NEW t \in Tickets, RevokeTicket(h, t, o)
      PROVE  Revocations'
  <2>1. /\ h \in AllHandles /\ sess[h].tickets[t] # "absent"
        /\ revoked' = IF o = "ok" THEN revoked \cup {t} ELSE revoked
    BY <1>8, RevokeIs, HandlesAre
  <2>2. \A x \in AllHandles : x # h => sess[x].tickets[t] = "absent"
    BY <2>1, Zenon DEF Listed
  <2>3. CASE sess[h].tickets[t] = "Revoked" /\ UNCHANGED <<sess, disk, up, crashes>>
    BY <2>1, <2>2, <2>3, Zenon DEF Revocations
  <2>4. CASE Rewrote(h, Withdrawn(sess[h].tickets, t), o)
    <3> DEFINE ledger == Withdrawn(sess[h].tickets, t)
    <3>1. /\ ledger \in Ledger /\ ledger[t] = "Revoked"
          /\ \A u \in Tickets : u # t => ledger[u] = sess[h].tickets[u]
      BY <1>8, RevokeIs
    <3>2. /\ disk'.tickets = ledger
          /\ (o # "ok" /\ Held) \/ Died \/ \E e, m : Became(h, ledger, e, m)
      BY <2>4, Zenon DEF Rewrote
    <3> HIDE DEF ledger
    <3>3. \A u \in revoked' : u \in Tickets /\ disk'.tickets[u] # "Active" /\ ledger[u] # "Active"
      BY <1>0, <2>1, <3>1, <3>2 DEF Revocations
    <3>4. /\ \A x \in AllHandles, u \in Tickets :
               sess[x].tickets[u] = "Revoked" => disk'.tickets[u] # "Active"
          /\ \A u \in Tickets : ledger[u] = "Revoked" => disk'.tickets[u] # "Active"
      BY <1>a, <2>1, <3>1, <3>2
    <3>5. \A x \in AllHandles, u \in revoked' : x # h => sess[x].tickets[u] # "Active"
      BY <2>1, <2>2, Zenon DEF Revocations
    <3>6. ASSUME NEW e, NEW m, Became(h, ledger, e, m) PROVE Revocations'
      BY <1>b, <2>1, <3>1, <3>3, <3>4, <3>5, <3>6
    <3> QED
      BY <1>d, <1>h, <2>1, <3>2, <3>3, <3>4, <3>6, Zenon
  <2> QED
    BY <1>8, <2>3, <2>4, RevokeIs, Zenon
<1>9. ASSUME NEW o \in Outcomes, NEW h \in Handles, NEW t \in Tickets,
             HostResume(h, t, o) \/ IssueTicket(h, t, o)
      PROVE  Revocations'
  <2>1. CASE HostResume(h, t, o)
    BY <1>7, <2>1, ResumeIs
  <2>2. CASE IssueTicket(h, t, o)
    <3>1. Drawn(t) /\ Rewrote(h, Issued(sess[h].tickets, t), o) /\ revoked' = revoked
      BY <2>2, IssueIs, Zenon
    <3>2. /\ disk'.tickets = Issued(sess[h].tickets, t)
          /\ Held \/ Died \/ \E e, m : Became(h, Issued(sess[h].tickets, t), e, m)
      BY <3>1, Zenon DEF Rewrote
    <3> QED
      BY <1>7, <3>1, <3>2, Zenon
  <2> QED
    BY <1>9, <2>1, <2>2, Zenon
<1> QED
  BY <1>1, <1>2, <1>3, <1>4, <1>5, <1>6, <1>8, <1>9, StepIs, Zenon

(* A session and its directory stand together.                             *)
LEMMA StandingStep ==
  ASSUME Shape, Standing, [Next]_vars
  PROVE  Standing'
<1> USE TwoHandles
<1>s. scenario' = scenario
  BY StepIs, Zenon
<1>d. ASSUME Died, ~leaving' PROVE Standing'
  BY <1>d, GoneIs DEF Standing
<1>1. CASE Quiet
  <2>1. SameDir(disk', disk) /\ leaving' = (leaving /\ up')
    BY <1>1 DEF Quiet
  <2>2. CASE ~Died
    <3>1. sess'["map"].live = sess["map"].live
          /\ (Host \in sess'["map"].members => Host \in sess["map"].members)
      BY <1>1, <2>2, Zenon DEF Quiet, SameCore
    <3> QED
      BY <1>s, <2>1, <3>1, Zenon DEF Standing, SameDir
  <2> QED
    BY <1>d, <2>1, <2>2, Zenon DEF Died
<1>2. CASE LeaveFinish
  BY <1>2, <1>s, FinishIs, NothingIs, Zenon DEF Standing
<1>3. CASE Load
  BY <1>3, <1>s, LoadIs, NothingIs DEF Standing, Shape
<1>4. CASE UNCHANGED vars
  BY <1>4 DEF Standing, vars
<1>5. ASSUME NEW o \in Outcomes, LeaveHost(o) PROVE Standing'
  <2>1. CASE o = "ok"
    <3>1. /\ ~disk'.dir /\ ~disk'.meta
          /\ \E l, e : Became("map", l, e, sess["map"].members \ {Host})
      BY <1>5, <2>1, LeaveIs, Zenon
    <3> QED
      BY <1>s, <3>1, Zenon DEF Standing, Became
  <2>2. CASE o # "ok"
    <3>1. /\ ~leaving' /\ (Held \/ Died)
          /\ scenario.partial \/ ~disk'.dir
      BY <1>5, <2>2, LeaveIs, Zenon
    <3> QED
      BY <1>s, <1>d, <3>1 DEF Standing
  <2> QED
    BY <2>1, <2>2
<1>6. ASSUME NEW o \in Outcomes, NEW t \in Tickets, HostCreate(t, o) PROVE Standing'
  <2>1. /\ up /\ ~sess["map"].live /\ leaving' = (leaving /\ up') /\ disk'.dir
        /\ o # "err" => disk'.meta
        /\ Held \/ Died \/ (o # "err" /\ \E l, e, m : Became("map", l, e, m))
    BY <1>6, CreateIs
  <2>2. ~leaving'
    BY <2>1, Zenon DEF Standing
  <2> QED
    BY <1>s, <1>d, <2>1, <2>2 DEF Standing, Held
<1>7. ASSUME NEW h \in AllHandles, disk.dir, disk'.meta = disk.meta, leaving' = (leaving /\ up'),
             sess[h].live, Held \/ Died \/ \E l, e, m : Became(h, l, e, m)
      PROVE  Standing'
  <2>1. ~leaving'
    BY <1>7, Zenon DEF Standing
  <2>2. ASSUME NEW l, NEW e, NEW m, Became(h, l, e, m) PROVE Standing'
    <3>1. sess'["map"].live => sess["map"].live
      BY <1>7, <2>2 DEF Became
    <3> QED
      BY <1>7, <1>s, <2>1, <3>1, Zenon DEF Standing
  <2> QED
    BY <1>7, <1>d, <1>s, <2>1, <2>2 DEF Standing, Held
<1>8. ASSUME NEW o \in Outcomes, NEW h \in Handles, NEW t \in Tickets,
             HostResume(h, t, o) \/ IssueTicket(h, t, o) \/ RevokeTicket(h, t, o)
      PROVE  Standing'
  <2>0. h \in AllHandles
    BY HandlesAre
  <2>1. CASE HostResume(h, t, o)
    BY <1>7, <2>0, <2>1, ResumeIs, Zenon
  <2>2. ASSUME NEW ledger, Rewrote(h, ledger, o), leaving' = (leaving /\ up') PROVE Standing'
    <3>1. /\ disk.dir /\ disk'.meta = disk.meta /\ sess[h].live
          /\ Held \/ Died \/ \E l, e, m : Became(h, l, e, m)
      BY <2>2 DEF Rewrote, SameDir
    <3> QED
      BY <1>7, <2>0, <2>2, <3>1, Zenon
  <2>3. CASE IssueTicket(h, t, o)
    BY <2>2, <2>3, IssueIs, Zenon
  <2>4. CASE RevokeTicket(h, t, o)
    <3>1. CASE UNCHANGED <<sess, disk, up, crashes>>
      BY <1>s, <2>4, <3>1, RevokeIs, Zenon DEF Standing
    <3> QED
      BY <2>2, <2>4, <3>1, RevokeIs
  <2> QED
    BY <1>8, <2>1, <2>3, <2>4
<1> QED
  BY <1>1, <1>2, <1>3, <1>4, <1>5, <1>6, <1>8, StepIs, Zenon

(* What was handed out and not closed stays listed.                        *)
LEMMA IssuanceStep ==
  ASSUME Shape, Standing, Issuance, [Next]_vars
  PROVE  Issuance'
<1> USE TwoHandles
<1>s. scenario' = scenario
  BY StepIs
<1>0. SUFFICES ASSUME ~scenario.stale, ~scenario.partial PROVE StayListed'
  BY <1>s DEF Issuance
<1> DEFINE Kept(ledger) == \A t \in handed \ dead : ledger[t] # "absent"
           Open == disk.meta /\ ~leaving /\ ~(up /\ ~sess["map"].live)
<1>o. /\ Kept(disk.tickets) /\ (sess["map"].live => Kept(sess["map"].tickets))
      /\ ~Open => handed \subseteq dead
      /\ handed \subseteq Tickets
  <2>1. StayListed /\ handed \subseteq Tickets
    BY <1>0 DEF Issuance, Shape
  <2>3. ~Open => handed \subseteq dead
    BY <2>1 DEF StayListed
  <2>4. Kept(disk.tickets)
    BY <2>1 DEF StayListed
  <2>5. sess["map"].live => Kept(sess["map"].tickets)
    BY <2>1 DEF StayListed
  <2> HIDE DEF Open, Kept
  <2> QED
    BY <2>1, <2>3, <2>4, <2>5, Zenon
<1>m. \A h \in Handles : h = "map"
  BY <1>0, Zenon DEF Handles
<1>d. ASSUME Died, handed' = handed, dead' = dead, Kept(disk'.tickets), ~leaving',
             ~disk'.meta => handed \subseteq dead
      PROVE  StayListed'
  BY <1>d, GoneIs DEF StayListed, Died
<1>1. CASE Quiet
  <2>1. /\ UNCHANGED <<handed, dead>> /\ disk'.meta = disk.meta /\ leaving' = (leaving /\ up') /\ up
        /\ \/ disk'.tickets = disk.tickets
           \/ disk.meta /\ disk'.tickets = sess["map"].tickets
    BY <1>1, <1>m, Zenon DEF Quiet, SameTickets, SameDir
  <2>2. Kept(disk'.tickets)
    BY <1>o, <2>1
  <2>3. CASE ~Died
    <3>1. sess'["map"].live = sess["map"].live /\ sess'["map"].tickets = sess["map"].tickets /\ up'
      BY <1>1, <2>3 DEF Quiet, SameCore
    <3> QED
      BY <1>o, <2>1, <2>2, <3>1, Zenon DEF StayListed
  <2>4. CASE Died
    BY <1>d, <1>o, <2>1, <2>2, <2>4, Zenon DEF Died
  <2> QED
    BY <2>3, <2>4
<1>2. CASE LeaveFinish
  <2>1. /\ UNCHANGED <<handed, dead, disk>> /\ leaving /\ sess'["map"] = NoSession
    BY <1>2, FinishIs, Zenon DEF SameTickets
  <2> QED
    BY <1>o, <2>1 DEF StayListed
<1>3. CASE Load
  <2>1. /\ UNCHANGED <<handed, dead, disk, leaving>>
        /\ \/ disk.meta /\ sess'["map"].live /\ sess'["map"].tickets = disk.tickets
           \/ ~disk.meta
    BY <1>3, LoadIs, Zenon DEF SameTickets
  <2> QED
    BY <1>o, <2>1 DEF StayListed
<1>4. CASE UNCHANGED vars
  BY <1>4, <1>o DEF vars, StayListed
<1>5. ASSUME NEW o \in Outcomes, LeaveHost(o) PROVE StayListed'
  <2>1. dead' = handed /\ handed' = handed
    BY <1>0, <1>5, LeaveIs
  <2> QED
    BY <2>1, Zenon DEF StayListed
<1>6. ASSUME NEW o \in Outcomes, NEW t \in Tickets, HostCreate(t, o) PROVE StayListed'
  <2>1. /\ up /\ ~sess["map"].live /\ handed \subseteq dead /\ dead' = dead /\ ~leaving'
    BY <1>6, <1>o, CreateIs, Zenon DEF Standing
  <2>2. CASE o = "ok"
    <3>1. /\ handed' = handed \cup {t} /\ disk'.meta /\ disk'.tickets = Issued(NoTickets, t)
          /\ \E e, m : Became("map", Issued(NoTickets, t), e, m)
      BY <1>6, <2>2, CreateIs, Zenon
    <3>2. Issued(NoTickets, t)[t] = "Active"
      BY NothingIs, IssuedIs
    <3>3. sess'["map"].live /\ sess'["map"].tickets = Issued(NoTickets, t)
      BY <3>1 DEF Became
    <3> QED
      BY <2>1, <3>1, <3>2, <3>3 DEF StayListed
  <2>3. CASE o # "ok"
    <3>1. handed' = handed
      BY <1>6, <2>3, CreateIs, Zenon
    <3> QED
      BY <2>1, <3>1 DEF StayListed
  <2> QED
    BY <2>2, <2>3
<1>7. ASSUME NEW o \in Outcomes, NEW ledger, sess["map"].live, disk.dir, up,
             disk'.tickets = ledger, disk'.meta = disk.meta, dead' = dead,
             leaving' = (leaving /\ up'), Kept(ledger),
             \/ /\ handed' = handed
                /\ Held \/ Died \/ \E e, m : Became("map", ledger, e, m)
             \/ /\ \E t \in Tickets : handed' = handed \cup {t} /\ ledger[t] # "absent"
                /\ \E e, m : Became("map", ledger, e, m)
      PROVE  StayListed'
  <2>1. disk.meta /\ ~leaving
    BY <1>0, <1>7 DEF Standing
  <2>2. CASE Died /\ handed' = handed
    BY <1>7, <1>d, <2>1, <2>2, Zenon
  <2>3. CASE Held /\ handed' = handed
    BY <1>7, <1>o, <2>1, <2>3, Zenon DEF Held, StayListed
  <2>4. ASSUME NEW e, NEW m, Became("map", ledger, e, m) PROVE StayListed'
    <3>1. sess'["map"].live /\ sess'["map"].tickets = ledger
      BY <2>4, Zenon DEF Became
    <3>2. \A t \in handed' \ dead' : ledger[t] # "absent"
      BY <1>7, Zenon
    <3> QED
      BY <1>7, <2>1, <3>1, <3>2, Zenon DEF StayListed
  <2> QED
    BY <1>7, <2>2, <2>3, <2>4, Zenon
<1>8. ASSUME NEW o \in Outcomes, NEW t \in Tickets, HostResume("map", t, o) \/ IssueTicket("map", t, o)
      PROVE  StayListed'
  <2> DEFINE ledger == Issued(sess["map"].tickets, t)
  <2>0. "map" \in Handles
    BY Zenon DEF Handles
  <2>1. /\ sess["map"].live /\ disk.dir /\ up /\ disk'.tickets = ledger /\ disk'.meta = disk.meta
        /\ dead' = dead /\ leaving' = (leaving /\ up')
        /\ handed' = IF o = "ok" THEN handed \cup {t} ELSE handed
        /\ \/ o = "ok" /\ \E e, m : Became("map", ledger, e, m)
           \/ o # "ok" /\ (Held \/ Died)
    <3>1. CASE HostResume("map", t, o)
      BY <2>0, <3>1, ResumeIs, Zenon
    <3>2. CASE IssueTicket("map", t, o)
      BY <2>0, <3>2, IssueIs, Zenon DEF Rewrote, SameDir
    <3> QED
      BY <1>8, <3>1, <3>2
  <2>2. /\ ledger[t] = "Active"
        /\ \A u \in Tickets : u # t => ledger[u] = sess["map"].tickets[u]
    BY IssuedIs DEF Shape, IsSession
  <2> HIDE DEF ledger
  <2>3. Kept(ledger)
    BY <1>o, <2>1, <2>2
  <2> QED
    BY <1>7, <2>1, <2>2, <2>3
<1>9. ASSUME NEW o \in Outcomes, NEW t \in Tickets, RevokeTicket("map", t, o)
      PROVE  StayListed'
  <2> DEFINE ledger == Withdrawn(sess["map"].tickets, t)
  <2>0. "map" \in Handles
    BY DEF Handles
  <2>1. /\ dead' = dead /\ leaving' = (leaving /\ up') /\ handed' = handed /\ up
        /\ UNCHANGED <<sess, disk, up, crashes>> \/ Rewrote("map", ledger, o)
        /\ ledger[t] = "Revoked" /\ \A u \in Tickets : u # t => ledger[u] = sess["map"].tickets[u]
    BY <1>9, <2>0, RevokeIs
  <2> HIDE DEF ledger
  <2>2. CASE UNCHANGED <<sess, disk, up, crashes>>
    BY <1>o, <2>1, <2>2, Zenon DEF StayListed
  <2>3. CASE Rewrote("map", ledger, o)
    <3>1. /\ sess["map"].live /\ disk.dir /\ disk'.tickets = ledger /\ disk'.meta = disk.meta
          /\ Held \/ Died \/ \E e, m : Became("map", ledger, e, m)
      BY <2>3, Zenon DEF Rewrote, SameDir
    <3>2. Kept(ledger)
      BY <1>o, <2>1, <3>1, Zenon
    <3> QED
      BY <1>7, <2>1, <3>1, <3>2, Zenon DEF StayListed
  <2> QED
    BY <2>1, <2>2, <2>3, Zenon
<1> QED
  BY <1>1, <1>2, <1>3, <1>4, <1>5, <1>6, <1>8, <1>9, <1>m, StepIs, Zenon

(* A closed incarnation's tickets stay dead.                               *)
LEMMA BurialStep ==
  ASSUME Shape, Standing, Listed, Burial, [Next]_vars
  PROVE  Burial'
<1> USE TwoHandles
<1> DEFINE Dead(ledger) == \A t \in dead : ledger[t] # "Active"
<1>s. scenario' = scenario
  BY StepIs, Zenon
<1>0. SUFFICES ASSUME ~scenario.stale PROVE Burial'
  BY <1>s DEF Burial
<1>t. dead \subseteq Tickets /\ dead \subseteq minted /\ dead \subseteq handed
  BY DEF Shape
<1>o. Dead(disk.tickets) /\ (~leaving => Dead(sess["map"].tickets))
  BY <1>0 DEF Burial
<1>m. \A h \in Handles : h = "map"
  BY <1>0, Zenon DEF Handles
<1>d. ASSUME Died, dead' = dead, Dead(disk'.tickets) PROVE Burial'
  BY <1>d, <1>t, GoneIs, Zenon DEF Burial
<1>1. CASE Quiet
  <2>1. /\ dead' = dead /\ leaving' = (leaving /\ up')
        /\ \/ disk'.tickets = disk.tickets
           \/ disk.meta /\ disk'.tickets = sess["map"].tickets
    BY <1>1, <1>m, Zenon DEF Quiet, SameTickets
  <2>2. Dead(disk'.tickets)
    BY <1>o, <2>1 DEF Standing
  <2>3. CASE ~Died
    <3>1. sess'["map"].tickets = sess["map"].tickets /\ up'
      BY <1>1, <2>3, Zenon DEF Quiet, SameCore
    <3> QED
      BY <1>o, <2>1, <2>2, <3>1, Zenon DEF Burial
  <2> QED
    BY <1>d, <2>1, <2>2, <2>3, Zenon
<1>2. CASE LeaveFinish
  <2>1. /\ UNCHANGED <<dead, disk>> /\ sess'["map"].tickets = NoTickets
    BY <1>2, FinishIs, NothingIs, Zenon DEF SameTickets
  <2> QED
    BY <1>o, <1>t, <2>1, NothingIs DEF Burial
<1>3. CASE Load
  <2>1. UNCHANGED <<dead, disk>> /\ sess'["map"].tickets \in {disk.tickets, NoTickets}
    BY <1>3, LoadIs, NothingIs, Zenon DEF SameTickets
  <2> QED
    BY <1>o, <1>t, <2>1, NothingIs, Zenon DEF Burial
<1>4. CASE UNCHANGED vars
  BY <1>4, <1>o, Zenon DEF vars, Burial
<1>5. ASSUME NEW o \in Outcomes, LeaveHost(o) PROVE Burial'
  <2>0. ~leaving
    BY <1>5, LeaveIs, Zenon DEF Standing
  <2>1. /\ handed \subseteq Tickets /\ leaving' = (o = "ok") /\ scenario' = scenario
        /\ \/ disk'.tickets = NoTickets /\ dead' = handed
           \/ dead' = dead /\ disk'.tickets \in {disk.tickets, NoTickets}
    BY <1>5, <1>s, LeaveIs, Zenon DEF Shape
  <2>2. \A t \in dead' : disk'.tickets[t] # "Active"
    BY <1>o, <1>t, <2>1, NothingIs
  <2>3. o \in {"late", "err"} => dead' = dead
    BY <1>5 DEF LeaveHost
  <2>4. CASE o = "ok"
    BY <2>1, <2>2, <2>4, Zenon DEF Burial
  <2>5. CASE Died
    BY <1>t, <2>1, <2>2, <2>5, GoneIs, Zenon DEF Burial
  <2>6. CASE Held /\ o \in {"late", "err"}
    BY <1>o, <2>0, <2>2, <2>3, <2>6, Zenon DEF Burial, Held
  <2> QED
    BY <1>5, <2>4, <2>5, <2>6, LeaveIs, Zenon
<1>6. ASSUME NEW o \in Outcomes, NEW t \in Tickets, HostCreate(t, o) PROVE Burial'
  <2>1. /\ up /\ ~sess["map"].live /\ dead' = dead /\ t \notin dead
        /\ disk'.tickets \in {disk.tickets, Issued(NoTickets, t)}
        /\ Held \/ Died \/ \E e, m : Became("map", Issued(NoTickets, t), e, m)
    BY <1>6, <1>t, CreateIs, Zenon DEF Drawn
  <2>2. Dead(Issued(NoTickets, t))
    BY <1>t, <2>1, NothingIs, IssuedIs
  <2>3. ~leaving
    BY <2>1, Zenon DEF Standing
  <2>4. CASE Held
    BY <1>o, <2>1, <2>2, <2>3, <2>4, Zenon DEF Held, Burial
  <2>5. ASSUME NEW e, NEW m, Became("map", Issued(NoTickets, t), e, m) PROVE Burial'
    BY <1>o, <2>1, <2>2, <2>5 DEF Became, Burial
  <2> QED
    BY <1>d, <1>o, <2>1, <2>2, <2>4, <2>5
<1>7. ASSUME NEW ledger, disk.dir, disk'.tickets = ledger, dead' = dead, Dead(ledger),
             Held \/ Died \/ \E e, m : Became("map", ledger, e, m)
      PROVE  Burial'
  <2>1. ~leaving
    BY <1>7, Zenon DEF Standing
  <2>2. CASE Held
    BY <1>7, <1>o, <2>1, <2>2, Zenon DEF Held, Burial
  <2>3. ASSUME NEW e, NEW m, Became("map", ledger, e, m) PROVE Burial'
    BY <1>7, <2>3, Zenon DEF Became, Burial
  <2> QED
    BY <1>7, <1>d, <2>2, <2>3, Zenon
<1>8. ASSUME NEW o \in Outcomes, NEW t \in Tickets, HostResume("map", t, o) \/ IssueTicket("map", t, o)
      PROVE  Burial'
  <2> DEFINE ledger == Issued(sess["map"].tickets, t)
  <2>0. "map" \in Handles
    BY Zenon DEF Handles
  <2>1. /\ disk.dir /\ disk'.tickets = ledger /\ dead' = dead /\ t \notin minted
        /\ Held \/ Died \/ \E e, m : Became("map", ledger, e, m)
    <3>1. CASE HostResume("map", t, o)
      BY <2>0, <3>1, ResumeIs, Zenon DEF Drawn
    <3>2. CASE IssueTicket("map", t, o)
      BY <2>0, <3>2, IssueIs, Zenon DEF Rewrote, Drawn
    <3> QED
      BY <1>8, <3>1, <3>2
  <2>2. \A u \in Tickets : u # t => ledger[u] = sess["map"].tickets[u]
    BY IssuedIs DEF Shape, IsSession
  <2> HIDE DEF ledger
  <2>3. Dead(ledger)
    BY <1>o, <1>t, <2>1, <2>2, Zenon DEF Standing
  <2> QED
    BY <1>7, <2>1, <2>3
<1>9. ASSUME NEW o \in Outcomes, NEW t \in Tickets, RevokeTicket("map", t, o)
      PROVE  Burial'
  <2> DEFINE ledger == Withdrawn(sess["map"].tickets, t)
  <2>0. "map" \in Handles
    BY DEF Handles
  <2>1. /\ dead' = dead /\ leaving' = (leaving /\ up') /\ up
        /\ UNCHANGED <<sess, disk, up, crashes>> \/ Rewrote("map", ledger, o)
        /\ ledger[t] = "Revoked" /\ \A u \in Tickets : u # t => ledger[u] = sess["map"].tickets[u]
    BY <1>9, <2>0, RevokeIs
  <2> HIDE DEF ledger
  <2>2. CASE UNCHANGED <<sess, disk, up, crashes>>
    BY <1>o, <2>1, <2>2, Zenon DEF Burial
  <2>3. CASE Rewrote("map", ledger, o)
    <3>1. disk.dir /\ disk'.tickets = ledger /\ (Held \/ Died \/ \E e, m : Became("map", ledger, e, m))
      BY <2>3, Zenon DEF Rewrote
    <3>2. Dead(ledger)
      BY <1>o, <1>t, <2>1, <3>1, Zenon DEF Standing
    <3> QED
      BY <1>7, <2>1, <3>1, <3>2, Zenon
  <2> QED
    BY <2>1, <2>2, <2>3, Zenon
<1> QED
  BY <1>1, <1>2, <1>3, <1>4, <1>5, <1>6, <1>8, <1>9, <1>m, StepIs, Zenon

(* The epochs stay below the floor and above the closes.                   *)
LEMMA EpochsStep ==
  ASSUME Shape, Standing, Epochs, [Next]_vars
  PROVE  Epochs'
<1> USE TwoHandles
<1>s. scenario' = scenario
  BY StepIs
<1>0. SUFFICES ASSUME ~scenario.partial PROVE Fenced'
  BY <1>s DEF Epochs
<1>f. Fenced
  BY <1>0 DEF Epochs
<1>t. /\ floor \in Nat /\ closed \subseteq Nat /\ crashes \in Nat /\ IsDir(disk)
      /\ \A h \in AllHandles : IsSession(sess[h]) /\ sess[h].epoch \in Nat
      /\ disk.epoch \in Nat
  BY Zenon DEF Shape, IsSession, IsDir
<1>d. ASSUME Died, closed' = closed, floor' \in Nat, floor' >= floor,
             disk'.meta => disk.meta /\ disk'.epoch = disk.epoch
      PROVE  Fenced'
  <2>1. ~sess'["map"].live
    BY <1>d, GoneIs, Zenon
  <2> QED
    BY <1>d, <1>f, <1>s, <1>t, <2>1 DEF Fenced
<1>k. ASSUME sess'["map"].live => sess["map"].live /\ sess'["map"].epoch = sess["map"].epoch,
             crashes' = crashes, sess'["map"].live => (leaving' <=> leaving),
             closed' = closed, floor' \in Nat, floor' >= floor,
             disk'.meta => disk.meta /\ disk'.epoch = disk.epoch
      PROVE  Fenced'
  BY <1>f, <1>k, <1>s, <1>t DEF Fenced
<1>1. CASE Quiet
  <2>1. /\ UNCHANGED <<closed, floor>> /\ leaving' = (leaving /\ up')
        /\ disk'.meta = disk.meta /\ disk'.epoch = disk.epoch
    BY <1>1, Zenon DEF Quiet, SameTickets, SameDir
  <2>2. CASE ~Died
    <3>1. /\ sess'["map"].live = sess["map"].live /\ sess'["map"].epoch = sess["map"].epoch
          /\ up' /\ crashes' = crashes
      BY <1>1, <2>2 DEF Quiet, SameCore
    <3>2. leaving' <=> leaving
      BY <2>1, <3>1, Zenon
    <3> QED
      BY <1>k, <1>t, <2>1, <3>1, <3>2
  <2> QED
    BY <1>d, <1>t, <2>1, <2>2
<1>2. CASE LeaveFinish
  <2>1. ~sess'["map"].live /\ UNCHANGED <<closed, floor, disk, crashes>> /\ leaving /\ ~leaving'
    BY <1>2, FinishIs, NothingIs, Zenon DEF SameTickets
  <2> QED
    BY <1>k, <1>t, <2>1
<1>3. CASE Load
  <2>1. /\ UNCHANGED <<closed, floor, disk, leaving, crashes>> /\ crashes # 0
        /\ sess'["map"].live => disk.meta /\ sess'["map"].epoch = disk.epoch
    BY <1>3, LoadIs, NothingIs, Zenon DEF SameTickets, Shape
  <2> QED
    BY <1>f, <1>s, <2>1, Zenon DEF Fenced
<1>4. CASE UNCHANGED vars
  BY <1>4, <1>f DEF Fenced, vars
<1>5. ASSUME NEW o \in Outcomes, LeaveHost(o) PROVE Fenced'
  <2>1. /\ ~leaving /\ sess["map"].live /\ ~disk'.meta /\ floor' = floor /\ o \notin {"late", "err"}
    BY <1>0, <1>5, LeaveIs, Zenon DEF Standing, LeaveHost
  <2>2. CASE o = "ok"
    <3>1. leaving' /\ closed' = closed \cup {sess["map"].epoch}
      BY <1>5, <2>2, LeaveIs, Zenon
    <3> QED
      BY <1>f, <1>s, <2>1, <3>1 DEF Fenced
  <2>3. CASE o # "ok"
    <3>1. Died /\ closed' = closed
      BY <1>5, <2>1, <2>3, LeaveIs, Zenon
    <3> QED
      BY <1>d, <1>t, <2>1, <3>1
  <2> QED
    BY <2>2, <2>3
<1>6. ASSUME NEW o \in Outcomes, NEW t \in Tickets, HostCreate(t, o) PROVE Fenced'
  <2>1. ~sess["map"].live /\ ~leaving' /\ closed' = closed
    BY <1>6, CreateIs, Zenon DEF Standing
  <2>2. \/ disk'.meta = disk.meta /\ disk'.epoch = disk.epoch /\ floor' \in {floor, floor + 1}
        \/ disk'.meta /\ disk'.epoch = floor /\ floor' = floor + 1
    <3>1. [disk EXCEPT !.dir = TRUE].meta = disk.meta /\ [disk EXCEPT !.dir = TRUE].epoch = disk.epoch
      BY <1>t DEF IsDir
    <3> QED
      BY <1>6, <3>1, CreateIs, Zenon DEF SameDir
  <2>3. \/ Held \/ Died
        \/ /\ disk'.meta /\ disk'.epoch = floor /\ floor' = floor + 1
           /\ \E l, m : Became("map", l, floor, m)
    BY <1>6, CreateIs, Zenon
  <2>4. /\ \A e \in closed' : e < floor'
        /\ disk'.meta => disk'.epoch < floor'
        /\ ~scenario.stale /\ disk'.meta => \A e \in closed' : e < disk'.epoch
    BY <1>f, <1>t, <2>1, <2>2 DEF Fenced
  <2>5. CASE Held
    BY <1>s, <2>1, <2>4, <2>5, Zenon DEF Fenced, Held
  <2>6. CASE Died
    BY <1>s, <2>4, <2>6, GoneIs, Zenon DEF Fenced
  <2>7. CASE floor' = floor + 1 /\ \E l, m : Became("map", l, floor, m)
    <3>1. sess'["map"].epoch = floor
      BY <2>7 DEF Became
    <3> QED
      BY <1>f, <1>s, <1>t, <2>1, <2>4, <2>7, <3>1 DEF Fenced
  <2> QED
    BY <2>3, <2>5, <2>6, <2>7
<1>7. ASSUME NEW o \in Outcomes, NEW h \in Handles, NEW t \in Tickets, HostResume(h, t, o)
      PROVE  Fenced'
  <2>0. h \in AllHandles /\ sess[h].epoch \in Nat /\ (~scenario.stale => h = "map")
    BY <1>t, HandlesAre DEF Handles
  <2>1. /\ sess[h].live /\ ~leaving /\ ~leaving' /\ closed' = closed /\ disk'.meta = disk.meta
        /\ h = "map" => disk.meta
    BY <1>0, <1>7, <2>0, ResumeIs, Zenon DEF Standing
  <2>2. /\ floor' \in Nat /\ floor' >= floor
        /\ \/ disk'.epoch = disk.epoch /\ (o = "err" \/ ~disk.meta)
           \/ disk'.epoch = sess[h].epoch + 1 /\ floor' >= sess[h].epoch + 2
    <3>1. \/ disk'.epoch = disk.epoch /\ floor' \in Nat /\ floor' >= floor /\ o = "err" /\ disk.meta
          \/ /\ disk.meta /\ disk'.epoch = sess[h].epoch + 1 /\ o # "err"
             /\ floor' \in Nat /\ floor' >= floor /\ floor' >= sess[h].epoch + 2
          \/ ~disk.meta /\ disk'.epoch = disk.epoch /\ floor' = floor /\ o # "err"
      BY <1>7, ResumeIs, Zenon
    <3> QED
      BY <1>t, <3>1
  <2>3. h = "map" => /\ sess[h].epoch < floor
                     /\ ~scenario.stale \/ crashes = 0 => \A e \in closed : e < sess[h].epoch
    BY <1>f, <2>1, Zenon DEF Fenced
  <2>4. /\ \A e \in closed' : e < floor'
        /\ disk'.meta => disk'.epoch < floor'
        /\ ~scenario.stale /\ disk'.meta => \A e \in closed' : e < disk'.epoch
    BY <1>f, <1>t, <2>0, <2>1, <2>2, <2>3 DEF Fenced
  <2>5. CASE Held
    BY <1>f, <1>s, <1>t, <2>1, <2>2, <2>4, <2>5 DEF Fenced, Held
  <2>6. CASE Died
    BY <1>s, <2>4, <2>6, GoneIs, Zenon DEF Fenced
  <2>7. CASE o = "ok" /\ \E l, m : Became(h, l, sess[h].epoch + 1, m)
    <3>1. CASE h = "map"
      <4>1. sess'["map"].epoch = sess["map"].epoch + 1 /\ crashes' = crashes
        BY <2>7, <3>1, Zenon DEF Became
      <4>2. floor' >= sess["map"].epoch + 2
        BY <2>1, <2>2, <2>7, <3>1, Zenon
      <4> QED
        BY <1>s, <1>t, <2>0, <2>1, <2>2, <2>3, <2>4, <3>1, <4>1, <4>2 DEF Fenced
    <3>2. CASE h # "map"
      <4>1. sess'["map"] = sess["map"] /\ crashes' = crashes
        BY <2>7, <3>2, Zenon DEF Became
      <4> QED
        BY <1>f, <1>s, <1>t, <2>1, <2>2, <2>4, <4>1 DEF Fenced
    <3> QED
      BY <3>1, <3>2, Zenon
  <2> QED
    BY <1>7, <2>5, <2>6, <2>7, ResumeIs, Zenon
<1>8. ASSUME NEW o \in Outcomes, NEW h \in Handles, NEW ledger, Rewrote(h, ledger, o),
             UNCHANGED <<floor, closed>>, leaving' = (leaving /\ up')
      PROVE  Fenced'
  <2>1. h \in AllHandles /\ sess[h].live /\ disk'.meta = disk.meta /\ disk'.epoch = disk.epoch
    BY <1>8, HandlesAre, Zenon DEF Rewrote, SameDir
  <2>2. CASE Died
    BY <1>8, <1>d, <1>t, <2>1, <2>2
  <2>3. CASE Held
    <3>1. up' /\ UNCHANGED <<sess, crashes>>
      BY <2>3 DEF Held
    <3>2. leaving' <=> leaving
      BY <1>8, <3>1, Zenon
    <3> QED
      BY <1>8, <1>k, <1>t, <2>1, <3>1, <3>2
  <2>4. CASE \E m : Became(h, ledger, sess[h].epoch, m)
    <3>1. /\ sess'["map"].live => sess["map"].live /\ sess'["map"].epoch = sess["map"].epoch
          /\ up' /\ crashes' = crashes
      BY <2>1, <2>4 DEF Became
    <3>2. leaving' <=> leaving
      BY <1>8, <3>1, Zenon
    <3> QED
      BY <1>8, <1>k, <1>t, <2>1, <3>1, <3>2
  <2> QED
    BY <1>8, <2>2, <2>3, <2>4, Zenon DEF Rewrote
<1>9. ASSUME NEW o \in Outcomes, NEW h \in Handles, NEW t \in Tickets,
             IssueTicket(h, t, o) \/ RevokeTicket(h, t, o)
      PROVE  Fenced'
  <2>1. CASE IssueTicket(h, t, o)
    BY <1>8, <2>1, IssueIs, Zenon
  <2>2. CASE RevokeTicket(h, t, o)
    <3>1. CASE UNCHANGED <<sess, disk, up, crashes>>
      <4>1. up /\ leaving' = (leaving /\ up') /\ UNCHANGED <<floor, closed>>
        BY <2>2, RevokeIs, Zenon
      <4>2. leaving' <=> leaving
        BY <3>1, <4>1, Zenon
      <4>3. floor' \in Nat /\ floor' >= floor
        BY <1>t, <4>1
      <4> QED
        BY <1>k, <3>1, <4>1, <4>2, <4>3, Zenon
    <3> QED
      BY <1>8, <2>2, <3>1, RevokeIs
  <2> QED
    BY <1>9, <2>1, <2>2, Zenon
<1> QED
  BY <1>1, <1>2, <1>3, <1>4, <1>5, <1>6, <1>7, <1>9, StepIs, Zenon
-----------------------------------------------------------------------------
(* The theorems                                                            *)

\* What every reachable state satisfies.
Inv == Shape /\ Standing /\ Listed /\ Revocations /\ Issuance /\ Burial /\ Epochs

(* The invariant holds before the id was ever hosted.                      *)
LEMMA InitInv ==
  ASSUME Init PROVE Inv
<1> USE TwoHandles
<1>1. /\ \A h \in AllHandles : sess[h] = NoSession
      /\ sess = [h \in AllHandles |-> sess[h]]
      /\ disk = NoDir /\ floor = 0 /\ up = TRUE /\ leaving = FALSE
      /\ minted = {} /\ handed = {} /\ dead = {} /\ revoked = {} /\ closed = {}
      /\ crashes = 0 /\ scenario \in Scenarios
  BY DEF Init
<1>2. scenario \in Scenario
  BY <1>1, HostSessionAssumption
<1>3. up \in BOOLEAN /\ leaving \in BOOLEAN /\ up /\ ~leaving
  BY <1>1, Zenon
<1>4. Shape
  BY <1>1, <1>2, <1>3, NothingIs, Zenon DEF Shape
<1>5. Standing /\ Listed /\ Revocations
  BY <1>1, <1>3, NothingIs DEF Standing, Listed, Revocations
<1>6. Issuance /\ Burial
  BY <1>1, <1>3 DEF Issuance, StayListed, Burial
<1>7. Epochs
  BY <1>1, <1>3, NothingIs DEF Epochs, Fenced
<1> QED
  BY <1>4, <1>5, <1>6, <1>7 DEF Inv

(* Every reachable state satisfies the invariant.                          *)
LEMMA InvHolds == Spec => []Inv
<1>1. Init => Inv
  BY InitInv
<1>2. Inv /\ [Next]_vars => Inv'
  BY ShapeStep, StandingStep, ListedStep, RevocationsStep, IssuanceStep, BurialStep, EpochsStep DEF Inv
<1> QED
  BY <1>1, <1>2, PTL DEF Spec

(* The ledger that admission consults, for any peers, tickets and          *)
(* scenarios: an acknowledged revoke_ticket holds in memory and on disk    *)
(* whatever crashes, fails or outlives a leave; a ticket handed out stays  *)
(* listed; and a closed incarnation's tickets admit nobody.                *)
THEOREM LedgerExact == Spec => []LedgerIsExact
<1>1. Inv => AckedRevocationHolds
  BY TwoHandles, Zenon DEF Inv, Revocations, AckedRevocationHolds
<1>2. Inv => HandedTicketsStayIssued
  BY DEF Inv, Issuance, StayListed, HandedTicketsStayIssued
<1>3. Inv => ClosedIncarnationsTicketsAreDead
  BY DEF Inv, Burial, ClosedIncarnationsTicketsAreDead, TicketAdmissible
<1> QED
  BY <1>1, <1>2, <1>3, InvHolds, PTL DEF LedgerIsExact

(* The incarnation fence, for any number of closes, resumes and crashes:   *)
(* the epoch of a hosted session is below the floor that the next          *)
(* incarnation starts from and above every epoch a SessionClosed was       *)
(* signed at.                                                              *)
THEOREM EpochFence == Spec => []EpochAboveEveryClose
<1>1. Inv => EpochAboveEveryClose
  BY DEF Inv, Epochs, Fenced, EpochAboveEveryClose
<1> QED
  BY <1>1, InvHolds, PTL
=============================================================================
