---------------------------- MODULE SessionStore ----------------------------
(***************************************************************************)
(* What the SessionStore trait promises about one session id, in the terms *)
(* of its in-memory reference implementation (MemoryStore): a record, its  *)
(* attachments, and an epoch floor that outlives both.                     *)
(*                                                                         *)
(* A store that keeps the record in several files may be stopped inside a  *)
(* create; the record then lacks its sidecars, and nobody was told of them. *)
(***************************************************************************)
EXTENDS Naturals, Sequences

CONSTANTS Host, Peers, Kinds,  \* the members; attachment kinds
          Nothing              \* no record

VARIABLES rec, atts, floor

absVars == <<rec, atts, floor>>

Fresh(epoch, tickets) ==
  [members |-> {Host}, epoch |-> epoch, head |-> 0, log |-> <<>>,
   tickets |-> tickets, envelope |-> 0]

\* No attachment of any kind; a payload is a number above 0
NoAttachments == [k \in Kinds |-> 0]

Raised(n) == IF n > floor THEN n ELSE floor

AbsInit == rec = Nothing /\ atts = NoAttachments /\ floor = 0

\* raise_epoch_floor, on its own when a create or a bump stops after it
RaiseFloor(n) == floor' = Raised(n) /\ UNCHANGED <<rec, atts>>

\* create: the whole entry is new
Create(epoch, tickets) ==
  /\ floor' = Raised(epoch + 1)
  /\ rec' = Fresh(epoch, tickets) /\ atts' = NoAttachments

AppendFrame(frame) ==
  /\ rec # Nothing
  /\ rec' = [rec EXCEPT !.log = Append(@, frame),
                        !.head = IF frame.seq > @ THEN frame.seq ELSE @]
  /\ UNCHANGED <<atts, floor>>

BumpHostEpoch(epoch) ==
  /\ rec # Nothing /\ floor' = Raised(epoch + 1)
  /\ rec' = [rec EXCEPT !.epoch = epoch] /\ UNCHANGED atts

\* put_tickets; its callers only ever add to a ledger
PutTickets(t) ==
  /\ rec # Nothing /\ t >= rec.tickets
  /\ rec' = [rec EXCEPT !.tickets = t] /\ UNCHANGED <<atts, floor>>

PutWorkspaceTicket(e) ==
  rec # Nothing /\ rec' = [rec EXCEPT !.envelope = e] /\ UNCHANGED <<atts, floor>>

AddMember(p) ==
  /\ rec # Nothing /\ rec' = [rec EXCEPT !.members = @ \cup {p}]
  /\ UNCHANGED <<atts, floor>>

RemoveMember(p) ==
  /\ rec # Nothing /\ rec' = [rec EXCEPT !.members = @ \ {p}]
  /\ UNCHANGED <<atts, floor>>

\* delete: record and attachments go together, the floor stays
Delete == rec' = Nothing /\ atts' = NoAttachments /\ UNCHANGED floor

PutAttachment(k, v) ==
  rec # Nothing /\ atts' = [atts EXCEPT ![k] = v] /\ UNCHANGED <<rec, floor>>

DeleteAttachment(k) == atts' = [atts EXCEPT ![k] = 0] /\ UNCHANGED <<rec, floor>>

\* The epochs, ledgers, envelopes, frames and payloads are the callers' own, of any
\* value: the argument of a call is what the next state shows of it
AbsNext ==
  \/ RaiseFloor(floor')
  \/ /\ rec' # Nothing
     /\ \/ Create(rec'.epoch, rec'.tickets) \/ BumpHostEpoch(rec'.epoch)
        \/ PutTickets(rec'.tickets) \/ PutWorkspaceTicket(rec'.envelope)
        \/ rec'.log # <<>> /\ AppendFrame(rec'.log[Len(rec'.log)])
        \/ \E p \in Peers : AddMember(p) \/ RemoveMember(p)
  \/ Delete
  \/ \E k \in Kinds : DeleteAttachment(k) \/ PutAttachment(k, atts'[k])

AbsSpec == AbsInit /\ [][AbsNext]_absVars
=============================================================================
